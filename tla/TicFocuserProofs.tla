-------------------------- MODULE TicFocuserProofs --------------------------
(***************************************************************************)
(* What holds of the driver for every travel, word size, set of steps and  *)
(* backlashes, and for both implementations of the interface.              *)
(***************************************************************************)
EXTENDS TicFocuser, TLAPS

-----------------------------------------------------------------------------
(* The interface.                                                          *)

(* A command either takes place or changes nothing, and one that is        *)
(* reported to succeed takes place if the link is good or libtic is used.  *)
LEMMA CommandResult ==
  ASSUME NEW t, NEW after, NEW l, NEW r \in Command(t, after, l)
  PROVE  /\ r.tic \in after \cup {t}
         /\ r.told \in BOOLEAN
         /\ r.told /\ (Interface = "pololu" \/ l = "good") => r.tic \in after
<1>1. PICK o \in Outcomes(l) :
        r \in {[tic |-> u, told |-> o.told] :
                 u \in IF o.done THEN after ELSE {t}}
  BY DEF Command
<1>2. PICK u \in IF o.done THEN after ELSE {t} :
        r = [tic |-> u, told |-> o.told]
  BY <1>1
<1>3. /\ o.done \in BOOLEAN /\ o.told \in BOOLEAN
      /\ o.told /\ (Interface = "pololu" \/ l = "good") => o.done
  <2>1. \/ o = [done |-> TRUE, told |-> TRUE]
        \/ Interface = "pololu" /\ \E d \in BOOLEAN : o = [done |-> d, told |-> FALSE]
        \/ /\ l # "good" /\ Interface # "pololu"
           /\ o = [done |-> FALSE, told |-> TRUE]
    BY DEF Outcomes, PololuUsbInterface, TiclibInterface
  <2>2. CASE o = [done |-> TRUE, told |-> TRUE]  BY <2>2
  <2>3. ASSUME Interface = "pololu", NEW d \in BOOLEAN,
               o = [done |-> d, told |-> FALSE]
        PROVE  /\ o.done \in BOOLEAN /\ o.told = FALSE
    BY <2>3
  <2>4. CASE /\ l # "good" /\ Interface # "pololu"
             /\ o = [done |-> FALSE, told |-> TRUE]
    BY <2>4
  <2> QED BY <2>1, <2>2, <2>3, <2>4
<1> QED BY <1>2, <1>3

(* A controller is sound if what it pursues lies on the travel.            *)
Sound(t) == t \in Controller /\ (t.planning = "position" => t.target \in Travel)

(* Every command leaves a sound controller sound, and only those that set  *)
(* a position change the position.                                         *)
LEMMA CommandsAreSound ==
  ASSUME NEW t, Sound(t), NEW p \in Travel
  PROVE  /\ \A u \in Targeted(t, p) : Sound(u) /\ u.pos = t.pos
         /\ \A u \in Halted(t) : Sound(u) /\ u.pos = t.pos
         /\ \A u \in HaltedAt(t, p) : Sound(u) /\ u.pos = p
         /\ \A u \in Energized(t) : Sound(u) /\ u.pos = t.pos
         /\ \A u \in Deenergized(t) : Sound(u) /\ u.pos = t.pos
         /\ \A u \in SafeStartExited(t) : Sound(u) /\ u.pos = t.pos
<1> USE ConstantsAssumption DEF Sound, Controller, PlanningMode, Travel
<1>0. p \in Int /\ t.pos \in Int /\ t.target \in Int
  OBVIOUS
<1>1. \A u \in Targeted(t, p) : Sound(u) /\ u.pos = t.pos
  <2> SUFFICES ASSUME NEW u, u = [t EXCEPT !.target = p, !.planning = "position"]
               PROVE  Sound(u) /\ u.pos = t.pos
    BY DEF Targeted
  <2>1. /\ u.pos = t.pos /\ u.target = p /\ u.planning = "position"
        /\ u.energized = t.energized /\ u.safeStart = t.safeStart
        /\ u \in Controller
    BY <1>0
  <2> QED BY <2>1
<1>2. \A u \in Halted(t) : Sound(u) /\ u.pos = t.pos
  <2> SUFFICES ASSUME NEW g \in Int, NEW u,
                      u = [t EXCEPT !.planning = "off", !.target = g]
               PROVE  Sound(u) /\ u.pos = t.pos
    BY <1>0 DEF Halted
  <2>1. u.pos = t.pos /\ u.target = g /\ u.planning = "off" /\ u \in Controller
    BY <1>0
  <2> QED BY <2>1
<1>3. \A u \in HaltedAt(t, p) : Sound(u) /\ u.pos = p
  <2> SUFFICES ASSUME NEW g \in Int, NEW u,
                      u = [t EXCEPT !.planning = "off", !.pos = p, !.target = g]
               PROVE  Sound(u) /\ u.pos = p
    BY <1>0 DEF HaltedAt
  <2>1. /\ u.pos = p /\ u.target = g /\ u.planning = "off"
        /\ u.energized = t.energized /\ u.safeStart = t.safeStart
        /\ u \in Controller
    BY <1>0
  <2> QED BY <2>1
<1>4. \A u \in Energized(t) : Sound(u) /\ u.pos = t.pos    BY DEF Energized
<1>5. \A u \in Deenergized(t) : Sound(u) /\ u.pos = t.pos  BY DEF Deenergized
<1>6. \A u \in SafeStartExited(t) : Sound(u) /\ u.pos = t.pos
  BY DEF SafeStartExited
<1> QED BY <1>1, <1>2, <1>3, <1>4, <1>5, <1>6

(* The world outside leaves a sound controller sound and does not take it  *)
(* off the travel.                                                         *)
LEMMA WorldIsSound ==
  ASSUME NEW t, Sound(t)
  PROVE  /\ Moving(t) => Sound(Stepped(t))
                          /\ (t.pos \in Travel => Stepped(t).pos \in Travel)
         /\ \A u \in Faulted(t) : Sound(u) /\ u.pos = t.pos
         /\ \A q \in Int : Sound(PoweredOn(q)) /\ PoweredOn(q).pos = q
<1> USE ConstantsAssumption DEF Sound, Controller, PlanningMode, Travel
<1>1. ASSUME Moving(t)
      PROVE  Sound(Stepped(t)) /\ (t.pos \in Travel => Stepped(t).pos \in Travel)
  <2>1. t.target \in Travel /\ t.pos # t.target
    BY <1>1 DEF Moving
  <2>2. /\ Stepped(t).pos = IF t.pos < t.target THEN t.pos + 1 ELSE t.pos - 1
        /\ Stepped(t).target = t.target
        /\ Stepped(t) \in Controller
    BY DEF Stepped
  <2> QED BY <2>1, <2>2 DEF Stepped
<1>2. \A u \in Faulted(t) : Sound(u) /\ u.pos = t.pos
  <2> SUFFICES ASSUME NEW m \in {t.planning, "off"}, NEW u,
                      u = [t EXCEPT !.safeStart = TRUE, !.planning = m]
               PROVE  Sound(u) /\ u.pos = t.pos
    BY DEF Faulted
  <2>1. u.pos = t.pos /\ u.target = t.target /\ u.planning = m /\ u \in Controller
    OBVIOUS
  <2> QED BY <2>1
<1>3. \A q \in Int : Sound(PoweredOn(q)) /\ PoweredOn(q).pos = q
  BY DEF PoweredOn
<1> QED BY <1>1, <1>2, <1>3

-----------------------------------------------------------------------------
(* MoveAbsFocuser and energizeFocuser.                                     *)

(* The conversion to uint32_t yields a natural number.                     *)
LEMMA U32Type == ASSUME NEW x \in Int PROVE U32(x) \in Nat
  BY ConstantsAssumption DEF U32

(* MoveAbsFocuser sends the controller to a place on the travel, or leaves *)
(* it as it was.                                                           *)
LEMMA MoveAbsResult ==
  ASSUME TypeOK, Sound(tic), NEW ticks \in Int, NEW r \in MoveAbsFocuser(ticks)
  PROVE  /\ Sound(r.tic) /\ r.tic.pos = tic.pos
         /\ r.ret \in {"Ok", "Busy", "Alert"}
         /\ r.heading \in Direction
         /\ r.tic = tic \/ \E goal \in Travel : r.tic \in Targeted(tic, goal)
         /\ r.ret = "Busy" /\ Interface = "pololu"
              => \E goal \in Travel : r.tic \in Targeted(tic, goal)
         /\ r.ret = "Ok" => r.tic = tic
<1>1. Heading(ticks) \in Direction
  BY DEF TypeOK, Heading, Direction
<1>2. \/ r = [ret |-> "Ok", tic |-> tic, heading |-> Heading(ticks)]
      \/ r = [ret |-> "Alert", tic |-> tic, heading |-> Heading(ticks)]
      \/ /\ Compensated(ticks) \in Travel
         /\ \E c \in setTargetPosition(tic, Compensated(ticks), link) :
              r = [ret |-> IF c.told THEN "Busy" ELSE "Alert",
                   tic |-> c.tic, heading |-> Heading(ticks)]
  BY DEF MoveAbsFocuser
<1>3. ASSUME Compensated(ticks) \in Travel,
             NEW c \in setTargetPosition(tic, Compensated(ticks), link)
      PROVE  /\ Sound(c.tic) /\ c.tic.pos = tic.pos
             /\ c.tic \in Targeted(tic, Compensated(ticks)) \cup {tic}
             /\ c.told \in BOOLEAN
             /\ c.told /\ Interface = "pololu"
                  => c.tic \in Targeted(tic, Compensated(ticks))
  BY <1>3, CommandResult, CommandsAreSound DEF setTargetPosition
<1> QED BY <1>1, <1>2, <1>3

(* Energizing sends the motor nowhere.                                     *)
LEMMA EnergizeResult ==
  ASSUME Sound(tic), NEW r \in EnergizeFocuser
  PROVE  /\ Sound(r.tic) /\ r.tic.pos = tic.pos
         /\ r.tic.planning = tic.planning /\ r.tic.target = tic.target
         /\ r.told \in BOOLEAN
<1> DEFINE Same(t) == /\ Sound(t) /\ t.pos = tic.pos
                      /\ t.planning = tic.planning /\ t.target = tic.target
<1>0. 0 \in Travel
  BY ConstantsAssumption DEF Travel
<1>1. ASSUME NEW t, Same(t), NEW c \in energize(t, link)
      PROVE  Same(c.tic) /\ c.told \in BOOLEAN
  <2>1. \A u \in Energized(t) : Same(u)
    BY <1>0, <1>1, CommandsAreSound DEF Energized, Sound, Controller
  <2> QED BY <1>1, <2>1, CommandResult DEF energize
<1>2. ASSUME NEW t, Same(t), NEW c \in exitSafeStart(t, link)
      PROVE  Same(c.tic) /\ c.told \in BOOLEAN
  <2>1. \A u \in SafeStartExited(t) : Same(u)
    BY <1>0, <1>2, CommandsAreSound DEF SafeStartExited, Sound, Controller
  <2> QED BY <1>2, <2>1, CommandResult DEF exitSafeStart
<1>3. PICK c \in energize(tic, link) :
        r \in IF c.told THEN exitSafeStart(c.tic, link) ELSE {c}
  BY DEF EnergizeFocuser
<1>4. Same(c.tic) /\ c.told \in BOOLEAN
  BY <1>1, <1>3
<1>5. CASE c.told  BY <1>2, <1>3, <1>4, <1>5
<1>6. CASE ~c.told  BY <1>3, <1>4, <1>6
<1> QED BY <1>5, <1>6

-----------------------------------------------------------------------------
(* The inductive invariant.                                                *)

IInv == TypeOK /\ TargetOnTravel /\ PollingAlive

(* What one step makes of the controller: it stays sound and, if on the    *)
(* travel, on the travel.                                                  *)
DeviceSafe == Sound(tic') /\ (tic.pos \in Travel => tic'.pos \in Travel)

LEMMA DeviceStep == IInv /\ [Next]_vars => DeviceSafe
<1> SUFFICES ASSUME IInv, [Next]_vars PROVE DeviceSafe
  OBVIOUS
<1> DEFINE Kept == tic' = tic
<1>0. TypeOK /\ Sound(tic) /\ 0 \in Travel
  BY ConstantsAssumption DEF IInv, TypeOK, TargetOnTravel, Sound, Travel
<1>K. Kept => DeviceSafe
  BY <1>0 DEF DeviceSafe
<1>1. ASSUME NEW r, Sound(r.tic), r.tic.pos = tic.pos, tic' = r.tic
      PROVE  DeviceSafe
  BY <1>1 DEF DeviceSafe
<1>2. CASE Connect
  BY <1>0, <1>1, <1>2, EnergizeResult DEF Connect
<1>3. CASE Disconnect
  <2>1. CASE parkOn
    <3>1. PICK r \in MoveAbsFocuser(0) : tic' = r.tic
      BY <1>3, <2>1 DEF Disconnect
    <3> QED BY <1>0, <1>1, <3>1, MoveAbsResult
  <2>2. CASE ~parkOn  BY <1>3, <1>K, <2>2 DEF Disconnect
  <2> QED BY <2>1, <2>2
<1>4. ASSUME NEW ticks \in Travel, MoveAbs(ticks) PROVE DeviceSafe
  <2>1. PICK r \in MoveAbsFocuser(ticks) : tic' = r.tic
    BY <1>4 DEF MoveAbs
  <2>2. ticks \in Int
    BY ConstantsAssumption DEF Travel
  <2> QED BY <1>0, <1>1, <2>1, <2>2, MoveAbsResult
<1>5. ASSUME NEW dir \in Direction, NEW ticks \in Steps, MoveRel(dir, ticks)
      PROVE  DeviceSafe
  <2>1. CASE Refused(dir, ticks)  BY <1>5, <1>K, <2>1 DEF MoveRel
  <2>2. CASE ~Refused(dir, ticks)
    <3>1. PICK r \in MoveAbsFocuser(U32(RelTarget(dir, ticks))) : tic' = r.tic
      BY <1>5, <2>2 DEF MoveRel
    <3>2. RelTarget(dir, ticks) \in Int
      BY <1>0, ConstantsAssumption DEF TypeOK, RelTarget
    <3>3. U32(RelTarget(dir, ticks)) \in Int
      BY <3>2, U32Type
    <3> QED BY <1>0, <1>1, <3>1, <3>3, MoveAbsResult
  <2> QED BY <2>1, <2>2
<1>6. CASE AbortFocuser
  <2>1. PICK r \in haltAndHold(tic, link) : tic' = r.tic
    BY <1>6 DEF AbortFocuser
  <2> QED BY <1>0, <1>1, <2>1, CommandResult, CommandsAreSound DEF haltAndHold
<1>7. ASSUME NEW ticks \in Travel, SyncFocuser(ticks) PROVE DeviceSafe
  <2>1. PICK r \in haltAndSetPosition(tic, ticks, link) : tic' = r.tic
    BY <1>7 DEF SyncFocuser
  <2>2. r.tic \in HaltedAt(tic, ticks) \cup {tic}
    BY <2>1, CommandResult DEF haltAndSetPosition
  <2> QED BY <1>0, <1>K, <2>1, <2>2, CommandsAreSound DEF DeviceSafe
<1>8. CASE EnergizeSwitch
  BY <1>0, <1>1, <1>8, EnergizeResult DEF EnergizeSwitch
<1>9. CASE DeenergizeSwitch
  <2>1. PICK r \in deenergize(tic, link) : tic' = r.tic
    BY <1>9 DEF DeenergizeSwitch
  <2> QED BY <1>0, <1>1, <2>1, CommandResult, CommandsAreSound DEF deenergize
<1>10. CASE SetParkingMode \/ SetBacklashEnabled
              \/ \E steps \in Backlashes : SetFocuserBacklash(steps)
  BY <1>K, <1>10 DEF SetParkingMode, SetBacklashEnabled, SetFocuserBacklash, device
<1>11. CASE TimerHit
  BY <1>K, <1>11 DEF TimerHit, TimerHitDisconnected, PollSucceeds, PollFails, device
<1>12. CASE MotorStep
  BY <1>0, <1>12, WorldIsSound DEF MotorStep, DeviceSafe
<1>13. CASE Fault
  BY <1>0, <1>12, <1>13, WorldIsSound DEF Fault, DeviceSafe
<1>14. CASE PowerCycle
  BY <1>0, <1>14, WorldIsSound DEF PowerCycle, DeviceSafe
<1>15. CASE LinkChange \/ Restart \/ UNCHANGED vars
  BY <1>K, <1>15 DEF LinkChange, Restart, vars, device
<1> QED
  BY <1>2, <1>3, <1>4, <1>5, <1>6, <1>7, <1>8, <1>9, <1>10, <1>11, <1>12,
     <1>13, <1>14, <1>15 DEF Next, Client, Environment

(* A step that leaves the controller well typed leaves everything so.      *)
LEMMA TypeStep == TypeOK /\ Sound(tic) /\ Sound(tic') /\ [Next]_vars => TypeOK'
<1> SUFFICES ASSUME TypeOK, Sound(tic), tic' \in Controller, [Next]_vars
             PROVE  TypeOK'
  BY DEF Sound
<1> USE DEF TypeOK, Link, IPState, Direction
<1>1. CASE Connect  BY <1>1 DEF Connect, motion, options, report
<1>2. CASE Disconnect
  <2>1. lastFocusDir' \in Direction
    BY <1>2, MoveAbsResult DEF Disconnect
  <2> QED BY <1>2, <2>1 DEF Disconnect, options, report
<1>3. ASSUME NEW ticks \in Travel, MoveAbs(ticks) PROVE TypeOK'
  <2>1. ticks \in Int
    BY ConstantsAssumption DEF Travel
  <2>2. lastFocusDir' \in Direction /\ absState' \in IPState
    BY <1>3, <2>1, MoveAbsResult DEF MoveAbs
  <2> QED BY <1>3, <2>2 DEF MoveAbs, session, options, report
<1>4. ASSUME NEW dir \in Direction, NEW ticks \in Steps, MoveRel(dir, ticks)
      PROVE  TypeOK'
  <2>1. U32(RelTarget(dir, ticks)) \in Int
    BY ConstantsAssumption, U32Type DEF RelTarget
  <2>2. /\ lastFocusDir' \in Direction
        /\ absState' \in IPState /\ relState' \in IPState
        /\ moveRelInitialValue' \in Int
    BY <1>4, <2>1, MoveAbsResult DEF MoveRel
  <2> QED BY <1>4, <2>2 DEF MoveRel, session, options, report
<1>5. CASE AbortFocuser
  BY <1>5 DEF AbortFocuser, session, options, report
<1>6. ASSUME NEW ticks \in Travel, SyncFocuser(ticks) PROVE TypeOK'
  <2>1. ticks \in Int
    BY ConstantsAssumption DEF Travel
  <2> QED BY <1>6, <2>1 DEF SyncFocuser, session, options, report
<1>7. CASE EnergizeSwitch \/ DeenergizeSwitch
  BY <1>7 DEF EnergizeSwitch, DeenergizeSwitch, SwitchState, session, motion, options
<1>8. CASE SetParkingMode \/ SetBacklashEnabled
  BY <1>8 DEF SetParkingMode, SetBacklashEnabled, device, session, motion, report
<1>9. ASSUME NEW steps \in Backlashes, SetFocuserBacklash(steps) PROVE TypeOK'
  BY <1>9, ConstantsAssumption DEF SetFocuserBacklash, device, session, motion, report
<1>10. CASE TimerHit
  <2>1. CASE TimerHitDisconnected
    BY <2>1 DEF TimerHitDisconnected, device, motion, options, report
  <2>2. CASE PollSucceeds
    <3>1. absPos' \in Int
      BY <2>2 DEF PollSucceeds, Controller
    <3>2. /\ absState' \in IPState /\ relState' \in IPState
          /\ moveRelInitialValue' \in Int
      <4>1. CASE Arrived   BY <2>2, <4>1 DEF PollSucceeds
      <4>2. CASE ~Arrived  BY <2>2, <4>2 DEF PollSucceeds
      <4> QED BY <4>1, <4>2
    <3>3. /\ timer' = TRUE /\ lastTimerHitError' = FALSE
          /\ UNCHANGED <<link, connected, lastFocusDir, backlashOn, backlash,
                         parkOn, energizeState>>
      BY <2>2 DEF PollSucceeds, device, options
    <3> QED BY <3>1, <3>2, <3>3
  <2>3. CASE PollFails
    BY <2>3 DEF PollFails, device, motion, options
  <2> QED BY <1>10, <2>1, <2>2, <2>3 DEF TimerHit
<1>11. CASE MotorStep \/ Fault \/ PowerCycle
  BY <1>11 DEF MotorStep, Fault, PowerCycle, session, motion, options, report
<1>12. CASE LinkChange
  BY <1>12 DEF LinkChange, session, motion, options, report
<1>13. CASE Restart
  <2>1. absPos' \in Int /\ moveRelInitialValue' \in Int /\ backlash' \in Nat
    BY <1>13 DEF Restart
  <2> QED BY <1>13, <2>1 DEF Restart, device
<1>14. CASE UNCHANGED vars
  BY <1>14 DEF vars, device, session, motion, options, report
<1> QED
  BY <1>1, <1>2, <1>3, <1>4, <1>5, <1>6, <1>7, <1>8, <1>9, <1>10, <1>11,
     <1>12, <1>13, <1>14 DEF Next, Client, Environment

(* Only a connection starts a session, and it arms the timer; only a       *)
(* restart and the timer of a closed session leave it unarmed.             *)
LEMMA PollingStep == PollingAlive /\ [Next]_vars => PollingAlive'
<1> SUFFICES ASSUME PollingAlive, [Next]_vars PROVE PollingAlive'
  OBVIOUS
<1> USE DEF PollingAlive
<1>1. CASE Client
  BY <1>1 DEF Client, Connect, Disconnect, MoveAbs, SyncFocuser, MoveRel,
     AbortFocuser, EnergizeSwitch, DeenergizeSwitch, SetParkingMode,
     SetBacklashEnabled, SetFocuserBacklash, session
<1>2. CASE TimerHit
  BY <1>2 DEF TimerHit, TimerHitDisconnected, PollSucceeds, PollFails
<1>3. CASE Environment
  BY <1>3 DEF Environment, MotorStep, Fault, PowerCycle, LinkChange, Restart, session
<1>4. CASE UNCHANGED vars
  BY <1>4 DEF vars, session
<1> QED BY <1>1, <1>2, <1>3, <1>4 DEF Next

(* The driver starts in the invariant, and no step leaves it.              *)
THEOREM Inductive == Spec => []IInv
<1>1. Init => IInv
  <2> SUFFICES ASSUME Init PROVE IInv
    OBVIOUS
  <2>1. tic \in Controller /\ tic.planning = "off"
    <3>1. PICK p \in StartPositions : tic = PoweredOn(p)
      BY DEF Init
    <3> QED BY <3>1, ConstantsAssumption DEF PoweredOn, Controller, PlanningMode
  <2>2. absPos \in Int /\ moveRelInitialValue \in Int /\ backlash \in Nat
    BY DEF Init, DriverInit
  <2>3. TypeOK
    BY <2>1, <2>2 DEF Init, DriverInit, TypeOK, Link, IPState, Direction
  <2>4. TargetOnTravel /\ PollingAlive
    BY <2>1 DEF Init, DriverInit, TargetOnTravel, PollingAlive
  <2> QED BY <2>3, <2>4 DEF IInv
<1>2. IInv /\ [Next]_vars => IInv'
  <2>1. IInv /\ [Next]_vars => Sound(tic) /\ Sound(tic')
    BY DeviceStep DEF DeviceSafe, IInv, TypeOK, TargetOnTravel, Sound
  <2>2. Sound(tic') => TargetOnTravel'
    BY DEF Sound, TargetOnTravel, Travel
  <2> QED BY <2>1, <2>2, TypeStep, PollingStep DEF IInv
<1> QED BY <1>1, <1>2, PTL DEF Spec

(* Every variable keeps its type.                                          *)
THEOREM TypeCorrect == Spec => []TypeOK
<1>1. IInv => TypeOK  BY DEF IInv
<1> QED BY <1>1, Inductive, PTL

(* No request, relative or absolute, with or without backlash, on a good   *)
(* or a bad link, leaves the controller with a target off the travel.      *)
THEOREM TargetsOnTravel == Spec => []TargetOnTravel
<1>1. IInv => TargetOnTravel  BY DEF IInv
<1> QED BY <1>1, Inductive, PTL

(* A connected driver always has its timer armed.                          *)
THEOREM PollingNeverStops == Spec => []PollingAlive
<1>1. IInv => PollingAlive  BY DEF IInv
<1> QED BY <1>1, Inductive, PTL

(* The motor, once on the travel, never leaves it.                         *)
THEOREM MotorStaysOnTravel == Spec => StaysOnTravel
<1>1. IInv /\ [Next]_vars => [NoDeparture]_vars
  BY DeviceStep DEF DeviceSafe, NoDeparture
<1> QED BY <1>1, Inductive, PTL DEF Spec, StaysOnTravel

-----------------------------------------------------------------------------
(* What a request comes to.                                                *)

(* On the travel the backlash takes a request no further than its own      *)
(* length, and never off the travel.                                       *)
LEMMA CompensatedBounds ==
  ASSUME TypeOK, NEW ticks \in Travel
  PROVE  /\ Compensated(ticks) \in Travel
         /\ ticks >= absPos => Compensated(ticks) \in ticks..ticks + backlash
         /\ ticks <= absPos => Compensated(ticks) \in ticks - backlash..ticks
<1>1. MaxPos \in Nat /\ ticks \in Nat /\ ticks <= MaxPos /\ backlash \in Nat /\ absPos \in Int
  BY ConstantsAssumption DEF TypeOK, Travel
<1>2. CASE backlashOn /\ ticks > absPos /\ lastFocusDir = "Inward"
  BY <1>1, <1>2 DEF Compensated, Least, Travel
<1>3. CASE backlashOn /\ ticks < absPos /\ lastFocusDir = "Outward"
  BY <1>1, <1>3 DEF Compensated, Greatest, Travel
<1>4. CASE Compensated(ticks) = ticks
  BY <1>1, <1>4 DEF Travel
<1> QED BY <1>2, <1>3, <1>4 DEF Compensated

(* A relative target on the travel survives the conversion to uint32_t.    *)
LEMMA U32Identity == ASSUME NEW x \in Travel PROVE U32(x) = x
  BY ConstantsAssumption DEF U32, Travel

(* A relative move from a position on the travel, however stale, sends the *)
(* motor no further than asked plus the backlash.                          *)
THEOREM RelMovesAreBounded == Spec => RelMoveBounded
<1> DEFINE Bounded(dir, ticks) ==
      tic'.target # tic.target /\ absPos \in Travel /\ MoveRel(dir, ticks)
        => tic'.target - absPos \in -(ticks + backlash)..(ticks + backlash)
<1>1. ASSUME IInv, NEW dir \in Direction, NEW ticks \in Steps,
             tic'.target # tic.target, absPos \in Travel, MoveRel(dir, ticks)
      PROVE  tic'.target - absPos \in -(ticks + backlash)..(ticks + backlash)
  <2> DEFINE want == RelTarget(dir, ticks)
  <2>0. TypeOK /\ tic \in Controller /\ backlash \in Nat
    BY <1>1 DEF IInv, TypeOK
  <2>1. ~Refused(dir, ticks)
    BY <1>1 DEF MoveRel
  <2>2. MaxPos \in Nat /\ ticks \in Nat /\ absPos \in Int /\ absPos >= 0 /\ absPos <= MaxPos
    BY <1>1, ConstantsAssumption DEF Travel
  <2>3. /\ want \in Travel
        /\ \/ want >= absPos /\ want <= absPos + ticks
           \/ want <= absPos /\ want >= absPos - ticks
    BY <2>1, <2>2 DEF Refused, RelTarget, Travel
  <2>4. PICK r \in MoveAbsFocuser(U32(want)) : tic' = r.tic
    BY <1>1, <2>1 DEF MoveRel
  <2>5. r \in MoveAbsFocuser(want)
    BY <2>3, <2>4, U32Identity
  <2>6. r.tic = tic \/ r.tic \in Targeted(tic, Compensated(want)) \cup {tic}
    BY <2>5, CommandResult DEF MoveAbsFocuser, setTargetPosition
  <2>7. tic'.target = Compensated(want)
    BY <1>1, <2>0, <2>4, <2>6 DEF Targeted, Controller
  <2>8. /\ want >= absPos => Compensated(want) \in want..want + backlash
        /\ want <= absPos => Compensated(want) \in want - backlash..want
    BY <2>0, <2>3, CompensatedBounds
  <2>9. want \in Int
    BY <2>3, <2>2 DEF Travel
  <2> HIDE DEF want
  <2> QED BY <2>0, <2>2, <2>3, <2>7, <2>8, <2>9
<1>2. IInv /\ [Next]_vars
        => [\A dir \in Direction, ticks \in Steps : Bounded(dir, ticks)]_vars
  BY <1>1
<1> QED BY <1>2, Inductive, PTL DEF Spec, RelMoveBounded

(* Disconnect parks a focuser whose position is known.                     *)
THEOREM RestingFocuserParks == Spec => ParksFromRest
<1> DEFINE Parks == parkOn /\ link = "good" /\ AtRest /\ absPos = tic.pos /\ absPos >= 0
                      /\ Disconnect
                      => tic'.pos = 0 \/ Parked(tic')
<1>1. ASSUME IInv, parkOn, link = "good", absPos = tic.pos, absPos >= 0, Disconnect
      PROVE  tic'.pos = 0 \/ Parked(tic')
  <2>0. TypeOK /\ tic \in Controller /\ backlash \in Nat /\ absPos \in Int /\ 0 \in Travel
    BY <1>1, ConstantsAssumption DEF IInv, TypeOK, Travel
  <2>1. PICK r \in MoveAbsFocuser(0) : tic' = r.tic
    BY <1>1 DEF Disconnect
  <2>2. CASE absPos = 0
    <3>1. r = [ret |-> "Ok", tic |-> tic, heading |-> Heading(0)]
      BY <2>1, <2>2 DEF MoveAbsFocuser
    <3> QED BY <1>1, <2>1, <2>2, <3>1
  <2>3. CASE absPos # 0
    <3>1. Compensated(0) = 0
      BY <1>1, <2>0, <2>3 DEF Compensated, Greatest
    <3>2. PICK c \in setTargetPosition(tic, 0, link) : r.tic = c.tic
      BY <2>0, <2>1, <2>3, <3>1 DEF MoveAbsFocuser
    <3>3. Outcomes(link) = {[done |-> TRUE, told |-> TRUE]}
      BY <1>1 DEF Outcomes
    <3>4. c.tic \in Targeted(tic, 0)
      BY <3>2, <3>3 DEF setTargetPosition, Command
    <3> QED BY <2>0, <2>1, <3>2, <3>4 DEF Targeted, Controller, Parked
  <2> QED BY <2>2, <2>3
<1>2. IInv /\ [Next]_vars => [Parks]_vars
  BY <1>1
<1> QED BY <1>2, Inductive, PTL DEF Spec, ParksFromRest

(* An Energize button that shows success has left the motor free to run.   *)
THEOREM EnergizedIsReady == Spec => EnergizeReadies
<1> DEFINE Readies == energizeState' = "Ok" /\ (Interface = "pololu" \/ link = "good")
                        /\ EnergizeSwitch
                        => Ready(tic')
<1>1. ASSUME IInv, energizeState' = "Ok", Interface = "pololu" \/ link = "good",
             EnergizeSwitch
      PROVE  Ready(tic')
  <2>0. tic \in Controller
    BY <1>1 DEF IInv, TypeOK
  <2>1. PICK r \in EnergizeFocuser : tic' = r.tic /\ energizeState' = SwitchState(r.told)
    BY <1>1 DEF EnergizeSwitch
  <2>2. r.told
    BY <1>1, <2>1 DEF SwitchState
  <2>3. PICK c \in energize(tic, link) :
          r \in IF c.told THEN exitSafeStart(c.tic, link) ELSE {c}
    BY <2>1 DEF EnergizeFocuser
  <2>4. c.told /\ r \in exitSafeStart(c.tic, link)
    BY <2>2, <2>3
  <2>5. c.tic \in Energized(tic)
    BY <1>1, <2>3, <2>4, CommandResult DEF energize
  <2>6. r.tic \in SafeStartExited(c.tic)
    BY <1>1, <2>2, <2>4, CommandResult DEF exitSafeStart
  <2>7. c.tic \in Controller /\ c.tic.energized = TRUE
    BY <2>0, <2>5 DEF Energized, Controller
  <2>8. r.tic = [c.tic EXCEPT !.safeStart = FALSE]
    BY <2>6, <2>7 DEF SafeStartExited
  <2>9. r.tic.energized = TRUE /\ r.tic.safeStart = FALSE
    BY <2>7, <2>8 DEF Controller
  <2> QED BY <2>1, <2>9 DEF Ready
<1>2. IInv /\ [Next]_vars => [Readies]_vars
  BY <1>1
<1> QED BY <1>2, Inductive, PTL DEF Spec, EnergizeReadies

-----------------------------------------------------------------------------
(* The driver implements the contract: the refinement, one step at a time. *)

Goal(t) == IF t.planning = "position" THEN t.target ELSE -1

(* A step that leaves what the contract speaks of alone.                   *)
Unseen == /\ tic'.pos = tic.pos /\ Goal(tic') = Goal(tic)
          /\ absPos' = absPos /\ absState' = absState

LEMMA UnseenStutters == Unseen => UNCHANGED Contract!vars
  BY DEF Unseen, Goal, Contract!vars

(* An absolute move, whose result a client sees, is accepted, redirected   *)
(* or declined, or the client is misled.                                   *)
LEMMA MoveImplements ==
  ASSUME TypeOK, Sound(tic), NEW ticks \in Int, NEW r \in MoveAbsFocuser(ticks),
         tic' = r.tic, absPos' = absPos, absState' = r.ret
  PROVE  Contract!Next
<1>1. /\ tic'.pos = tic.pos
      /\ r.ret \in {"Ok", "Busy", "Alert"}
      /\ tic' = tic \/ \E goal \in Travel : tic' \in Targeted(tic, goal)
      /\ r.ret = "Busy" /\ Interface = "pololu"
           => \E goal \in Travel : tic' \in Targeted(tic, goal)
      /\ r.ret = "Ok" => tic' = tic
  BY MoveAbsResult
<1>2. CASE \E goal \in Travel : tic' \in Targeted(tic, goal)
  <2>1. PICK goal \in Travel : tic' \in Targeted(tic, goal)
    BY <1>2
  <2>2. Goal(tic') = goal
    BY <2>1 DEF Sound, Controller, Targeted, Goal
  <2>3. CASE r.ret = "Busy"
    BY <1>1, <2>2, <2>3 DEF Goal, Travel, Contract!Next, Contract!Accept, Contract!Travel
  <2>4. CASE r.ret = "Alert"
    BY <1>1, <2>2, <2>4
    DEF Goal, Travel, Contract!Next, Contract!Redirect, Contract!Travel
  <2>5. CASE r.ret = "Ok"
    BY <1>1, <2>5 DEF Contract!Next, Contract!Decline
  <2> QED BY <1>1, <2>3, <2>4, <2>5
<1>3. CASE tic' = tic /\ r.ret # "Busy"
  BY <1>1, <1>3 DEF Contract!Next, Contract!Decline
<1>4. CASE tic' = tic /\ r.ret = "Busy" /\ Interface # "pololu"
  BY <1>4 DEF Contract!Next, Contract!Mislead, Contract!Status
<1> QED BY <1>1, <1>2, <1>3, <1>4

LEMMA ContractStep == IInv /\ [Next]_vars => [Contract!Next]_(Contract!vars)
<1> SUFFICES ASSUME IInv, [Next]_vars
             PROVE  Contract!Next \/ UNCHANGED Contract!vars
  OBVIOUS
<1>0. TypeOK /\ Sound(tic) /\ 0 \in Travel
  BY ConstantsAssumption DEF IInv, TypeOK, TargetOnTravel, Sound, Travel
<1>U. Unseen => UNCHANGED Contract!vars
  BY UnseenStutters
<1>1. CASE Connect \/ EnergizeSwitch
  <2>1. PICK r \in EnergizeFocuser : tic' = r.tic
    BY <1>1 DEF Connect, EnergizeSwitch
  <2>2. absPos' = absPos /\ absState' = absState
    BY <1>1 DEF Connect, EnergizeSwitch, motion
  <2> QED BY <1>0, <1>U, <2>1, <2>2, EnergizeResult DEF Unseen, Goal
<1>2. CASE Disconnect
  <2>1. absPos' = absPos /\ absState' = absState
    BY <1>2 DEF Disconnect
  <2>2. CASE ~parkOn
    BY <1>2, <1>U, <2>1, <2>2 DEF Disconnect, Unseen, Goal
  <2>3. CASE parkOn
    <3>1. PICK r \in MoveAbsFocuser(0) : tic' = r.tic
      BY <1>2, <2>3 DEF Disconnect
    <3>2. /\ tic'.pos = tic.pos
          /\ tic' = tic \/ \E goal \in Travel : tic' \in Targeted(tic, goal)
      BY <1>0, <3>1, MoveAbsResult
    <3>3. CASE tic' = tic  BY <1>U, <2>1, <3>3 DEF Unseen, Goal
    <3>4. CASE \E goal \in Travel : tic' \in Targeted(tic, goal)
      <4>1. PICK goal \in Travel : tic' \in Targeted(tic, goal)
        BY <3>4
      <4>2. Goal(tic') = goal
        BY <1>0, <4>1 DEF Sound, Controller, Targeted, Goal
      <4> QED
        BY <2>1, <3>2, <4>2
        DEF Goal, Travel, Contract!Next, Contract!Redirect, Contract!Travel
    <3> QED BY <3>2, <3>3, <3>4
  <2> QED BY <2>2, <2>3
<1>3. ASSUME NEW ticks \in Travel, MoveAbs(ticks) PROVE Contract!Next
  <2>1. PICK r \in MoveAbsFocuser(ticks) : tic' = r.tic /\ absState' = r.ret
    BY <1>3 DEF MoveAbs
  <2>2. ticks \in Int /\ absPos' = absPos
    BY <1>3, ConstantsAssumption DEF MoveAbs, Travel
  <2> QED BY <1>0, <2>1, <2>2, MoveImplements
<1>4. ASSUME NEW dir \in Direction, NEW ticks \in Steps, MoveRel(dir, ticks)
      PROVE  Contract!Next \/ UNCHANGED Contract!vars
  <2>1. CASE Refused(dir, ticks)
    BY <1>4, <1>U, <2>1 DEF MoveRel, Unseen, Goal
  <2>2. CASE ~Refused(dir, ticks)
    <3>1. PICK r \in MoveAbsFocuser(U32(RelTarget(dir, ticks))) :
            tic' = r.tic /\ absState' = r.ret
      BY <1>4, <2>2 DEF MoveRel
    <3>2. absPos' = absPos
      BY <1>4 DEF MoveRel
    <3>3. U32(RelTarget(dir, ticks)) \in Int
      BY <1>0, ConstantsAssumption, U32Type DEF TypeOK, RelTarget
    <3> QED BY <1>0, <3>1, <3>2, <3>3, MoveImplements
  <2> QED BY <2>1, <2>2
<1>5. CASE AbortFocuser
  <2>1. PICK r \in haltAndHold(tic, link) :
          /\ tic' = r.tic
          /\ absState' = IF r.told THEN "Idle" ELSE absState
    BY <1>5 DEF AbortFocuser
  <2>2. absPos' = absPos
    BY <1>5 DEF AbortFocuser
  <2>3. /\ tic' \in Halted(tic) \cup {tic} /\ r.told \in BOOLEAN
        /\ r.told /\ Interface = "pololu" => tic' \in Halted(tic)
    BY <2>1, CommandResult DEF haltAndHold
  <2>4. CASE tic' \in Halted(tic)
    <3>1. tic'.pos = tic.pos /\ tic'.planning = "off"
      BY <1>0, <2>4 DEF Halted, Sound, Controller
    <3> QED BY <2>1, <2>2, <3>1 DEF Contract!Next, Contract!Halt, Contract!NoGoal
  <2>5. CASE tic' = tic /\ ~r.told
    BY <1>U, <2>1, <2>2, <2>5 DEF Unseen, Goal
  <2>6. CASE tic' = tic /\ r.told /\ Interface # "pololu"
    BY <2>1, <2>2, <2>6 DEF Contract!Next, Contract!Mislead, Contract!Status
  <2> QED BY <2>3, <2>4, <2>5, <2>6
<1>6. ASSUME NEW ticks \in Travel, SyncFocuser(ticks)
      PROVE  Contract!Next \/ UNCHANGED Contract!vars
  <2>1. PICK r \in haltAndSetPosition(tic, ticks, link) :
          /\ tic' = r.tic
          /\ absPos' = IF r.told THEN ticks ELSE absPos
    BY <1>6 DEF SyncFocuser
  <2>2. absState' = absState
    BY <1>6 DEF SyncFocuser
  <2>3. /\ tic' \in HaltedAt(tic, ticks) \cup {tic} /\ r.told \in BOOLEAN
        /\ r.told /\ Interface = "pololu" => tic' \in HaltedAt(tic, ticks)
    BY <2>1, CommandResult DEF haltAndSetPosition
  <2>4. CASE tic' \in HaltedAt(tic, ticks)
    <3>1. tic'.pos = ticks /\ tic'.planning = "off"
      BY <1>0, <2>4 DEF HaltedAt, Sound, Controller
    <3> QED
      BY <2>1, <2>2, <3>1
      DEF Travel, Contract!Next, Contract!Halt, Contract!Travel, Contract!NoGoal
  <2>5. CASE tic' = tic /\ ~r.told
    BY <1>U, <2>1, <2>2, <2>5 DEF Unseen, Goal
  <2>6. CASE tic' = tic /\ r.told /\ Interface # "pololu"
    BY <1>0, <2>1, <2>2, <2>6
    DEF TypeOK, IPState, Travel, Contract!Next, Contract!Mislead, Contract!Status,
        Contract!Travel
  <2> QED BY <2>3, <2>4, <2>5, <2>6
<1>7. CASE DeenergizeSwitch
  <2>1. PICK r \in deenergize(tic, link) : tic' = r.tic
    BY <1>7 DEF DeenergizeSwitch
  <2>2. tic' \in Deenergized(tic) \cup {tic}
    BY <2>1, CommandResult DEF deenergize
  <2>3. tic'.pos = tic.pos /\ Goal(tic') = Goal(tic)
    BY <1>0, <2>2 DEF Deenergized, Sound, Controller, Goal
  <2> QED BY <1>7, <1>U, <2>3 DEF DeenergizeSwitch, motion, Unseen
<1>8. CASE SetParkingMode \/ SetBacklashEnabled
             \/ \E steps \in Backlashes : SetFocuserBacklash(steps)
  BY <1>8, <1>U
  DEF SetParkingMode, SetBacklashEnabled, SetFocuserBacklash, device, motion, Unseen, Goal
<1>9. CASE PollSucceeds
  BY <1>9 DEF PollSucceeds, device, Contract!Next, Contract!Refresh
<1>10. CASE TimerHitDisconnected \/ PollFails
  BY <1>10, <1>U DEF TimerHitDisconnected, PollFails, device, motion, Unseen, Goal
<1>11. CASE MotorStep
  <2>1. tic.planning = "position" /\ tic.pos # tic.target /\ tic.target \in Travel
    BY <1>0, <1>11 DEF MotorStep, Moving, Sound
  <2>2. /\ tic'.pos = IF tic.pos < tic.target THEN tic.pos + 1 ELSE tic.pos - 1
        /\ tic'.target = tic.target /\ tic'.planning = tic.planning
    BY <1>0, <1>11 DEF MotorStep, Stepped, Sound, Controller
  <2>3. absPos' = absPos /\ absState' = absState
    BY <1>11 DEF MotorStep, motion
  <2>4. tic.target # -1
    BY <2>1, ConstantsAssumption DEF Travel
  <2> QED
    BY <2>1, <2>2, <2>3, <2>4 DEF Contract!Next, Contract!Advance, Contract!NoGoal
<1>12. CASE Fault
  <2>1. tic'.pos = tic.pos /\ (Goal(tic') = Goal(tic) \/ tic'.planning = "off")
    BY <1>0, <1>12 DEF Fault, Faulted, Sound, Controller, Goal
  <2>2. absPos' = absPos /\ absState' = absState
    BY <1>12 DEF Fault, motion
  <2>3. CASE Goal(tic') = Goal(tic)  BY <1>U, <2>1, <2>2, <2>3 DEF Unseen
  <2>4. CASE tic'.planning = "off"
    BY <2>1, <2>2, <2>4 DEF Contract!Next, Contract!Halt, Contract!NoGoal
  <2> QED BY <2>1, <2>3, <2>4
<1>13. CASE PowerCycle
  <2>1. tic'.pos = 0 /\ tic'.planning = "off"
    BY <1>13 DEF PowerCycle, PoweredOn
  <2>2. absPos' = absPos /\ absState' = absState
    BY <1>13 DEF PowerCycle, motion
  <2> QED
    BY <1>0, <2>1, <2>2
    DEF Travel, Contract!Next, Contract!Halt, Contract!Travel, Contract!NoGoal
<1>14. CASE Restart
  BY <1>14 DEF Restart, device, Contract!Next, Contract!Restart
<1>15. CASE LinkChange \/ UNCHANGED vars
  BY <1>15, <1>U DEF LinkChange, vars, device, motion, Unseen, Goal
<1> QED
  BY <1>1, <1>2, <1>3, <1>4, <1>5, <1>6, <1>7, <1>8, <1>9, <1>10, <1>11,
     <1>12, <1>13, <1>14, <1>15 DEF Next, Client, TimerHit, Environment

(* The driver, with the controller and whatever befalls the link, is an    *)
(* implementation of the contract.                                         *)
THEOREM Implements == Spec => ImplementsContract
<1>1. Init => Contract!Init
  <2> SUFFICES ASSUME Init PROVE Contract!Init
    OBVIOUS
  <2>1. PICK p \in StartPositions : tic = PoweredOn(p)
    BY DEF Init
  <2>2. tic.pos \in Int /\ tic.planning = "off"
    BY <2>1, ConstantsAssumption DEF PoweredOn
  <2> QED BY <2>2 DEF Init, DriverInit, Contract!Init, Contract!NoGoal
<1> QED BY <1>1, ContractStep, Inductive, PTL DEF Spec, ImplementsContract, Contract!Spec

=============================================================================
