----------------------------- MODULE TicFocuser -----------------------------
(***************************************************************************)
(* The focuser driver (TicFocuser.cpp) with the controller it drives, the  *)
(* link between them and the INDI base classes it derives from.            *)
(*                                                                         *)
(* The INDI event loop runs one callback at a time, so a callback is one   *)
(* action: a property a client sets, a connection switch, or the polling   *)
(* timer.  The motor, the faults of the controller and the state of the    *)
(* link change between callbacks.  The code of INDI::Focuser around the    *)
(* driver's virtual functions (range checks, property states) is external  *)
(* and is part of the actions that reach those functions.                  *)
(***************************************************************************)
EXTENDS TicDriverInterface

CONSTANTS
  MaxPos,          \* FocusAbsPosNP.max, the end of the travel that starts at 0
  Word,            \* 2^32: positions are converted from int32_t to uint32_t
  StartPositions,  \* what the controller's counter may read at the outset
  Steps,           \* sizes of the relative moves a client asks for
  Backlashes       \* values a client gives FocusBacklashNP

ASSUME ConstantsAssumption ==
  /\ MaxPos \in Nat \ {0}
  /\ Word \in Nat /\ Word > 2 * MaxPos
  /\ StartPositions \subseteq Int
  /\ Steps \subseteq Nat \ {0}
  /\ Backlashes \subseteq Nat

VARIABLES
  tic,                  \* the controller
  link,                 \* whether it can be reached
  connected,            \* isConnected()
  timer,                \* is the polling timer armed?
  absPos, absState,     \* FocusAbsPosNP: cached position and property state
  relState,             \* FocusRelPosNP: property state
  moveRelInitialValue,  \* where a relative move started, -1 if none
  lastFocusDir,         \* direction of the last move, for the backlash
  backlashOn, backlash, \* FocusBacklashSP and FocusBacklashNP
  parkOn,               \* FocusParkingModeSP
  energizeState,        \* EnergizeFocuserSP: property state
  lastTimerHitError     \* the last poll failed, and said so

device  == <<tic, link>>
session == <<connected, timer>>
options == <<backlashOn, backlash, parkOn>>
motion  == <<absPos, absState, relState, moveRelInitialValue, lastFocusDir>>
report  == <<energizeState, lastTimerHitError>>
vars    == <<device, session, motion, options, report>>

Travel    == 0..MaxPos
IPState   == {"Idle", "Ok", "Busy", "Alert"}
Direction == {"Inward", "Outward"}

-----------------------------------------------------------------------------
(* The driver as it is constructed: nothing is remembered of an earlier    *)
(* process but the options a client will restore.                          *)

DriverInit ==
  /\ connected = FALSE /\ timer = FALSE
  /\ absPos = 0 /\ absState = "Idle" /\ relState = "Idle"
  /\ moveRelInitialValue = -1 /\ lastFocusDir = "Inward"
  /\ backlashOn = FALSE /\ backlash = 0 /\ parkOn = FALSE
  /\ energizeState = "Idle" /\ lastTimerHitError = FALSE

Init ==
  /\ tic \in {PoweredOn(p) : p \in StartPositions}
  /\ link \in Link
  /\ DriverInit

(* The driver process dies and is started again.                           *)
Restart ==
  /\ connected' = FALSE /\ timer' = FALSE
  /\ absPos' = 0 /\ absState' = "Idle" /\ relState' = "Idle"
  /\ moveRelInitialValue' = -1 /\ lastFocusDir' = "Inward"
  /\ backlashOn' = FALSE /\ backlash' = 0 /\ parkOn' = FALSE
  /\ energizeState' = "Idle" /\ lastTimerHitError' = FALSE
  /\ UNCHANGED device

-----------------------------------------------------------------------------
(* MoveAbsFocuser.  The argument is a uint32_t, the cached position is     *)
(* signed.                                                                 *)

U32(x) == x % Word

Least(a, b)    == IF a < b THEN a ELSE b
Greatest(a, b) == IF a > b THEN a ELSE b

(* MUTANT of Compensated: std::max where std::min is meant.                *)
CompensatedOutwardsToTheEnd(ticks) ==
  IF ~backlashOn THEN ticks
  ELSE IF ticks > absPos /\ lastFocusDir = "Inward"
       THEN Greatest(ticks + backlash, MaxPos)
  ELSE IF ticks < absPos /\ lastFocusDir = "Outward"
       THEN Greatest(ticks - backlash, 0)
  ELSE ticks

(* MUTANT of Compensated: the inward target is not clamped.                *)
CompensatedBelowZero(ticks) ==
  IF ~backlashOn THEN ticks
  ELSE IF ticks > absPos /\ lastFocusDir = "Inward"
       THEN Least(ticks + backlash, MaxPos)
  ELSE IF ticks < absPos /\ lastFocusDir = "Outward"
       THEN ticks - backlash
  ELSE ticks

(* Where the motor is sent for a request of ticks: the backlash is added   *)
(* when the direction reverses, and clamped to the travel.                 *)
Compensated(ticks) ==
  IF ~backlashOn THEN ticks
  ELSE IF ticks > absPos /\ lastFocusDir = "Inward"
       THEN Least(ticks + backlash, MaxPos)
  ELSE IF ticks < absPos /\ lastFocusDir = "Outward"
       THEN Greatest(ticks - backlash, 0)
  ELSE ticks

(* The direction it remembers: an inward one only if backlash is enabled.  *)
Heading(ticks) ==
  IF ticks > absPos THEN "Outward"
  ELSE IF ticks < absPos /\ backlashOn THEN "Inward"
  ELSE lastFocusDir

(* MUTANT of MoveAbsFocuser: no range check.                               *)
MoveAbsAnywhere(ticks) ==
  IF ticks = absPos
  THEN {[ret |-> "Ok", tic |-> tic, heading |-> Heading(ticks)]}
  ELSE {[ret |-> IF r.told THEN "Busy" ELSE "Alert", tic |-> r.tic,
         heading |-> Heading(ticks)] :
          r \in setTargetPosition(tic, Compensated(ticks), link)}

(* MUTANT of MoveAbsFocuser: setTargetPosition's result is not checked.    *)
MoveAbsUnchecked(ticks) ==
  LET goal == Compensated(ticks)
      Result(ret, t) == [ret |-> ret, tic |-> t, heading |-> Heading(ticks)]
  IN  IF ticks = absPos THEN {Result("Ok", tic)}
      ELSE IF goal \notin Travel THEN {Result("Alert", tic)}
      ELSE {Result("Busy", r.tic) : r \in setTargetPosition(tic, goal, link)}

(* What the function returns, with the controller and lastFocusDir.        *)
MoveAbsFocuser(ticks) ==
  LET goal == Compensated(ticks)
      Result(ret, t) == [ret |-> ret, tic |-> t, heading |-> Heading(ticks)]
  IN  IF ticks = absPos THEN {Result("Ok", tic)}
      ELSE IF goal \notin Travel THEN {Result("Alert", tic)}
      ELSE {Result(IF r.told THEN "Busy" ELSE "Alert", r.tic) :
              r \in setTargetPosition(tic, goal, link)}

-----------------------------------------------------------------------------
(* MUTANT of EnergizeFocuser: the two commands in the other order.         *)
EnergizeLast ==
  UNION {IF r.told THEN energize(r.tic, link) ELSE {r} :
           r \in exitSafeStart(tic, link)}

(* energizeFocuser: safe start is left only if energize() succeeded.       *)
EnergizeFocuser ==
  UNION {IF r.told THEN exitSafeStart(r.tic, link) ELSE {r} :
           r \in energize(tic, link)}

(* A client connects the driver.  The base class opens the connection and  *)
(* arms the timer; an attempt that fails changes nothing.  Whether the     *)
(* motor was energized is not looked at.                                   *)
Connect ==
  /\ ~connected
  /\ connected' = TRUE
  /\ timer' = TRUE
  /\ \E r \in EnergizeFocuser : tic' = r.tic
  /\ UNCHANGED <<link, motion, options, report>>

(* Parking is a move to 0, sent off without looking at what it returns.    *)
(* The timer is left to find out.                                          *)
Disconnect ==
  /\ connected
  /\ connected' = FALSE
  /\ IF parkOn
     THEN \E r \in MoveAbsFocuser(0) : /\ tic' = r.tic
                                       /\ lastFocusDir' = r.heading
     ELSE UNCHANGED <<tic, lastFocusDir>>
  /\ UNCHANGED <<link, timer, absPos, absState, relState,
                 moveRelInitialValue, options, report>>
-----------------------------------------------------------------------------
(* What a client asks for.  INDI::Focuser checks a request before the      *)
(* driver sees it, and sets the property to what the driver returned.      *)

(* FOCUS_ABSOLUTE_POSITION: only positions on the travel get through, and  *)
(* one that is reached at once is written to the property.                 *)
MoveAbs(ticks) ==
  /\ connected
  /\ ticks \in Travel
  /\ \E r \in MoveAbsFocuser(ticks) :
       /\ tic' = r.tic
       /\ lastFocusDir' = r.heading
       /\ absState' = r.ret
  /\ UNCHANGED <<link, session, absPos, relState, moveRelInitialValue,
                 options, report>>

(* A relative move is an absolute one from the cached position.            *)
RelTarget(dir, ticks) ==
  IF dir = "Outward" THEN absPos + ticks ELSE absPos - ticks

(* The base class refuses a move that leaves the travel on the side it     *)
(* heads for, and only on that side.                                       *)
Refused(dir, ticks) ==
  IF dir = "Outward" THEN RelTarget(dir, ticks) > MaxPos
                     ELSE RelTarget(dir, ticks) < 0

(* FOCUS_RELATIVE_POSITION.  MoveRelFocuser hands its int32_t target to a  *)
(* uint32_t parameter and sets both properties to the outcome.             *)
MoveRel(dir, ticks) ==
  /\ connected
  /\ IF Refused(dir, ticks)
     THEN /\ relState' = "Alert"
          /\ UNCHANGED <<tic, absState, moveRelInitialValue, lastFocusDir>>
     ELSE \E r \in MoveAbsFocuser(U32(RelTarget(dir, ticks))) :
            /\ tic' = r.tic
            /\ lastFocusDir' = r.heading
            /\ moveRelInitialValue' = IF r.ret = "Busy" THEN absPos ELSE -1
            /\ absState' = r.ret
            /\ relState' = r.ret
  /\ UNCHANGED <<link, session, absPos, options, report>>

(* FOCUS_ABORT_MOTION: halt and hold; if it went through both properties   *)
(* become idle.                                                            *)
AbortFocuser ==
  /\ connected
  /\ \E r \in haltAndHold(tic, link) :
       /\ tic' = r.tic
       /\ absState' = IF r.told THEN "Idle" ELSE absState
       /\ relState' = IF r.told THEN "Idle" ELSE relState
  /\ UNCHANGED <<link, session, absPos, moveRelInitialValue, lastFocusDir,
                 options, report>>

(* FOCUS_SYNC: the controller is told where it is; the base class then     *)
(* writes that to the absolute position, whose state it leaves alone.      *)
SyncFocuser(ticks) ==
  /\ connected
  /\ \E r \in haltAndSetPosition(tic, ticks, link) :
       /\ tic' = r.tic
       /\ absPos' = IF r.told THEN ticks ELSE absPos
  /\ UNCHANGED <<link, session, absState, relState, moveRelInitialValue,
                 lastFocusDir, options, report>>

(* MUTANT of SwitchState: a button that stays busy.                        *)
SwitchStateBusy(told) == IF told THEN "Ok" ELSE "Busy"

SwitchState(told) == IF told THEN "Ok" ELSE "Alert"

(* ENERGIZE_FOCUSER, one of the two buttons.                               *)
EnergizeSwitch ==
  /\ connected
  /\ \E r \in EnergizeFocuser : /\ tic' = r.tic
                               /\ energizeState' = SwitchState(r.told)
  /\ UNCHANGED <<link, session, motion, options, lastTimerHitError>>

(* DEENERGIZE_FOCUSER, the other.                                          *)
DeenergizeSwitch ==
  /\ connected
  /\ \E r \in deenergize(tic, link) : /\ tic' = r.tic
                                      /\ energizeState' = SwitchState(r.told)
  /\ UNCHANGED <<link, session, motion, options, lastTimerHitError>>

(* The options: parking mode, whether backlash is compensated and by how   *)
(* much.  The driver accepts every value (SetFocuserBacklash returns true) *)
(* and the property is set.                                                *)
SetParkingMode ==
  /\ connected
  /\ parkOn' = ~parkOn
  /\ UNCHANGED <<device, session, motion, backlashOn, backlash, report>>

SetBacklashEnabled ==
  /\ connected
  /\ backlashOn' = ~backlashOn
  /\ UNCHANGED <<device, session, motion, backlash, parkOn, report>>

SetFocuserBacklash(steps) ==
  /\ connected
  /\ backlash' = steps
  /\ UNCHANGED <<device, session, motion, backlashOn, parkOn, report>>

-----------------------------------------------------------------------------
(* TimerHit, the polling callback.                                         *)

(* The timer of a closed session goes off: it is not armed again.          *)
TimerHitDisconnected ==
  /\ timer /\ ~connected
  /\ timer' = FALSE
  /\ UNCHANGED <<device, connected, motion, options, report>>

(* MUTANT of Arrived: the test moved into the branch for relative moves.   *)
ArrivedRelatively ==
  absState = "Busy" /\ moveRelInitialValue >= 0 /\ tic.pos = tic.target

(* A move is over when the controller's position is its target.            *)
Arrived == absState = "Busy" /\ tic.pos = tic.target

(* The variables came back and the position is shown.                      *)
PollSucceeds ==
  /\ timer /\ connected
  /\ TRUE \in getVariables(link)
  /\ absPos' = tic.pos
  /\ lastTimerHitError' = FALSE
  /\ IF Arrived THEN /\ absState' = "Ok"
                     /\ relState' = "Ok"
                     /\ moveRelInitialValue' = -1
                ELSE UNCHANGED <<absState, relState, moveRelInitialValue>>
  /\ timer' = TRUE
  /\ UNCHANGED <<device, connected, lastFocusDir, options, energizeState>>

(* MUTANT of PollFails: it returns before the timer is armed again.        *)
PollFailsSilently ==
  /\ timer /\ connected
  /\ FALSE \in getVariables(link)
  /\ lastTimerHitError' = TRUE
  /\ timer' = FALSE
  /\ UNCHANGED <<device, connected, motion, options, energizeState>>

(* They did not: the error is logged unless the last poll logged it.       *)
PollFails ==
  /\ timer /\ connected
  /\ FALSE \in getVariables(link)
  /\ lastTimerHitError' = TRUE
  /\ timer' = TRUE
  /\ UNCHANGED <<device, connected, motion, options, energizeState>>

TimerHit == TimerHitDisconnected \/ PollSucceeds \/ PollFails

-----------------------------------------------------------------------------
(* The world outside the driver.                                           *)

MotorStep ==
  /\ Moving(tic)
  /\ tic' = Stepped(tic)
  /\ UNCHANGED <<link, session, motion, options, report>>

Fault ==
  /\ Ready(tic)
  /\ tic' \in Faulted(tic)
  /\ UNCHANGED <<link, session, motion, options, report>>

(* The controller loses power and comes back with its counter at zero.     *)
PowerCycle ==
  /\ tic' = PoweredOn(0)
  /\ UNCHANGED <<link, session, motion, options, report>>

LinkChange ==
  /\ link' \in Link \ {link}
  /\ UNCHANGED <<tic, session, motion, options, report>>

-----------------------------------------------------------------------------
Client ==
  \/ Connect \/ Disconnect
  \/ \E ticks \in Travel : MoveAbs(ticks) \/ SyncFocuser(ticks)
  \/ \E dir \in Direction, ticks \in Steps : MoveRel(dir, ticks)
  \/ AbortFocuser
  \/ EnergizeSwitch \/ DeenergizeSwitch
  \/ SetParkingMode \/ SetBacklashEnabled
  \/ \E steps \in Backlashes : SetFocuserBacklash(steps)

Environment == MotorStep \/ Fault \/ PowerCycle \/ LinkChange \/ Restart

Next == Client \/ TimerHit \/ Environment

Spec == Init /\ [][Next]_vars

(* The event loop calls a callback whose timer has run out, and a motor    *)
(* that is free to run reaches its target.                                 *)
Fairness == WF_vars(TimerHit) /\ WF_vars(MotorStep)

FairSpec == Spec /\ Fairness

-----------------------------------------------------------------------------
(* Properties.                                                             *)

(* Every variable has its type.  absPos and the controller's position are  *)
(* signed: the counter of a controller may well read below zero.           *)
TypeOK ==
  /\ tic \in Controller
  /\ link \in Link
  /\ connected \in BOOLEAN /\ timer \in BOOLEAN
  /\ absPos \in Int
  /\ absState \in IPState /\ relState \in IPState
  /\ moveRelInitialValue \in Int
  /\ lastFocusDir \in Direction
  /\ backlashOn \in BOOLEAN /\ backlash \in Nat /\ parkOn \in BOOLEAN
  /\ energizeState \in {"Idle", "Ok", "Alert"}
  /\ lastTimerHitError \in BOOLEAN

(* The controller is never left with a target off the travel, whatever the *)
(* unsigned conversion of a relative target and the backlash made of the   *)
(* request (MoveAbsFocuser's clamps and range check).                      *)
TargetOnTravel == tic.planning = "position" => tic.target \in Travel

(* A connected driver polls: no poll, failed or not, forgets to arm the    *)
(* timer again, and no reconnection loses it (TimerHit).                   *)
PollingAlive == connected => timer

(* Once the motor is on the travel nothing drives it off it: no move, no   *)
(* parking, no sync, no motion resumed by energizing the motor.            *)
NoDeparture == tic.pos \in Travel => tic'.pos \in Travel

StaysOnTravel == [][NoDeparture]_vars

(* A relative move from a position the travel has sends the motor no       *)
(* further than asked plus the backlash, whichever way it goes and however *)
(* stale the cached position is (MoveRelFocuser through MoveAbsFocuser).   *)
RelMoveBounded ==
  [][\A dir \in Direction, ticks \in Steps :
       tic'.target # tic.target /\ absPos \in Travel /\ MoveRel(dir, ticks)
         => tic'.target - absPos \in -(ticks + backlash)..(ticks + backlash)]_vars

(* Parking works for a focuser at rest on its travel whose position is     *)
(* known: on a good link Disconnect leaves it at 0 or on its way there,    *)
(* with or without backlash to compensate (Disconnect).                    *)
AtRest == tic.planning = "position" => tic.pos = tic.target

Parked(t) == t.planning = "position" /\ t.target = 0

ParksFromRest ==
  [][parkOn /\ link = "good" /\ AtRest /\ absPos = tic.pos /\ absPos >= 0
       /\ Disconnect
       => tic'.pos = 0 \/ Parked(tic')]_vars

(* When the Energize button shows success, and the calls can be believed,  *)
(* the motor is free to run: the coils come first, safe start second       *)
(* (energizeFocuser).                                                      *)
EnergizeReadies ==
  [][energizeState' = "Ok" /\ (Interface = "pololu" \/ link = "good")
       /\ EnergizeSwitch
       => Ready(tic')]_vars

(* The driver implements the contract.                                     *)
Contract == INSTANCE FocuserContract WITH
  Trusted  <- Interface = "pololu",
  position <- tic.pos,
  goal     <- IF tic.planning = "position" THEN tic.target ELSE -1,
  shown    <- absPos,
  status   <- absState

(* Every step of driver, controller and link is a step of the contract or  *)
(* leaves what it speaks of alone.                                         *)
ImplementsContract == Contract!Spec

(* The position shown keeps being the controller's once the driver stays   *)
(* connected over a link that stays good: an outage, or any number of      *)
(* failed polls before it, does not silence the timer (TimerHit).          *)
ViewRecovers ==
  <>[](connected /\ link = "good") => []<>(absPos = tic.pos)

(* A move that is shown as going on, and that the motor is free to make,   *)
(* is shown as over in the end, unless somebody interferes with it.        *)
Underway(g) ==
  /\ connected /\ link = "good"
  /\ Ready(tic) /\ tic.planning = "position" /\ tic.target = g

MoveEnds ==
  \A g \in Travel :
    absState = "Busy" /\ Underway(g) ~> absState # "Busy" \/ ~Underway(g)

-----------------------------------------------------------------------------
(* What the code's own comments say of it, and it does not do.             *)

(* lastFocusDir is "used to identify direction reversal (for backlash)"    *)
(* (TicFocuser.h:62): after an accepted move it is that move's direction.  *)
(* MoveAbsFocuser records an inward move only while backlash is enabled.   *)
DirectionRecorded ==
  [][\A ticks \in Travel :
       MoveAbs(ticks) /\ absState' = "Busy"
         => lastFocusDir' = IF ticks > absPos THEN "Outward" ELSE "Inward"]_vars

(* The target position "is only relevant if the planning mode [...] is     *)
(* TicPlanningMode::Position" (TicBase.h:835): a poll reports the end of a *)
(* move only of a controller that pursues a target.  TimerHit compares     *)
(* position and target whatever the planning mode.                         *)
ArrivalOfAMove ==
  [][absState = "Busy" /\ PollSucceeds /\ absState' = "Ok"
       => tic.planning = "position"]_vars

(* "park focuser" (TicFocuser.cpp:219): with parking enabled and a good    *)
(* link, disconnecting leaves the motor at 0 or sent there.  MoveAbsFocuser*)
(* sends nothing when the cached position already reads 0.                 *)
ParkingParks ==
  [][Disconnect /\ parkOn /\ link = "good"
       => Parked(tic') \/ (tic'.pos = 0 /\ ~Moving(tic'))]_vars

(* "Requested position is out of range" (TicFocuser.cpp:437): a request    *)
(* off the travel is refused.  A negative target that backlash is added to *)
(* has been clamped to the travel's far end when the range is checked.     *)
OutOfRangeRefused ==
  [][\A dir \in Direction, ticks \in Steps :
       MoveRel(dir, ticks) /\ RelTarget(dir, ticks) \notin Travel
         => tic' = tic]_vars

=============================================================================
