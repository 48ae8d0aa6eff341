--------------------------- MODULE ReadingsProofs ----------------------------
(***************************************************************************)
(* Polls can be trusted as far as the positions go, for every travel and   *)
(* whatever happens to the controller, however often, in their midst.      *)
(***************************************************************************)
EXTENDS Readings, TLAPS

VT == "targetPosition"
VP == "currentPosition"

(* Where a poll stands.  The target that was read is the controller's until*)
(* the controller restarts, and then the motor rests where its counter and *)
(* its target are both zero.  The position that was read was seen next to  *)
(* the target that was read, or on a controller that had restarted.        *)
AtHome(t) == t.pos = 0 /\ t.target = 0 /\ t.planning = "off"

TargetHolds ==
  reading >= 1 => variables[VT] = tic.target \/ restarted

PositionSeen ==
  reading >= 2 =>
    \E s \in seen : /\ s.tic.pos = variables[VP]
                    /\ s.tic.target = variables[VT] \/ (restarted /\ s.tic.target = s.tic.pos)

PInv ==
  /\ tic \in Controller
  /\ reading \in None..8
  /\ DOMAIN variables = Variable
  /\ reading # None => Now \in seen
  /\ restarted => reading # None /\ AtHome(tic)
  /\ TargetHolds
  /\ PositionSeen

(* The order of the reads.                                                 *)
LEMMA Order ==
  /\ Len(ReadOrder) = 8
  /\ VT \in Variable /\ VP \in Variable /\ VT # VP
  /\ DOMAIN Zeros = Variable
  /\ \A v \in Variable : ToRead(v) => /\ reading \in 0..7
                                      /\ reading = 0 <=> v = VT
                                      /\ reading = 1 <=> v = VP
<1>1. Len(ReadOrder) = 8
  BY DEF ReadOrder
<1>2. Variable = {"targetPosition", "currentPosition", "vinVoltage", "currentLimit",
                  "energized", "stepMode", "operationState", "errorStatus"}
  BY DEF Variable, ReadOrder
<1>3. DOMAIN Zeros = Variable
  BY <1>2 DEF Zeros
<1>4. ASSUME NEW v \in Variable, ToRead(v)
      PROVE  reading \in 0..7 /\ (reading = 0 <=> v = VT) /\ (reading = 1 <=> v = VP)
  BY <1>1, <1>4 DEF ToRead, ReadOrder, VT, VP
<1>5. QED
  BY <1>1, <1>2, <1>3, <1>4 DEF VT, VP

LEMMA PollStarts == Init => PInv
<1> SUFFICES ASSUME Init PROVE PInv
  OBVIOUS
<1>0. tic = PoweredOn(0)
  BY DEF Init
<1>1. tic \in Controller
  BY <1>0 DEF PoweredOn, Controller, PlanningMode
<1>3. DOMAIN variables = Variable
  BY Order DEF Init
<1>4. ~restarted /\ reading = -1
  BY DEF Init, None
<1>2. reading \in None..8
  BY <1>4 DEF None
<1>5. QED
  BY <1>1, <1>2, <1>3, <1>4 DEF PInv, TargetHolds, PositionSeen, None

(* Between two polls nothing is claimed of what was read.                  *)
LEMMA Idle ==
  ASSUME PInv, tic' \in Controller, reading' = None, DOMAIN variables' = Variable,
         ~restarted'
  PROVE  PInv'
BY DEF PInv, TargetHolds, PositionSeen, None

LEMMA PollBeginsKeeps == ASSUME PInv, PollBegins PROVE PInv'
<1>1. /\ tic' = tic /\ lowVin' = lowVin /\ stage' = stage
      /\ restarted' = restarted /\ seen' = {Now}
  BY DEF PollBegins, controller
<1>2. tic \in Controller /\ ~restarted
  BY DEF PInv, PollBegins
<1>3. Now' = Now /\ Now.tic = tic
  BY <1>1 DEF Now
<1>4. DOMAIN variables' = Variable
  <2>1. DOMAIN Answer = Variable
    BY DEF Answer, Variable, ReadOrder
  <2>2. QED
    BY <2>1, Order DEF PollBegins
<1>5. reading' \in {0, 8} /\ (reading' = 8 => variables' = Answer)
  BY Order DEF PollBegins
<1>6. Answer.targetPosition = tic.target /\ Answer.currentPosition = tic.pos
  BY DEF Answer
<1>7. QED
  BY <1>1, <1>2, <1>3, <1>4, <1>5, <1>6
     DEF PInv, TargetHolds, PositionSeen, None, VT, VP, AtHome

(* A further variable has been read: the positions are what they were.     *)
LEMMA Onwards ==
  ASSUME PInv, reading \in 0..7, reading' = reading + 1,
         NEW v \in Variable, NEW x, variables' = [variables EXCEPT ![v] = x],
         UNCHANGED <<tic, lowVin, stage, seen, restarted>>,
         reading = 0 <=> v = VT, reading = 1 <=> v = VP,
         v = VT => x = tic.target,
         v = VP => x = tic.pos
  PROVE  PInv'
<1>1. /\ tic' = tic /\ Now' = Now /\ seen' = seen /\ restarted' = restarted
      /\ tic \in Controller /\ Now \in seen /\ Now.tic = tic
      /\ restarted => AtHome(tic)
  BY DEF PInv, Now, None
<1>2. DOMAIN variables' = Variable /\ variables'[v] = x
  BY DEF PInv
<1>3. \A w \in Variable : w # v => variables'[w] = variables[w]
  BY DEF PInv
<1>4. VT \in Variable /\ VP \in Variable /\ VT # VP
  BY Order
<1>5. TargetHolds'
  <2>1. CASE reading = 0
    BY <2>1, <1>1, <1>2 DEF TargetHolds
  <2>2. CASE reading >= 1
    BY <2>2, <1>1, <1>3, <1>4 DEF TargetHolds, PInv
  <2>3. QED
    BY <2>1, <2>2
<1>6. PositionSeen'
  <2>1. CASE reading = 0
    BY <2>1 DEF PositionSeen
  <2>2. CASE reading = 1
    <3>1. variables'[VP] = tic.pos /\ variables'[VT] = variables[VT]
      BY <2>2, <1>2, <1>3, <1>4
    <3>2. variables[VT] = tic.target \/ (restarted /\ tic.target = tic.pos)
      BY <2>2, <1>1 DEF PInv, TargetHolds, AtHome
    <3>3. QED
      BY <3>1, <3>2, <1>1 DEF PositionSeen
  <2>3. CASE reading >= 2
    <3>1. variables'[VP] = variables[VP] /\ variables'[VT] = variables[VT]
      BY <2>3, <1>3, <1>4
    <3>2. QED
      BY <3>1, <2>3, <1>1 DEF PositionSeen, PInv
  <2>4. QED
    BY <2>1, <2>2, <2>3
<1>7. reading' \in None..8
  BY DEF None
<1>8. QED
  BY <1>1, <1>2, <1>5, <1>6, <1>7 DEF PInv

LEMMA ReadVariableKeeps ==
  ASSUME PInv, NEW v \in Variable, ReadVariable(v) PROVE PInv'
<1>1. reading \in 0..7 /\ (reading = 0 <=> v = VT) /\ (reading = 1 <=> v = VP)
  BY Order DEF ReadVariable
<1>2. (v = VT => Answer[v] = tic.target) /\ (v = VP => Answer[v] = tic.pos)
  BY DEF Answer, VT, VP
<1>3. UNCHANGED <<tic, lowVin, stage, seen, restarted>>
  BY DEF ReadVariable, controller, auxiliary
<1>4. reading' = reading + 1 /\ variables' = [variables EXCEPT ![v] = Answer[v]]
  BY DEF ReadVariable
<1>5. QED
  BY <1>1, <1>2, <1>3, <1>4, Onwards

LEMMA ReadFailsKeeps ==
  ASSUME PInv, NEW v \in Variable, ReadFails(v) PROVE PInv'
<1>1. reading \in 0..7 /\ (reading = 0 <=> v = VT) /\ (reading = 1 <=> v = VP)
  BY Order DEF ReadFails
<1>2. v # VT /\ v # VP
  BY DEF ReadFails, Checked, VT, VP
<1>3. UNCHANGED <<tic, lowVin, stage, seen, restarted>> /\ reading' = reading + 1
  BY DEF ReadFails, controller, auxiliary
<1>4. PICK x \in Unread(v) : variables' = [variables EXCEPT ![v] = x]
  BY DEF ReadFails
<1>5. QED
  BY <1>1, <1>2, <1>3, <1>4, Onwards

(* The end of a poll, shown or not.                                        *)
LEMMA PollEndsKeeps == ASSUME PInv, PollEnds, tic' = tic PROVE PInv'
<1>1. DOMAIN variables' = Variable
  BY Order DEF PollEnds
<1>2. tic' \in Controller
  BY DEF PInv
<1>3. QED
  BY <1>1, <1>2, Idle DEF PollEnds

(* The controller changes in the midst of a poll, and what it becomes is   *)
(* noted.  As long as it does not restart it keeps its target; once it did *)
(* it stays where it is.                                                   *)
LEMMA Changed ==
  ASSUME PInv, tic' \in Controller, UNCHANGED <<reading, variables>>,
         seen' = IF reading = None THEN seen ELSE seen \cup {Now'},
         restarted' => reading # None /\ AtHome(tic'),
         restarted => restarted',
         tic'.target = tic.target \/ restarted' \/ reading = None
  PROVE  PInv'
<1>1. seen \subseteq seen' /\ (reading # None => Now' \in seen')
  OBVIOUS
<1>2. TargetHolds'
  <2>1. CASE reading = None
    BY <2>1 DEF TargetHolds, None
  <2>2. CASE reading # None
    BY <2>2 DEF TargetHolds, PInv
  <2>3. QED
    BY <2>1, <2>2
<1>3. PositionSeen'
  BY <1>1 DEF PositionSeen, PInv
<1>4. QED
  BY <1>1, <1>2, <1>3 DEF PInv

LEMMA NotedSeen ==
  ASSUME Noted PROVE seen' = IF reading = None THEN seen ELSE seen \cup {Now'}
BY DEF Noted

LEMMA MotorStepKeeps == ASSUME PInv, MotorStep PROVE PInv'
<1>1. tic \in Controller
  BY DEF PInv
<1>2. tic' \in Controller /\ tic'.target = tic.target
  BY <1>1 DEF MotorStep, Stepped, Controller
<1>3. ~restarted
  BY DEF PInv, AtHome, MotorStep, Moving
<1>4. UNCHANGED <<reading, variables, restarted>> /\ Noted
  BY DEF MotorStep, poll
<1>5. QED
  BY <1>2, <1>3, <1>4, NotedSeen, Changed

(* Its supply fails and returns, it starts up, the ERR line rises.         *)
LEMMA StateKeeps ==
  ASSUME PInv, VinFails \/ VinReturns \/ StartsUp \/ ComesUp \/ ErrLineRises
  PROVE  PInv'
<1>1. tic \in Controller
  BY DEF PInv
<1>2. tic' \in Faulted(tic) \/ tic' = tic
  BY DEF VinFails, VinReturns, StartsUp, ComesUp, ErrLineRises
<1>3. /\ tic' \in Controller /\ tic'.target = tic.target /\ tic'.pos = tic.pos
      /\ tic'.planning \in {tic.planning, "off"}
  BY <1>1, <1>2 DEF Faulted, Controller, PlanningMode
<1>4. UNCHANGED <<reading, variables, restarted>> /\ Noted
  BY DEF VinFails, VinReturns, StartsUp, ComesUp, ErrLineRises, poll
<1>5. restarted => reading # None /\ AtHome(tic')
  BY <1>3 DEF PInv, AtHome
<1>6. QED
  BY <1>3, <1>4, <1>5, NotedSeen, Changed

LEMMA PowerCycleKeeps == ASSUME PInv, PowerCycle PROVE PInv'
<1>1. tic' \in Controller /\ AtHome(tic')
  BY DEF PowerCycle, PoweredOn, Controller, PlanningMode, AtHome
<1>2. UNCHANGED <<reading, variables>> /\ Noted /\ restarted' = (reading # None)
  BY DEF PowerCycle, poll
<1>3. restarted => restarted'
  BY <1>2 DEF PInv
<1>4. QED
  BY <1>1, <1>2, <1>3, NotedSeen, Changed

LEMMA CommandKeeps == ASSUME PInv, Command, MaxPos \in Nat PROVE PInv'
<1>1. tic \in Controller
  BY DEF PInv
<1>2. tic' \in Controller
  <2>1. CASE \E p \in 0..MaxPos : tic' \in Targeted(tic, p) \cup HaltedAt(tic, p)
    <3>1. PICK p \in 0..MaxPos : tic' \in Targeted(tic, p) \cup HaltedAt(tic, p)
      BY <2>1
    <3>2. p \in Int
      OBVIOUS
    <3>3. QED
      BY <1>1, <3>1, <3>2 DEF Targeted, HaltedAt, Controller, PlanningMode
  <2>2. CASE tic' \in Halted(tic)
    BY <1>1, <2>2 DEF Halted, Controller, PlanningMode
  <2>3. CASE tic' \in Energized(tic) \cup Deenergized(tic) \cup SafeStartExited(tic)
    BY <1>1, <2>3 DEF Energized, Deenergized, SafeStartExited, Controller
  <2>4. QED
    BY <2>1, <2>2, <2>3 DEF Command
<1>3. reading' = None /\ variables' = variables /\ restarted' = restarted
  BY DEF Command, poll, auxiliary
<1>4. QED
  BY <1>2, <1>3, Idle DEF PInv, Command

THEOREM PollsKept == Spec => []PInv
<1>1. Init => PInv
  BY PollStarts
<1>2. PInv /\ [Next]_vars => PInv'
  <2> SUFFICES ASSUME PInv, [Next]_vars PROVE PInv'
    OBVIOUS
  <2>1. CASE PollBegins
    BY <2>1, PollBeginsKeeps
  <2>2. ASSUME NEW v \in Variable, ReadVariable(v) \/ ReadFails(v)
        PROVE  PInv'
    BY <2>2, ReadVariableKeeps, ReadFailsKeeps
  <2>3. CASE Show \/ \E v \in Variable : PollFails(v)
    BY <2>3, PollEndsKeeps DEF Show, PollFails, controller
  <2>4. CASE MotorStep
    BY <2>4, MotorStepKeeps
  <2>5. CASE VinFails \/ VinReturns \/ StartsUp \/ ComesUp \/ ErrLineRises
    BY <2>5, StateKeeps
  <2>6. CASE PowerCycle
    BY <2>6, PowerCycleKeeps
  <2>7. CASE Command
    BY <2>7, CommandKeeps, ReadingsAssumption
  <2>8. CASE UNCHANGED vars
    BY <2>8 DEF vars, controller, poll, auxiliary, PInv, TargetHolds, PositionSeen, Now
  <2>9. QED
    BY <2>1, <2>2, <2>3, <2>4, <2>5, <2>6, <2>7, <2>8 DEF Next
<1>3. QED
  BY <1>1, <1>2, PTL DEF Spec

(* What Show puts on display is of a controller that was seen.             *)
LEMMA Shown ==
  ASSUME PInv, Show
  PROVE  \E s \in seen : /\ absPos' = s.tic.pos
                         /\ arrived' => s.tic.pos = s.tic.target
                         /\ ~restarted => arrived' = (s.tic.pos = s.tic.target)
<1>1. reading = 8
  BY Order DEF Show
<1>2. PICK s \in seen : /\ s.tic.pos = variables[VP]
                        /\ \/ s.tic.target = variables[VT]
                           \/ restarted /\ s.tic.target = s.tic.pos
  BY <1>1 DEF PInv, PositionSeen
<1>3. absPos' = variables[VP] /\ arrived' = (variables[VP] = variables[VT])
  BY DEF Show, VP, VT
<1>4. QED
  BY <1>2, <1>3

(* Whatever happens during a poll short of a restart, the position and the *)
(* arrival that TimerHit shows are those of one moment of it.              *)
THEOREM OneMoment == Spec => PositionsOfOneMoment
<1>1. PInv /\ [Next]_vars
        => [Show /\ ~restarted
              => \E s \in seen : /\ absPos' = s.tic.pos
                                 /\ arrived' = (s.tic.pos = s.tic.target)]_vars
  BY Shown
<1>2. QED
  BY <1>1, PollsKept, PTL DEF Spec, PositionsOfOneMoment

(* No poll takes the motor for arrived unless it was at its target in the  *)
(* midst of it, restarts included.                                         *)
THEOREM ArrivalsSeen == Spec => ArrivalSeen
<1>1. PInv /\ [Next]_vars
        => [Show /\ arrived' => \E s \in seen : s.tic.pos = s.tic.target]_vars
  BY Shown
<1>2. QED
  BY <1>1, PollsKept, PTL DEF Spec, ArrivalSeen

=============================================================================
