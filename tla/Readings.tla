------------------------------ MODULE Readings -------------------------------
(***************************************************************************)
(* One poll seen from near: getVariables, and what TimerHit shows of it.   *)
(*                                                                         *)
(* libtic fetches all variables at once (PololuUsbInterface).  ticlib reads*)
(* them one after the other (TiclibInterface), looks at the error of the   *)
(* first two only, and all the while the motor runs, errors come and go,   *)
(* and the controller may lose its power and start up again.  A read that  *)
(* fails leaves zeros over a serial line and whatever was in its buffer    *)
(* over USB.                                                               *)
(*                                                                         *)
(* seen, restarted, failed and changes are auxiliary: the properties and   *)
(* the bounds MaxChanges and MaxFailed are about them, the code is not.    *)
(***************************************************************************)
EXTENDS Tic, TicNames, TicCurrent, FiniteSets

CONSTANTS
  MaxPos,      \* the end of the travel
  Settings,    \* what controllers may be set to, [product, stepMode, limit]
  MaxChanges,  \* bound on what happens to the controller during one poll
  MaxFailed    \* bound on the reads of one poll that fail unnoticed

ASSUME ReadingsAssumption ==
  /\ MaxPos \in Nat
  /\ Settings \subseteq
       [product : TicProduct \ {"Unknown"}, stepMode : 0..9, limit : 0..127]
  /\ MaxChanges \in Nat /\ MaxFailed \in Nat

VARIABLES
  library,    \* what getVariables goes through
  settings,   \* of the controller
  tic,        \* the controller
  lowVin,     \* its supply is too low
  stage,      \* whether it is up and running
  reading,    \* how many variables the poll has, -1 if there is none
  variables,  \* TicVariables: what the poll has read
  failed,     \* the variables whose read failed
  seen,       \* the states of the controller since the poll began
  restarted,  \* it lost its power since then
  changes,    \* how often it changed since then
  absPos,     \* FocusAbsPosNP
  arrived,    \* the last poll found the motor at its target
  infoTab     \* InfoSP and InfoErrorSP

controller == <<settings, tic, lowVin, stage>>
poll       == <<reading, variables, failed>>
auxiliary  == <<seen, restarted, changes>>
display    == <<absPos, arrived, infoTab>>
vars       == <<library, controller, poll, auxiliary, display>>

Library == {"libtic", "TicUsb", "TicSerial"}

None == -1

(* A controller has just been powered, is starting up, is up, or waits for *)
(* others to release the ERR line.  It may start up again at any time.     *)
Stage == {"reset", "starting", "up", "waiting"}

-----------------------------------------------------------------------------
(* What a controller says of itself when asked.                            *)

(* The errors that are stopping the motor.                                 *)
ErrorStatus(t, low, stg) ==
  (IF t.energized THEN {} ELSE {TicError.IntentionallyDeenergized})
    \cup (IF t.safeStart THEN {TicError.SafeStartViolation} ELSE {})
    \cup (IF low THEN {TicError.LowVin} ELSE {})
    \cup (IF stg = "waiting" THEN {TicError.ErrLineHigh} ELSE {})

(* Not Normal: "There is an error, or the Tic is starting up."             *)
OperationState(t, low, stg) ==
  LET errors == ErrorStatus(t, low, stg) IN
  IF stg = "reset" THEN TicOperationState.Reset
  ELSE IF ~t.energized THEN TicOperationState.Deenergized
  ELSE IF errors = {TicError.ErrLineHigh} THEN TicOperationState.WaitingForErrLine
  ELSE IF errors # {} THEN TicOperationState.SoftError
  ELSE IF stg = "starting" THEN TicOperationState.StartingUp
  ELSE TicOperationState.Normal

(* The variables in the order in which TiclibInterface reads them.         *)
ReadOrder == <<"targetPosition", "currentPosition", "vinVoltage", "currentLimit",
               "energized", "stepMode", "operationState", "errorStatus">>

Variable == {ReadOrder[i] : i \in DOMAIN ReadOrder}

Answer ==
  [targetPosition  |-> tic.target,
   currentPosition |-> tic.pos,
   vinVoltage      |-> IF lowVin THEN 4000 ELSE 12000,
   currentLimit    |-> settings.limit,
   energized       |-> tic.energized,
   stepMode        |-> settings.stepMode,
   operationState  |-> OperationState(tic, lowVin, stage),
   errorStatus     |-> ErrorStatus(tic, lowVin, stage)]

(* The variables that a buffer of zeros makes.                             *)
Zeros ==
  [targetPosition |-> 0, currentPosition |-> 0, vinVoltage |-> 0,
   currentLimit |-> 0, energized |-> FALSE, stepMode |-> 0,
   operationState |-> 0, errorStatus |-> {}]

(* MUTANT of Ones: the error status is taken to be as wide as the errors.  *)
OnesWide ==
  [targetPosition |-> -1, currentPosition |-> -1, vinVoltage |-> 65535,
   currentLimit |-> 255, energized |-> TRUE, stepMode |-> 255,
   operationState |-> 255, errorStatus |-> 0..31]

(* Those that a buffer makes in which every bit is set.                    *)
Ones ==
  [targetPosition |-> -1, currentPosition |-> -1, vinVoltage |-> 65535,
   currentLimit |-> 255, energized |-> TRUE, stepMode |-> 255,
   operationState |-> 255, errorStatus |-> 0..15]

(* What a read that failed returns.                                        *)
Unread(v) == IF library = "TicSerial" THEN {Zeros[v]} ELSE {Zeros[v], Ones[v]}

(* MUTANT of Checked: the second call of getLastError speaks for both.     *)
CheckedLast == {"currentPosition"}

(* MUTANT of Checked: the second call of getLastError is not made.         *)
CheckedFirst == {"targetPosition"}

(* The variables whose errors are looked at.                               *)
Checked == {"targetPosition", "currentPosition"}

-----------------------------------------------------------------------------
(* What TimerHit shows of the variables.                                   *)

(* MUTANT of ErrorLines: the status is compared and not masked.            *)
ErrorLinesEqual(status) ==
  {tic_error_names_ui[i][1] :
     i \in {j \in DOMAIN tic_error_names_ui : status = {tic_error_names_ui[j][2]}}}

(* The lines of the error tab that read "Error".                           *)
ErrorLines(status) ==
  {tic_error_names_ui[i][1] :
     i \in {j \in DOMAIN tic_error_names_ui : tic_error_names_ui[j][2] \in status}}

(* libtic knows the product, TicBase was never told it.                    *)
Milliamps(code) ==
  getCurrentLimit(IF library = "libtic" THEN settings.product ELSE "Unknown", code)

(* MUTANT of Displayed: the wrong variable is looked up.                   *)
DisplayedStepModeForState(v) ==
  [vinVoltage     |-> v.vinVoltage,
   currentLimit   |-> Milliamps(v.currentLimit),
   energized      |-> IF v.energized THEN "Yes" ELSE "No",
   stepMode       |-> tic_look_up_step_mode_name_ui(v.stepMode),
   operationState |-> tic_look_up_operation_state_name_ui(v.stepMode),
   errors         |-> ErrorLines(v.errorStatus)]

Displayed(v) ==
  [vinVoltage     |-> v.vinVoltage,
   currentLimit   |-> Milliamps(v.currentLimit),
   energized      |-> IF v.energized THEN "Yes" ELSE "No",
   stepMode       |-> tic_look_up_step_mode_name_ui(v.stepMode),
   operationState |-> tic_look_up_operation_state_name_ui(v.operationState),
   errors         |-> ErrorLines(v.errorStatus)]

-----------------------------------------------------------------------------
Init ==
  /\ library \in Library
  /\ settings \in Settings
  /\ tic = PoweredOn(0) /\ lowVin = FALSE /\ stage \in Stage
  /\ reading = None /\ variables = Zeros /\ failed = {}
  /\ seen = {} /\ restarted = FALSE /\ changes = 0
  /\ absPos = 0 /\ arrived = FALSE
  /\ infoTab = [vinVoltage |-> 0, currentLimit |-> 0, energized |-> "",
                stepMode |-> "", operationState |-> "", errors |-> {}]

Now == [tic |-> tic, lowVin |-> lowVin, stage |-> stage]

(* The poll is over.                                                       *)
PollEnds ==
  /\ reading' = None /\ variables' = Zeros /\ failed' = {}
  /\ seen' = {} /\ restarted' = FALSE /\ changes' = 0

(* MUTANT of PollBegins: libtic is asked for one variable after the other. *)
PollBeginsOneByOne ==
  /\ reading = None
  /\ reading' = 0
  /\ variables' = Zeros
  /\ seen' = {Now}
  /\ UNCHANGED <<library, controller, failed, restarted, changes, display>>

(* TimerHit asks for the variables.  Over ticlib the reads are to come,    *)
(* over libtic all variables come at once, or none and nothing is shown.   *)
PollBegins ==
  /\ reading = None
  /\ reading' = IF library = "libtic" THEN Len(ReadOrder) ELSE 0
  /\ variables' = IF library = "libtic" THEN Answer ELSE Zeros
  /\ seen' = {Now}
  /\ UNCHANGED <<library, controller, failed, restarted, changes, display>>

ToRead(v) == reading \in 0..Len(ReadOrder) - 1 /\ v = ReadOrder[reading + 1]

(* A read of TiclibInterface succeeds.                                     *)
ReadVariable(v) ==
  /\ ToRead(v)
  /\ variables' = [variables EXCEPT ![v] = Answer[v]]
  /\ reading' = reading + 1
  /\ UNCHANGED <<library, controller, failed, auxiliary, display>>

(* It fails and nobody looks.                                              *)
ReadFails(v) ==
  /\ ToRead(v) /\ v \notin Checked /\ Cardinality(failed) < MaxFailed
  /\ \E x \in Unread(v) : variables' = [variables EXCEPT ![v] = x]
  /\ failed' = failed \cup {v}
  /\ reading' = reading + 1
  /\ UNCHANGED <<library, controller, auxiliary, display>>

(* It fails and getVariables says so: TimerHit shows nothing new.          *)
PollFails(v) ==
  /\ ToRead(v) /\ v \in Checked
  /\ PollEnds
  /\ UNCHANGED <<library, controller, display>>

(* getVariables returned TRUE: the position is shown and compared with the *)
(* target, and the info tab is filled.                                     *)
Show ==
  /\ reading = Len(ReadOrder)
  /\ absPos' = variables.currentPosition
  /\ arrived' = (variables.currentPosition = variables.targetPosition)
  /\ infoTab' = Displayed(variables)
  /\ PollEnds
  /\ UNCHANGED <<library, controller>>

-----------------------------------------------------------------------------
(* The controller.  What happens to it during a poll is noted.             *)
Noted ==
  IF reading = None THEN UNCHANGED <<seen, changes>>
  ELSE /\ changes < MaxChanges
       /\ changes' = changes + 1
       /\ seen' = seen \cup {Now'}

MotorStep ==
  /\ Moving(tic) /\ ~lowVin /\ stage = "up"
  /\ tic' = Stepped(tic)
  /\ UNCHANGED <<library, settings, lowVin, stage, poll, restarted, display>>
  /\ Noted

VinFails ==
  /\ ~lowVin /\ lowVin' = TRUE
  /\ tic' \in Faulted(tic)
  /\ UNCHANGED <<library, settings, stage, poll, restarted, display>>
  /\ Noted

VinReturns ==
  /\ lowVin /\ lowVin' = FALSE
  /\ UNCHANGED <<library, settings, tic, stage, poll, restarted, display>>
  /\ Noted

(* The controller starts up, after a reset, an error or the ERR line.      *)
StartsUp ==
  /\ stage # "starting" /\ stage' = "starting"
  /\ UNCHANGED <<library, settings, tic, lowVin, poll, restarted, display>>
  /\ Noted

ComesUp ==
  /\ stage = "starting" /\ stage' = "up"
  /\ UNCHANGED <<library, settings, tic, lowVin, poll, restarted, display>>
  /\ Noted

ErrLineRises ==
  /\ stage \in {"starting", "up"} /\ stage' = "waiting"
  /\ tic' \in Faulted(tic)
  /\ UNCHANGED <<library, settings, lowVin, poll, restarted, display>>
  /\ Noted

PowerCycle ==
  /\ tic' = PoweredOn(0) /\ lowVin' = FALSE /\ stage' = "reset"
  /\ restarted' = (reading # None)
  /\ UNCHANGED <<library, settings, poll, display>>
  /\ Noted

(* The driver has one thread: a command comes between two polls.           *)
Command ==
  /\ reading = None
  /\ \/ \E p \in 0..MaxPos : tic' \in Targeted(tic, p) \cup HaltedAt(tic, p)
     \/ tic' \in Halted(tic)
     \/ tic' \in Energized(tic) \cup Deenergized(tic) \cup SafeStartExited(tic)
  /\ UNCHANGED <<library, settings, lowVin, stage, poll, auxiliary, display>>

Next ==
  \/ PollBegins
  \/ \E v \in Variable : ReadVariable(v) \/ ReadFails(v) \/ PollFails(v)
  \/ Show
  \/ MotorStep \/ VinFails \/ VinReturns
  \/ StartsUp \/ ComesUp \/ ErrLineRises \/ PowerCycle
  \/ Command

Spec == Init /\ [][Next]_vars

-----------------------------------------------------------------------------
(* Every variable has its type.  A number that is read may be anything.    *)
TypeOK ==
  /\ library \in Library
  /\ settings \in Settings
  /\ tic \in Controller /\ lowVin \in BOOLEAN /\ stage \in Stage
  /\ reading \in None..Len(ReadOrder)
  /\ \A v \in Variable :
       variables[v] \in CASE v = "energized"   -> BOOLEAN
                          [] v = "errorStatus" -> SUBSET (0..15)
                          [] OTHER             -> Int
  /\ failed \subseteq Variable
  /\ restarted \in BOOLEAN /\ changes \in 0..MaxChanges
  /\ absPos \in Int /\ arrived \in BOOLEAN

(* Although the target and the position come from two reads, what is shown *)
(* of them is what one look at the controller would have shown, the motor  *)
(* running or not, unless the controller lost its power between the two.   *)
(* This is what lets TicFocuser take a poll for one step.                  *)
PositionsOfOneMoment ==
  [][Show /\ ~restarted
       => \E s \in seen : /\ absPos' = s.tic.pos
                          /\ arrived' = (s.tic.pos = s.tic.target)]_vars

(* And even then no poll finds a motor at its target that was never there  *)
(* while the poll lasted: a failed read of either is not taken for a place *)
(* (getVariables of TiclibInterface, TimerHit).                            *)
ArrivalSeen ==
  [][Show /\ arrived' => \E s \in seen : s.tic.pos = s.tic.target]_vars

(* The variables that the info tab has lines for, and the names a user     *)
(* knows the step modes by, in the order of their codes.                   *)
Lines == Variable \ {"targetPosition", "currentPosition"}

StepModes ==
  <<"Full step", "1/2 step", "1/4 step", "1/8 step", "1/16 step", "1/32 step",
    "1/2 step 100%", "1/64 step", "1/128 step", "1/256 step">>

(* A line of the info tab tells what the controller was in during the poll,*)
(* in the words a user knows it by.  Over TicSerial a line that could not  *)
(* be read is blank: "Set the buffer bytes to 0 so the program will not use*)
(* an uninitialized variable" (TicBase.cpp:153).  Over USB such a line may *)
(* say anything, as nobody looks at the error.  The limit is right for the *)
(* products that TicBase takes for granted.                                *)
Tells(v, s) ==
  LET free == Ready(s.tic) /\ ~s.lowVin IN
  CASE v = "energized" ->
         infoTab'.energized = IF s.tic.energized THEN "Yes" ELSE "No"
    [] v = "stepMode" ->
         infoTab'.stepMode = StepModes[settings.stepMode + 1]
    [] v = "operationState" ->
         /\ infoTab'.operationState = "Normal" <=> free /\ s.stage = "up"
         /\ infoTab'.operationState = "Starting up" <=> free /\ s.stage = "starting"
         /\ infoTab'.operationState = "Waiting for ERR line" <=> free /\ s.stage = "waiting"
         /\ infoTab'.operationState = "Reset" <=> s.stage = "reset"
         /\ infoTab'.operationState = "De-energized" <=>
              ~s.tic.energized /\ s.stage # "reset"
    [] v = "errorStatus" ->
         /\ "Intentionally de-energized" \in infoTab'.errors <=> ~s.tic.energized
         /\ "Safe start violation" \in infoTab'.errors <=> s.tic.safeStart
         /\ "Low VIN" \in infoTab'.errors <=> s.lowVin
         /\ "ERR line high" \in infoTab'.errors <=> s.stage = "waiting"
         /\ Cardinality(infoTab'.errors) <= 4
    [] v = "vinVoltage" ->
         infoTab'.vinVoltage < 5000 <=> s.lowVin
    [] v = "currentLimit" ->
         library = "libtic" \/ settings.product \in {"T825", "T834"} =>
           infoTab'.currentLimit = getCurrentLimit(settings.product, settings.limit)

Blank(v) ==
  CASE v = "energized"      -> infoTab'.energized = "No"
    [] v = "stepMode"       -> infoTab'.stepMode = "Full step"
    [] v = "operationState" -> infoTab'.operationState = "Reset"
    [] v = "errorStatus"    -> infoTab'.errors = {}
    [] v = "vinVoltage"     -> infoTab'.vinVoltage = 0
    [] v = "currentLimit"   -> infoTab'.currentLimit = 0

TabTruthful ==
  [][Show => \A v \in Lines :
               IF v \notin failed THEN \E s \in seen : Tells(v, s)
               ELSE library = "TicSerial" => Blank(v)]_vars

(* Over libtic everything that a poll shows is of one and the same moment  *)
(* of it, so that the position, the state and the error lines agree with   *)
(* each other as the controller's own do, whatever happens to it before    *)
(* they are shown, a restart included (getVariables of PololuUsbInterface).*)
ShownAtOnce ==
  [][Show /\ library = "libtic"
       => \E s \in seen : /\ absPos' = s.tic.pos
                          /\ arrived' = (s.tic.pos = s.tic.target)
                          /\ \A v \in Lines : Tells(v, s)]_vars

=============================================================================
