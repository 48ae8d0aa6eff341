-------------------------- MODULE ReadingsTabProofs ---------------------------
(***************************************************************************)
(* The info tab can be trusted line by line, and over libtic as a whole,   *)
(* for all settings of a controller and however often it changes during a  *)
(* poll.                                                                   *)
(***************************************************************************)
EXTENDS ReadingsProofs, FiniteSetTheorems

-----------------------------------------------------------------------------
(* Types.                                                                  *)

VariableType(v) ==
  CASE v = "energized"   -> BOOLEAN
    [] v = "errorStatus" -> SUBSET (0..15)
    [] OTHER             -> Int

LEMMA Variables ==
  /\ Len(ReadOrder) = 8
  /\ Variable = {"targetPosition", "currentPosition", "vinVoltage", "currentLimit",
                 "energized", "stepMode", "operationState", "errorStatus"}
  /\ DOMAIN Zeros = Variable /\ DOMAIN Ones = Variable
  /\ DOMAIN Answer = Variable
<1>1. Variable = {"targetPosition", "currentPosition", "vinVoltage", "currentLimit",
                  "energized", "stepMode", "operationState", "errorStatus"}
  BY DEF Variable, ReadOrder
<1>. QED
  BY <1>1, Order DEF Zeros, Ones, Answer

(* The errors that a controller reports, and its state, which is Normal    *)
(* when there are none and it is up.                                       *)
LEMMA Statuses ==
  ASSUME NEW t \in Controller, NEW low \in BOOLEAN, NEW stg \in Stage
  PROVE  /\ ErrorStatus(t, low, stg) \subseteq {0, 2, 7, 8}
         /\ 0 \in ErrorStatus(t, low, stg) <=> ~t.energized
         /\ 2 \in ErrorStatus(t, low, stg) <=> low
         /\ 7 \in ErrorStatus(t, low, stg) <=> t.safeStart
         /\ 8 \in ErrorStatus(t, low, stg) <=> stg = "waiting"
         /\ OperationState(t, low, stg) \in {0, 2, 4, 6, 8, 10}
         /\ OperationState(t, low, stg) = 0 <=> stg = "reset"
         /\ OperationState(t, low, stg) = 2 <=> ~t.energized /\ stg # "reset"
         /\ OperationState(t, low, stg) = 6 <=> Ready(t) /\ ~low /\ stg = "waiting"
         /\ OperationState(t, low, stg) = 8 <=> Ready(t) /\ ~low /\ stg = "starting"
         /\ OperationState(t, low, stg) = 10 <=> Ready(t) /\ ~low /\ stg = "up"
<1> DEFINE E == ErrorStatus(t, low, stg)
<1>1. TicError.IntentionallyDeenergized = 0 /\ TicError.LowVin = 2
      /\ TicError.SafeStartViolation = 7 /\ TicError.ErrLineHigh = 8
  BY DEF TicError
<1>2. /\ TicOperationState.Reset = 0 /\ TicOperationState.Deenergized = 2
      /\ TicOperationState.SoftError = 4 /\ TicOperationState.WaitingForErrLine = 6
      /\ TicOperationState.StartingUp = 8 /\ TicOperationState.Normal = 10
  BY DEF TicOperationState
<1>3. E = (IF t.energized THEN {} ELSE {0}) \cup (IF t.safeStart THEN {7} ELSE {})
            \cup (IF low THEN {2} ELSE {}) \cup (IF stg = "waiting" THEN {8} ELSE {})
  BY <1>1 DEF ErrorStatus
<1>4. /\ E \subseteq {0, 2, 7, 8}
      /\ 0 \in E <=> ~t.energized
      /\ 2 \in E <=> low
      /\ 7 \in E <=> t.safeStart
      /\ 8 \in E <=> stg = "waiting"
  BY <1>3
<1>5. /\ E = {} <=> Ready(t) /\ ~low /\ stg # "waiting"
      /\ t.energized => (E = {8} <=> Ready(t) /\ ~low /\ stg = "waiting")
  BY <1>4 DEF Ready
<1>6. OperationState(t, low, stg) =
        IF stg = "reset" THEN 0 ELSE IF ~t.energized THEN 2 ELSE IF E = {8} THEN 6
        ELSE IF E # {} THEN 4 ELSE IF stg = "starting" THEN 8 ELSE 10
  BY <1>1, <1>2 DEF OperationState
<1> HIDE DEF E
<1>7. /\ OperationState(t, low, stg) \in {0, 2, 4, 6, 8, 10}
      /\ OperationState(t, low, stg) = 0 <=> stg = "reset"
      /\ OperationState(t, low, stg) = 2 <=> ~t.energized /\ stg # "reset"
      /\ OperationState(t, low, stg) = 6 <=> Ready(t) /\ ~low /\ stg = "waiting"
      /\ OperationState(t, low, stg) = 8 <=> Ready(t) /\ ~low /\ stg = "starting"
      /\ OperationState(t, low, stg) = 10 <=> Ready(t) /\ ~low /\ stg = "up"
  BY <1>5, <1>6 DEF Ready, Stage
<1>. QED
  BY <1>4, <1>7 DEF E

LEMMA Typed ==
  ASSUME tic \in Controller, lowVin \in BOOLEAN, stage \in Stage, settings \in Settings,
         NEW v \in Variable
  PROVE  /\ Answer[v] \in VariableType(v)
         /\ Zeros[v] \in VariableType(v)
         /\ Ones[v] \in VariableType(v)
<1>1. /\ settings.limit \in Int /\ settings.stepMode \in Int
      /\ tic.target \in Int /\ tic.pos \in Int /\ tic.energized \in BOOLEAN
  BY ReadingsAssumption DEF Controller
<1>2. OperationState(tic, lowVin, stage) \in Int /\ ErrorStatus(tic, lowVin, stage) \in SUBSET (0..15)
  BY Statuses
<1>3. CASE v = "energized"
  BY <1>1, <1>3 DEF Answer, Zeros, Ones, VariableType
<1>4. CASE v = "errorStatus"
  BY <1>2, <1>4 DEF Answer, Zeros, Ones, VariableType
<1>5. CASE v \notin {"energized", "errorStatus"}
  <2>1. VariableType(v) = Int
    BY <1>5 DEF VariableType
  <2>2. v \in {"targetPosition", "currentPosition", "vinVoltage", "currentLimit",
               "stepMode", "operationState"}
    BY <1>5, Variables
  <2>3. Answer[v] \in Int
    BY <1>1, <1>2, <2>2 DEF Answer
  <2>4. Zeros[v] \in Int /\ Ones[v] \in Int
    BY <2>2 DEF Zeros, Ones
  <2>. QED
    BY <2>1, <2>3, <2>4
<1>. QED
  BY <1>3, <1>4, <1>5

LEMMA Types ==
  ASSUME TypeOK
  PROVE  /\ settings \in Settings /\ lowVin \in BOOLEAN /\ stage \in Stage
         /\ \A v \in Variable : variables[v] \in VariableType(v)
BY DEF TypeOK, VariableType

LEMMA TypeStarts == Init => TypeOK
<1> SUFFICES ASSUME Init PROVE TypeOK
  OBVIOUS
<1>1. tic \in Controller /\ lowVin \in BOOLEAN /\ stage \in Stage /\ settings \in Settings
  BY PollStarts DEF Init, PInv
<1>2. \A v \in Variable : variables[v] \in VariableType(v)
  <2>1. variables = Zeros
    BY DEF Init
  <2>. QED
    BY <1>1, <2>1, Typed
<1>3. reading \in None..Len(ReadOrder) /\ changes \in 0..MaxChanges
  <2>1. reading = -1 /\ None = -1 /\ changes = 0
    BY DEF Init, None
  <2>. QED
    BY <2>1, ReadingsAssumption, Variables
<1>4. library \in Library /\ failed \subseteq Variable /\ absPos \in Int
  <2>1. library \in Library /\ failed = {} /\ absPos = 0
    BY DEF Init
  <2>. QED
    BY <2>1
<1>5. restarted \in BOOLEAN /\ arrived \in BOOLEAN
  BY Zenon DEF Init
<1>. QED
  BY <1>1, <1>2, <1>3, <1>4, <1>5, Zenon DEF TypeOK, VariableType

LEMMA TypeStep ==
  ASSUME PInv, PInv', TypeOK, [Next]_vars PROVE TypeOK'
<1>1. /\ library' = library /\ settings' = settings /\ lowVin' \in BOOLEAN /\ stage' \in Stage
  BY DEF TypeOK, Next, PollBegins, ReadVariable, ReadFails, PollFails, Show, MotorStep,
         VinFails, VinReturns, StartsUp, ComesUp, ErrLineRises, PowerCycle, Command, vars,
         controller, Stage
<1>2. /\ tic \in Controller /\ tic' \in Controller /\ reading' \in None..8
      /\ settings \in Settings /\ lowVin \in BOOLEAN /\ stage \in Stage /\ MaxChanges \in Nat
  BY ReadingsAssumption, Types DEF PInv
<1>3. \A v \in Variable : variables[v] \in VariableType(v)
  BY Types
<1> DEFINE Goal == /\ \A v \in Variable : variables'[v] \in VariableType(v)
                   /\ failed' \subseteq Variable
                   /\ restarted' \in BOOLEAN /\ changes' \in 0..MaxChanges
                   /\ absPos' \in Int /\ arrived' \in BOOLEAN
<1>4. Goal
  <2>1. CASE PollBegins
    BY <1>2, <1>3, <2>1, Typed DEF PollBegins, display, TypeOK
  <2>2. ASSUME NEW v \in Variable, ReadVariable(v) \/ ReadFails(v) PROVE Goal
    <3>1. PICK x \in VariableType(v) : variables' = [variables EXCEPT ![v] = x]
      BY <1>2, <2>2, Typed DEF ReadVariable, ReadFails, Unread, TypeOK
    <3>2. DOMAIN variables = Variable
      BY DEF PInv
    <3>3. \A w \in Variable : variables'[w] \in VariableType(w)
      BY <1>3, <3>1, <3>2
    <3>. QED
      BY <2>2, <3>3 DEF ReadVariable, ReadFails, auxiliary, display, TypeOK
  <2>3. CASE Show \/ \E v \in Variable : PollFails(v)
    <3>1. PollEnds
      BY <2>3 DEF Show, PollFails
    <3>2. \A v \in Variable : variables'[v] \in VariableType(v)
      <4>1. variables' = Zeros
        BY <3>1 DEF PollEnds
      <4>. QED
        BY <1>2, <4>1, Typed
    <3>3. variables.currentPosition \in Int
      BY <1>3, Variables DEF VariableType
    <3>4. absPos' \in Int /\ arrived' \in BOOLEAN
      BY <2>3, <3>3 DEF Show, PollFails, display, TypeOK
    <3>. QED
      <4>1. failed' = {} /\ restarted' = FALSE /\ changes' = 0
        BY <3>1 DEF PollEnds
      <4>2. changes' \in 0..MaxChanges
        BY <1>2, <4>1
      <4>. QED
        BY <3>2, <3>4, <4>1, <4>2
  <2>4. CASE \/ MotorStep \/ VinFails \/ VinReturns
              \/ StartsUp \/ ComesUp \/ ErrLineRises \/ PowerCycle
    <3>1. Noted /\ UNCHANGED <<variables, failed, absPos, arrived>>
          /\ restarted' \in {restarted, reading # None}
      BY <2>4 DEF MotorStep, VinFails, VinReturns, StartsUp, ComesUp, ErrLineRises,
               PowerCycle, poll, display
    <3>2. changes' \in 0..MaxChanges
      BY <1>2, <3>1 DEF Noted, TypeOK
    <3>. QED
      BY <1>3, <3>1, <3>2 DEF TypeOK
  <2>5. CASE Command \/ UNCHANGED vars
    BY <1>3, <2>5 DEF Command, vars, poll, auxiliary, display, TypeOK
  <2>. QED
    BY <2>1, <2>2, <2>3, <2>4, <2>5 DEF Next
<1>. QED
  BY <1>1, <1>2, <1>4, Variables DEF TypeOK, VariableType

(* Whatever the controller answers and whatever a failed read leaves, every*)
(* variable has its type: the error status stays within the 16 bits that   *)
(* are read, and the poll within its reads.                                *)
THEOREM TypesKept == Spec => []TypeOK
<1>1. PInv /\ PInv' /\ TypeOK /\ [Next]_vars => TypeOK'
  BY TypeStep
<1>. QED
  BY <1>1, TypeStarts, PollsKept, PTL DEF Spec

-----------------------------------------------------------------------------
(* The texts of the tab.                                                   *)

LEMMA FirstRow ==
  ASSUME NEW table, NEW n \in Nat, DOMAIN table = 1..n, NEW code,
         NEW k \in 1..n, table[k][2] = code,
         \A j \in 1..n : table[j][2] = code => j = k
  PROVE  tic_code_to_name(table, code) = table[k][1]
<1> DEFINE P(i) == i \in DOMAIN table /\ table[i][2] = code
                   /\ \A j \in 1..i - 1 : ~(table[j][2] = code)
<1>1. P(k)
  OBVIOUS
<1>2. \A i : P(i) => i = k
  OBVIOUS
<1>3. (CHOOSE i : P(i)) = k
  BY <1>1, <1>2, Zenon
<1>. QED
  BY <1>3 DEF tic_code_to_name

LEMMA StateNames ==
  /\ tic_look_up_operation_state_name_ui(0) = "Reset"
  /\ tic_look_up_operation_state_name_ui(2) = "De-energized"
  /\ tic_look_up_operation_state_name_ui(4) = "Soft error"
  /\ tic_look_up_operation_state_name_ui(6) = "Waiting for ERR line"
  /\ tic_look_up_operation_state_name_ui(8) = "Starting up"
  /\ tic_look_up_operation_state_name_ui(10) = "Normal"
<1> DEFINE T == tic_operation_state_names_ui
<1>1. DOMAIN T = 1..6 /\ \A k \in 1..6 : T[k][2] = 2 * (k - 1)
  <2>1. /\ DOMAIN T = 1..6
        /\ T[1][2] = 0 /\ T[2][2] = 2 /\ T[3][2] = 4 /\ T[4][2] = 6
        /\ T[5][2] = 8 /\ T[6][2] = 10
    BY DEF tic_operation_state_names_ui, TicOperationState
  <2> HIDE DEF T
  <2>. QED
    BY <2>1
<1>2. /\ T[1][1] = "Reset" /\ T[2][1] = "De-energized" /\ T[3][1] = "Soft error"
      /\ T[4][1] = "Waiting for ERR line" /\ T[5][1] = "Starting up" /\ T[6][1] = "Normal"
  BY DEF tic_operation_state_names_ui
<1> HIDE DEF T
<1>3. ASSUME NEW k \in 1..6, NEW c, c = 2 * (k - 1)
      PROVE  tic_code_to_name(T, c) = T[k][1]
  <2>1. T[k][2] = c /\ \A j \in 1..6 : T[j][2] = c => j = k
    BY <1>1, <1>3
  <2>2. 6 \in Nat
    OBVIOUS
  <2>. QED
    BY <1>1, <2>1, <2>2, FirstRow, Zenon
<1>4. /\ tic_code_to_name(T, 0) = T[1][1] /\ tic_code_to_name(T, 2) = T[2][1]
      /\ tic_code_to_name(T, 4) = T[3][1] /\ tic_code_to_name(T, 6) = T[4][1]
      /\ tic_code_to_name(T, 8) = T[5][1] /\ tic_code_to_name(T, 10) = T[6][1]
  BY <1>3
<1>. QED
  BY <1>2, <1>4 DEF T, tic_look_up_operation_state_name_ui

(* The names of the step modes, whose table is not in the order of codes.  *)
LEMMA StepModeNames ==
  ASSUME NEW m \in 0..9 PROVE tic_look_up_step_mode_name_ui(m) = StepModes[m + 1]
<1> DEFINE T   == tic_step_mode_names_ui
           row == IF m <= 1 THEN m + 1 ELSE IF m <= 5 THEN m + 2 ELSE IF m = 6 THEN 3 ELSE m + 1
<1>1. /\ DOMAIN T = 1..10
      /\ T[1][2] = 0 /\ T[2][2] = 1 /\ T[3][2] = 6 /\ T[4][2] = 2 /\ T[5][2] = 3
      /\ T[6][2] = 4 /\ T[7][2] = 5 /\ T[8][2] = 7 /\ T[9][2] = 8 /\ T[10][2] = 9
  BY DEF tic_step_mode_names_ui, TicStepMode
<1>2. /\ T[1][1] = StepModes[1] /\ T[2][1] = StepModes[2] /\ T[3][1] = StepModes[7]
      /\ T[4][1] = StepModes[3] /\ T[5][1] = StepModes[4] /\ T[6][1] = StepModes[5]
      /\ T[7][1] = StepModes[6] /\ T[8][1] = StepModes[8] /\ T[9][1] = StepModes[9]
      /\ T[10][1] = StepModes[10]
  BY DEF tic_step_mode_names_ui, StepModes
<1> HIDE DEF T
<1>3. row \in 1..10 /\ T[row][2] = m /\ \A j \in 1..10 : T[j][2] = m => j = row
  <2>1. \A j \in 1..10 : \/ j = 1 \/ j = 2 \/ j = 3 \/ j = 4 \/ j = 5
                         \/ j = 6 \/ j = 7 \/ j = 8 \/ j = 9 \/ j = 10
    OBVIOUS
  <2>. QED
    BY <1>1, <2>1
<1>4. T[row][1] = StepModes[m + 1]
  BY <1>2
<1>5. tic_code_to_name(T, m) = T[row][1]
  <2>1. 10 \in Nat
    OBVIOUS
  <2> HIDE DEF row
  <2>. QED
    BY <1>1, <1>3, <2>1, FirstRow, Zenon
<1>. QED
  BY <1>4, <1>5 DEF T, tic_look_up_step_mode_name_ui

LEMMA OneMore ==
  ASSUME NEW A, NEW x, IsFiniteSet(A)
  PROVE  /\ IsFiniteSet(A \cup {x})
         /\ Cardinality(A) \in Nat /\ Cardinality(A \cup {x}) \in Nat
         /\ Cardinality(A \cup {x}) <= Cardinality(A) + 1
<1>1. /\ IsFiniteSet(A \cup {x})
      /\ Cardinality(A \cup {x}) = IF x \in A THEN Cardinality(A) ELSE Cardinality(A) + 1
  BY FS_AddElement, Zenon
<1>2. Cardinality(A) \in Nat
  BY FS_CardinalityType, Zenon
<1>. QED
  BY <1>1, <1>2

LEMMA FourAtMost ==
  ASSUME NEW a, NEW b, NEW c, NEW d, NEW S, S \subseteq {a, b, c, d}
  PROVE  Cardinality(S) <= 4
<1> DEFINE A1 == {a}
           A2 == A1 \cup {b}
           A3 == A2 \cup {c}
           A4 == A3 \cup {d}
<1>1. S \subseteq A4
  OBVIOUS
<1>2. IsFiniteSet(A1) /\ Cardinality(A1) = 1
  BY FS_Singleton
<1>3. IsFiniteSet(A2) /\ Cardinality(A2) \in Nat /\ Cardinality(A2) <= Cardinality(A1) + 1
  BY <1>2, OneMore, Zenon
<1>4. IsFiniteSet(A3) /\ Cardinality(A3) \in Nat /\ Cardinality(A3) <= Cardinality(A2) + 1
  BY <1>3, OneMore, Zenon
<1>5. IsFiniteSet(A4) /\ Cardinality(A4) \in Nat /\ Cardinality(A4) <= Cardinality(A3) + 1
  BY <1>4, OneMore, Zenon
<1>6. Cardinality(S) <= Cardinality(A4) /\ Cardinality(S) \in Nat
  BY <1>1, <1>5, FS_Subset, FS_CardinalityType
<1> HIDE DEF A1, A2, A3, A4
<1>. QED
  BY <1>2, <1>3, <1>4, <1>5, <1>6

LEMMA ErrorsShown ==
  ASSUME NEW status, status \subseteq {0, 2, 7, 8}
  PROVE  /\ "Intentionally de-energized" \in ErrorLines(status) <=> 0 \in status
         /\ "Low VIN" \in ErrorLines(status) <=> 2 \in status
         /\ "Safe start violation" \in ErrorLines(status) <=> 7 \in status
         /\ "ERR line high" \in ErrorLines(status) <=> 8 \in status
         /\ ErrorLines(status) = {} <=> status = {}
         /\ Cardinality(ErrorLines(status)) <= 4
<1> DEFINE T == tic_error_names_ui
<1>1. /\ DOMAIN T = 1..14
      /\ T[1][2] = 0 /\ T[3][2] = 2 /\ T[8][2] = 7 /\ T[9][2] = 8
      /\ T[2][2] = 1 /\ T[4][2] = 3 /\ T[5][2] = 4 /\ T[6][2] = 5 /\ T[7][2] = 6
      /\ T[10][2] = 16 /\ T[11][2] = 17 /\ T[12][2] = 18
      /\ T[13][2] = 19 /\ T[14][2] = 20
  BY DEF tic_error_names_ui, TicError
<1>2. /\ T[1][1] = "Intentionally de-energized" /\ T[3][1] = "Low VIN"
      /\ T[8][1] = "Safe start violation" /\ T[9][1] = "ERR line high"
  BY DEF tic_error_names_ui
<1> HIDE DEF T
<1>3. \A i \in 1..14 : T[i][2] \in status => i \in {1, 3, 8, 9}
  BY <1>1
<1>4. ErrorLines(status) = {T[i][1] : i \in {j \in {1, 3, 8, 9} : T[j][2] \in status}}
  <2>1. {j \in DOMAIN T : T[j][2] \in status} = {j \in {1, 3, 8, 9} : T[j][2] \in status}
    BY <1>1, <1>3
  <2>. QED
    BY <2>1 DEF ErrorLines, T
<1>5. /\ ErrorLines(status) \subseteq {"Intentionally de-energized", "Low VIN",
                                       "Safe start violation", "ERR line high"}
      /\ "Intentionally de-energized" \in ErrorLines(status) <=> 0 \in status
      /\ "Low VIN" \in ErrorLines(status) <=> 2 \in status
      /\ "Safe start violation" \in ErrorLines(status) <=> 7 \in status
      /\ "ERR line high" \in ErrorLines(status) <=> 8 \in status
  <2>1. T[1][2] = 0 /\ T[3][2] = 2 /\ T[8][2] = 7 /\ T[9][2] = 8
    BY <1>1
  <2>2. \A x : x \in ErrorLines(status) <=> \E i \in {1, 3, 8, 9} : T[i][2] \in status /\ x = T[i][1]
    BY <1>4, Zenon
  <2>3. \A x : x \in ErrorLines(status) <=>
               \/ T[1][2] \in status /\ x = T[1][1]
               \/ T[3][2] \in status /\ x = T[3][1]
               \/ T[8][2] \in status /\ x = T[8][1]
               \/ T[9][2] \in status /\ x = T[9][1]
    BY <2>2, Zenon
  <2>4. \A x : x \in ErrorLines(status) <=>
               \/ 0 \in status /\ x = "Intentionally de-energized"
               \/ 2 \in status /\ x = "Low VIN"
               \/ 7 \in status /\ x = "Safe start violation"
               \/ 8 \in status /\ x = "ERR line high"
    BY <2>1, <2>3, <1>2, Zenon
  <2>5. ErrorLines(status) \subseteq {"Intentionally de-energized", "Low VIN",
                                      "Safe start violation", "ERR line high"}
    BY <2>4, Zenon
  <2>. /\ "Intentionally de-energized" # "Low VIN"
       /\ "Intentionally de-energized" # "Safe start violation"
       /\ "Intentionally de-energized" # "ERR line high"
       /\ "Low VIN" # "Safe start violation"
       /\ "Low VIN" # "ERR line high"
       /\ "Safe start violation" # "ERR line high"
    OBVIOUS
  <2>6. "Intentionally de-energized" \in ErrorLines(status) <=> 0 \in status
    BY <2>4, Zenon
  <2>7. "Low VIN" \in ErrorLines(status) <=> 2 \in status
    BY <2>4, Zenon
  <2>8. "Safe start violation" \in ErrorLines(status) <=> 7 \in status
    BY <2>4, Zenon
  <2>9. "ERR line high" \in ErrorLines(status) <=> 8 \in status
    BY <2>4, Zenon
  <2>. QED
    BY <2>5, <2>6, <2>7, <2>8, <2>9, Zenon
<1>6. ErrorLines(status) = {} <=> status = {}
  BY <1>5
<1>7. Cardinality(ErrorLines(status)) <= 4
  BY <1>5, FourAtMost
<1>. QED
  BY <1>5, <1>6, <1>7

-----------------------------------------------------------------------------
(* Where what was read comes from.                                         *)

(* What a controller in one of the states seen would have answered.        *)
AnswerOf(s) ==
  [targetPosition  |-> s.tic.target,
   currentPosition |-> s.tic.pos,
   vinVoltage      |-> IF s.lowVin THEN 4000 ELSE 12000,
   currentLimit    |-> settings.limit,
   energized       |-> s.tic.energized,
   stepMode        |-> settings.stepMode,
   operationState  |-> OperationState(s.tic, s.lowVin, s.stage),
   errorStatus     |-> ErrorStatus(s.tic, s.lowVin, s.stage)]

HasRead(v) == \E i \in 1..reading : ReadOrder[i] = v

(* A variable that was read is an answer that the controller would have    *)
(* given at some moment of the poll; one whose read failed is zero over    *)
(* TicSerial.                                                              *)
Kept ==
  \A v \in Variable :
    IF v \in failed THEN HasRead(v) /\ (library = "TicSerial" => variables[v] = Zeros[v])
    ELSE HasRead(v) => \E s \in seen : variables[v] = AnswerOf(s)[v]

(* Over libtic all of them are the answer of the same moment.              *)
AtOnce ==
  library = "libtic" /\ reading # None =>
    reading = 8 /\ \E s \in seen : variables = AnswerOf(s)

(* What is noted is a state that a controller can be in.                   *)
Moment(s) == s.tic \in Controller /\ s.lowVin \in BOOLEAN /\ s.stage \in Stage

TabInv ==
  /\ \A s \in seen : Moment(s)
  /\ reading = None => failed = {}
  /\ Kept /\ AtOnce

LEMMA OrderOfReads ==
  ASSUME NEW v \in Variable, ToRead(v), reading' = reading + 1
  PROVE  /\ ~HasRead(v)
         /\ \A w \in Variable : HasRead(w)' <=> HasRead(w) \/ w = v
<1>1. reading \in 0..7 /\ v = ReadOrder[reading + 1]
  BY Variables DEF ToRead
<1>2. \A i, j \in 1..8 : ReadOrder[i] = ReadOrder[j] => i = j
  BY DEF ReadOrder
<1>3. ~HasRead(v)
  <2>1. ASSUME NEW i \in 1..reading, ReadOrder[i] = ReadOrder[reading + 1] PROVE FALSE
    <3>1. i \in 1..8 /\ reading + 1 \in 1..8 /\ i # reading + 1
      BY <1>1
    <3>. QED
      BY <1>2, <2>1, <3>1
  <2>. QED
    BY <1>1, <2>1 DEF HasRead
<1>4. ASSUME NEW w \in Variable PROVE HasRead(w)' <=> HasRead(w) \/ w = v
  <2>1. 1..reading' = 1..reading \cup {reading + 1}
    BY <1>1
  <2>. QED
    BY <1>1, <2>1 DEF HasRead
<1>. QED
  BY <1>3, <1>4

LEMMA AnswerNow == Answer = AnswerOf(Now)
BY DEF Answer, AnswerOf, Now

LEMMA TabStarts == Init => TabInv
<1> SUFFICES ASSUME Init PROVE TabInv
  OBVIOUS
<1>1. reading = -1 /\ None = -1 /\ seen = {} /\ failed = {}
  BY DEF Init, None
<1>2. Kept
  BY <1>1 DEF Kept, HasRead
<1>. QED
  BY <1>1, <1>2 DEF TabInv, AtOnce

(* A poll begins.                                                          *)
LEMMA PollBeginsTab ==
  ASSUME PInv, TypeOK, TabInv, PollBegins PROVE TabInv'
<1>1. /\ tic \in Controller /\ lowVin \in BOOLEAN /\ stage \in Stage /\ reading = None
      /\ failed' = {} /\ seen' = {Now} /\ library' = library
      /\ UNCHANGED <<tic, lowVin, stage, settings>>
  BY Types DEF PInv, PollBegins, TabInv, controller
<1>2. Now' = Now /\ AnswerOf(Now)' = AnswerOf(Now)
  BY <1>1 DEF Now, AnswerOf
<1>3. /\ library = "libtic" => reading' = 8 /\ variables' = AnswerOf(Now)
      /\ library # "libtic" => reading' = 0
  BY Variables, AnswerNow DEF PollBegins
<1>4. reading' # None
  BY <1>3 DEF None
<1>5. Kept'
  <2>1. library # "libtic" => \A v \in Variable : ~HasRead(v)'
    BY <1>3 DEF HasRead
  <2>2. \E s \in seen' : s = Now
    BY <1>1
  <2>3. library = "libtic" => \E s \in seen' : \A v \in Variable : variables'[v] = AnswerOf(s)'[v]
    BY <1>1, <1>2, <1>3, <2>2
  <2>. QED
    BY <1>1, <2>1, <2>3 DEF Kept
<1>6. AtOnce'
  BY <1>1, <1>2, <1>3 DEF AtOnce
<1>7. Moment(Now)
  BY <1>1 DEF Now, Moment
<1>. QED
  <2>1. \A t \in seen' : Moment(t)'
    BY <1>1, <1>7 DEF Moment
  <2>. QED
    BY <1>1, <1>4, <1>5, <1>6, <2>1 DEF TabInv

(* A variable is read, or its read fails.                                  *)
LEMMA ReadTab ==
  ASSUME PInv, TabInv, NEW v \in Variable, ReadVariable(v) \/ ReadFails(v)
  PROVE  TabInv'
<1>1. /\ ToRead(v) /\ reading \in 0..7 /\ reading' = reading + 1
      /\ UNCHANGED <<library, settings, tic, lowVin, stage, seen>>
  BY Order DEF ReadVariable, ReadFails, controller, auxiliary
<1>2. reading # None /\ reading' # None /\ library # "libtic"
  <2>1. reading # None /\ reading' # None
    BY <1>1 DEF None
  <2>. QED
    BY <1>1, <2>1 DEF TabInv, AtOnce
<1>3. Now' = Now /\ \A s : AnswerOf(s)' = AnswerOf(s)
  BY <1>1 DEF Now, AnswerOf
<1>4. Kept'
  <2>1. ~HasRead(v) /\ \A w \in Variable : HasRead(w)' <=> HasRead(w) \/ w = v
    BY <1>1, OrderOfReads
  <2>2. v \notin failed /\ DOMAIN variables = Variable /\ Now \in seen
    BY <1>2, <2>1 DEF TabInv, Kept, PInv
  <2>3. CASE ReadVariable(v)
    <3>1. /\ failed' = failed /\ variables' = [variables EXCEPT ![v] = Answer[v]]
      BY <2>3 DEF ReadVariable
    <3>2. variables'[v] = AnswerOf(Now)[v] /\ \A w \in Variable : w # v => variables'[w] = variables[w]
      BY <2>2, <3>1, AnswerNow
    <3>3. v \notin failed' /\ \E s \in seen' : variables'[v] = AnswerOf(s)'[v]
      BY <1>1, <1>3, <2>2, <3>1, <3>2
    <3>. QED
      BY <1>1, <1>3, <2>1, <3>1, <3>2, <3>3 DEF TabInv, Kept
  <2>4. CASE ReadFails(v)
    <3>1. PICK x \in Unread(v) : variables' = [variables EXCEPT ![v] = x]
      BY <2>4 DEF ReadFails
    <3>2. failed' = failed \cup {v}
      BY <2>4 DEF ReadFails
    <3>3. variables'[v] = x /\ \A w \in Variable : w # v => variables'[w] = variables[w]
      BY <2>2, <3>1
    <3>4. library = "TicSerial" => x = Zeros[v]
      BY DEF Unread
    <3>. QED
      BY <1>1, <1>3, <2>1, <3>2, <3>3, <3>4 DEF TabInv, Kept
  <2>. QED
    BY <2>3, <2>4
<1>. QED
  BY <1>1, <1>2, <1>3, <1>4 DEF TabInv, AtOnce

LEMMA PollEndsTab == ASSUME PollEnds PROVE TabInv'
<1>1. reading' = -1 /\ None = -1 /\ seen' = {} /\ failed' = {}
  BY DEF PollEnds, None
<1>2. Kept'
  BY <1>1 DEF Kept, HasRead
<1>. QED
  BY <1>1, <1>2 DEF TabInv, AtOnce

(* The controller changes.                                                 *)
LEMMA ChangedTab ==
  ASSUME PInv', TypeOK, TypeOK', TabInv, Noted,
         UNCHANGED <<library, settings, reading, variables, failed>>
  PROVE  TabInv'
<1>1. \A s : AnswerOf(s)' = AnswerOf(s)
  BY DEF AnswerOf
<1>2. \A v : HasRead(v)' <=> HasRead(v)
  BY DEF HasRead
<1>3. /\ tic' \in Controller /\ lowVin' \in BOOLEAN /\ stage' \in Stage
      /\ seen \subseteq seen' /\ seen' \subseteq seen \cup {Now'}
  BY DEF PInv, TypeOK, Noted
<1>4. Kept' /\ AtOnce'
  BY <1>1, <1>2, <1>3 DEF TabInv, Kept, AtOnce
<1>5. Now'.tic \in Controller /\ Now'.lowVin \in BOOLEAN /\ Now'.stage \in Stage
  BY <1>3 DEF Now
<1>6. \A s \in seen' : Moment(s)
  BY <1>3, <1>5 DEF TabInv, Moment
<1>. QED
  BY <1>4, <1>6 DEF TabInv, Moment

LEMMA TabStep ==
  ASSUME PInv, PInv', TypeOK, TypeOK', TabInv, [Next]_vars PROVE TabInv'
<1>1. CASE PollBegins
  BY <1>1, PollBeginsTab
<1>2. CASE \E v \in Variable : ReadVariable(v) \/ ReadFails(v)
  BY <1>2, ReadTab
<1>3. CASE Show \/ \E v \in Variable : PollFails(v)
  BY <1>3, PollEndsTab DEF Show, PollFails
<1>4. CASE \/ MotorStep \/ VinFails \/ VinReturns
              \/ StartsUp \/ ComesUp \/ ErrLineRises \/ PowerCycle
  <2>1. Noted /\ UNCHANGED <<library, settings, reading, variables, failed>>
    BY <1>4 DEF MotorStep, VinFails, VinReturns, StartsUp, ComesUp, ErrLineRises,
             PowerCycle, poll
  <2>. QED
    BY <2>1, ChangedTab
<1>5. CASE Command \/ UNCHANGED vars
  <2>1. UNCHANGED <<library, settings, reading, variables, failed, seen>>
    BY <1>5 DEF Command, vars, controller, poll, auxiliary
  <2>2. (\A s : AnswerOf(s)' = AnswerOf(s)) /\ \A v : HasRead(v)' <=> HasRead(v)
    BY <2>1 DEF AnswerOf, HasRead
  <2>. QED
    BY <2>1, <2>2 DEF TabInv, Kept, AtOnce, Moment
<1>. QED
  BY <1>1, <1>2, <1>3, <1>4, <1>5 DEF Next

LEMMA TabAlways == Spec => [](PInv /\ TypeOK /\ TabInv)
<1>1. PInv /\ PInv' /\ TypeOK /\ TypeOK' /\ TabInv /\ [Next]_vars => TabInv'
  BY TabStep
<1>. QED
  BY <1>1, TabStarts, PollsKept, TypesKept, PTL DEF Spec

-----------------------------------------------------------------------------
(* What the tab says.                                                      *)

LEMMA ShownTab ==
  ASSUME Show
  PROVE  /\ absPos' = variables["currentPosition"]
         /\ arrived' = (variables["currentPosition"] = variables["targetPosition"])
         /\ infoTab'.vinVoltage = variables["vinVoltage"]
         /\ infoTab'.currentLimit = Milliamps(variables["currentLimit"])
         /\ infoTab'.energized = IF variables["energized"] THEN "Yes" ELSE "No"
         /\ infoTab'.stepMode = tic_look_up_step_mode_name_ui(variables["stepMode"])
         /\ infoTab'.operationState =
              tic_look_up_operation_state_name_ui(variables["operationState"])
         /\ infoTab'.errors = ErrorLines(variables["errorStatus"])
         /\ \A v \in Variable : HasRead(v)
<1>1. infoTab' = Displayed(variables) /\ reading = 8
  BY Variables DEF Show
<1>2. \A v \in Variable : HasRead(v)
  <2>1. DOMAIN ReadOrder = 1..8
    BY DEF ReadOrder
  <2>. QED
    BY <1>1, <2>1 DEF Variable, HasRead
<1>3. /\ absPos' = variables["currentPosition"]
      /\ arrived' = (variables["currentPosition"] = variables["targetPosition"])
  BY Zenon DEF Show
<1>. QED
  BY <1>1, <1>2, <1>3 DEF Displayed

LEMMA StateTold ==
  ASSUME NEW state \in {0, 2, 4, 6, 8, 10}, NEW name,
         name = tic_look_up_operation_state_name_ui(state)
  PROVE  /\ name = "Normal" <=> state = 10
         /\ name = "Starting up" <=> state = 8
         /\ name = "Waiting for ERR line" <=> state = 6
         /\ name = "De-energized" <=> state = 2
         /\ name = "Reset" <=> state = 0
<1>1. \/ state = 0 /\ name = "Reset"
      \/ state = 2 /\ name = "De-energized"
      \/ state = 4 /\ name = "Soft error"
      \/ state = 6 /\ name = "Waiting for ERR line"
      \/ state = 8 /\ name = "Starting up"
      \/ state = 10 /\ name = "Normal"
  BY StateNames, Zenon
<1>2. /\ "Reset" # "De-energized" /\ "Reset" # "Soft error"
      /\ "Reset" # "Waiting for ERR line" /\ "Reset" # "Starting up" /\ "Reset" # "Normal"
      /\ "De-energized" # "Soft error" /\ "De-energized" # "Waiting for ERR line"
      /\ "De-energized" # "Starting up" /\ "De-energized" # "Normal"
      /\ "Soft error" # "Waiting for ERR line" /\ "Soft error" # "Starting up"
      /\ "Soft error" # "Normal" /\ "Waiting for ERR line" # "Starting up"
      /\ "Waiting for ERR line" # "Normal" /\ "Starting up" # "Normal"
  OBVIOUS
<1>3. /\ 0 # 2 /\ 0 # 4 /\ 0 # 6 /\ 0 # 8 /\ 0 # 10 /\ 2 # 4 /\ 2 # 6 /\ 2 # 8 /\ 2 # 10
      /\ 4 # 6 /\ 4 # 8 /\ 4 # 10 /\ 6 # 8 /\ 6 # 10 /\ 8 # 10
  OBVIOUS
<1>. QED
  BY <1>1, <1>2, <1>3, Zenon

(* The error lines of a moment.                                            *)
ErrorNames(t, low, stg) == ErrorLines(ErrorStatus(t, low, stg))

LEMMA ErrorsOf ==
  ASSUME NEW t \in Controller, NEW low \in BOOLEAN, NEW stg \in Stage
  PROVE  /\ "Intentionally de-energized" \in ErrorNames(t, low, stg) <=> ~t.energized
         /\ "Safe start violation" \in ErrorNames(t, low, stg) <=> t.safeStart
         /\ "Low VIN" \in ErrorNames(t, low, stg) <=> low
         /\ "ERR line high" \in ErrorNames(t, low, stg) <=> stg = "waiting"
         /\ Cardinality(ErrorNames(t, low, stg)) <= 4
<1> DEFINE status == ErrorStatus(t, low, stg)
<1>1. /\ status \subseteq {0, 2, 7, 8}
      /\ 0 \in status <=> ~t.energized
      /\ 7 \in status <=> t.safeStart
      /\ 2 \in status <=> low
      /\ 8 \in status <=> stg = "waiting"
  BY Statuses
<1>2. /\ "Intentionally de-energized" \in ErrorLines(status) <=> 0 \in status
      /\ "Low VIN" \in ErrorLines(status) <=> 2 \in status
      /\ "Safe start violation" \in ErrorLines(status) <=> 7 \in status
      /\ "ERR line high" \in ErrorLines(status) <=> 8 \in status
      /\ Cardinality(ErrorLines(status)) <= 4
  BY <1>1, ErrorsShown
<1>. QED
  BY <1>1, <1>2, Zenon DEF ErrorNames

LEMMA TellsOf ==
  ASSUME TypeOK, TabInv, Show, NEW v \in Lines, NEW s \in seen,
         variables[v] = AnswerOf(s)[v]
  PROVE  Tells(v, s)
<1>1. s.tic \in Controller /\ s.lowVin \in BOOLEAN /\ s.stage \in Stage
  BY DEF TabInv, Moment
<1>2. CASE v = "energized"
  <2>1. variables["energized"] = s.tic.energized
    BY <1>2 DEF AnswerOf
  <2>2. infoTab'.energized = IF s.tic.energized THEN "Yes" ELSE "No"
    BY <2>1, ShownTab
  <2>. QED
    BY <1>2, <2>2 DEF Tells
<1>3. CASE v = "operationState"
  <2>1. variables["operationState"] = OperationState(s.tic, s.lowVin, s.stage)
    BY <1>3 DEF AnswerOf
  <2> DEFINE state == OperationState(s.tic, s.lowVin, s.stage)
  <2>2. infoTab'.operationState = tic_look_up_operation_state_name_ui(state)
    BY <2>1, ShownTab
  <2>3. /\ state \in {0, 2, 4, 6, 8, 10}
        /\ state = 0 <=> s.stage = "reset"
        /\ state = 2 <=> ~s.tic.energized /\ s.stage # "reset"
        /\ state = 6 <=> Ready(s.tic) /\ ~s.lowVin /\ s.stage = "waiting"
        /\ state = 8 <=> Ready(s.tic) /\ ~s.lowVin /\ s.stage = "starting"
        /\ state = 10 <=> Ready(s.tic) /\ ~s.lowVin /\ s.stage = "up"
    BY <1>1, Statuses
  <2> HIDE DEF state
  <2>4. /\ infoTab'.operationState = "Normal" <=> state = 10
        /\ infoTab'.operationState = "Starting up" <=> state = 8
        /\ infoTab'.operationState = "Waiting for ERR line" <=> state = 6
        /\ infoTab'.operationState = "De-energized" <=> state = 2
        /\ infoTab'.operationState = "Reset" <=> state = 0
    BY <2>2, <2>3, StateTold, Zenon
  <2>. QED
    BY <1>3, <2>3, <2>4, Zenon DEF Tells
<1>4. CASE v = "errorStatus"
  <2>1. variables["errorStatus"] = ErrorStatus(s.tic, s.lowVin, s.stage)
    BY <1>4 DEF AnswerOf
  <2>2. infoTab'.errors = ErrorNames(s.tic, s.lowVin, s.stage)
    BY <2>1, ShownTab DEF ErrorNames
  <2> DEFINE lines == ErrorNames(s.tic, s.lowVin, s.stage)
  <2>3. /\ "Intentionally de-energized" \in lines <=> ~s.tic.energized
        /\ "Safe start violation" \in lines <=> s.tic.safeStart
        /\ "Low VIN" \in lines <=> s.lowVin
        /\ "ERR line high" \in lines <=> s.stage = "waiting"
        /\ Cardinality(lines) <= 4
    BY <1>1, ErrorsOf, Zenon
  <2>. QED
    BY <1>4, <2>2, <2>3 DEF Tells
<1>5. CASE v = "vinVoltage"
  <2>1. variables["vinVoltage"] = IF s.lowVin THEN 4000 ELSE 12000
    BY <1>5 DEF AnswerOf
  <2>2. infoTab'.vinVoltage < 5000 <=> s.lowVin
    BY <1>1, <2>1, ShownTab
  <2>. QED
    BY <1>5, <2>2 DEF Tells
<1>6. CASE v = "currentLimit"
  <2>1. variables["currentLimit"] = settings.limit
    BY <1>6 DEF AnswerOf
  <2>2. library = "libtic" \/ settings.product \in {"T825", "T834"}
          => infoTab'.currentLimit = getCurrentLimit(settings.product, settings.limit)
    BY <2>1, ShownTab DEF Milliamps, getCurrentLimit
  <2>. QED
    BY <1>6, <2>2 DEF Tells
<1>7. CASE v = "stepMode"
  <2>1. variables["stepMode"] = settings.stepMode
    BY <1>7 DEF AnswerOf
  <2>2. settings.stepMode \in 0..9
    BY Types, ReadingsAssumption
  <2>3. infoTab'.stepMode = StepModes[settings.stepMode + 1]
    BY <2>1, <2>2, ShownTab, StepModeNames
  <2>. QED
    BY <1>7, <2>3 DEF Tells
<1>. QED
  BY <1>2, <1>3, <1>4, <1>5, <1>6, <1>7, Variables DEF Lines

LEMMA BlankOf ==
  ASSUME Show, library = "TicSerial", NEW v \in Lines, variables[v] = Zeros[v]
  PROVE  Blank(v)
<1>1. CASE v = "energized"
  <2>1. infoTab'.energized = "No"
    BY <1>1, ShownTab DEF Zeros
  <2>. QED
    BY <1>1, <2>1 DEF Blank
<1>2. CASE v = "operationState"
  <2>1. infoTab'.operationState = "Reset"
    BY <1>2, ShownTab, StateNames DEF Zeros
  <2>. QED
    BY <1>2, <2>1 DEF Blank
<1>3. CASE v = "errorStatus"
  <2>1. infoTab'.errors = {}
    BY <1>3, ShownTab, ErrorsShown DEF Zeros
  <2>. QED
    BY <1>3, <2>1 DEF Blank
<1>4. CASE v = "vinVoltage"
  <2>1. infoTab'.vinVoltage = 0
    BY <1>4, ShownTab DEF Zeros
  <2>. QED
    BY <1>4, <2>1 DEF Blank
<1>5. CASE v = "currentLimit"
  <2>1. infoTab'.currentLimit = 0
    BY <1>5, ShownTab DEF Zeros, Milliamps, getCurrentLimit, TicCurrentUnits
  <2>. QED
    BY <1>5, <2>1 DEF Blank
<1>6. CASE v = "stepMode"
  <2>1. infoTab'.stepMode = tic_look_up_step_mode_name_ui(0)
    BY <1>6, ShownTab DEF Zeros
  <2>2. tic_look_up_step_mode_name_ui(0) = StepModes[0 + 1]
    BY StepModeNames
  <2>3. StepModes[0 + 1] = "Full step"
    BY DEF StepModes
  <2>. QED
    BY <1>6, <2>1, <2>2, <2>3 DEF Blank
<1>. QED
  BY <1>1, <1>2, <1>3, <1>4, <1>5, <1>6, Variables DEF Lines

(* Every line of the tab tells, in the user's words, what the controller   *)
(* was in at some moment of the poll, while it starts up or waits for the  *)
(* ERR line too.  A line that could not be read is blank over TicSerial and*)
(* may say anything over TicUsb.  The one line that may be wrong although  *)
(* it was read is the current limit, over ticlib, of another product than  *)
(* the two that TicBase takes for granted.                                 *)
THEOREM TabTells == Spec => TabTruthful
<1>1. ASSUME TypeOK, TabInv, Show, NEW v \in Lines
      PROVE  IF v \notin failed THEN \E s \in seen : Tells(v, s)
             ELSE library = "TicSerial" => Blank(v)
  <2>1. HasRead(v) /\ v \in Variable
    BY <1>1, ShownTab DEF Lines
  <2>2. CASE v \notin failed
    <3>1. PICK s \in seen : variables[v] = AnswerOf(s)[v]
      BY <1>1, <2>1, <2>2 DEF TabInv, Kept
    <3>2. Tells(v, s)
      BY <1>1, <3>1, TellsOf
    <3>. QED
      BY <2>2, <3>2
  <2>3. CASE v \in failed /\ library = "TicSerial"
    <3>1. variables[v] = Zeros[v]
      BY <1>1, <2>1, <2>3 DEF TabInv, Kept
    <3>2. Blank(v)
      BY <1>1, <2>3, <3>1, BlankOf
    <3>. QED
      BY <2>3, <3>2
  <2>. QED
    BY <2>2, <2>3
<1>2. PInv /\ TypeOK /\ TabInv /\ [Next]_vars
        => [Show => \A v \in Lines :
                      IF v \notin failed THEN \E s \in seen : Tells(v, s)
                      ELSE library = "TicSerial" => Blank(v)]_vars
  BY <1>1
<1>. QED
  BY <1>2, TabAlways, PTL DEF Spec, TabTruthful

(* Over libtic there is one moment of the poll of which everything that is *)
(* shown tells, the position, the arrival and every line, even if the      *)
(* controller restarted before it was shown.                               *)
THEOREM TabAtOnce == Spec => ShownAtOnce
<1>1. ASSUME TypeOK, TabInv, Show, library = "libtic"
      PROVE  \E s \in seen : /\ absPos' = s.tic.pos
                             /\ arrived' = (s.tic.pos = s.tic.target)
                             /\ \A v \in Lines : Tells(v, s)
  <2>1. reading = 8 /\ reading # None
    BY <1>1, Variables DEF Show, None
  <2>2. PICK s \in seen : variables = AnswerOf(s)
    BY <1>1, <2>1 DEF TabInv, AtOnce
  <2>3. variables["currentPosition"] = s.tic.pos /\ variables["targetPosition"] = s.tic.target
    BY <2>2 DEF AnswerOf
  <2>4. absPos' = s.tic.pos /\ arrived' = (s.tic.pos = s.tic.target)
    <3>1. /\ absPos' = variables["currentPosition"]
          /\ arrived' = (variables["currentPosition"] = variables["targetPosition"])
      BY <1>1, ShownTab, Zenon
    <3>. QED
      BY <2>3, <3>1, Zenon
  <2>5. ASSUME NEW v \in Lines PROVE Tells(v, s)
    BY <1>1, <2>2, TellsOf
  <2>. QED
    BY <2>4, <2>5
<1>2. PInv /\ TypeOK /\ TabInv /\ [Next]_vars
        => [Show /\ library = "libtic"
              => \E s \in seen : /\ absPos' = s.tic.pos
                                 /\ arrived' = (s.tic.pos = s.tic.target)
                                 /\ \A v \in Lines : Tells(v, s)]_vars
  BY <1>1
<1>. QED
  BY <1>2, TabAlways, PTL DEF Spec, ShownAtOnce

=============================================================================
