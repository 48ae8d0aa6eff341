------------------------------- MODULE TicNames ------------------------------
(***************************************************************************)
(* The codes by which a Tic tells its state (the enumerations of TicBase.h)*)
(* and the texts by which the driver tells them to the user (TicDefs.cpp). *)
(***************************************************************************)
EXTENDS Integers, Sequences

TicError ==
  [IntentionallyDeenergized |-> 0, MotorDriverError |-> 1, LowVin |-> 2,
   KillSwitch |-> 3, RequiredInputInvalid |-> 4, SerialError |-> 5,
   CommandTimeout |-> 6, SafeStartViolation |-> 7, ErrLineHigh |-> 8,
   SerialFraming |-> 16, RxOverrun |-> 17, Format |-> 18, Crc |-> 19,
   EncoderSkip |-> 20]

TicOperationState ==
  [Reset |-> 0, Deenergized |-> 2, SoftError |-> 4, WaitingForErrLine |-> 6,
   StartingUp |-> 8, Normal |-> 10]

TicStepMode ==
  [Microstep1 |-> 0, Microstep2 |-> 1, Microstep4 |-> 2, Microstep8 |-> 3,
   Microstep16 |-> 4, Microstep32 |-> 5, Microstep2_100p |-> 6,
   Microstep64 |-> 7, Microstep128 |-> 8, Microstep256 |-> 9]

(* The tables, rows of a text and its code, without the row that ends them;*)
(* the code of an error is the number of its bit.                          *)
tic_error_names_ui == <<
  <<"Intentionally de-energized", TicError.IntentionallyDeenergized>>,
  <<"Motor driver error", TicError.MotorDriverError>>,
  <<"Low VIN", TicError.LowVin>>,
  <<"Kill switch active", TicError.KillSwitch>>,
  <<"Required input invalid", TicError.RequiredInputInvalid>>,
  <<"Serial error", TicError.SerialError>>,
  <<"Command timeout", TicError.CommandTimeout>>,
  <<"Safe start violation", TicError.SafeStartViolation>>,
  <<"ERR line high", TicError.ErrLineHigh>>,
  <<"Serial framing", TicError.SerialFraming>>,
  <<"Serial RX overrun", TicError.RxOverrun>>,
  <<"Serial format", TicError.Format>>,
  <<"Serial CRC", TicError.Crc>>,
  <<"Encoder skip", TicError.EncoderSkip>> >>

tic_step_mode_names_ui == <<
  <<"Full step", TicStepMode.Microstep1>>,
  <<"1/2 step", TicStepMode.Microstep2>>,
  <<"1/2 step 100%", TicStepMode.Microstep2_100p>>,
  <<"1/4 step", TicStepMode.Microstep4>>,
  <<"1/8 step", TicStepMode.Microstep8>>,
  <<"1/16 step", TicStepMode.Microstep16>>,
  <<"1/32 step", TicStepMode.Microstep32>>,
  <<"1/64 step", TicStepMode.Microstep64>>,
  <<"1/128 step", TicStepMode.Microstep128>>,
  <<"1/256 step", TicStepMode.Microstep256>> >>

tic_operation_state_names_ui == <<
  <<"Reset", TicOperationState.Reset>>,
  <<"De-energized", TicOperationState.Deenergized>>,
  <<"Soft error", TicOperationState.SoftError>>,
  <<"Waiting for ERR line", TicOperationState.WaitingForErrLine>>,
  <<"Starting up", TicOperationState.StartingUp>>,
  <<"Normal", TicOperationState.Normal>> >>

Unknown == "(Unknown)"

(* The text of the first row with the code, if there is one.               *)
tic_code_to_name(table, code) ==
  LET Has(i) == table[i][2] = code IN
  IF ~\E i \in DOMAIN table : Has(i) THEN Unknown
  ELSE table[CHOOSE i \in DOMAIN table : Has(i) /\ \A j \in 1..i - 1 : ~Has(j)][1]

tic_look_up_operation_state_name_ui(code) ==
  tic_code_to_name(tic_operation_state_names_ui, code)

tic_look_up_step_mode_name_ui(code) ==
  tic_code_to_name(tic_step_mode_names_ui, code)

=============================================================================
