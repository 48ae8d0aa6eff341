-------------------------------- MODULE Tic ---------------------------------
(***************************************************************************)
(* The Tic stepper motor controller, the device at the other end of the    *)
(* driver's link.  Its firmware is not part of the repository: what each   *)
(* command does is taken from the use the driver makes of it and from what *)
(* ticlib/TicBase.h promises of the command.                               *)
(*                                                                         *)
(* A controller is a value, a record with the fields                       *)
(*   pos       current position, where the Tic thinks the motor is;        *)
(*   target    the "target position" variable;                             *)
(*   planning  whether that target is being pursued;                       *)
(*   energized whether the coils are energized;                            *)
(*   safeStart whether the safe start violation stops the motor.           *)
(* The module has no variables: a specification that owns a controller     *)
(* applies these operators to it.                                          *)
(***************************************************************************)
EXTENDS Integers

PlanningMode == {"off", "position"}

Controller ==
  [pos : Int, target : Int, planning : PlanningMode,
   energized : BOOLEAN, safeStart : BOOLEAN]

(* A controller that has just been reset, with p on its position counter.  *)
PoweredOn(p) ==
  [pos |-> p, target |-> p, planning |-> "off",
   energized |-> FALSE, safeStart |-> TRUE]

(* The motor is free to run.                                               *)
Ready(t) == t.energized /\ ~t.safeStart

Moving(t) == Ready(t) /\ t.planning = "position" /\ t.pos # t.target

-----------------------------------------------------------------------------
(* What the motor does on its own.                                         *)

Stepped(t) ==
  [t EXCEPT !.pos = IF t.pos < t.target THEN t.pos + 1 ELSE t.pos - 1]

(* An error bit (low voltage, driver error, kill switch...) stops the      *)
(* motor and raises the safe start violation; the target may be dropped.   *)
Faulted(t) ==
  {[t EXCEPT !.safeStart = TRUE, !.planning = m] : m \in {t.planning, "off"}}

-----------------------------------------------------------------------------
(* Commands: the controllers that may result from carrying one out.        *)

Targeted(t, p) == {[t EXCEPT !.target = p, !.planning = "position"]}

(* Once halted the Tic has no target: what the target variable then reads  *)
(* is unspecified, the old target or the position.                         *)
Halted(t) ==
  {[t EXCEPT !.planning = "off", !.target = g] : g \in {t.target, t.pos}}

HaltedAt(t, p) ==
  {[t EXCEPT !.planning = "off", !.pos = p, !.target = g] : g \in {t.target, p}}

Energized(t) == {[t EXCEPT !.energized = TRUE]}

Deenergized(t) == {[t EXCEPT !.energized = FALSE, !.safeStart = TRUE]}

(* Exiting safe start lasts 200 ms unless the system can start up, which   *)
(* it cannot while it is intentionally de-energized.                       *)
SafeStartExited(t) == {[t EXCEPT !.safeStart = t.safeStart /\ ~t.energized]}

=============================================================================
