--------------------------- MODULE FocuserContract --------------------------
(***************************************************************************)
(* What the focuser promises whoever stands in front of it, without the    *)
(* controller's registers, the backlash, the sessions or the timer:        *)
(*  - the motor is only ever sent to places on the travel, and moves only  *)
(*    towards the place it was sent to, one step at a time;                *)
(*  - "Busy" is shown for a place the motor was really sent to, and "Idle" *)
(*    after a halt that really happened;                                   *)
(*  - the position shown is one the motor has.                             *)
(* The last two hold when the driver's calls tell the truth (Trusted).     *)
(***************************************************************************)
EXTENDS Integers

CONSTANTS MaxPos,   \* end of the travel
          Trusted   \* does a command that is reported to succeed take place?

VARIABLES position, \* where the motor is
          goal,     \* where it was sent, NoGoal if nowhere
          shown,    \* the position a client sees
          status    \* and the state of that property

vars == <<position, goal, shown, status>>

Travel == 0..MaxPos
NoGoal == -1
Status == {"Idle", "Ok", "Busy", "Alert"}

Init ==
  /\ position \in Int
  /\ goal = NoGoal
  /\ shown = 0
  /\ status = "Idle"

(* A move is accepted: the motor is sent to a place.                       *)
Accept ==
  /\ goal' \in Travel
  /\ status' = "Busy"
  /\ UNCHANGED <<position, shown>>

(* The motor is sent to a place, and an error is reported all the same, or *)
(* nobody reads the reply (parking).                                       *)
Redirect ==
  /\ goal' \in Travel
  /\ status' \in {status, "Alert"}
  /\ UNCHANGED <<position, shown>>

(* A request that moves nothing: already there, or refused.                *)
Decline ==
  /\ status' \in {"Ok", "Alert"}
  /\ UNCHANGED <<position, goal, shown>>

(* The motor is halted, told where it is, or loses power.                  *)
Halt ==
  /\ goal' = NoGoal
  /\ position' \in Travel \cup {position}
  /\ shown' \in {shown, position'}
  /\ status' \in {status, "Idle"}

Advance ==
  /\ goal # NoGoal /\ position # goal
  /\ position' = IF position < goal THEN position + 1 ELSE position - 1
  /\ UNCHANGED <<goal, shown, status>>

(* A poll: the position is shown; a move that was shown may be over.       *)
Refresh ==
  /\ shown' = position
  /\ status' \in {status, "Ok"}
  /\ UNCHANGED <<position, goal>>

(* The driver starts afresh.                                               *)
Restart ==
  /\ shown' = 0
  /\ status' = "Idle"
  /\ UNCHANGED <<position, goal>>

(* A command is lost and reported to have succeeded.                       *)
Mislead ==
  /\ ~Trusted
  /\ shown' \in Travel \cup {shown}
  /\ status' \in Status
  /\ UNCHANGED <<position, goal>>

Next == \/ Accept \/ Redirect \/ Decline \/ Halt \/ Advance
        \/ Refresh \/ Restart \/ Mislead

Spec == Init /\ [][Next]_vars

=============================================================================
