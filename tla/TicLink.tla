------------------------------- MODULE TicLink ------------------------------
(***************************************************************************)
(* What a link to a Tic may do with the commands it is given: it           *)
(* may lose any of them, but those the controller executes are commands    *)
(* that were given, with their arguments, each once and in the order given.*)
(***************************************************************************)
EXTENDS Integers, Sequences, SequencesExt

CONSTANT Call          \* the commands there are, with their arguments

VARIABLES calls,       \* the commands given so far
          executed     \* those the controller executed: [call, command]

vars == <<calls, executed>>

Init == calls = <<>> /\ executed = <<>>

Give ==
  /\ \E c \in Call : calls' = Append(calls, c)
  /\ UNCHANGED executed

(* The controller executes one that came after all it executed before.     *)
Execute ==
  /\ \E i \in 1..Len(calls) :
       /\ executed # <<>> => Last(executed).call < i
       /\ executed' = Append(executed, [call |-> i, command |-> calls[i]])
  /\ UNCHANGED calls

(* On a link without delay it is executed as it is given.                  *)
Direct ==
  \E c \in Call :
    /\ calls' = Append(calls, c)
    /\ executed' = Append(executed, [call |-> Len(calls) + 1, command |-> c])

Next == Give \/ Execute \/ Direct

Spec == Init /\ [][Next]_vars

=============================================================================
