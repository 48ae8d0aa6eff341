------------------------------ MODULE MCTiclib ------------------------------
(* An energize, a move to 389, one of whose bytes is the code of energize, *)
(* and a variable of four bytes to read.                                   *)
EXTENDS Ticlib

MCCommands == {[code |-> 133, arg |-> <<>>],
               [code |-> 224, arg |-> <<133, 1, 0, 0>>],
               [code |-> 161, arg |-> <<34, 4>>]}

=============================================================================
