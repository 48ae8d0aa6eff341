---------------------------- MODULE MCConnections ---------------------------
(* Two controllers within reach, and something else listed between them    *)
(* that has a name, too.                                                   *)
EXTENDS Connections

MCDevices  == 1..3
MCTics     == {1, 3}
MCSerialOf == <<"A", "B", "C">>
MCFds      == 3..5

=============================================================================
