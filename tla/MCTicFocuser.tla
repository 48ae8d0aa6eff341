---------------------------- MODULE MCTicFocuser ----------------------------
(***************************************************************************)
(* Small instances of TicFocuser.                                          *)
(***************************************************************************)
EXTENDS TicFocuser

(* A counter that starts at the end of the travel, and one that starts     *)
(* below it, as a controller moved by another program may leave it, so far *)
(* that a step outward does not reach the travel either.                   *)
MCStartPositions == {-2, 0}

(* For safety: the three variables that only report (relState and those of *)
(* report), which no guard and no other variable reads, do not tell states *)
(* apart.                                                                  *)
MCView == <<device, session, absPos, absState, moveRelInitialValue, lastFocusDir, options>>

(* For liveness: the client does not touch the options.                    *)
MCOptionsKept == UNCHANGED options

MCFairSpec == Init /\ [][Next /\ MCOptionsKept]_vars /\ Fairness

=============================================================================
