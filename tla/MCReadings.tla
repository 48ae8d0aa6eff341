----------------------------- MODULE MCReadings ------------------------------
(* A travel of three places and two controllers, one of the products that  *)
(* TicBase takes for granted and one that it does not.                     *)
EXTENDS Readings

MCSettings ==
  {[product |-> "T825", stepMode |-> 3, limit |-> 12],
   [product |-> "T249", stepMode |-> 6, limit |-> 12]}

(* Nothing reads the display.                                              *)
MCView == <<library, controller, poll, auxiliary>>

=============================================================================
