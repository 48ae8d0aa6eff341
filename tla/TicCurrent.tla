----------------------------- MODULE TicCurrent ------------------------------
(***************************************************************************)
(* Current limits (ticlib/TicBase.cpp).  A Tic knows its current limit as  *)
(* a code of 7 bits; what a code is worth in milliamps depends on the      *)
(* product.  TicBase computes with the product it was told, which is       *)
(* "Unknown" unless setProduct was called.                                 *)
(***************************************************************************)
EXTENDS Integers

TicProduct == {"Unknown", "T825", "T834", "T500", "T249", "Tic36v4"}

TicCurrentUnits     == 32   \* milliamps
TicT249CurrentUnits == 40

(* Code i of a T500 is worth the i-th of these.                            *)
Tic03aCurrentTable ==
  [i \in 0..32 |->
     <<   0,    1,  174,  343,  495,  634,  762,  880,  990, 1092, 1189,
       1281, 1368, 1452, 1532, 1611, 1687, 1762, 1835, 1909, 1982, 2056,
       2131, 2207, 2285, 2366, 2451, 2540, 2634, 2734, 2843, 2962, 3093>>[i + 1]]

(* A uint16_t in milliamps.                                                *)
Limit == 0..65535

-----------------------------------------------------------------------------
(* getCurrentLimit: what a code is worth.                                  *)
getCurrentLimit(product, code) ==
  IF product = "T500" THEN Tic03aCurrentTable[IF code > 32 THEN 32 ELSE code]
  ELSE IF product = "T249" THEN code * TicT249CurrentUnits
  ELSE IF product = "Tic36v4" THEN (55000 * code + 384) \div 768
  ELSE code * TicCurrentUnits

-----------------------------------------------------------------------------
(* setCurrentLimit: the code for a limit, a uint8_t.                       *)

(* The loop leaves the table at the first entry that is more.              *)
CodeT500(limit) ==
  CHOOSE code \in 0..32 :
    /\ \A i \in 0..code : Tic03aCurrentTable[i] <= limit
    /\ code = 32 \/ Tic03aCurrentTable[code + 1] > limit

(* Rounded to the nearest code, which is one too low for limits that are   *)
(* worth exactly the next.                                                 *)
Code36v4(limit) ==
  LET code == (limit * 768 - 27500) \div 55000 IN
  IF limit < 72 THEN 0
  ELSE IF limit >= 9095 THEN 127
  ELSE IF code < 127 /\ (55000 * (code + 1) + 384) \div 768 <= limit THEN code + 1
  ELSE code

CodeOf(product, limit) ==
  IF product = "T500" THEN CodeT500(limit)
  ELSE IF product = "T249" THEN (limit \div TicT249CurrentUnits) % 256
  ELSE IF product = "Tic36v4" THEN Code36v4(limit)
  ELSE (limit \div TicCurrentUnits) % 256

(* commandW7: a data byte on a serial line has no top bit.                 *)
SetCurrentLimit(product, limit) == CodeOf(product, limit) % 128

(* The limits whose code fits in 7 bits.                                   *)
Representable(product) ==
  IF product \in {"T500", "Tic36v4"} THEN Limit
  ELSE IF product = "T249" THEN 0..128 * TicT249CurrentUnits - 1
  ELSE 0..128 * TicCurrentUnits - 1

(* The codes of a product.                                                 *)
CodesOf(product) == IF product = "T500" THEN 0..32 ELSE 0..127

=============================================================================
