-------------------------- MODULE TicCurrentProofs ---------------------------
(***************************************************************************)
(* setCurrentLimit chooses well, for every product and every limit that a  *)
(* code of 7 bits can express.                                             *)
(***************************************************************************)
EXTENDS TicCurrent, TLAPS

(* What the T500's table holds.                                            *)
LEMMA TableType == \A i \in 0..32 : Tic03aCurrentTable[i] \in Nat
  BY SMT DEF Tic03aCurrentTable

LEMMA TableBegins == Tic03aCurrentTable[0] = 0
  BY SMT DEF Tic03aCurrentTable

LEMMA TableRises ==
  \A i, j \in 0..32 : i < j => Tic03aCurrentTable[i] < Tic03aCurrentTable[j]
  BY SMT DEF Tic03aCurrentTable

(* The last entry that is not too much, where the loop ends.               *)
LastFitting(code, limit) ==
  /\ Tic03aCurrentTable[code] <= limit
  /\ code = 32 \/ Tic03aCurrentTable[code + 1] > limit

LEMMA SomeEntryIsLast ==
  ASSUME NEW limit \in Nat
  PROVE  \E code \in 0..32 : LastFitting(code, limit)
<1> SUFFICES ASSUME \A code \in 0..32 : ~LastFitting(code, limit)
             PROVE  FALSE
  OBVIOUS
<1>1. \A k \in 0..31 : Tic03aCurrentTable[k] <= limit => Tic03aCurrentTable[k + 1] <= limit
  <2> TAKE k \in 0..31
  <2>1. k \in 0..32 /\ k # 32 /\ k + 1 \in 0..32
    OBVIOUS
  <2>2. ~LastFitting(k, limit)
    BY <2>1
  <2>3. Tic03aCurrentTable[k + 1] \in Nat
    BY <2>1, TableType
  <2>4. QED
    BY <2>1, <2>2, <2>3 DEF LastFitting
<1>2. Tic03aCurrentTable[0] <= limit
  BY TableBegins
<1>3. Tic03aCurrentTable[8] <= limit
  BY <1>1, <1>2
<1>4. Tic03aCurrentTable[16] <= limit
  BY <1>1, <1>3
<1>5. Tic03aCurrentTable[24] <= limit
  BY <1>1, <1>4
<1>6. Tic03aCurrentTable[32] <= limit
  BY <1>1, <1>5
<1>7. QED
  BY <1>6 DEF LastFitting

(* The loop of setCurrentLimit finds it: the table rises, so all before it *)
(* fit as well and none behind it does.                                    *)
LEMMA LoopEnds ==
  ASSUME NEW limit \in Nat
  PROVE  /\ CodeT500(limit) \in 0..32
         /\ \A d \in 0..32 : Tic03aCurrentTable[d] <= limit <=> d <= CodeT500(limit)
<1>1. PICK code \in 0..32 : LastFitting(code, limit)
  BY SomeEntryIsLast
<1>2. \A i \in 0..code : Tic03aCurrentTable[i] <= limit
  <2> TAKE i \in 0..code
  <2>1. i = code \/ Tic03aCurrentTable[i] < Tic03aCurrentTable[code]
    BY TableRises
  <2>2. i \in 0..32 /\ Tic03aCurrentTable[i] \in Nat /\ Tic03aCurrentTable[code] \in Nat
    BY TableType
  <2>3. QED
    BY <1>1, <2>1, <2>2 DEF LastFitting
<1>3. /\ CodeT500(limit) \in 0..32
      /\ \A i \in 0..CodeT500(limit) : Tic03aCurrentTable[i] <= limit
      /\ CodeT500(limit) = 32 \/ Tic03aCurrentTable[CodeT500(limit) + 1] > limit
  BY <1>1, <1>2 DEF CodeT500, LastFitting
<1>4. ASSUME NEW d \in 0..32, Tic03aCurrentTable[d] <= limit, CodeT500(limit) < d
      PROVE  FALSE
  <2> DEFINE next == CodeT500(limit) + 1
  <2>1. next \in 0..32 /\ next <= d
    BY <1>3, <1>4
  <2>2. Tic03aCurrentTable[next] > limit
    BY <1>3, <2>1
  <2>3. next = d \/ Tic03aCurrentTable[next] < Tic03aCurrentTable[d]
    BY <2>1, TableRises
  <2>4. Tic03aCurrentTable[next] \in Nat /\ Tic03aCurrentTable[d] \in Nat
    BY <2>1, TableType
  <2> HIDE DEF next
  <2>5. QED
    BY <1>4, <2>2, <2>3, <2>4
<1>5. QED
  BY <1>3, <1>4

(* "If the desired current limit is not available, this function uses the  *)
(* closest current limit that is lower than the desired one."              *)
(* (TicBase.h:637): what the code for a limit is worth is no more than the *)
(* limit, and no code is worth more without being worth too much.          *)
RoundsDown(product, limit) ==
  LET Worth(code) == getCurrentLimit(product, code)
      chosen      == SetCurrentLimit(product, limit)
  IN  /\ chosen \in CodesOf(product)
      /\ Worth(chosen) <= limit
      /\ \A code \in CodesOf(product) :
           Worth(code) <= limit => Worth(code) <= Worth(chosen)

(* Products whose codes are worth a multiple of one unit.                  *)
LEMMA UnitsRoundDown ==
  ASSUME NEW limit \in Nat, NEW unit \in {32, 40}, limit < 128 * unit
  PROVE  LET code == limit \div unit IN
         /\ code \in 0..127
         /\ (code % 256) % 128 = code
         /\ code * unit <= limit
         /\ \A d \in 0..127 : d * unit <= limit => d * unit <= code * unit
<1>1. CASE unit = 32
  <2>1. PICK q \in Nat, r \in 0..31 : limit = 32 * q + r /\ limit \div 32 = q
    BY SMT
  <2>2. q \in 0..127 /\ (q % 256) % 128 = q
    BY <1>1, <2>1
  <2>3. \A d \in 0..127 : d * 32 <= limit => d <= q
    BY <2>1
  <2>4. QED
    BY <1>1, <2>1, <2>2, <2>3
<1>2. CASE unit = 40
  <2>1. PICK q \in Nat, r \in 0..39 : limit = 40 * q + r /\ limit \div 40 = q
    BY SMT
  <2>2. q \in 0..127 /\ (q % 256) % 128 = q
    BY <1>2, <2>1
  <2>3. \A d \in 0..127 : d * 40 <= limit => d <= q
    BY <2>1
  <2>4. QED
    BY <1>2, <2>1, <2>2, <2>3
<1>3. QED
  BY <1>1, <1>2

(* setCurrentLimit rounds down, on every product, for every limit it can   *)
(* express.                                                                *)
THEOREM LimitsRoundDown ==
  ASSUME NEW product \in TicProduct, NEW limit \in Representable(product)
  PROVE  RoundsDown(product, limit)
<1>1. CASE product = "T500"
  <2>1. limit \in Nat
    BY SMTT(30), <1>1 DEF Representable, Limit
  <2>2. /\ CodeT500(limit) \in 0..32
        /\ \A d \in 0..32 : Tic03aCurrentTable[d] <= limit <=> d <= CodeT500(limit)
    BY <2>1, LoopEnds
  <2>3. CodeOf(product, limit) = CodeT500(limit)
    BY <1>1 DEF CodeOf
  <2>4. SetCurrentLimit(product, limit) = CodeT500(limit)
    BY <2>2, <2>3 DEF SetCurrentLimit
  <2>5. \A code \in 0..32 : getCurrentLimit(product, code) = Tic03aCurrentTable[code]
    BY <1>1 DEF getCurrentLimit
  <2>6. \A i, j \in 0..32 : i <= j => Tic03aCurrentTable[i] <= Tic03aCurrentTable[j]
    <3> TAKE i, j \in 0..32
    <3>1. i < j => Tic03aCurrentTable[i] < Tic03aCurrentTable[j]
      BY TableRises
    <3>2. Tic03aCurrentTable[i] \in Nat /\ Tic03aCurrentTable[j] \in Nat
      BY TableType
    <3>3. QED
      BY <3>1, <3>2
  <2>7. CodesOf(product) = 0..32
    BY <1>1 DEF CodesOf
  <2> HIDE <1>1
  <2>8. QED
    BY SMTT(30), <2>2, <2>4, <2>5, <2>6, <2>7 DEF RoundsDown
<1>2. CASE product = "Tic36v4"
  <2> DEFINE chosen == Code36v4(limit)
             Worth(code) == (55000 * code + 384) \div 768
  <2>1. limit \in Nat
    BY SMTT(30), <1>2 DEF Representable, Limit
  <2>2. /\ chosen \in 0..127
        /\ Worth(chosen) <= limit
        /\ \A d \in 0..127 : Worth(d) <= limit => d <= chosen
    BY <2>1 DEF Code36v4
  <2>3. CodeOf(product, limit) = chosen
    BY <1>2 DEF CodeOf
  <2>4. SetCurrentLimit(product, limit) = chosen
    BY <2>2, <2>3 DEF SetCurrentLimit
  <2>5. \A code \in 0..127 : getCurrentLimit(product, code) = Worth(code)
    BY <1>2 DEF getCurrentLimit
  <2>6. \A i, j \in 0..127 : i <= j => Worth(i) <= Worth(j)
    OBVIOUS
  <2>7. CodesOf(product) = 0..127
    BY <1>2 DEF CodesOf
  <2> HIDE DEF chosen, Worth
  <2>8. QED
    BY SMTT(30), <2>2, <2>4, <2>5, <2>6, <2>7 DEF RoundsDown
<1>3. CASE product = "T249"
  <2>1. limit \in Nat /\ limit < 128 * 40
    <3>1. limit \in 0..128 * 40 - 1
      BY <1>3, Zenon DEF Representable, TicT249CurrentUnits
    <3>2. QED
      BY <3>1
  <2>2. CodeOf(product, limit) = (limit \div 40) % 256
    BY <1>3 DEF CodeOf, TicT249CurrentUnits
  <2>3. SetCurrentLimit(product, limit) = limit \div 40
    BY <2>1, <2>2, UnitsRoundDown DEF SetCurrentLimit
  <2>4. \A code \in 0..127 : getCurrentLimit(product, code) = code * 40
    BY <1>3 DEF getCurrentLimit, TicT249CurrentUnits
  <2>5. CodesOf(product) = 0..127
    BY <1>3 DEF CodesOf
  <2>6. LET code == limit \div 40 IN
        /\ code \in 0..127 /\ code * 40 <= limit
        /\ \A d \in 0..127 : d * 40 <= limit => d * 40 <= code * 40
    BY <2>1, UnitsRoundDown
  <2>7. QED
    BY <2>3, <2>4, <2>5, <2>6 DEF RoundsDown
<1>4. CASE product \in {"Unknown", "T825", "T834"}
  <2>1. limit \in Nat /\ limit < 128 * 32
    <3>1. limit \in 0..128 * 32 - 1
      BY <1>4, Zenon DEF Representable, TicCurrentUnits
    <3>2. QED
      BY <3>1
  <2>2. CodeOf(product, limit) = (limit \div 32) % 256
    BY <1>4 DEF CodeOf, TicCurrentUnits
  <2>3. SetCurrentLimit(product, limit) = limit \div 32
    BY <2>1, <2>2, UnitsRoundDown DEF SetCurrentLimit
  <2>4. \A code \in 0..127 : getCurrentLimit(product, code) = code * 32
    BY <1>4 DEF getCurrentLimit, TicCurrentUnits
  <2>5. CodesOf(product) = 0..127
    BY <1>4 DEF CodesOf
  <2>6. LET code == limit \div 32 IN
        /\ code \in 0..127 /\ code * 32 <= limit
        /\ \A d \in 0..127 : d * 32 <= limit => d * 32 <= code * 32
    BY <2>1, UnitsRoundDown
  <2>7. QED
    BY <2>3, <2>4, <2>5, <2>6 DEF RoundsDown
<1>5. QED
  BY <1>1, <1>2, <1>3, <1>4 DEF TicProduct

=============================================================================
