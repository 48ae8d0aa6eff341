---------------------------- MODULE TiclibProofs -----------------------------
(***************************************************************************)
(* The calls of ticlib keep their promises for any commands, however many, *)
(* over any transport.  A command of which nothing is lost is executed,    *)
(* whatever is lost of others; one of which something is lost is not       *)
(* executed, as long as losses are Isolated; and a read is answered by its *)
(* own answer if reads are Prompt besides.                                 *)
(***************************************************************************)
EXTENDS Ticlib, TicCodecProofs

-----------------------------------------------------------------------------
(* Types.                                                                  *)

(* The bytes of call j, and the index of the last.                         *)
BytesOf(j)   == Encoded(calls[j].code, calls[j].arg)
LastIndex(j) == DataLength(calls[j].code) + 1

(* What the types need: what there is in each phase of a call, and that a  *)
(* command the controller is receiving still lacks a byte.                 *)
Shape ==
  /\ transport = "TicUsb" => phase = "idle"
  /\ phase = "write" => calls # <<>> /\ Len(unsent) \in 1..LastIndex(Len(calls))
  /\ phase = "read" => /\ calls # <<>> /\ Current.code \in Get
                       /\ Len(buffer) = Length /\ numZeros < MaxZeros
  /\ parser.code # 0 => parser.call > 0 /\ Len(parser.data) < DataLength(parser.code)

TInv == TypeOK /\ Shape

(* Sequences: their elements, one more at the end, one less at the front.  *)
LEMMA Elements ==
  ASSUME NEW S, NEW s \in Seq(S)
  PROVE  DOMAIN s = 1..Len(s) /\ Len(s) \in Nat /\ \A k \in DOMAIN s : s[k] \in S
OBVIOUS

LEMMA Appended ==
  ASSUME NEW S, NEW s \in Seq(S), NEW e \in S
  PROVE  /\ Append(s, e) \in Seq(S) /\ Append(s, e) # <<>>
         /\ Len(Append(s, e)) = Len(s) + 1
         /\ Append(s, e)[Len(s) + 1] = e
         /\ \A k \in 1..Len(s) : Append(s, e)[k] = s[k]
OBVIOUS

LEMMA OneMore ==
  ASSUME NEW S, NEW s \in Seq(S), NEW e, Append(s, e) \in Seq(S)
  PROVE  e \in S
<1>1. Len(s) \in Nat /\ Len(s) + 1 \in DOMAIN Append(s, e) /\ Append(s, e)[Len(s) + 1] = e
  OBVIOUS
<1>. QED
  BY <1>1, Elements

LEMMA Tailed ==
  ASSUME NEW S, NEW s \in Seq(S), s # <<>>
  PROVE  /\ Head(s) \in S /\ Head(s) = s[1] /\ Len(s) \in Nat \ {0}
         /\ Tail(s) \in Seq(S) /\ Len(Tail(s)) = Len(s) - 1
         /\ \A k \in 1..Len(s) - 1 : Tail(s)[k] = s[k + 1]
         /\ Tail(s) # <<>> <=> Len(s) > 1
<1>1. /\ Head(s) \in S /\ Head(s) = s[1] /\ Len(s) \in Nat \ {0}
      /\ Tail(s) \in Seq(S) /\ Len(Tail(s)) = Len(s) - 1
      /\ \A k \in 1..Len(s) - 1 : Tail(s)[k] = s[k + 1]
  OBVIOUS
<1>2. \A t \in Seq(S) : t # <<>> <=> Len(t) > 0
  OBVIOUS
<1>3. Tail(s) # <<>> <=> Len(Tail(s)) > 0
  BY <1>1, <1>2, Zenon
<1>. QED
  BY <1>1, <1>3

LEMMA Remainder ==
  ASSUME NEW S, NEW s \in Seq(S), NEW k \in 0..Len(s)
  PROVE  /\ SubSeq(s, k + 1, Len(s)) \in Seq(S)
         /\ Len(SubSeq(s, k + 1, Len(s))) = Len(s) - k
         /\ \A m \in 1..Len(s) - k : SubSeq(s, k + 1, Len(s))[m] = s[m + k]
         /\ k = Len(s) => SubSeq(s, k + 1, Len(s)) = <<>>
OBVIOUS

LEMMA Joined ==
  ASSUME NEW S, NEW l \in Seq(S), NEW r \in Seq(S)
  PROVE  /\ l \o r \in Seq(S) /\ Len(l \o r) = Len(l) + Len(r)
         /\ \A m \in 1..Len(l) + Len(r) :
              (l \o r)[m] = IF m <= Len(l) THEN l[m] ELSE r[m - Len(l)]
OBVIOUS

LEMMA OneLess ==
  ASSUME NEW S, NEW s \in Seq(S), NEW i \in 1..Len(s)
  PROVE  /\ RemoveAt(s, i) \in Seq(S) /\ Len(RemoveAt(s, i)) = Len(s) - 1
         /\ \A m \in 1..Len(s) - 1 :
              RemoveAt(s, i)[m] = IF m < i THEN s[m] ELSE s[m + 1]
<1> DEFINE l == SubSeq(s, 1, i - 1)
           r == SubSeq(s, i + 1, Len(s))
<1>1. l \in Seq(S) /\ Len(l) = i - 1 /\ \A m \in 1..i - 1 : l[m] = s[m]
  OBVIOUS
<1>2. r \in Seq(S) /\ Len(r) = Len(s) - i /\ \A m \in 1..Len(s) - i : r[m] = s[m + i]
  BY Remainder
<1> HIDE DEF l, r
<1>3. /\ l \o r \in Seq(S) /\ Len(l \o r) = Len(s) - 1
      /\ \A m \in 1..Len(s) - 1 : (l \o r)[m] = IF m < i THEN l[m] ELSE r[m - (i - 1)]
  <2>1. /\ l \o r \in Seq(S) /\ Len(l \o r) = Len(l) + Len(r)
        /\ \A m \in 1..Len(l) + Len(r) :
             (l \o r)[m] = IF m <= Len(l) THEN l[m] ELSE r[m - Len(l)]
    BY <1>1, <1>2, Joined
  <2>2. Len(l) + Len(r) = Len(s) - 1
    BY <1>1, <1>2
  <2>3. \A m \in 1..Len(s) - 1 : m <= Len(l) <=> m < i
    BY <1>1
  <2>. QED
    BY <1>1, <2>1, <2>2, <2>3
<1>4. ASSUME NEW m \in 1..Len(s) - 1 PROVE (l \o r)[m] = IF m < i THEN s[m] ELSE s[m + 1]
  <2>1. CASE m < i
    BY <1>1, <1>3, <2>1
  <2>2. CASE ~(m < i)
    <3>1. m - (i - 1) \in 1..Len(s) - i /\ (m - (i - 1)) + i = m + 1
      BY <2>2
    <3>. QED
      BY <1>2, <1>3, <2>2, <3>1
  <2>. QED
    BY <2>1, <2>2
<1>. QED
  BY <1>3, <1>4 DEF RemoveAt, l, r

LEMMA Fields ==
  ASSUME NEW C, NEW I, NEW t \in [call : C, index : I]
  PROVE  t.call \in C /\ t.index \in I /\ t = [call |-> t.call, index |-> t.index]
OBVIOUS

LEMMA LastOne ==
  ASSUME NEW S, NEW s \in Seq(S)
  PROVE  /\ s # <<>> => Last(s) \in S
         /\ \A e \in S : Last(Append(s, e)) = e
BY DEF Last

(* The kinds of commands, which have no code in common.                    *)
LEMMA Kinds ==
  ASSUME NEW code
  PROVE  /\ code \in Quick => code \notin W7 /\ code \notin W32 /\ code \notin Get
         /\ code \in W7 => code \notin Quick /\ code \notin W32 /\ code \notin Get
         /\ code \in W32 => code \notin Quick /\ code \notin W7 /\ code \notin Get
         /\ code \in Get => code \notin Quick /\ code \notin W7 /\ code \notin W32
BY DEF Quick, W7, W32, Get

LEMMA DataLengths ==
  ASSUME NEW code
  PROVE  /\ code \in Quick => DataLength(code) = 0
         /\ code \in W7 => DataLength(code) = 1
         /\ code \in W32 => DataLength(code) = 5
         /\ code \in Get => DataLength(code) = 2
         /\ code \in Codes => DataLength(code) \in 0..5
<1>1. /\ code \in Quick => DataLength(code) = 0
      /\ code \in W7 => DataLength(code) = 1
      /\ code \in W32 => DataLength(code) = 5
      /\ code \in Get => DataLength(code) = 2
  BY Kinds, Zenon DEF DataLength
<1>. QED
  BY <1>1 DEF Codes

(* The bytes of a command: its code, which is no data byte, then its data. *)
LEMMA CommandBytes ==
  ASSUME NEW c \in Commands
  PROVE  /\ c.code \in Codes /\ c.code \in 128..255 /\ c.arg \in Arguments(c.code)
         /\ DataLength(c.code) \in 0..5
         /\ DataOf(c.code, c.arg) \in Seq(0..127)
         /\ Len(DataOf(c.code, c.arg)) = DataLength(c.code)
         /\ Encoded(c.code, c.arg) \in Seq(Byte)
         /\ Len(Encoded(c.code, c.arg)) = DataLength(c.code) + 1
         /\ Encoded(c.code, c.arg)[1] = c.code
         /\ \A k \in 1..DataLength(c.code) :
              Encoded(c.code, c.arg)[k + 1] = DataOf(c.code, c.arg)[k]
         /\ c.code \in Get => c.arg[2] \in 0..63
<1> DEFINE data == DataOf(c.code, c.arg)
<1>1. c.code \in Codes /\ c.arg \in Arguments(c.code)
  BY TiclibAssumption
<1>2. data \in Seq(0..127) /\ Len(data) = DataLength(c.code) /\ c.code \in 128..255
  BY <1>1, RoundTrip
<1>3. DataLength(c.code) \in 0..5
  BY <1>1, DataLengths
<1>4. c.code \in Get => c.arg[2] \in 0..63
  <2>1. c.code \in Get => Arguments(c.code) = Byte \X (0..63)
    BY Kinds, Zenon DEF Arguments
  <2>. QED
    BY <1>1, <2>1
<1> HIDE DEF data
<1>5. /\ <<c.code>> \o data \in Seq(Byte)
      /\ Len(<<c.code>> \o data) = Len(data) + 1
      /\ (<<c.code>> \o data)[1] = c.code
      /\ \A k \in 1..Len(data) : (<<c.code>> \o data)[k + 1] = data[k]
  <2>1. <<c.code>> \in Seq(Byte) /\ data \in Seq(Byte)
    BY <1>2 DEF Byte
  <2>. QED
    BY <2>1
<1>. QED
  BY <1>1, <1>2, <1>3, <1>4, <1>5 DEF Encoded, data

(* A data byte, with a top bit that came elsewhere, is a byte.             *)
LEMMA DataBits ==
  ASSUME NEW low \in 0..127, NEW bits \in 0..127
  PROVE  /\ low \in Byte
         /\ low + 128 * Bit(bits, 1) \in Byte /\ low + 128 * Bit(bits, 2) \in Byte
         /\ low + 128 * Bit(bits, 4) \in Byte /\ low + 128 * Bit(bits, 8) \in Byte
         /\ low + 128 * (bits \div 64) \in Byte /\ bits % 64 \in 0..63
<1>1. low \in Byte /\ low + 128 * (bits \div 64) \in Byte
  BY DEF Byte
<1>2. bits % 64 \in 0..63
  OBVIOUS
<1>3. low + 128 * Bit(bits, 1) \in Byte /\ low + 128 * Bit(bits, 2) \in Byte
  BY DEF Byte, Bit
<1>4. low + 128 * Bit(bits, 4) \in Byte /\ low + 128 * Bit(bits, 8) \in Byte
  BY DEF Byte, Bit
<1>. QED
  BY <1>1, <1>2, <1>3, <1>4

(* What the controller makes of data bytes, as many as a code announces.   *)
LEMMA DecodedType ==
  ASSUME NEW code \in Codes, NEW data \in Seq(0..127), Len(data) = DataLength(code)
  PROVE  /\ Decoded(code, data) \in Seq(Byte)
         /\ code \in Get => Decoded(code, data)[2] \in 0..63
<1>0. /\ code \in Quick => Decoded(code, data) = <<>>
      /\ code \in W7 => Decoded(code, data) = <<data[1]>>
      /\ code \in W32 => Decoded(code, data) =
            <<data[2] + 128 * Bit(data[1], 1), data[3] + 128 * Bit(data[1], 2),
              data[4] + 128 * Bit(data[1], 4), data[5] + 128 * Bit(data[1], 8)>>
      /\ code \in Get => Decoded(code, data) =
            <<data[1] + 128 * (data[2] \div 64), data[2] % 64>>
  BY Kinds, Zenon DEF Decoded
<1>5. ASSUME NEW k \in 1..Len(data) PROVE data[k] \in 0..127
  BY Elements
<1>1. CASE code \in Quick
  BY <1>0, <1>1, Kinds
<1>2. CASE code \in W7
  <2>1. data[1] \in Byte
    <3>1. 1 \in 1..Len(data)
      BY <1>2, DataLengths
    <3>. QED
      BY <3>1, <1>5, DataBits, Zenon
  <2>2. <<data[1]>> \in Seq(Byte)
    BY <2>1
  <2>. QED
    BY <1>0, <1>2, <2>2, Kinds
<1>3. CASE code \in W32
  <2>1. /\ data[1] \in 0..127 /\ data[2] \in 0..127 /\ data[3] \in 0..127
        /\ data[4] \in 0..127 /\ data[5] \in 0..127
    <3>1. \A k \in 1..5 : k \in 1..Len(data)
      BY <1>3, DataLengths
    <3>2. 1 \in 1..5 /\ 2 \in 1..5 /\ 3 \in 1..5 /\ 4 \in 1..5 /\ 5 \in 1..5
      OBVIOUS
    <3>. QED
      BY <1>5, <3>1, <3>2, Zenon
  <2>2. ASSUME NEW a \in Byte, NEW b \in Byte, NEW c \in Byte, NEW d \in Byte
        PROVE  <<a, b, c, d>> \in Seq(Byte)
    OBVIOUS
  <2>3. data[2] + 128 * Bit(data[1], 1) \in Byte
    BY <2>1, DataBits, Zenon
  <2>4. data[3] + 128 * Bit(data[1], 2) \in Byte
    BY <2>1, DataBits, Zenon
  <2>5. data[4] + 128 * Bit(data[1], 4) \in Byte
    BY <2>1, DataBits, Zenon
  <2>6. data[5] + 128 * Bit(data[1], 8) \in Byte
    BY <2>1, DataBits, Zenon
  <2>7. <<data[2] + 128 * Bit(data[1], 1), data[3] + 128 * Bit(data[1], 2),
          data[4] + 128 * Bit(data[1], 4), data[5] + 128 * Bit(data[1], 8)>> \in Seq(Byte)
    BY <2>2, <2>3, <2>4, <2>5, <2>6, Zenon
  <2>8. Decoded(code, data) \in Seq(Byte)
    <3>1. Decoded(code, data) =
            <<data[2] + 128 * Bit(data[1], 1), data[3] + 128 * Bit(data[1], 2),
              data[4] + 128 * Bit(data[1], 4), data[5] + 128 * Bit(data[1], 8)>>
      BY <1>0, <1>3, Zenon
    <3>. QED
      BY <3>1, <2>7, Zenon
  <2>. QED
    BY <1>3, <2>8, Kinds
<1>4. CASE code \in Get
  <2>0. 1 \in 1..Len(data) /\ 2 \in 1..Len(data)
    BY <1>4, DataLengths
  <2>1. data[1] \in 0..127 /\ data[2] \in 0..127
    BY <2>0, <1>5, Zenon
  <2>2. data[1] + 128 * (data[2] \div 64) \in Byte /\ data[2] % 64 \in 0..63
    BY <2>1, DataBits, Zenon
  <2>3. ASSUME NEW a \in Byte, NEW b \in 0..63
        PROVE  <<a, b>> \in Seq(Byte) /\ (<<a, b>>)[2] \in 0..63
    BY DEF Byte
  <2>. QED
    BY <1>0, <1>4, <2>2, <2>3, Zenon
<1>. QED
  BY <1>1, <1>2, <1>3, <1>4 DEF Codes

(* The call in progress and the length of its answer.                      *)
LEMMA CurrentType ==
  ASSUME TypeOK, calls # <<>>
  PROVE  /\ Len(calls) \in 1..MaxCalls /\ Current \in Commands
         /\ Current.code \in Get => Length \in 0..63
<1>1. Len(calls) \in 1..MaxCalls /\ Current \in Commands
  BY TiclibAssumption DEF TypeOK, Current
<1>. QED
  BY <1>1, CommandBytes DEF Length

(* What is on its way, there and back.                                     *)
LEMMA OnItsWay ==
  ASSUME TypeOK
  PROVE  /\ DOMAIN toTic = 1..Len(toTic) /\ Len(toTic) \in Nat
         /\ DOMAIN fromTic = 1..Len(fromTic) /\ Len(fromTic) \in Nat
         /\ \A k \in DOMAIN toTic :
              toTic[k] \in Written /\ toTic[k].call \in 1..MaxCalls /\ toTic[k].index \in 1..6
         /\ \A k \in DOMAIN fromTic :
              /\ fromTic[k] \in Answered
              /\ fromTic[k].call \in 1..MaxCalls /\ fromTic[k].index \in 1..63
<1>1. toTic \in Seq(Written) /\ fromTic \in Seq(Answered)
  BY DEF TypeOK
<1>2. /\ DOMAIN toTic = 1..Len(toTic) /\ Len(toTic) \in Nat
      /\ DOMAIN fromTic = 1..Len(fromTic) /\ Len(fromTic) \in Nat
      /\ \A k \in DOMAIN toTic : toTic[k] \in Written
      /\ \A k \in DOMAIN fromTic : fromTic[k] \in Answered
  BY <1>1, Elements
<1>3. \A b \in Written : b.call \in 1..MaxCalls /\ b.index \in 1..6
  BY DEF Written
<1>4. \A b \in Answered : b.call \in 1..MaxCalls /\ b.index \in 1..63
  BY DEF Answered
<1>. QED
  BY <1>2, <1>3, <1>4, Zenon

LEMMA TypeStarts == Init => TInv
<1> SUFFICES ASSUME Init PROVE TInv
  OBVIOUS
<1>1. parser \in [code : Codes \cup {0}, call : 0..MaxCalls, data : Seq(0..127)]
  BY TiclibAssumption DEF Init, NoCommand
<1>2. calls \in Seq(Commands) /\ Len(calls) <= MaxCalls
  BY TiclibAssumption DEF Init
<1>3. readC \in 0..SizeT - 1 /\ numZeros \in 0..MaxZeros /\ lastError \in 0..255
  BY DEF Init, SizeT, MaxZeros
<1>4. /\ unsent \in Seq(Byte) /\ buffer \in Seq(Tagged)
      /\ toTic \in Seq(Written) /\ fromTic \in Seq(Answered)
      /\ executed \in Seq(Execution)
  BY DEF Init
<1>5. TypeOK
  BY <1>1, <1>2, <1>3, <1>4 DEF Init, TypeOK
<1>6. Shape
  BY DEF Init, Shape, NoCommand
<1>. QED
  BY <1>5, <1>6 DEF TInv

LEMMA TransferTypes ==
  ASSUME TInv, NEW c \in Commands, Transfer(c) PROVE TInv'
<1> DEFINE i == Len(calls) + 1
           length == IF c.code \in Get THEN c.arg[2] ELSE 0
<1>1. /\ transport = "TicUsb" /\ Len(calls) < MaxCalls /\ calls' = Append(calls, c)
      /\ UNCHANGED <<transport, phase, unsent, readC, numZeros, toTic, fromTic, parser>>
      /\ TypeOK /\ Shape
  BY DEF Transfer, TInv
<1>2. /\ calls' \in Seq(Commands) /\ Len(calls') <= MaxCalls /\ i \in 1..MaxCalls
  BY <1>1, TiclibAssumption DEF TypeOK
<1>3. length \in 0..63
  <2>1. c.code \in Get => c.arg[2] \in 0..63
    BY CommandBytes
  <2>. QED
    BY <2>1
<1>4. PICK result \in Result(length), reached \in BOOLEAN :
        /\ executed' = IF reached THEN Append(executed, [call |-> i, command |-> c])
                                  ELSE executed
        /\ hurt' = IF result = length THEN hurt ELSE hurt \cup {i}
        /\ lastError' = IF c.code \in Get THEN AfterSegment(result, length)
                                          ELSE AfterCommand(result)
        /\ buffer' = IF c.code \notin Get THEN buffer
                     ELSE [j \in 1..length |-> IF j <= result THEN [call |-> i, index |-> j]
                                                              ELSE Unset]
  BY DEF Transfer
<1> HIDE DEF length
<1>5. executed' \in Seq(Execution)
  <2>1. [call |-> i, command |-> c] \in Execution
    BY <1>2, TiclibAssumption DEF Execution
  <2>. QED
    BY <1>1, <1>4, <2>1, Appended DEF TypeOK
<1>6. hurt' \subseteq 1..MaxCalls
  BY <1>1, <1>2, <1>4 DEF TypeOK
<1>7. lastError' \in 0..255
  <2>1. result \in Int
    BY <1>3 DEF Result
  <2>. QED
    BY <1>4, <2>1 DEF AfterSegment, AfterCommand
<1>8. buffer' \in Seq(Tagged)
  <2>1. \A j \in 1..length : [call |-> i, index |-> j] \in Tagged
    BY <1>2, <1>3, TiclibAssumption DEF Tagged
  <2>2. Unset \in Tagged
    BY TiclibAssumption DEF Tagged, Unset
  <2>. QED
    BY <1>1, <1>3, <1>4, <2>1, <2>2 DEF TypeOK
<1>9. TypeOK'
  BY <1>1, <1>2, <1>5, <1>6, <1>7, <1>8 DEF TypeOK
<1>10. Shape'
  <2>1. phase' = "idle" /\ phase' # "write" /\ phase' # "read" /\ parser' = parser
    BY <1>1 DEF Shape
  <2>2. parser'.code # 0
          => parser'.call > 0 /\ Len(parser'.data) < DataLength(parser'.code)
    BY <1>1, <2>1 DEF Shape
  <2>. QED
    BY <2>1, <2>2, Zenon DEF Shape
<1>. QED
  BY <1>9, <1>10 DEF TInv

LEMMA GiveTypes ==
  ASSUME TInv, NEW c \in Commands, Give(c) PROVE TInv'
<1>1. /\ transport # "TicUsb" /\ phase = "idle" /\ Len(calls) < MaxCalls
      /\ calls' = Append(calls, c)
      /\ phase' = "write" /\ unsent' = Encoded(c.code, c.arg)
      /\ UNCHANGED <<transport, readC, numZeros, buffer, lastError, toTic, fromTic,
                     parser, executed, hurt>>
      /\ TypeOK /\ Shape
  BY DEF Give, TInv, reader, device
<1>2. /\ calls' \in Seq(Commands) /\ Len(calls') <= MaxCalls /\ calls' # <<>>
      /\ calls'[Len(calls')] = c
  <2>1. calls \in Seq(Commands) /\ Len(calls) \in Nat
    BY <1>1 DEF TypeOK
  <2>2. /\ calls' \in Seq(Commands) /\ calls' # <<>> /\ Len(calls') = Len(calls) + 1
        /\ calls'[Len(calls) + 1] = c
    BY <1>1, <2>1, Appended
  <2>3. Len(calls) + 1 <= MaxCalls
    BY <1>1, <2>1, TiclibAssumption
  <2>. QED
    BY <2>2, <2>3
<1>3. unsent' \in Seq(Byte) /\ Len(unsent') \in 1..DataLength(c.code) + 1
  <2>1. /\ unsent' \in Seq(Byte) /\ Len(unsent') = DataLength(c.code) + 1
        /\ DataLength(c.code) \in 0..5
    BY <1>1, CommandBytes, Zenon
  <2>. QED
    BY <2>1
<1>4. TypeOK'
  BY <1>1, <1>2, <1>3 DEF TypeOK
<1>5. Shape'
  BY <1>1, <1>2, <1>3 DEF Shape, LastIndex
<1>. QED
  BY <1>4, <1>5 DEF TInv

LEMMA WriteTypes ==
  ASSUME TInv, Write PROVE TInv'
<1> DEFINE n == Len(calls)
<1>1. /\ TypeOK /\ Shape /\ calls # <<>> /\ phase = "write"
      /\ unsent' = Tail(unsent) /\ Len(unsent) \in 1..LastIndex(n)
      /\ phase' = IF unsent' # <<>> THEN "write"
                  ELSE IF Current.code \in Get THEN "read" ELSE "idle"
      /\ UNCHANGED <<transport, calls, parser, executed>>
  BY DEF Write, TInv, Shape, device
<1>2. /\ n \in 1..MaxCalls /\ Current \in Commands /\ calls[n] = Current
      /\ Current.code \in Get => Length \in 0..63
  BY <1>1, CurrentType DEF Current
<1>3. NextIndex \in 1..6
  <2>1. DataLength(Current.code) \in 0..5 /\ LastIndex(n) = DataLength(Current.code) + 1
    BY <1>2, CommandBytes DEF LastIndex
  <2>. QED
    BY <1>1, <2>1 DEF NextIndex
<1>4. /\ unsent \in Seq(Byte) /\ unsent # <<>> /\ Head(unsent) \in Byte
      /\ unsent' \in Seq(Byte) /\ Len(unsent') = Len(unsent) - 1
  <2>1. unsent \in Seq(Byte) /\ unsent # <<>>
    BY <1>1 DEF TypeOK
  <2>. QED
    BY <1>1, <2>1, Tailed
<1>5. UnderWay \subseteq 1..MaxCalls
  BY <1>1, OnItsWay DEF UnderWay
<1>6. PICK sent \in BOOLEAN, reconnected \in {FALSE, transport = "StreamBT"} :
        /\ toTic' = (IF reconnected THEN <<>> ELSE toTic)
                    \o (IF sent THEN <<[value |-> Head(unsent), call |-> n,
                                        index |-> NextIndex]>> ELSE <<>>)
        /\ fromTic' = IF reconnected THEN <<>> ELSE fromTic
        /\ Lose((IF reconnected THEN UnderWay ELSE {}) \cup (IF sent THEN {} ELSE {n}))
  BY DEF Write
<1>7. toTic' \in Seq(Written)
  <2>1. [value |-> Head(unsent), call |-> n, index |-> NextIndex] \in Written
    BY <1>2, <1>3, <1>4 DEF Written
  <2>2. ASSUME NEW b \in Written PROVE <<b>> \in Seq(Written)
    OBVIOUS
  <2>3. toTic \in Seq(Written)
    BY <1>1 DEF TypeOK
  <2>. QED
    BY <1>6, <2>1, <2>2, <2>3
<1>8. fromTic' \in Seq(Answered)
  BY <1>1, <1>6 DEF TypeOK
<1>9. hurt' \subseteq 1..MaxCalls
  BY <1>1, <1>2, <1>5, <1>6 DEF TypeOK, Lose
<1>10. /\ readC' \in 0..SizeT - 1 /\ numZeros' \in 0..MaxZeros /\ buffer' \in Seq(Tagged)
       /\ phase' = "read" => Len(buffer') = Length /\ numZeros' = 0
  <2>1. CASE phase' = "read"
    <3>1. /\ readC' = 0 /\ numZeros' = 0 /\ buffer' = [i \in 1..Length |-> Unset]
      BY <2>1 DEF Write
    <3>2. Current.code \in Get /\ Length \in 0..63
      BY <1>1, <1>2, <2>1
    <3>3. Unset \in Tagged
      BY TiclibAssumption DEF Tagged, Unset
    <3>. QED
      BY <3>1, <3>2, <3>3 DEF SizeT, MaxZeros
  <2>2. CASE phase' # "read"
    BY <1>1, <2>2 DEF Write, TypeOK, reader
  <2>. QED
    BY <2>1, <2>2
<1>11. lastError' \in 0..255
  BY <1>1 DEF Write, TypeOK
<1>12. TypeOK'
  BY <1>1, <1>4, <1>7, <1>8, <1>9, <1>10, <1>11 DEF TypeOK
<1>13. Shape'
  <2>1. transport' # "TicUsb"
    BY <1>1 DEF Shape
  <2>2. phase' = "write" => calls' # <<>> /\ Len(unsent') \in 1..LastIndex(Len(calls))'
    <3>0. LastIndex(Len(calls))' = LastIndex(n)
      BY <1>1 DEF LastIndex
    <3>1. LastIndex(n) \in 1..6
      <4>1. DataLength(Current.code) \in 0..5
        BY <1>2, CommandBytes
      <4>. QED
        BY <1>2, <4>1 DEF LastIndex
    <3>2. phase' = "write" => unsent' # <<>>
      BY <1>1
    <3>. QED
      BY <1>1, <1>4, <3>0, <3>1, <3>2
  <2>3. phase' = "read" => Current'.code \in Get
    BY <1>1 DEF Current
  <2>4. Length' = Length
    BY <1>1 DEF Current, Length
  <2>5. phase' = "read" => Len(buffer') = Length' /\ numZeros' < MaxZeros
    BY <1>10, <2>4 DEF MaxZeros
  <2>. QED
    BY <1>1, <2>1, <2>2, <2>3, <2>5 DEF Shape
<1>. QED
  BY <1>12, <1>13 DEF TInv

(* A read that goes on or is over.                                         *)
LEMMA ReturnTypes ==
  ASSUME TypeOK, Shape, phase = "read",
         NEW count \in 0..SizeT - 1, NEW zeros \in 0..MaxZeros,
         NEW bytes \in Seq(Tagged), Len(bytes) = Length,
         Return(count, zeros, bytes)
  PROVE  /\ readC' \in 0..SizeT - 1 /\ numZeros' \in 0..MaxZeros
         /\ buffer' \in Seq(Tagged) /\ Len(buffer') = Length
         /\ lastError' \in 0..255 /\ phase' \in {"read", "idle"}
         /\ phase' = "read" => numZeros' < MaxZeros
<1>1. calls # <<>> /\ Length \in 0..63
  BY CurrentType DEF Shape
<1>2. CASE count < Length /\ zeros < MaxZeros
  BY <1>2 DEF Return, TypeOK
<1>3. CASE ~(count < Length /\ zeros < MaxZeros)
  <2>1. Zeroed \in Tagged
    BY TiclibAssumption DEF Tagged, Zeroed
  <2>2. /\ [i \in 1..Length |-> Zeroed] \in Seq(Tagged)
        /\ Len([i \in 1..Length |-> Zeroed]) = Length
    BY <1>1, <2>1
  <2>. QED
    BY <1>3, <2>2 DEF Return
<1>. QED
  BY <1>2, <1>3

(* The part of the types a read has to do with; the rest is left alone.    *)
LEMMA ReadingTypes ==
  ASSUME TInv, phase = "read", UNCHANGED <<transport, calls, unsent, parser, executed>>,
         /\ readC' \in 0..SizeT - 1 /\ numZeros' \in 0..MaxZeros
         /\ buffer' \in Seq(Tagged) /\ Len(buffer') = Length
         /\ lastError' \in 0..255 /\ phase' \in {"read", "idle"}
         /\ phase' = "read" => numZeros' < MaxZeros,
         toTic' \in Seq(Written), fromTic' \in Seq(Answered), hurt' \subseteq 1..MaxCalls
  PROVE  TInv'
<1>1. TypeOK'
  BY DEF TInv, TypeOK
<1>2. Shape'
  <2>1. transport' # "TicUsb" /\ phase' # "write"
    BY DEF TInv, Shape
  <2>2. Current' = Current /\ Length' = Length
    BY DEF Current, Length
  <2>3. phase' = "read" => /\ calls' # <<>> /\ Current'.code \in Get
                           /\ Len(buffer') = Length' /\ numZeros' < MaxZeros
    BY <2>2 DEF TInv, Shape
  <2>4. parser'.code # 0
          => parser'.call > 0 /\ Len(parser'.data) < DataLength(parser'.code)
    BY DEF TInv, Shape
  <2>. QED
    BY <2>1, <2>3, <2>4, Zenon DEF Shape
<1>. QED
  BY <1>1, <1>2 DEF TInv

LEMMA ReadTypes ==
  ASSUME TInv, Read PROVE TInv'
<1>1. /\ TypeOK /\ Shape /\ phase = "read" /\ calls # <<>> /\ Length \in 0..63
      /\ UNCHANGED <<transport, calls, unsent, toTic, parser, executed, hurt>>
      /\ buffer \in Seq(Tagged) /\ Len(buffer) = Length /\ readC \in 0..SizeT - 1
      /\ fromTic \in Seq(Answered)
  BY CurrentType DEF TInv, Shape, TypeOK, Read, device
<1>2. PICK k \in 1..Len(fromTic) :
        /\ k <= Length - readC
        /\ Return(Counted(k), 0,
                  [i \in 1..Length |-> IF i - readC \in 1..k THEN fromTic[i - readC]
                                                             ELSE buffer[i]])
        /\ fromTic' = SubSeq(fromTic, k + 1, Len(fromTic))
  BY DEF Read
<1> DEFINE bytes == [i \in 1..Length |-> IF i - readC \in 1..k THEN fromTic[i - readC]
                                                               ELSE buffer[i]]
<1>3. Counted(k) \in 0..SizeT - 1
  BY <1>1, <1>2 DEF Counted, SizeT
<1>4. bytes \in Seq(Tagged) /\ Len(bytes) = Length
  <2>1. ASSUME NEW i \in 1..Length PROVE bytes[i] \in Tagged
    <3>1. buffer[i] \in Tagged
      BY <1>1, Elements
    <3>2. i - readC \in 1..k => fromTic[i - readC] \in Tagged
      <4>1. \A j \in 1..Len(fromTic) : fromTic[j] \in Answered
        BY <1>1, OnItsWay
      <4>2. Answered \subseteq Tagged
        BY DEF Answered, Tagged
      <4>. QED
        BY <1>1, <1>2, <4>1, <4>2
    <3>. QED
      BY <3>1, <3>2
  <2>. QED
    BY <1>1, <2>1
<1>5. fromTic' \in Seq(Answered)
  BY <1>1, <1>2
<1> HIDE DEF bytes
<1>6. Return(Counted(k), 0, bytes) /\ 0 \in 0..MaxZeros
  BY <1>2 DEF bytes, MaxZeros
<1>. QED
  BY <1>1, <1>3, <1>4, <1>5, <1>6, ReturnTypes, ReadingTypes DEF TypeOK

LEMMA ReadNothingTypes ==
  ASSUME TInv, ReadNothing PROVE TInv'
<1>1. /\ TypeOK /\ Shape /\ phase = "read" /\ calls # <<>>
      /\ UNCHANGED <<transport, calls, unsent, parser, executed>>
      /\ buffer \in Seq(Tagged) /\ Len(buffer) = Length /\ readC \in 0..SizeT - 1
      /\ numZeros + 1 \in 0..MaxZeros
  BY DEF TInv, Shape, TypeOK, ReadNothing, device, MaxZeros
<1>2. /\ toTic' \in Seq(Written) /\ fromTic' \in Seq(Answered) /\ hurt' \subseteq 1..MaxCalls
  <2>1. UnderWay \subseteq 1..MaxCalls
    BY <1>1, OnItsWay DEF UnderWay
  <2>2. \/ UNCHANGED <<toTic, fromTic, hurt>>
        \/ toTic' = <<>> /\ fromTic' = <<>> /\ hurt' = hurt \cup UnderWay
    BY DEF ReadNothing, Lose
  <2>3. toTic \in Seq(Written) /\ fromTic \in Seq(Answered) /\ hurt \subseteq 1..MaxCalls
    BY <1>1 DEF TypeOK
  <2>4. <<>> \in Seq(Written) /\ <<>> \in Seq(Answered)
    OBVIOUS
  <2>5. CASE UNCHANGED <<toTic, fromTic, hurt>>
    BY <2>3, <2>5
  <2>6. CASE toTic' = <<>> /\ fromTic' = <<>> /\ hurt' = hurt \cup UnderWay
    BY <2>1, <2>3, <2>4, <2>6, Zenon
  <2>. QED
    BY <2>2, <2>5, <2>6
<1>3. \/ Return(readC, numZeros + 1, buffer)
      \/ Return((readC + 2 * (SizeT - 1)) % SizeT, 0, buffer)
  BY DEF ReadNothing
<1>4. (readC + 2 * (SizeT - 1)) % SizeT \in 0..SizeT - 1 /\ 0 \in 0..MaxZeros
  BY <1>1 DEF SizeT, MaxZeros
<1>. QED
  BY <1>1, <1>2, <1>3, <1>4, ReturnTypes, ReadingTypes

(* What the controller makes of a byte: a command that is whole, whose     *)
(* data decode, or one that still lacks a byte.                            *)
LEMMA ReceivedType ==
  ASSUME TypeOK, Shape, NEW b \in Written
  PROVE  LET p == Received(b) IN
         /\ p \in [code : Codes \cup {0}, call : 0..MaxCalls, data : Seq(0..127)]
         /\ p.code # 0 => p.call > 0 /\ Len(p.data) <= DataLength(p.code)
<1>1. /\ parser \in [code : Codes \cup {0}, call : 0..MaxCalls, data : Seq(0..127)]
      /\ parser.code # 0 => parser.call > 0 /\ Len(parser.data) < DataLength(parser.code)
  BY DEF TypeOK, Shape
<1>2. b.value \in 0..255 /\ b.call \in 1..MaxCalls
  BY DEF Written, Byte
<1>3. CASE b.value \in Codes
  <2>1. DataLength(b.value) \in 0..5
    BY <1>3, DataLengths
  <2>. QED
    BY <1>2, <1>3, <2>1 DEF Received
<1>4. CASE b.value \notin Codes /\ (b.value >= 128 \/ parser.code = 0)
  BY <1>4, TiclibAssumption DEF Received, NoCommand
<1>5. CASE b.value \notin Codes /\ ~(b.value >= 128 \/ parser.code = 0)
  <2>0. ~(b.value >= 128) /\ parser.code # 0
    BY <1>5
  <2>1. Received(b) = [parser EXCEPT !.data = Append(@, b.value)]
    BY <1>5 DEF Received
  <2>2. /\ parser.data \in Seq(0..127) /\ parser.code \in Codes /\ parser.call \in 0..MaxCalls
        /\ parser = [code |-> parser.code, call |-> parser.call, data |-> parser.data]
    BY <1>1, <1>5
  <2>5. b.value \in 0..127
    BY <1>2, <2>0
  <2>3. DataLength(parser.code) \in 0..5
    BY <2>2, DataLengths
  <2>4. Append(parser.data, b.value) \in Seq(0..127)
        /\ Len(Append(parser.data, b.value)) = Len(parser.data) + 1 /\ Len(parser.data) \in Nat
    BY <2>2, <2>5, Appended
  <2>6. Received(b) = [code |-> parser.code, call |-> parser.call,
                       data |-> Append(parser.data, b.value)]
    BY <2>1, <2>2
  <2>7. /\ Received(b) \in [code : Codes \cup {0}, call : 0..MaxCalls, data : Seq(0..127)]
        /\ Received(b).call > 0
        /\ Len(Received(b).data) <= DataLength(Received(b).code)
    BY <1>1, <1>5, <2>2, <2>3, <2>4, <2>6
  <2>. QED
    BY <2>7
<1>. QED
  BY <1>3, <1>4, <1>5

LEMMA AnswerBytes ==
  ASSUME NEW j \in 1..MaxCalls, NEW n \in 0..63
  PROVE  /\ [i \in 1..n |-> [call |-> j, index |-> i]] \in Seq(Answered)
         /\ Len([i \in 1..n |-> [call |-> j, index |-> i]]) = n
<1>1. \A i \in 1..n : [call |-> j, index |-> i] \in Answered
  BY DEF Answered
<1>. QED
  BY <1>1

LEMMA DeliverTypes ==
  ASSUME TInv, Deliver PROVE TInv'
<1> DEFINE p   == Received(Head(toTic))
           arg == Decoded(p.code, p.data)
<1>1. /\ TypeOK /\ Shape /\ toTic # <<>> /\ toTic' = Tail(toTic)
      /\ UNCHANGED <<transport, calls, phase, unsent, readC, numZeros, buffer, lastError, hurt>>
  BY DEF TInv, Deliver, driver, reader
<1>2. /\ p \in [code : Codes \cup {0}, call : 0..MaxCalls, data : Seq(0..127)]
      /\ p.code # 0 => p.call > 0 /\ Len(p.data) <= DataLength(p.code)
  <2>1. Head(toTic) \in Written
    BY <1>1, Tailed DEF TypeOK
  <2>. QED
    BY <1>1, <2>1, ReceivedType, Zenon
<1>3. toTic' \in Seq(Written)
  BY <1>1, Tailed DEF TypeOK
<1>4. /\ parser' \in [code : Codes \cup {0}, call : 0..MaxCalls, data : Seq(0..127)]
      /\ parser'.code # 0
           => parser'.call > 0 /\ Len(parser'.data) < DataLength(parser'.code)
      /\ executed' \in Seq(Execution) /\ fromTic' \in Seq(Answered)
  <2>1. CASE Complete(p)
    <3>1. /\ parser' = NoCommand
          /\ executed' = Append(executed,
                 [call |-> p.call, command |-> [code |-> p.code, arg |-> arg]])
          /\ fromTic' = IF p.code \in Get
                        THEN fromTic \o [i \in 1..arg[2] |-> [call |-> p.call, index |-> i]]
                        ELSE fromTic
      BY <2>1 DEF Deliver
    <3>2. /\ p.code \in Codes /\ p.call \in 1..MaxCalls
          /\ p.data \in Seq(0..127) /\ Len(p.data) = DataLength(p.code)
      BY <1>2, <2>1 DEF Complete
    <3> HIDE DEF p
    <3>3. arg \in Seq(Byte) /\ (p.code \in Get => arg[2] \in 0..63)
      BY <3>2, DecodedType
    <3> HIDE DEF arg
    <3>4. executed' \in Seq(Execution)
      <4>1. [call |-> p.call, command |-> [code |-> p.code, arg |-> arg]] \in Execution
        BY <3>2, <3>3 DEF Execution
      <4>. QED
        BY <1>1, <3>1, <4>1, Appended DEF TypeOK
    <3>5. fromTic' \in Seq(Answered)
      <4>1. fromTic \in Seq(Answered)
        BY <1>1 DEF TypeOK
      <4>2. CASE p.code \in Get
        <5>0. arg[2] \in 0..63
          BY <3>3, <4>2
        <5>2. [i \in 1..arg[2] |-> [call |-> p.call, index |-> i]] \in Seq(Answered)
          BY <3>2, <5>0, AnswerBytes, Zenon
        <5>. QED
          BY <3>1, <4>1, <4>2, <5>2
      <4>. QED
        BY <3>1, <4>1, <4>2
    <3>6. parser' \in [code : Codes \cup {0}, call : 0..MaxCalls, data : Seq(0..127)]
          /\ parser'.code = 0
      BY <3>1, TiclibAssumption DEF NoCommand
    <3>. QED
      BY <3>4, <3>5, <3>6
  <2>2. CASE ~Complete(p)
    <3>1. parser' = p /\ executed' = executed /\ fromTic' = fromTic
      BY <2>2 DEF Deliver
    <3> HIDE DEF p
    <3>2. p.code # 0 => Len(p.data) < DataLength(p.code)
      <4>1. p.code # 0 => DataLength(p.code) \in 0..5 /\ Len(p.data) \in Nat
        BY <1>2, DataLengths
      <4>. QED
        BY <1>2, <2>2, <4>1 DEF Complete
    <3>. QED
      BY <1>1, <1>2, <3>1, <3>2 DEF TypeOK
  <2>. QED
    BY <2>1, <2>2
<1>5. TypeOK'
  BY <1>1, <1>3, <1>4 DEF TypeOK
<1>6. Shape'
  <2>1. Current' = Current /\ Length' = Length /\ LastIndex(Len(calls))' = LastIndex(Len(calls))
    BY <1>1 DEF Current, Length, LastIndex
  <2>2. /\ transport' = "TicUsb" => phase' = "idle"
        /\ phase' = "write" => calls' # <<>> /\ Len(unsent') \in 1..LastIndex(Len(calls))'
        /\ phase' = "read" => /\ calls' # <<>> /\ Current'.code \in Get
                              /\ Len(buffer') = Length' /\ numZeros' < MaxZeros
    BY <1>1, <2>1 DEF Shape
  <2>. QED
    BY <1>4, <2>2, Zenon DEF Shape
<1>. QED
  BY <1>5, <1>6 DEF TInv

LEMMA LoseAnswerTypes ==
  ASSUME TInv, LoseAnswer PROVE TInv'
<1>1. /\ TypeOK /\ Shape
      /\ UNCHANGED <<transport, calls, phase, unsent, readC, numZeros, buffer, lastError,
                     toTic, parser, executed>>
      /\ fromTic \in Seq(Answered)
  BY DEF TInv, TypeOK, LoseAnswer, driver, reader, device
<1>2. PICK i \in 1..Len(fromTic) : fromTic' = RemoveAt(fromTic, i) /\ Lose({fromTic[i].call})
  BY DEF LoseAnswer
<1>3. fromTic' \in Seq(Answered)
  BY <1>1, <1>2 DEF RemoveAt
<1>4. hurt' \subseteq 1..MaxCalls
  <2>1. fromTic[i].call \in 1..MaxCalls
    BY <1>1, <1>2, OnItsWay
  <2>. QED
    BY <1>1, <1>2, <2>1 DEF TypeOK, Lose
<1>5. TypeOK'
  BY <1>1, <1>3, <1>4 DEF TypeOK
<1>6. Shape'
  BY <1>1 DEF Shape, Current, Length, LastIndex
<1>. QED
  BY <1>5, <1>6 DEF TInv

LEMMA TypeStutters ==
  ASSUME TInv, UNCHANGED vars PROVE TInv'
BY DEF TInv, TypeOK, Shape, Current, Length, LastIndex,
       vars, driver, reader, device

LEMMA TypeStep == TInv /\ [Next]_vars => TInv'
<1> SUFFICES ASSUME TInv, [Next]_vars PROVE TInv'
  OBVIOUS
<1>. QED
  BY TransferTypes, GiveTypes, WriteTypes, ReadTypes, ReadNothingTypes, DeliverTypes,
     LoseAnswerTypes, TypeStutters DEF Next

LEMMA TypedAlways == Spec => []TInv
  BY TypeStarts, TypeStep, PTL DEF Spec

(* Every variable keeps its type: the count of the bytes that were read    *)
(* stays within a size_t, the buffer has room for what is put into it, and *)
(* the controller never has more of a command than belongs to it, whatever *)
(* the link loses.                                                         *)
THEOREM TypesKept == Spec => []TypeOK
<1>1. TInv => TypeOK
  BY DEF TInv
<1>. QED
  BY <1>1, TypedAlways, PTL

-----------------------------------------------------------------------------
(* The controller executes what it was told.                               *)
(*                                                                         *)
(* The bytes of all calls, written one after the other, are one stream,    *)
(* where byte y of call j is at At(j, y): no command has as many as 8.     *)

At(j, y) == 8 * j + y

(* The first place that has not been written.                              *)
Frontier ==
  IF phase = "write" THEN At(Len(calls), NextIndex) ELSE At(Len(calls) + 1, 1)

(* What is still to be written.                                            *)
Writing ==
  phase = "write" =>
    \A k \in 1..Len(unsent) : unsent[k] = BytesOf(Len(calls))[NextIndex - 1 + k]

(* What is on its way to the controller: bytes of the stream, in its order,*)
(* that have been written.                                                 *)
Where(m) == At(toTic[m].call, toTic[m].index)

OnTheWay ==
  /\ \A m \in DOMAIN toTic :
       /\ toTic[m].call \in 1..Len(calls)
       /\ toTic[m].index \in 1..LastIndex(toTic[m].call)
       /\ toTic[m].value = BytesOf(toTic[m].call)[toTic[m].index]
       /\ Where(m) < Frontier
  /\ \A m, n \in DOMAIN toTic : m < n => Where(m) < Where(n)

(* The controller has heard the stream up to byte x of call a, as far as   *)
(* it was not lost.  What lies between there and the frontier is on its    *)
(* way, unless its call is hurt.                                           *)
Ahead(a, x) ==
  /\ At(a, x) < Frontier
  /\ \A m \in DOMAIN toTic : At(a, x) < Where(m)
  /\ \A j \in 1..Len(calls) : \A y \in 1..LastIndex(j) :
       j \notin hurt /\ At(a, x) < At(j, y) /\ At(j, y) < Frontier
         => \E m \in DOMAIN toTic : toTic[m].call = j /\ toTic[m].index = y

(* The command it is receiving is whole so far, or a byte behind for good. *)
Whole(a, x) ==
  /\ x = Len(parser.data) + 1
  /\ \A k \in 1..Len(parser.data) : parser.data[k] = DataOf(calls[a].code, calls[a].arg)[k]

Sound(a, x) ==
  IF parser.code = 0
  THEN a > 0 => a \in hurt \/ x = LastIndex(a)
  ELSE /\ a > 0 /\ parser.call = a /\ parser.code = calls[a].code
       /\ Whole(a, x) \/ (a \in hurt /\ x > Len(parser.data) + 1)

(* Or losses are not Isolated, and it has bytes of several that are hurt.  *)
Mixed(a) == ~Isolated /\ a \in hurt /\ parser.code # 0 /\ parser.call \in 1..a

Receiving(a, x) == Sound(a, x) \/ Mixed(a)

(* What it executed came before.                                           *)
LastCall == IF executed = <<>> THEN 0 ELSE Last(executed).call

Done(a) == IF parser.code = 0 THEN LastCall <= a ELSE LastCall < a

Flow(a, x) ==
  /\ (a = 0 /\ x = 0) \/ (a \in 1..Len(calls) /\ x \in 1..LastIndex(a))
  /\ Ahead(a, x) /\ Receiving(a, x) /\ Done(a)

Losses == Isolated => \A i \in hurt : i + 1 \notin hurt

LinkInv ==
  /\ transport = "TicUsb" =>
       /\ toTic = <<>> /\ fromTic = <<>> /\ parser.code = 0
       /\ LastCall <= Len(calls)
  /\ transport # "TicUsb" =>
       /\ Writing /\ OnTheWay /\ Losses
       /\ \E a \in 0..Len(calls), x \in 0..6 : Flow(a, x)

(* The commands that were given, byte by byte.                             *)
LEMMA CallBytes ==
  ASSUME TypeOK, NEW j \in 1..Len(calls)
  PROVE  /\ calls[j] \in Commands /\ calls[j].code \in Codes
         /\ calls[j].arg \in Arguments(calls[j].code)
         /\ LastIndex(j) \in 1..6 /\ LastIndex(j) = DataLength(calls[j].code) + 1
         /\ DataOf(calls[j].code, calls[j].arg) \in Seq(0..127)
         /\ Len(DataOf(calls[j].code, calls[j].arg)) = LastIndex(j) - 1
         /\ Len(BytesOf(j)) = LastIndex(j)
         /\ BytesOf(j)[1] = calls[j].code
         /\ \A k \in 1..LastIndex(j) - 1 :
              BytesOf(j)[k + 1] = DataOf(calls[j].code, calls[j].arg)[k]
<1>1. calls[j] \in Commands
  BY Elements DEF TypeOK
<1>2. DataLength(calls[j].code) \in 0..5
  BY <1>1, CommandBytes
<1>3. LastIndex(j) \in 1..6 /\ LastIndex(j) - 1 = DataLength(calls[j].code)
  BY <1>2 DEF LastIndex
<1>4. \A k \in 1..DataLength(calls[j].code) :
        BytesOf(j)[k + 1] = DataOf(calls[j].code, calls[j].arg)[k]
  BY <1>1, CommandBytes, Zenon DEF BytesOf
<1>. QED
  BY <1>1, <1>3, <1>4, CommandBytes DEF LastIndex, BytesOf

(* What is on its way may get lost, and calls with it.                     *)
LEMMA LossKept ==
  ASSUME TypeOK, LinkInv, transport # "TicUsb",
         UNCHANGED <<transport, calls, unsent, parser, executed>>,
         phase' = "write" => phase = "write", phase = "write" => phase' = "write",
         Losses', hurt \subseteq hurt',
         \/ toTic' = toTic
         \/ toTic' = <<>> /\ \A m \in DOMAIN toTic : toTic[m].call \in hurt'
  PROVE  LinkInv'
<1>1. /\ NextIndex' = NextIndex /\ Frontier' = Frontier
      /\ \A j : LastIndex(j)' = LastIndex(j) /\ BytesOf(j)' = BytesOf(j)
  BY DEF NextIndex, Current, Frontier, LastIndex, BytesOf
<1>2. Writing'
  BY <1>1 DEF LinkInv, Writing
<1>3. OnTheWay'
  <2>1. CASE toTic' = toTic
    BY <1>1, <2>1 DEF LinkInv, OnTheWay, Where
  <2>2. CASE toTic' = <<>>
    BY <2>2 DEF OnTheWay
  <2>. QED
    BY <2>1, <2>2
<1>4. PICK a \in 0..Len(calls), x \in 0..6 : Flow(a, x)
  BY DEF LinkInv
<1>5. Ahead(a, x)'
  <2>1. CASE toTic' = toTic
    BY <1>1, <1>4, <2>1 DEF Flow, Ahead, Where
  <2>2. CASE toTic' = <<>> /\ \A m \in DOMAIN toTic : toTic[m].call \in hurt'
    <3>1. At(a, x) < Frontier' /\ \A m \in DOMAIN toTic' : At(a, x) < Where(m)'
      BY <1>1, <1>4, <2>2 DEF Flow, Ahead
    <3>2. ASSUME NEW j \in 1..Len(calls), NEW y \in 1..LastIndex(j),
                 j \notin hurt', At(a, x) < At(j, y), At(j, y) < Frontier
          PROVE  FALSE
      BY <1>4, <2>2, <3>2 DEF Flow, Ahead
    <3>. QED
      BY <1>1, <3>1, <3>2 DEF Ahead
  <2>. QED
    BY <2>1, <2>2
<1>6. Receiving(a, x)' /\ Done(a)'
  BY <1>1, <1>4 DEF Flow, Receiving, Sound, Mixed, Whole, Done, LastCall
<1>7. Flow(a, x)'
  BY <1>1, <1>4, <1>5, <1>6 DEF Flow
<1>. QED
  BY <1>2, <1>3, <1>4, <1>7 DEF LinkInv

LEMMA Places ==
  ASSUME TypeOK, Shape
  PROVE  Frontier \in Int /\ \A m \in DOMAIN toTic : Where(m) \in Int
<1>1. Frontier \in Int
  <2>1. Len(calls) \in Int /\ (phase = "write" => Len(unsent) \in Int)
    BY DEF TypeOK
  <2>2. phase = "write" => DataLength(Current.code) \in 0..5
    BY CurrentType, CommandBytes DEF Shape
  <2>. QED
    BY <2>1, <2>2 DEF Frontier, At, NextIndex
<1>2. \A m \in DOMAIN toTic : Where(m) \in Int
  BY OnItsWay DEF Where, At
<1>. QED
  BY <1>1, <1>2

LEMMA LinkStarts == Init => LinkInv
<1> SUFFICES ASSUME Init PROVE LinkInv
  OBVIOUS
<1>1. Writing /\ OnTheWay /\ Losses
  BY DEF Init, Writing, OnTheWay, Losses
<1>2. Flow(0, 0)
  BY DEF Init, Flow, Ahead, Receiving, Sound, Mixed, Done, LastCall, At, Frontier, NoCommand
<1>. QED
  BY <1>1, <1>2 DEF Init, LinkInv, LastCall, NoCommand

LEMMA Executions ==
  ASSUME TypeOK
  PROVE  /\ LastCall \in Nat
         /\ \A e \in Execution : executed' = Append(executed, e) => LastCall' = e.call
<1>1. executed \in Seq(Execution) /\ \A e \in Execution : e.call \in Nat
  BY TiclibAssumption DEF TypeOK, Execution
<1>2. LastCall \in Nat
  <2>1. executed # <<>> => Last(executed) \in Execution
    BY <1>1, LastOne
  <2>. QED
    BY <1>1, <2>1 DEF LastCall
<1>3. ASSUME NEW e \in Execution, executed' = Append(executed, e) PROVE LastCall' = e.call
  <2>1. executed' # <<>> /\ Last(executed') = e
    BY <1>1, <1>3, Appended, LastOne
  <2>. QED
    BY <2>1 DEF LastCall
<1>. QED
  BY <1>2, <1>3

LEMMA TransferLink ==
  ASSUME TInv, LinkInv, NEW c \in Commands, Transfer(c) PROVE LinkInv'
<1>1. /\ transport = "TicUsb" /\ calls' = Append(calls, c) /\ Len(calls) < MaxCalls
      /\ UNCHANGED <<transport, toTic, fromTic, parser>>
      /\ executed' \in {executed, Append(executed, [call |-> Len(calls) + 1, command |-> c])}
      /\ toTic = <<>> /\ fromTic = <<>> /\ parser.code = 0
      /\ LastCall <= Len(calls)
  BY DEF Transfer, LinkInv
<1>2. Len(calls') = Len(calls) + 1 /\ Len(calls) \in Nat
  <2>1. calls \in Seq(Commands) /\ Len(calls) \in Nat
    BY DEF TInv, TypeOK
  <2>. QED
    BY <1>1, <2>1, Appended
<1>3. LastCall' <= Len(calls')
  <2>1. CASE executed' = executed
    <3>1. LastCall' = LastCall /\ LastCall \in Nat
      BY <2>1, Executions DEF LastCall, TInv
    <3>. QED
      BY <1>1, <1>2, <3>1
  <2>2. CASE executed' = Append(executed, [call |-> Len(calls) + 1, command |-> c])
    <3>1. [call |-> Len(calls) + 1, command |-> c] \in Execution
      BY <1>1, <1>2, TiclibAssumption DEF Execution
    <3>2. LastCall' = Len(calls) + 1
      BY <2>2, <3>1, Executions DEF TInv
    <3>. QED
      BY <1>2, <3>2
  <2>. QED
    BY <1>1, <2>1, <2>2
<1>. QED
  BY <1>1, <1>3 DEF LinkInv

LEMMA GiveLink ==
  ASSUME TInv, LinkInv, NEW c \in Commands, Give(c) PROVE LinkInv'
<1> DEFINE n == Len(calls)
<1>1. /\ TypeOK /\ transport # "TicUsb" /\ phase = "idle" /\ calls' = Append(calls, c)
      /\ phase' = "write" /\ unsent' = Encoded(c.code, c.arg)
      /\ UNCHANGED <<transport, toTic, parser, executed, hurt>>
  BY DEF Give, TInv, device
<1>2. /\ Len(calls') = n + 1 /\ n \in Nat /\ calls'[n + 1] = c
      /\ \A j \in 1..n : calls'[j] = calls[j]
  <2>1. calls \in Seq(Commands) /\ n \in Nat
    BY <1>1 DEF TypeOK
  <2>. QED
    BY <1>1, <2>1, Appended
<1>3. \A j \in 1..n : LastIndex(j)' = LastIndex(j) /\ BytesOf(j)' = BytesOf(j)
  BY <1>2 DEF LastIndex, BytesOf
<1>4. NextIndex' = 1 /\ Frontier' = Frontier
  <2>1. Len(unsent') = DataLength(c.code) + 1 /\ DataLength(c.code) \in 0..5
    BY <1>1, CommandBytes
  <2>2. NextIndex' = 1
    BY <1>1, <1>2, <2>1 DEF NextIndex, Current
  <2>. QED
    BY <1>1, <1>2, <2>2 DEF Frontier
<1>5. Writing'
  <2>1. unsent' = BytesOf(Len(calls))'
    BY <1>1, <1>2 DEF BytesOf
  <2>2. Len(unsent') \in Nat
    BY <1>1, CommandBytes
  <2>. QED
    BY <1>4, <2>1, <2>2 DEF Writing
<1>6. OnTheWay'
  BY <1>1, <1>2, <1>3, <1>4 DEF LinkInv, OnTheWay, Where
<1>7. Losses'
  BY <1>1, <1>2 DEF LinkInv, Losses
<1>8. PICK a \in 0..n, x \in 0..6 : Flow(a, x)
  BY <1>1 DEF LinkInv
<1>9. Ahead(a, x)'
  <2>1. At(a, x) < Frontier' /\ \A m \in DOMAIN toTic' : At(a, x) < Where(m)'
    BY <1>1, <1>4, <1>8 DEF Flow, Ahead, Where
  <2>2. ASSUME NEW j \in 1..Len(calls'), NEW y \in 1..LastIndex(j)',
               j \notin hurt', At(a, x) < At(j, y), At(j, y) < Frontier'
        PROVE  \E m \in DOMAIN toTic' : toTic'[m].call = j /\ toTic'[m].index = y
    <3>1. CASE j \in 1..n
      <4>1. y \in 1..LastIndex(j)
        BY <1>3, <3>1
      <4>. QED
        BY <1>1, <1>4, <1>8, <2>2, <3>1, <4>1 DEF Flow, Ahead
    <3>2. CASE j = n + 1
      <4>1. Frontier = At(n + 1, 1)
        BY <1>1 DEF Frontier
      <4>2. LastIndex(j)' \in 1..6
        <5>1. LastIndex(j)' = DataLength(c.code) + 1 /\ DataLength(c.code) \in 0..5
          BY <1>2, <3>2, CommandBytes DEF LastIndex
        <5>. QED
          BY <5>1
      <4>. QED
        BY <1>2, <1>4, <2>2, <3>2, <4>1, <4>2 DEF At
    <3>. QED
      BY <1>2, <3>1, <3>2
  <2>. QED
    BY <2>1, <2>2 DEF Ahead
<1>10. Receiving(a, x)' /\ Done(a)'
  BY <1>1, <1>2, <1>3, <1>8 DEF Flow, Receiving, Sound, Mixed, Whole, Done, LastCall
<1>11. Flow(a, x)'
  BY <1>2, <1>3, <1>8, <1>9, <1>10 DEF Flow
<1>. QED
  BY <1>1, <1>2, <1>5, <1>6, <1>7, <1>8, <1>11 DEF LinkInv

(* A byte of the call is written, with what was on its way or without.     *)
WritesOn ==
  /\ \A m \in DOMAIN toTic' :
       toTic'[m].call = Len(calls) \/ \E l \in DOMAIN toTic : toTic'[m] = toTic[l]
  /\ Len(calls) \notin hurt' => \E m \in DOMAIN toTic' : toTic'[m].call = Len(calls)

LEMMA WriteLink ==
  ASSUME TInv, LinkInv, Write PROVE LinkInv' /\ WritesOn
<1> DEFINE n == Len(calls)
<1>1. /\ TypeOK /\ Shape /\ transport # "TicUsb" /\ phase = "write"
      /\ Len(unsent) \in 1..LastIndex(n) /\ unsent' = Tail(unsent)
      /\ UNCHANGED <<transport, calls, parser, executed>>
  BY DEF Write, TInv, Shape, device
<1>2. /\ n \in Nat /\ n \in 1..n /\ Current = calls[n] /\ LastIndex(n) \in 1..6
      /\ DataLength(Current.code) = LastIndex(n) - 1
  <2>1. n \in 1..MaxCalls /\ Current \in Commands
    BY <1>1, CurrentType DEF Shape
  <2>2. n \in Nat /\ n \in 1..n
    BY <2>1
  <2>3. DataLength(Current.code) \in 0..5
    BY <2>1, CommandBytes
  <2>. QED
    BY <2>2, <2>3 DEF Current, LastIndex
<1>3. /\ NextIndex \in 1..LastIndex(n) /\ NextIndex = LastIndex(n) + 1 - Len(unsent)
      /\ Frontier = At(n, NextIndex)
  BY <1>1, <1>2 DEF NextIndex, Frontier
<1>4. /\ Len(unsent') = Len(unsent) - 1 /\ Head(unsent) = unsent[1]
      /\ \A k \in 1..Len(unsent) - 1 : unsent'[k] = unsent[k + 1]
      /\ phase' = "write" <=> Len(unsent) > 1
  <2>1. unsent \in Seq(Byte) /\ unsent # <<>>
    BY <1>1, <1>2 DEF TypeOK
  <2>2. phase' = "write" <=> unsent' # <<>>
    BY DEF Write
  <2>. QED
    BY <1>1, <2>1, <2>2, Tailed
<1>5. /\ NextIndex' = NextIndex + 1
      /\ \A j : LastIndex(j)' = LastIndex(j) /\ BytesOf(j)' = BytesOf(j)
  <2>1. Current' = Current
    BY <1>1 DEF Current
  <2>2. NextIndex' = DataLength(Current.code) + 2 - Len(unsent')
    BY <2>1 DEF NextIndex
  <2>3. NextIndex' = NextIndex + 1
    BY <1>1, <1>2, <1>3, <1>4, <2>2
  <2>. QED
    BY <1>1, <2>3 DEF LastIndex, BytesOf
<1>6. \/ Frontier' = At(n, NextIndex + 1)
      \/ Frontier' = At(n + 1, 1) /\ NextIndex = LastIndex(n)
  <2>1. CASE phase' = "write"
    BY <1>1, <1>5, <2>1 DEF Frontier
  <2>2. CASE phase' # "write"
    <3>1. Frontier' = At(n + 1, 1)
      BY <1>1, <2>2 DEF Frontier
    <3>. QED
      BY <1>1, <1>2, <1>3, <1>4, <2>2, <3>1
  <2>. QED
    BY <2>1, <2>2
<1>7. Frontier < Frontier'
  <2>1. n \in Int /\ NextIndex \in Int /\ NextIndex >= 1 /\ NextIndex <= 6
    BY <1>2, <1>3
  <2>. QED
    BY <1>3, <1>6, <2>1 DEF At
<1>8. ASSUME NEW j \in 1..n, NEW y \in 1..LastIndex(j), At(j, y) < Frontier'
      PROVE  At(j, y) < Frontier \/ (j = n /\ y = NextIndex)
  <2>1. j \in Int /\ j <= n /\ y \in Int /\ y >= 1 /\ y <= LastIndex(j) /\ LastIndex(j) \in 1..6
    BY <1>1, <1>2, CallBytes
  <2>2. n \in Int /\ NextIndex \in Int /\ NextIndex >= 1 /\ NextIndex <= 6
    BY <1>2, <1>3
  <2>3. CASE Frontier' = At(n, NextIndex + 1)
    BY <1>3, <1>8, <2>1, <2>2, <2>3 DEF At
  <2>4. CASE Frontier' = At(n + 1, 1) /\ NextIndex = LastIndex(n)
    <3>1. j = n => y <= NextIndex
      BY <2>1, <2>4
    <3>. QED
      BY <1>3, <2>1, <2>2, <3>1 DEF At
  <2>. QED
    BY <1>6, <2>3, <2>4
<1>9. PICK sent \in BOOLEAN, reconnected \in {FALSE, transport = "StreamBT"} :
        /\ toTic' = (IF reconnected THEN <<>> ELSE toTic)
                    \o (IF sent THEN <<[value |-> Head(unsent), call |-> n,
                                        index |-> NextIndex]>> ELSE <<>>)
        /\ Lose((IF reconnected THEN UnderWay ELSE {}) \cup (IF sent THEN {} ELSE {n}))
  BY DEF Write
<1>10. Writing /\ OnTheWay /\ Losses /\ toTic \in Seq(Written)
  BY <1>1, <1>2 DEF LinkInv, TypeOK
<1>11. PICK b \in Written : b = [value |-> Head(unsent), call |-> n, index |-> NextIndex]
  <2>1. Head(unsent) \in Byte
    <3>1. unsent \in Seq(Byte) /\ 1 \in 1..Len(unsent)
      BY <1>1, <1>2 DEF TypeOK
    <3>. QED
      BY <1>4, <3>1, Elements
  <2>2. n \in 1..MaxCalls
    BY <1>1, CurrentType DEF Shape
  <2>3. NextIndex \in 1..6
    BY <1>2, <1>3
  <2>. QED
    BY <2>1, <2>2, <2>3 DEF Written
<1>12. /\ b.value = BytesOf(n)[NextIndex] /\ b.call = n /\ b.index = NextIndex
  <2>1. unsent[1] = BytesOf(n)[NextIndex - 1 + 1]
    BY <1>1, <1>2, <1>10 DEF Writing
  <2>. QED
    BY <1>2, <1>3, <1>4, <1>11, <2>1
<1>13. PICK old \in Seq(Written) :
         /\ old = IF reconnected THEN <<>> ELSE toTic
         /\ toTic' = IF sent THEN Append(old, b) ELSE old
  <2>1. \A s \in Seq(Written) : s \o <<b>> = Append(s, b) /\ s \o <<>> = s
    OBVIOUS
  <2>2. <<>> \in Seq(Written)
    OBVIOUS
  <2>. QED
    BY <1>9, <1>10, <1>11, <2>1, <2>2
<1>14. /\ Len(old) \in Nat /\ DOMAIN old = 1..Len(old)
       /\ DOMAIN toTic' = 1..Len(old) + (IF sent THEN 1 ELSE 0)
       /\ \A m \in 1..Len(old) : toTic'[m] = old[m] /\ m \in DOMAIN toTic /\ old[m] = toTic[m]
       /\ sent => toTic'[Len(old) + 1] = b
  <2>1. Len(old) \in Nat /\ DOMAIN old = 1..Len(old)
    BY Elements
  <2>2. \A m \in 1..Len(old) : m \in DOMAIN toTic /\ old[m] = toTic[m]
    BY <1>13, <2>1
  <2>3. CASE sent
    <3>1. /\ toTic' \in Seq(Written) /\ Len(toTic') = Len(old) + 1 /\ toTic'[Len(old) + 1] = b
          /\ \A m \in 1..Len(old) : toTic'[m] = old[m]
      BY <1>13, <2>3, Appended
    <3>. QED
      BY <2>1, <2>2, <2>3, <3>1, Elements
  <2>4. CASE ~sent
    BY <1>13, <2>1, <2>2, <2>4
  <2>. QED
    BY <2>1, <2>3, <2>4
<1>15. Writing'
  <2>1. ASSUME phase' = "write", NEW k \in 1..Len(unsent')
        PROVE  unsent'[k] = BytesOf(n)[NextIndex + k]
    <3>1. k + 1 \in 1..Len(unsent) /\ unsent'[k] = unsent[k + 1]
      BY <1>1, <1>2, <1>4
    <3>2. unsent[k + 1] = BytesOf(n)[NextIndex - 1 + (k + 1)]
      BY <1>1, <1>10, <3>1 DEF Writing
    <3>. QED
      BY <1>2, <1>3, <3>1, <3>2
  <2>2. \A k \in Int : NextIndex' - 1 + k = NextIndex + k
    BY <1>2, <1>3, <1>5
  <2>3. BytesOf(Len(calls))' = BytesOf(n)
    BY <1>1 DEF BytesOf
  <2>4. 1..Len(unsent') \subseteq Int
    BY <1>1, <1>2, <1>4
  <2>. QED
    BY <2>1, <2>2, <2>3, <2>4 DEF Writing
<1>16. OnTheWay'
  <2>1. ASSUME NEW m \in DOMAIN toTic'
        PROVE  /\ toTic'[m].call \in 1..n
               /\ toTic'[m].index \in 1..LastIndex(toTic'[m].call)
               /\ toTic'[m].value = BytesOf(toTic'[m].call)[toTic'[m].index]
               /\ Where(m)' < Frontier'
    <3>1. CASE m \in 1..Len(old)
      <4>1. m \in DOMAIN toTic /\ toTic'[m] = toTic[m]
        BY <1>14, <3>1
      <4>2. Where(m)' = Where(m) /\ Where(m) \in Int /\ Frontier \in Int /\ Frontier' \in Int
        BY <1>1, <1>2, <1>3, <1>6, <4>1, Places DEF Where, At
      <4>. QED
        BY <1>7, <1>10, <4>1, <4>2 DEF OnTheWay
    <3>2. CASE sent /\ m = Len(old) + 1
      BY <1>2, <1>3, <1>7, <1>12, <1>14, <3>2 DEF Where
    <3>. QED
      BY <1>14, <3>1, <3>2
  <2>2. ASSUME NEW l \in DOMAIN toTic', NEW m \in DOMAIN toTic', l < m
        PROVE  Where(l)' < Where(m)'
    <3>1. l \in 1..Len(old) /\ l \in DOMAIN toTic /\ toTic'[l] = toTic[l]
      BY <1>14, <2>2
    <3>2. CASE m \in 1..Len(old)
      <4>1. m \in DOMAIN toTic /\ toTic'[m] = toTic[m]
        BY <1>14, <3>2
      <4>. QED
        BY <1>10, <2>2, <3>1, <4>1 DEF OnTheWay, Where
    <3>3. CASE sent /\ m = Len(old) + 1
      <4>1. Where(l) < Frontier
        BY <1>10, <3>1 DEF OnTheWay
      <4>. QED
        BY <1>3, <1>12, <1>14, <3>1, <3>3, <4>1 DEF Where
    <3>. QED
      BY <1>14, <3>2, <3>3
  <2>. QED
    BY <1>1, <1>5, <2>1, <2>2 DEF OnTheWay
<1>17. /\ Losses' /\ hurt \subseteq hurt' /\ (~sent => n \in hurt')
       /\ reconnected => \A m \in DOMAIN toTic : toTic[m].call \in hurt'
  BY <1>9 DEF Losses, Lose, UnderWay
<1>18. PICK a \in 0..n, x \in 0..6 : Flow(a, x)
  BY <1>1 DEF LinkInv
<1>19. Ahead(a, x)'
  <2>1. At(a, x) < Frontier /\ At(a, x) \in Int /\ Frontier \in Int /\ Frontier' \in Int
    BY <1>1, <1>2, <1>3, <1>6, <1>18, Places DEF Flow, Ahead, At
  <2>2. ASSUME NEW m \in DOMAIN toTic' PROVE At(a, x) < Where(m)'
    <3>1. CASE m \in 1..Len(old)
      BY <1>14, <1>18, <3>1 DEF Flow, Ahead, Where
    <3>2. CASE sent /\ m = Len(old) + 1
      BY <1>3, <1>12, <1>14, <2>1, <3>2 DEF Where
    <3>. QED
      BY <1>14, <3>1, <3>2
  <2>3. ASSUME NEW j \in 1..n, NEW y \in 1..LastIndex(j),
               j \notin hurt', At(a, x) < At(j, y), At(j, y) < Frontier'
        PROVE  \E m \in DOMAIN toTic' : toTic'[m].call = j /\ toTic'[m].index = y
    <3>1. CASE At(j, y) < Frontier
      <4>1. PICK m \in DOMAIN toTic : toTic[m].call = j /\ toTic[m].index = y
        BY <1>17, <1>18, <2>3, <3>1 DEF Flow, Ahead
      <4>2. ~reconnected
        BY <1>17, <2>3, <4>1
      <4>3. m \in 1..Len(old) /\ toTic'[m] = toTic[m] /\ m \in DOMAIN toTic'
        BY <1>13, <1>14, <4>2
      <4>. QED
        BY <4>1, <4>3
    <3>2. CASE j = n /\ y = NextIndex
      <4>1. sent
        BY <1>17, <2>3, <3>2
      <4>2. Len(old) + 1 \in DOMAIN toTic' /\ toTic'[Len(old) + 1] = b
        BY <1>14, <4>1
      <4>. QED
        BY <1>12, <3>2, <4>2
    <3>. QED
      BY <1>8, <2>3, <3>1, <3>2
  <2>4. At(a, x) < Frontier'
    BY <1>7, <2>1
  <2>. QED
    BY <1>1, <1>5, <2>2, <2>3, <2>4 DEF Ahead
<1>20. Receiving(a, x)' /\ Done(a)'
  BY <1>1, <1>5, <1>17, <1>18 DEF Flow, Receiving, Sound, Mixed, Whole, Done, LastCall
<1>21. Flow(a, x)'
  BY <1>1, <1>5, <1>18, <1>19, <1>20 DEF Flow
<1>22. LinkInv'
  BY <1>1, <1>15, <1>16, <1>17, <1>18, <1>21 DEF LinkInv
<1>23. WritesOn
  <2>1. \A m \in DOMAIN toTic' : m \in 1..Len(old) \/ (sent /\ m = Len(old) + 1)
    BY <1>14
  <2>2. Len(calls) \notin hurt' => Len(old) + 1 \in DOMAIN toTic' /\ toTic'[Len(old) + 1] = b
    BY <1>14, <1>17
  <2>. QED
    BY <1>12, <1>14, <2>1, <2>2 DEF WritesOn
<1>. QED
  BY <1>22, <1>23

LEMMA ReadLink ==
  ASSUME TInv, LinkInv, Read \/ ReadNothing \/ LoseAnswer \/ UNCHANGED vars PROVE LinkInv'
<1>1. /\ TypeOK /\ Shape /\ UNCHANGED <<transport, calls, unsent, parser, executed>>
      /\ phase' = "write" <=> phase = "write"
  BY DEF Read, ReadNothing, LoseAnswer, Return, TInv, vars, driver, reader, device
<1>2. CASE transport = "TicUsb"
  <2>1. phase # "read" /\ fromTic = <<>>
    BY <1>1, <1>2 DEF Shape, LinkInv
  <2>2. UNCHANGED <<toTic, fromTic>>
    <3>1. ~Read /\ ~ReadNothing
      BY <2>1 DEF Read, ReadNothing
    <3>2. ~LoseAnswer
      BY <2>1 DEF LoseAnswer
    <3>. QED
      BY <3>1, <3>2 DEF vars
  <2>. QED
    BY <1>1, <1>2, <2>2 DEF LinkInv, LastCall
<1>3. CASE transport # "TicUsb"
  <2>1. Losses
    BY <1>3 DEF LinkInv
  <2>2. /\ Losses' /\ hurt \subseteq hurt'
        /\ \/ toTic' = toTic
           \/ toTic' = <<>> /\ \A m \in DOMAIN toTic : toTic[m].call \in hurt'
    BY <2>1 DEF Read, ReadNothing, LoseAnswer, Losses, Lose, UnderWay, vars
  <2>. QED
    BY <1>1, <1>3, <2>2, LossKept
<1>. QED
  BY <1>2, <1>3

(* A byte is delivered.  It completes a command that was given, and is its *)
(* last; or none: it is not the last, or its call is hurt.                 *)
Executes(i) ==
  /\ LastCall < i
  /\ executed' = Append(executed, [call |-> i, command |-> calls[i]])
  /\ fromTic' = IF calls[i].code \in Get
                THEN fromTic \o [k \in 1..calls[i].arg[2] |-> [call |-> i, index |-> k]]
                ELSE fromTic

Strays(b) ==
  /\ ~Isolated /\ b.call \in hurt
  /\ \E e \in Execution : executed' = Append(executed, e)

Hears(b) ==
  /\ b.call \in 1..Len(calls) /\ b.index \in 1..LastIndex(b.call)
  /\ \/ Executes(b.call) /\ b.index = LastIndex(b.call)
     \/ /\ UNCHANGED <<executed, fromTic>>
        /\ b.call \in hurt \/ b.index < LastIndex(b.call)
     \/ Strays(b)

LEMMA Completed ==
  ASSUME TypeOK, NEW j \in 1..Len(calls), NEW data \in Seq(0..127),
         Len(data) = DataLength(calls[j].code),
         \A k \in 1..Len(data) : data[k] = DataOf(calls[j].code, calls[j].arg)[k]
  PROVE  [code |-> calls[j].code, arg |-> Decoded(calls[j].code, data)] = calls[j]
<1> DEFINE d == DataOf(calls[j].code, calls[j].arg)
<1>1. /\ calls[j] \in Commands /\ calls[j].code \in Codes
      /\ calls[j].arg \in Arguments(calls[j].code)
      /\ d \in Seq(0..127) /\ Len(d) = DataLength(calls[j].code)
  BY CallBytes, CommandBytes
<1>2. Decoded(calls[j].code, d) = calls[j].arg
  BY <1>1, RoundTrip
<1> HIDE DEF d
<1>3. ASSUME NEW s \in Seq(0..127), NEW t \in Seq(0..127), Len(s) = Len(t),
             \A k \in 1..Len(s) : s[k] = t[k]
      PROVE  s = t
  BY <1>3
<1>4. data = d
  BY <1>1, <1>3 DEF d
<1>. QED
  BY <1>1, <1>2, <1>4, TiclibAssumption

LEMMA DeliverLink ==
  ASSUME TInv, LinkInv, Deliver
  PROVE  LinkInv' /\ Hears(toTic[1])
<1> DEFINE n == Len(calls)
           L == Len(toTic)
<1>1. /\ TypeOK /\ Shape /\ toTic' = Tail(toTic) /\ transport # "TicUsb"
      /\ UNCHANGED <<transport, calls, phase, unsent, hurt>>
      /\ Writing /\ OnTheWay /\ Losses
  BY DEF TInv, LinkInv, Deliver, driver
<1>2. /\ toTic[1] \in Written /\ Head(toTic) = toTic[1] /\ L \in Nat /\ L >= 1
      /\ DOMAIN toTic = 1..L /\ DOMAIN toTic' = 1..L - 1
      /\ \A m \in 1..L - 1 : toTic'[m] = toTic[m + 1]
  <2>1. toTic \in Seq(Written) /\ toTic # <<>>
    BY <1>1 DEF TypeOK, Deliver
  <2>2. /\ Head(toTic) \in Written /\ Head(toTic) = toTic[1] /\ L \in Nat \ {0}
        /\ Tail(toTic) \in Seq(Written) /\ Len(Tail(toTic)) = L - 1
        /\ \A m \in 1..L - 1 : Tail(toTic)[m] = toTic[m + 1]
    BY <2>1, Tailed
  <2>3. DOMAIN toTic = 1..L /\ DOMAIN Tail(toTic) = 1..Len(Tail(toTic))
    BY <2>1, <2>2, Elements
  <2>. QED
    BY <1>1, <2>2, <2>3
<1>3. PICK b \in Written : b = toTic[1]
  BY <1>2
<1>4. /\ b.call \in 1..n /\ b.index \in 1..LastIndex(b.call)
      /\ b.value = BytesOf(b.call)[b.index]
      /\ Where(1) = At(b.call, b.index) /\ At(b.call, b.index) < Frontier
      /\ \A m \in 2..L : At(b.call, b.index) < Where(m)
  BY <1>1, <1>2, <1>3 DEF OnTheWay, Where
<1>5. /\ NextIndex' = NextIndex /\ Frontier' = Frontier /\ n \in Nat
      /\ \A j : LastIndex(j)' = LastIndex(j) /\ BytesOf(j)' = BytesOf(j)
  BY <1>1 DEF NextIndex, Current, Frontier, LastIndex, BytesOf, TypeOK
<1>6. Writing' /\ Losses'
  BY <1>1, <1>5 DEF Writing, Losses
<1>7. OnTheWay'
  BY <1>1, <1>2, <1>5 DEF OnTheWay, Where
<1>8. PICK a \in 0..n, x \in 0..6 : Flow(a, x)
  BY <1>1 DEF LinkInv
<1>9. At(a, x) < At(b.call, b.index)
  BY <1>2, <1>4, <1>8 DEF Flow, Ahead
<1>10. ASSUME NEW j \in 1..n, NEW z \in 1..LastIndex(j),
              At(a, x) < At(j, z), At(j, z) < At(b.call, b.index)
       PROVE  j \in hurt
  <2>1. SUFFICES ASSUME j \notin hurt PROVE FALSE
    OBVIOUS
  <2>2. /\ At(j, z) \in Int /\ At(b.call, b.index) \in Int /\ Frontier \in Int
        /\ \A m \in DOMAIN toTic : Where(m) \in Int
    <3>1. LastIndex(j) \in 1..6 /\ LastIndex(b.call) \in 1..6
      BY <1>1, <1>4, CallBytes
    <3>. QED
      BY <1>1, <1>4, <1>5, <3>1, Places DEF At
  <2>3. PICK m \in DOMAIN toTic : toTic[m].call = j /\ toTic[m].index = z
    BY <1>4, <1>8, <1>10, <2>1, <2>2 DEF Flow, Ahead
  <2>4. At(b.call, b.index) <= Where(m)
    BY <1>2, <1>4, <2>2
  <2>. QED
    BY <1>10, <2>2, <2>3, <2>4 DEF Where
<1>11. Ahead(b.call, b.index)'
  <2>0. At(a, x) \in Int /\ At(b.call, b.index) \in Int
    <3>1. LastIndex(b.call) \in 1..6
      BY <1>1, <1>4, CallBytes
    <3>. QED
      BY <1>4, <1>5, <3>1 DEF At
  <2>1. ASSUME NEW m \in DOMAIN toTic' PROVE At(b.call, b.index) < Where(m)'
    BY <1>2, <1>4 DEF Where
  <2>2. ASSUME NEW j \in 1..n, NEW z \in 1..LastIndex(j),
               j \notin hurt, At(b.call, b.index) < At(j, z), At(j, z) < Frontier
        PROVE  \E m \in DOMAIN toTic' : toTic'[m].call = j /\ toTic'[m].index = z
    <3>1. At(a, x) < At(j, z)
      <4>1. At(j, z) \in Int
        <5>1. LastIndex(j) \in 1..6
          BY <1>1, CallBytes
        <5>. QED
          BY <1>5, <5>1 DEF At
      <4>. QED
        BY <1>9, <2>0, <2>2, <4>1
    <3>2. PICK m \in DOMAIN toTic : toTic[m].call = j /\ toTic[m].index = z
      BY <1>8, <2>2, <3>1 DEF Flow, Ahead
    <3>3. m # 1
      BY <1>3, <2>0, <2>2, <3>2
    <3>4. m - 1 \in DOMAIN toTic' /\ toTic'[m - 1] = toTic[m]
      BY <1>2, <3>3
    <3>. QED
      BY <3>2, <3>4
  <2>. QED
    BY <1>1, <1>4, <1>5, <2>1, <2>2 DEF Ahead
<1>12. /\ b.call \in Nat /\ b.call > 0 /\ b.index \in Nat /\ LastIndex(b.call) \in Nat
       /\ b.index >= 1 /\ b.index <= LastIndex(b.call) /\ LastIndex(b.call) <= 6
       /\ a \in Nat /\ x \in Nat /\ x <= 6
       /\ a > 0 => a \in 1..n /\ x >= 1 /\ x <= LastIndex(a)
       /\ a < b.call \/ (a = b.call /\ x < b.index)
  <2>1. LastIndex(b.call) \in 1..6
    BY <1>1, <1>4, CallBytes
  <2>2. a > 0 => LastIndex(a) \in 1..6
    BY <1>1, <1>5, CallBytes
  <2>3. (a = 0 /\ x = 0) \/ (a \in 1..n /\ x \in 1..LastIndex(a))
    BY <1>8 DEF Flow
  <2>4. b.call \in Nat /\ b.call > 0 /\ b.index \in Nat /\ b.index >= 1 /\ b.index <= LastIndex(b.call)
    BY <1>4, <1>5, <2>1
  <2>5. a < b.call \/ (a = b.call /\ x < b.index)
    BY <1>5, <1>9, <2>1, <2>4 DEF At
  <2>. QED
    BY <1>5, <2>1, <2>2, <2>3, <2>4, <2>5
<1>13. /\ calls[b.call].code \in Codes /\ calls[b.call].code # 0
       /\ DataLength(calls[b.call].code) = LastIndex(b.call) - 1
       /\ b.index = 1 => b.value = calls[b.call].code
       /\ b.index > 1 => /\ b.value = DataOf(calls[b.call].code, calls[b.call].arg)[b.index - 1]
                         /\ b.value \in 0..127 /\ b.value \notin Codes
                         /\ ~(b.value >= 128)
  <2>1. /\ calls[b.call].code \in Codes /\ LastIndex(b.call) \in 1..6
        /\ LastIndex(b.call) = DataLength(calls[b.call].code) + 1
        /\ DataOf(calls[b.call].code, calls[b.call].arg) \in Seq(0..127)
        /\ Len(DataOf(calls[b.call].code, calls[b.call].arg)) = LastIndex(b.call) - 1
        /\ BytesOf(b.call)[1] = calls[b.call].code
        /\ \A k \in 1..LastIndex(b.call) - 1 :
             BytesOf(b.call)[k + 1] = DataOf(calls[b.call].code, calls[b.call].arg)[k]
    BY <1>1, <1>4, CallBytes
  <2>2. 0 \notin Codes /\ \A v \in 0..127 : v \notin Codes /\ ~(v >= 128)
    BY DEF Codes, Quick, W7, W32, Get
  <2>3. DataLength(calls[b.call].code) \in 0..5
    BY <2>1, DataLengths
  <2>4. ASSUME b.index > 1
        PROVE  /\ b.value = DataOf(calls[b.call].code, calls[b.call].arg)[b.index - 1]
               /\ b.value \in 0..127
    <3>1. b.index - 1 \in 1..LastIndex(b.call) - 1 /\ (b.index - 1) + 1 = b.index
      BY <1>12, <2>4
    <3>2. b.value = DataOf(calls[b.call].code, calls[b.call].arg)[b.index - 1]
      BY <1>4, <2>1, <3>1
    <3>3. DataOf(calls[b.call].code, calls[b.call].arg)[b.index - 1] \in 0..127
      BY <2>1, <3>1, Elements
    <3>. QED
      BY <3>2, <3>3
  <2>5. b.index = 1 => b.value = calls[b.call].code
    BY <1>4, <2>1
  <2>6. calls[b.call].code # 0
    BY <2>1, <2>2
  <2>7. DataLength(calls[b.call].code) = LastIndex(b.call) - 1
    BY <2>1, <2>3
  <2>. QED
    BY <2>1, <2>2, <2>4, <2>5, <2>6, <2>7, Zenon
<1>14. PICK p : p = Received(b)
  OBVIOUS
<1>15. IF Complete(p)
       THEN /\ parser' = NoCommand
            /\ executed' = Append(executed, [call |-> p.call, command |->
                              [code |-> p.code, arg |-> Decoded(p.code, p.data)]])
            /\ fromTic' = IF p.code \in Get
                 THEN fromTic \o [k \in 1..Decoded(p.code, p.data)[2] |->
                                    [call |-> p.call, index |-> k]]
                 ELSE fromTic
       ELSE parser' = p /\ UNCHANGED <<executed, fromTic>>
  BY <1>2, <1>3, <1>14 DEF Deliver
<1> DEFINE Goal == /\ Receiving(b.call, b.index)' /\ Done(b.call)'
                   /\ \/ Executes(b.call) /\ b.index = LastIndex(b.call)
                      \/ /\ UNCHANGED <<executed, fromTic>>
                         /\ b.call \in hurt \/ b.index < LastIndex(b.call)
                      \/ Strays(b)
<1>16. ASSUME p.code = calls[b.call].code, p.call = b.call, LastCall < b.call,
              p.data \in Seq(0..127), Len(p.data) = DataLength(p.code),
              b.index = LastIndex(b.call),
              \A k \in 1..Len(p.data) :
                p.data[k] = DataOf(calls[b.call].code, calls[b.call].arg)[k]
       PROVE  Goal
  <2>1. Complete(p)
    BY <1>13, <1>16 DEF Complete
  <2>2. [code |-> p.code, arg |-> Decoded(p.code, p.data)] = calls[b.call]
    BY <1>1, <1>4, <1>16, Completed
  <2>3. /\ parser'.code = 0
        /\ executed' = Append(executed, [call |-> b.call, command |-> calls[b.call]])
    BY <1>15, <1>16, <2>1, <2>2 DEF NoCommand
  <2>4. Executes(b.call) /\ b.index = LastIndex(b.call)
    <3>1. Decoded(p.code, p.data) = calls[b.call].arg
      BY <2>2
    <3>2. fromTic' = IF calls[b.call].code \in Get
                     THEN fromTic \o [k \in 1..calls[b.call].arg[2] |->
                                        [call |-> b.call, index |-> k]]
                     ELSE fromTic
      BY <1>15, <1>16, <2>1, <3>1
    <3>. QED
      BY <1>16, <2>3, <3>2 DEF Executes
  <2>5. LastCall' = b.call
    <3>1. [call |-> b.call, command |-> calls[b.call]] \in Execution
      <4>0. n \in Nat /\ n <= MaxCalls
        BY <1>1, <1>5 DEF TypeOK
      <4>1. calls[b.call] \in Commands /\ b.call \in 1..MaxCalls
        BY <1>1, <1>4, <4>0, CallBytes, TiclibAssumption
      <4>. QED
        BY <4>1, TiclibAssumption DEF Execution
    <3>. QED
      BY <1>1, <2>3, <3>1, Executions
  <2>6. Receiving(b.call, b.index)'
    BY <1>5, <1>16, <2>3 DEF Receiving, Sound, Mixed
  <2>7. Done(b.call)'
    BY <1>12, <2>3, <2>5 DEF Done
  <2>. QED
    BY <2>4, <2>6, <2>7
<1>17. ASSUME p.code = calls[b.call].code, p.call = b.call, LastCall < b.call,
              p.data \in Seq(0..127), Len(p.data) < DataLength(p.code),
              \/ /\ b.index = Len(p.data) + 1
                 /\ \A k \in 1..Len(p.data) :
                      p.data[k] = DataOf(calls[b.call].code, calls[b.call].arg)[k]
              \/ b.call \in hurt /\ b.index > Len(p.data) + 1
       PROVE  Goal
  <2>1. ~Complete(p)
    <3>1. Len(p.data) \in Nat /\ DataLength(p.code) \in Nat
      BY <1>12, <1>13, <1>17
    <3>. QED
      BY <1>17, <3>1 DEF Complete
  <2>2. parser' = p /\ UNCHANGED <<executed, fromTic>>
    BY <1>15, <2>1
  <2>3. Receiving(b.call, b.index)'
    BY <1>1, <1>12, <1>13, <1>17, <2>2 DEF Receiving, Sound, Mixed, Whole
  <2>4. Done(b.call)'
    BY <1>13, <1>17, <2>2 DEF Done, LastCall
  <2>5. b.call \in hurt \/ b.index < LastIndex(b.call)
    BY <1>12, <1>13, <1>17
  <2>. QED
    BY <2>2, <2>3, <2>4, <2>5
<1> HIDE DEF Goal
<1>18. ASSUME b.index = 1 PROVE Goal
  <2>1. p.code = calls[b.call].code /\ p.call = b.call /\ p.data = <<>>
    BY <1>13, <1>14, <1>18 DEF Received
  <2>2. LastCall < b.call
    <3>1. a < b.call /\ LastCall \in Nat
      BY <1>1, <1>12, <1>18, Executions
    <3>. QED
      BY <1>8, <1>12, <3>1 DEF Flow, Done
  <2>3. p.data \in Seq(0..127) /\ Len(p.data) = 0
    BY <2>1
  <2>4. DataLength(p.code) = LastIndex(b.call) - 1
    BY <1>13, <2>1
  <2>5. CASE LastIndex(b.call) = 1
    <3>1. /\ Len(p.data) = DataLength(p.code) /\ b.index = LastIndex(b.call)
          /\ \A k \in 1..Len(p.data) :
               p.data[k] = DataOf(calls[b.call].code, calls[b.call].arg)[k]
      BY <1>18, <2>3, <2>4, <2>5
    <3>. QED
      BY <1>16, <2>1, <2>2, <2>3, <3>1, Zenon
  <2>6. CASE LastIndex(b.call) > 1
    <3>1. /\ Len(p.data) < DataLength(p.code) /\ b.index = Len(p.data) + 1
          /\ \A k \in 1..Len(p.data) :
               p.data[k] = DataOf(calls[b.call].code, calls[b.call].arg)[k]
      BY <1>12, <1>18, <2>3, <2>4, <2>6
    <3>. QED
      BY <1>17, <2>1, <2>2, <2>3, <3>1, Zenon
  <2>. QED
    BY <1>12, <2>5, <2>6
<1>19. ASSUME b.index > 1, parser.code = 0 PROVE Goal
  <2>1. p = NoCommand
    BY <1>13, <1>14, <1>19 DEF Received
  <2>2. parser'.code = 0 /\ UNCHANGED <<executed, fromTic>>
    BY <1>15, <2>1 DEF NoCommand, Complete
  <2>3. b.call \in hurt
    <3>1. CASE a = b.call
      BY <1>8, <1>12, <1>19, <3>1 DEF Flow, Receiving, Sound, Mixed
    <3>2. CASE a < b.call
      <4>1. 1 \in 1..LastIndex(b.call)
        BY <1>12
      <4>2. At(a, x) < At(b.call, 1) /\ At(b.call, 1) < At(b.call, b.index)
        BY <1>12, <1>19, <3>2 DEF At
      <4>. QED
        BY <1>4, <1>10, <4>1, <4>2
    <3>. QED
      BY <1>12, <3>1, <3>2
  <2>4. LastCall <= b.call
    <3>1. LastCall \in Nat /\ LastCall <= a
      BY <1>1, <1>8, <1>19, Executions DEF Flow, Done
    <3>. QED
      BY <1>12, <3>1
  <2>5. Receiving(b.call, b.index)'
    BY <1>1, <2>2, <2>3 DEF Receiving, Sound, Mixed
  <2>6. Done(b.call)'
    BY <2>2, <2>4 DEF Done, LastCall
  <2>. QED
    BY <2>2, <2>3, <2>5, <2>6 DEF Goal
<1>20. ASSUME b.index > 1, parser.code # 0, Sound(a, x), a = b.call PROVE Goal
  <2> DEFINE d == Len(parser.data)
  <2>1. /\ parser.call = b.call /\ parser.code = calls[b.call].code
        /\ Whole(b.call, x) \/ (b.call \in hurt /\ x > d + 1)
        /\ LastCall < b.call
    BY <1>8, <1>20 DEF Flow, Sound, Done
  <2>2. /\ parser.data \in Seq(0..127) /\ d \in Nat /\ d < LastIndex(b.call) - 1
        /\ parser = [code |-> parser.code, call |-> parser.call, data |-> parser.data]
    BY <1>1, <1>13, <1>20, <2>1 DEF TypeOK, Shape
  <2>3. /\ p.code = calls[b.call].code /\ p.call = b.call
        /\ p.data = Append(parser.data, b.value)
    <3>1. ~(b.value >= 128)
      BY <1>13, <1>20
    <3>2. p = [parser EXCEPT !.data = Append(@, b.value)]
      BY <1>13, <1>14, <1>20, <3>1 DEF Received
    <3>. QED
      BY <2>1, <2>2, <3>2
  <2>4. /\ p.data \in Seq(0..127) /\ Len(p.data) = d + 1 /\ p.data[d + 1] = b.value
        /\ \A k \in 1..d : p.data[k] = parser.data[k]
    BY <1>13, <1>20, <2>2, <2>3, Appended
  <2>5. DataLength(p.code) = LastIndex(b.call) - 1
    BY <1>13, <2>3
  <2>6. CASE Whole(b.call, x) /\ b.index = d + 2
    <3>1. ASSUME NEW k \in 1..Len(p.data)
          PROVE  p.data[k] = DataOf(calls[b.call].code, calls[b.call].arg)[k]
      <4>1. CASE k \in 1..d
        BY <2>4, <2>6, <4>1 DEF Whole
      <4>2. CASE k = d + 1
        BY <1>13, <1>20, <2>2, <2>4, <2>6, <4>2
      <4>. QED
        BY <2>2, <2>4, <4>1, <4>2
    <3>2. CASE b.index = LastIndex(b.call)
      <4>1. Len(p.data) = DataLength(p.code)
        BY <1>12, <2>2, <2>4, <2>5, <2>6, <3>2
      <4>. QED
        BY <1>16, <2>1, <2>3, <2>4, <3>1, <3>2, <4>1, Zenon
    <3>3. CASE b.index < LastIndex(b.call)
      <4>1. Len(p.data) < DataLength(p.code) /\ b.index = Len(p.data) + 1
        BY <1>12, <2>2, <2>4, <2>5, <2>6, <3>3
      <4>. QED
        BY <1>17, <2>1, <2>3, <2>4, <3>1, <4>1, Zenon
    <3>. QED
      BY <1>12, <3>2, <3>3
  <2>7. CASE ~(Whole(b.call, x) /\ b.index = d + 2)
    <3>1. b.call \in hurt /\ b.index > d + 2
      <4>1. CASE Whole(b.call, x)
        <5>1. x = d + 1 /\ b.index > d + 2
          BY <1>12, <1>20, <2>2, <2>7, <4>1 DEF Whole
        <5>2. d + 2 \in 1..LastIndex(b.call)
          BY <1>12, <2>2, <5>1
        <5>3. At(a, x) < At(b.call, d + 2) /\ At(b.call, d + 2) < At(b.call, b.index)
          BY <1>12, <1>20, <2>2, <5>1 DEF At
        <5>. QED
          BY <1>4, <1>10, <5>1, <5>2, <5>3
      <4>2. CASE b.call \in hurt /\ x > d + 1
        BY <1>12, <1>20, <2>2, <4>2
      <4>. QED
        BY <2>1, <4>1, <4>2
    <3>2. Len(p.data) < DataLength(p.code) /\ b.index > Len(p.data) + 1
      BY <1>12, <2>2, <2>4, <2>5, <3>1
    <3>. QED
      BY <1>17, <2>1, <2>3, <2>4, <3>1, <3>2, Zenon
  <2>. QED
    BY <2>6, <2>7
<1>21. ASSUME b.index > 1, parser.code # 0, a < b.call
       PROVE  Mixed(b.call)
  <2> DEFINE d == Len(parser.data)
  <2>1. Sound(a, x) \/ Mixed(a)
    BY <1>8 DEF Flow, Receiving
  <2>2. ASSUME Sound(a, x) PROVE a \in hurt /\ parser.call = a
    <3>1. /\ a > 0 /\ parser.code = calls[a].code /\ parser.call = a
          /\ Whole(a, x) \/ (a \in hurt /\ x > d + 1)
      BY <1>21, <2>2 DEF Sound
    <3>2. a \in 1..n /\ LastIndex(a) \in 1..6 /\ LastIndex(a) = DataLength(parser.code) + 1
      BY <1>1, <1>12, <3>1, CallBytes
    <3>3. d \in Nat /\ d < LastIndex(a) - 1
      <4>1. d \in Nat /\ d < DataLength(parser.code)
        BY <1>1, <1>21 DEF TypeOK, Shape
      <4>2. DataLength(parser.code) \in 0..5
        BY <1>1, <1>21, DataLengths DEF TypeOK
      <4>. QED
        BY <3>2, <4>1, <4>2
    <3>4. a \in hurt
      <4>1. CASE Whole(a, x)
        <5>1. x + 1 \in 1..LastIndex(a)
          BY <1>12, <3>2, <3>3, <4>1 DEF Whole
        <5>2. At(a, x) < At(a, x + 1) /\ At(a, x + 1) < At(b.call, b.index)
          BY <1>12, <1>21, <3>2, <5>1 DEF At
        <5>. QED
          BY <1>10, <3>2, <5>1, <5>2
      <4>. QED
        BY <3>1, <4>1
    <3>. QED
      BY <3>1, <3>4
  <2>3. a \in hurt /\ a > 0 /\ parser.call \in 1..a
    <3>1. CASE Sound(a, x)
      <4>1. a > 0
        BY <1>21, <3>1 DEF Sound
      <4>. QED
        BY <1>12, <2>2, <3>1, <4>1
    <3>2. CASE Mixed(a)
      <4>1. a > 0
        BY <1>12, <3>2 DEF Mixed
      <4>. QED
        BY <3>2, <4>1 DEF Mixed
    <3>. QED
      BY <2>1, <3>1, <3>2
  <2>4. ASSUME NEW j \in 1..n, a < j, j <= b.call PROVE j \in hurt
    <3>1. 1 \in 1..LastIndex(j)
      BY <1>1, CallBytes
    <3>2. At(a, x) < At(j, 1) /\ At(j, 1) < At(b.call, b.index)
      BY <1>12, <1>21, <2>4 DEF At
    <3>. QED
      BY <1>10, <3>1, <3>2
  <2>5. a + 1 \in 1..n /\ a < a + 1 /\ a + 1 <= b.call
    BY <1>4, <1>5, <1>12, <1>21
  <2>6. a + 1 \in hurt
    BY <2>4, <2>5
  <2>7. b.call \in hurt
    BY <1>4, <1>12, <1>21, <2>4
  <2>8. ~Isolated
    BY <1>1, <2>3, <2>6 DEF Losses
  <2>9. parser.call \in 1..b.call
    BY <1>12, <1>21, <2>3
  <2>. QED
    BY <1>21, <2>7, <2>8, <2>9 DEF Mixed
<1>22. ASSUME b.index > 1, parser.code # 0, Mixed(b.call) PROVE Goal
  <2>1. /\ p.code = parser.code /\ p.call = parser.call
        /\ parser.call \in Nat /\ parser.call <= b.call /\ parser.call > 0
        /\ ~Isolated /\ b.call \in hurt
    <3>1. p = [parser EXCEPT !.data = Append(@, b.value)]
      BY <1>13, <1>14, <1>22 DEF Received
    <3>2. parser = [code |-> parser.code, call |-> parser.call, data |-> parser.data]
      BY <1>1 DEF TypeOK
    <3>. QED
      BY <1>12, <1>22, <3>1, <3>2 DEF Mixed
  <2>2. LastCall \in Nat /\ LastCall < b.call
    <3>1. LastCall \in Nat
      BY <1>1, Executions
    <3>. QED
      BY <1>8, <1>12, <1>22, <3>1 DEF Flow, Done
  <2>3. CASE Complete(p)
    <3> DEFINE e == [call |-> p.call, command |->
                       [code |-> p.code, arg |-> Decoded(p.code, p.data)]]
    <3>1. parser' = NoCommand /\ executed' = Append(executed, e)
      BY <1>15, <2>3
    <3>2. e \in Execution
      <4>1. executed \in Seq(Execution) /\ executed' \in Seq(Execution)
        BY <1>1, DeliverTypes DEF TInv, TypeOK
      <4>. QED
        BY <3>1, <4>1, OneMore
    <3>3. LastCall' = p.call
      BY <1>1, <3>1, <3>2, Executions
    <3>4. parser'.code = 0
      BY <3>1 DEF NoCommand
    <3>5. Receiving(b.call, b.index)' /\ Done(b.call)'
      BY <1>1, <2>1, <3>3, <3>4 DEF Receiving, Sound, Done
    <3>. QED
      BY <2>1, <3>1, <3>2, <3>5 DEF Strays, Goal
  <2>4. CASE ~Complete(p)
    <3>1. parser' = p /\ UNCHANGED <<executed, fromTic>>
      BY <1>15, <2>4
    <3>2. Receiving(b.call, b.index)'
      BY <1>1, <1>12, <1>22, <2>1, <3>1 DEF Receiving, Mixed
    <3>3. Done(b.call)'
      BY <1>22, <2>1, <2>2, <3>1 DEF Done, LastCall
    <3>. QED
      BY <2>1, <3>1, <3>2, <3>3 DEF Goal
  <2>. QED
    BY <2>3, <2>4
<1>23. Goal
  <2>1. b.index = 1 \/ b.index > 1
    BY <1>12
  <2>2. CASE a = b.call /\ Mixed(a)
    <3>1. Mixed(b.call)
      BY <2>2
    <3>. QED
      BY <1>18, <1>19, <1>22, <2>1, <3>1
  <2>3. Sound(a, x) \/ Mixed(a)
    BY <1>8 DEF Flow, Receiving
  <2>. QED
    BY <1>12, <1>18, <1>19, <1>20, <1>21, <1>22, <2>1, <2>2, <2>3, Zenon
<1>24. Flow(b.call, b.index)'
  BY <1>1, <1>4, <1>5, <1>11, <1>23 DEF Flow, Goal
<1>25. LinkInv'
  BY <1>1, <1>4, <1>6, <1>7, <1>12, <1>24 DEF LinkInv
<1>. QED
  BY <1>3, <1>4, <1>23, <1>25 DEF Goal, Hears

LEMMA LinkStep == TInv /\ LinkInv /\ [Next]_vars => LinkInv'
<1> SUFFICES ASSUME TInv, LinkInv, [Next]_vars PROVE LinkInv'
  OBVIOUS
<1>. QED
  BY TransferLink, GiveLink, WriteLink, ReadLink, DeliverLink DEF Next

LEMMA LinkAlways == Spec => [](TInv /\ LinkInv)
<1>1. Init => TInv /\ LinkInv
  BY TypeStarts, LinkStarts
<1>2. TInv /\ LinkInv /\ [Next]_vars => (TInv /\ LinkInv)'
  BY TypeStep, LinkStep
<1>. QED
  BY <1>1, <1>2, PTL DEF Spec

(* Every step of ticlib, of the link or of the controller is one that a    *)
(* link may take, or none.                                                 *)
LEMMA LinkSimulates ==
  ASSUME Isolated, TInv, LinkInv, [Next]_vars PROVE [Link!Next]_(Link!vars)
<1>1. CASE \E c \in Commands : Transfer(c)
  <2>1. PICK c \in Commands : Transfer(c)
    BY <1>1
  <2>2. /\ calls' = Append(calls, c)
        /\ executed' \in {executed, Append(executed, [call |-> Len(calls) + 1, command |-> c])}
    BY <2>1 DEF Transfer
  <2>. QED
    BY <2>2 DEF Link!Next, Link!Give, Link!Direct
<1>2. CASE \E c \in Commands : Give(c)
  BY <1>2 DEF Give, device, Link!Next, Link!Give
<1>3. CASE Write \/ Read \/ ReadNothing \/ LoseAnswer \/ UNCHANGED vars
  BY <1>3 DEF Write, Read, ReadNothing, LoseAnswer, vars, driver, device, Link!vars
<1>4. CASE Deliver
  <2>1. calls' = calls /\ (executed' = executed \/ \E i \in 1..Len(calls) : Executes(i))
    BY <1>4, DeliverLink DEF Deliver, driver, Hears, Strays
  <2>2. CASE executed' = executed
    BY <2>1, <2>2 DEF Link!vars
  <2>3. CASE \E i \in 1..Len(calls) : Executes(i)
    <3>1. PICK i \in 1..Len(calls) :
            /\ LastCall < i
            /\ executed' = Append(executed, [call |-> i, command |-> calls[i]])
      BY <2>3 DEF Executes
    <3>2. executed # <<>> => Last(executed).call < i
      BY <3>1 DEF LastCall
    <3>3. Link!Execute
      BY <2>1, <3>1, <3>2 DEF Link!Execute, Last, Link!Last
    <3>. QED
      BY <3>3 DEF Link!Next
  <2>. QED
    BY <2>1, <2>2, <2>3
<1>. QED
  BY <1>1, <1>2, <1>3, <1>4 DEF Next

(* Whatever bytes are lost, as long as losses are Isolated, the controller *)
(* executes commands it was given, with the arguments they were given, in  *)
(* the order they were given and none twice: a command that lost a byte is *)
(* never completed by the bytes of the next.                               *)
THEOREM CommandsAsGiven == ASSUME Isolated PROVE Spec => ImplementsLink
<1>1. Init => Link!Init
  BY DEF Init, Link!Init
<1>2. TInv /\ LinkInv /\ [Next]_vars => [Link!Next]_(Link!vars)
  BY LinkSimulates
<1>. QED
  BY <1>1, <1>2, LinkAlways, PTL DEF Spec, Link!Spec, ImplementsLink

-----------------------------------------------------------------------------
(* What a read returns over USB and Bluetooth.                             *)

(* How many bytes of the answer are lost, and is it still to come: is some *)
(* of the command that asks for it on its way?                             *)
Lost == Length - readC - Len(fromTic)

AnswerDue == \E m \in DOMAIN toTic : toTic[m].call = Len(calls)

(* A byte that is read or on its way back is at most as many places from   *)
(* where it belongs as bytes are lost; if none is, all are where they      *)
(* belong.                                                                 *)
Reading ==
  /\ readC < Length \/ Length = 0
  /\ readC + Len(fromTic) <= Length
  /\ \A m \in DOMAIN fromTic :
       fromTic[m].call = Len(calls) /\ fromTic[m].index - (readC + m) \in 0..Lost
  /\ \A i \in 1..readC :
       buffer[i].call = Len(calls) /\ buffer[i].index - i \in 0..Lost
  /\ AnswerDue => readC = 0 /\ fromTic = <<>>
  /\ Len(calls) \notin hurt => Lost = 0 \/ AnswerDue

(* No answer comes but to the read that waits for it.                      *)
Asking ==
  /\ phase = "read" => Reading
  /\ phase # "read" => fromTic = <<>>
  /\ \A m \in DOMAIN toTic :
       calls[toTic[m].call].code \in Get => toTic[m].call = Len(calls) /\ phase # "idle"

AnswerInv ==
  /\ transport = "StreamBT" => Asking
  /\ ReadTruthful /\ ErrorsAreReal

LEMMA Busy ==
  ASSUME transport' = "StreamBT", phase' # "idle", Asking' PROVE AnswerInv'
BY DEF AnswerInv, ReadTruthful, EnoughBytes, ErrorsAreReal, ReadOver

LEMMA Unread ==
  ASSUME AnswerInv, transport = "StreamBT", Asking', hurt \subseteq hurt',
         UNCHANGED <<transport, calls, phase, lastError, buffer>>
  PROVE  AnswerInv'
<1>1. Current' = Current /\ Length' = Length
  BY DEF Current, Length
<1>2. ReadTruthful'
  BY <1>1 DEF AnswerInv, ReadTruthful, EnoughBytes, ReadOver
<1>3. ErrorsAreReal'
  BY <1>1 DEF AnswerInv, ErrorsAreReal, ReadOver, Asking
<1>. QED
  BY <1>2, <1>3 DEF AnswerInv

LEMMA GiveAnswer ==
  ASSUME TInv, LinkInv, AnswerInv, transport = "StreamBT", NEW c \in Commands, Give(c)
  PROVE  AnswerInv'
<1>1. /\ TypeOK /\ phase = "idle" /\ calls' = Append(calls, c) /\ phase' = "write"
      /\ UNCHANGED <<transport, toTic, fromTic>> /\ Asking /\ OnTheWay
  BY DEF Give, TInv, AnswerInv, LinkInv
<1>2. \A j \in 1..Len(calls) : calls'[j] = calls[j]
  <2>1. calls \in Seq(Commands)
    BY <1>1 DEF TypeOK
  <2>. QED
    BY <1>1, <2>1, Appended
<1>3. Asking'
  BY <1>1, <1>2 DEF Asking, OnTheWay
<1>. QED
  BY <1>1, <1>3, Busy

LEMMA WriteAnswer ==
  ASSUME TInv, LinkInv, AnswerInv, transport = "StreamBT", Write
  PROVE  AnswerInv'
<1>1. /\ TInv' /\ WritesOn /\ UNCHANGED <<transport, calls>> /\ phase = "write"
      /\ fromTic = <<>> /\ fromTic' = <<>> /\ Asking
  BY WriteTypes, WriteLink DEF AnswerInv, Asking, Write
<1>2. phase' = "idle" => Current.code \notin Get
  BY DEF Write
<1>3. \A m \in DOMAIN toTic' :
        calls[toTic'[m].call].code \in Get => toTic'[m].call = Len(calls) /\ phase' # "idle"
  BY <1>1, <1>2 DEF WritesOn, Asking, Current
<1>4. ASSUME phase' = "read" PROVE Reading'
  <2>1. readC' = 0
    BY <1>4 DEF Write
  <2>2. Length' \in 0..63
    <3>1. Length' = Length
      BY <1>1 DEF Length, Current
    <3>2. Current.code \in Get
      BY <1>4 DEF Write
    <3>. QED
      BY <1>1, <3>1, <3>2, CurrentType DEF TInv, Shape
  <2>3. fromTic' = <<>> /\ Len(fromTic') = 0
    BY <1>1
  <2>4. Len(calls') \notin hurt' => AnswerDue'
    BY <1>1 DEF WritesOn, AnswerDue
  <2>. QED
    BY <2>1, <2>2, <2>3, <2>4 DEF Reading
<1>5. Asking'
  BY <1>1, <1>3, <1>4 DEF Asking
<1>6. CASE phase' # "idle"
  BY <1>1, <1>5, <1>6, Busy
<1>7. CASE phase' = "idle"
  <2>1. ~ReadOver'
    BY <1>1, <1>2, <1>7 DEF ReadOver, Current
  <2>. QED
    BY <1>1, <1>5, <2>1 DEF AnswerInv, ReadTruthful, EnoughBytes, ErrorsAreReal
<1>. QED
  BY <1>6, <1>7

LEMMA ReadAnswer ==
  ASSUME TInv, LinkInv, AnswerInv, transport = "StreamBT", Read
  PROVE  AnswerInv'
<1> DEFINE n == Len(calls)
<1>1. /\ TypeOK /\ Shape /\ Asking /\ Reading /\ phase = "read"
      /\ UNCHANGED <<transport, calls, toTic, hurt>>
  BY DEF AnswerInv, Asking, Read, TInv
<1>2. Current' = Current /\ Length' = Length
  BY <1>1 DEF Current, Length
<1>3. /\ readC \in Nat /\ Len(fromTic) \in Nat /\ Length \in Nat
      /\ DOMAIN fromTic = 1..Len(fromTic)
  BY <1>1, CurrentType, OnItsWay DEF TypeOK, Shape, SizeT
<1>4. PICK k \in 1..Len(fromTic) :
        /\ k <= Length - readC
        /\ Return(Counted(k), 0,
                  [i \in 1..Length |-> IF i - readC \in 1..k THEN fromTic[i - readC]
                                                             ELSE buffer[i]])
        /\ fromTic' = SubSeq(fromTic, k + 1, Len(fromTic))
  BY DEF Read
<1> DEFINE bytes == [i \in 1..Length |-> IF i - readC \in 1..k THEN fromTic[i - readC]
                                                               ELSE buffer[i]]
<1>5. /\ readC' = readC + k /\ k \in Nat /\ k >= 1 /\ readC + k <= Length
      /\ IF readC + k < Length
         THEN buffer' = bytes /\ phase' = "read"
         ELSE phase' = "idle" /\ lastError' = 0 /\ buffer' = bytes
  BY <1>1, <1>3, <1>4 DEF Return, Counted, MaxZeros
<1>6. /\ Len(fromTic') = Len(fromTic) - k /\ DOMAIN fromTic' = 1..Len(fromTic) - k
      /\ \A m \in 1..Len(fromTic) - k : fromTic'[m] = fromTic[m + k]
  <2>1. fromTic \in Seq(Answered) /\ k \in 0..Len(fromTic)
    BY <1>1, <1>4 DEF TypeOK
  <2>2. /\ fromTic' \in Seq(Answered) /\ Len(fromTic') = Len(fromTic) - k
        /\ \A m \in 1..Len(fromTic) - k : fromTic'[m] = fromTic[m + k]
    BY <1>4, <2>1, Remainder
  <2>3. DOMAIN fromTic' = 1..Len(fromTic')
    BY <2>2, Elements
  <2>. QED
    BY <2>2, <2>3
<1>7. Lost' = Lost /\ Lost \in Nat
  <2>1. readC + Len(fromTic) <= Length
    BY <1>1 DEF Reading
  <2>2. Lost' = Length - (readC + k) - (Len(fromTic) - k)
    BY <1>2, <1>5, <1>6 DEF Lost
  <2>. QED
    BY <1>3, <1>5, <2>1, <2>2 DEF Lost
<1>8. \A m \in DOMAIN fromTic' :
        fromTic'[m].call = n /\ fromTic'[m].index - (readC' + m) \in 0..Lost
  <2>1. ASSUME NEW m \in 1..Len(fromTic) - k
        PROVE  fromTic'[m].call = n /\ fromTic'[m].index - (readC' + m) \in 0..Lost
    <3>1. m + k \in DOMAIN fromTic /\ fromTic'[m] = fromTic[m + k]
      BY <1>3, <1>4, <1>6
    <3>2. fromTic[m + k].call = n /\ fromTic[m + k].index - (readC + (m + k)) \in 0..Lost
      BY <1>1, <3>1 DEF Reading
    <3>3. readC + (m + k) = readC' + m
      BY <1>3, <1>5
    <3>. QED
      BY <3>1, <3>2, <3>3
  <2>. QED
    BY <1>6, <2>1
<1>9. ASSUME NEW i \in 1..readC' PROVE buffer'[i].call = n /\ buffer'[i].index - i \in 0..Lost
  <2>1. i \in 1..Length /\ buffer'[i] = bytes[i]
    BY <1>3, <1>5
  <2>2. CASE i \in 1..readC
    BY <1>1, <1>3, <2>1, <2>2 DEF Reading
  <2>3. CASE i - readC \in 1..k
    <3>1. i - readC \in DOMAIN fromTic /\ buffer'[i] = fromTic[i - readC]
      BY <1>3, <1>4, <2>1, <2>3
    <3>2. /\ fromTic[i - readC].call = n
          /\ fromTic[i - readC].index - (readC + (i - readC)) \in 0..Lost
      BY <1>1, <3>1 DEF Reading
    <3>3. readC + (i - readC) = i
      BY <1>3, <1>5
    <3>. QED
      BY <3>1, <3>2, <3>3
  <2>. QED
    BY <1>3, <1>5, <2>2, <2>3
<1>10. ~AnswerDue /\ ~AnswerDue'
  <2>1. fromTic # <<>>
    BY <1>3, <1>4
  <2>. QED
    BY <1>1, <2>1 DEF Reading, AnswerDue
<1>11. CASE readC + k < Length
  <2>1. Reading'
    BY <1>1, <1>2, <1>3, <1>5, <1>6, <1>7, <1>8, <1>9, <1>10, <1>11 DEF Reading
  <2>2. Asking'
    BY <1>1, <1>5, <1>11, <2>1 DEF Asking
  <2>. QED
    BY <1>1, <1>5, <1>11, <2>2, Busy
<1>12. CASE ~(readC + k < Length)
  <2>1. readC' = Length /\ phase' = "idle" /\ lastError' = 0
    BY <1>3, <1>5, <1>12
  <2>2. Lost = 0 /\ fromTic' = <<>>
    <3>1. Len(fromTic) = k
      <4>1. readC + Len(fromTic) <= Length
        BY <1>1 DEF Reading
      <4>2. k \in Int /\ Len(fromTic) \in Int /\ k <= Len(fromTic)
        BY <1>3, <1>4
      <4>3. readC \in Int /\ readC + k = Length
        BY <1>3, <1>5, <2>1
      <4>. QED
        BY <4>1, <4>2, <4>3
    <3>2. Lost = 0
      BY <1>3, <1>5, <2>1, <3>1 DEF Lost
    <3>3. fromTic' = <<>>
      BY <1>1, <1>4, <3>1 DEF TypeOK
    <3>. QED
      BY <3>2, <3>3
  <2>3. Asking'
    BY <1>1, <1>10, <2>1, <2>2 DEF Asking, AnswerDue
  <2>4. EnoughBytes'
    <3>1. ASSUME NEW i \in 1..Length PROVE buffer'[i] = [call |-> n, index |-> i]
      <4>1. buffer'[i].call = n /\ buffer'[i].index - i \in 0..0
        BY <1>9, <2>1, <2>2
      <4>2. buffer'[i] \in Tagged
        <5>1. buffer' \in Seq(Tagged) /\ i \in DOMAIN buffer'
          BY <1>3, <1>5, ReadTypes DEF TInv, TypeOK
        <5>. QED
          BY <5>1, Elements
      <4>3. \A t \in Tagged : t.index \in Int /\ t = [call |-> t.call, index |-> t.index]
        <5>1. 0..MaxCalls \subseteq Int /\ 0..63 \subseteq Int
          BY TiclibAssumption
        <5>. QED
          BY <5>1, Fields DEF Tagged
      <4>4. buffer'[i].index = i
        BY <4>1, <4>2, <4>3
      <4>. QED
        BY <4>1, <4>2, <4>3, <4>4, Zenon
    <3>. QED
      BY <1>1, <1>2, <3>1 DEF EnoughBytes
  <2>. QED
    BY <1>1, <2>1, <2>2, <2>3, <2>4 DEF AnswerInv, ReadTruthful, ErrorsAreReal
<1>. QED
  BY <1>11, <1>12

LEMMA ReadNothingAnswer ==
  ASSUME Prompt, TInv, LinkInv, AnswerInv, transport = "StreamBT", ReadNothing
  PROVE  AnswerInv'
<1> DEFINE n == Len(calls)
<1>1. /\ TypeOK /\ Shape /\ Asking /\ Reading /\ phase = "read"
      /\ UNCHANGED <<transport, calls>> /\ toTic = <<>> /\ fromTic = <<>>
  BY DEF AnswerInv, Asking, ReadNothing, TInv
<1>2. /\ toTic' = <<>> /\ fromTic' = <<>> /\ hurt \subseteq hurt'
      /\ Return(readC, numZeros + 1, buffer)
  BY <1>1 DEF ReadNothing, Lose
<1>3. Current' = Current /\ Length' = Length /\ Length \in Nat /\ readC \in Nat
  <2>1. Current' = Current /\ Length' = Length
    BY <1>1 DEF Current, Length
  <2>2. calls # <<>> /\ Current.code \in Get
    BY <1>1 DEF Shape
  <2>3. Length \in 0..63
    BY <1>1, <2>2, CurrentType
  <2>4. readC \in Nat
    BY <1>1 DEF TypeOK, SizeT
  <2>. QED
    BY <2>1, <2>3, <2>4
<1>4. ~AnswerDue /\ ~AnswerDue' /\ Len(fromTic) = 0
  BY <1>1, <1>2 DEF AnswerDue
<1>5. n \notin hurt => readC = Length
  BY <1>1, <1>3, <1>4 DEF Reading, Lost
<1>6. CASE readC < Length /\ numZeros + 1 < MaxZeros
  <2>1. UNCHANGED <<readC, buffer, phase, fromTic>>
    BY <1>1, <1>2, <1>6 DEF Return
  <2>2. Reading'
    BY <1>1, <1>2, <1>3, <1>4, <1>5, <1>6, <2>1 DEF Reading, Lost
  <2>3. Asking'
    BY <1>1, <1>2, <2>1, <2>2 DEF Asking
  <2>. QED
    BY <1>1, <2>1, <2>3, Busy
<1>7. CASE ~(readC < Length /\ numZeros + 1 < MaxZeros)
  <2>1. phase' = "idle" /\ (readC = Length => lastError' = 0)
        /\ (readC # Length => lastError' = 50)
    BY <1>2, <1>7 DEF Return
  <2>2. Asking'
    BY <1>2, <2>1 DEF Asking
  <2>3. EnoughBytes'
    <3>1. readC = Length => Length = 0
      BY <1>1, <1>3 DEF Reading
    <3>. QED
      BY <1>3, <2>1, <3>1 DEF EnoughBytes
  <2>4. ErrorsAreReal'
    BY <1>1, <1>2, <1>5, <2>1 DEF ErrorsAreReal
  <2>. QED
    BY <2>2, <2>3, <2>4 DEF AnswerInv, ReadTruthful
<1>. QED
  BY <1>6, <1>7

LEMMA Wraps ==
  ASSUME NEW e \in Int, e < 0, e >= -256 PROVE e % 256 = e + 256
OBVIOUS

LEMMA TransferAnswer ==
  ASSUME TInv, LinkInv, AnswerInv, NEW c \in Commands, Transfer(c)
  PROVE  AnswerInv'
<1> DEFINE n == Len(calls) + 1
           read == c.code \in Get
           length == IF read THEN c.arg[2] ELSE 0
<1>1. /\ TypeOK /\ transport = "TicUsb" /\ calls' = Append(calls, c) /\ fromTic = <<>>
      /\ UNCHANGED <<transport, fromTic>>
  BY DEF Transfer, TInv, LinkInv
<1>2. calls' # <<>> /\ Len(calls') = n /\ calls'[n] = c /\ Current' = c
  <2>1. calls \in Seq(Commands) /\ Len(calls) \in Nat
    BY <1>1 DEF TypeOK
  <2>. QED
    BY <1>1, <2>1, Appended DEF Current
<1>3. PICK result \in Result(length) :
        /\ hurt' = IF result = length THEN hurt ELSE hurt \cup {n}
        /\ read => /\ lastError' = AfterSegment(result, length)
                   /\ buffer' = [j \in 1..length |->
                                   IF j <= result THEN [call |-> n, index |-> j] ELSE Unset]
  BY DEF Transfer
<1>4. ASSUME read
      PROVE  /\ length \in 0..63 /\ Length' = length
             /\ lastError' = 0 => result = length
             /\ lastError' # 0 => n \in hurt'
  <2>1. length \in 0..63 /\ Length' = length
    BY <1>2, <1>4, CommandBytes DEF Length
  <2>2. lastError' = 0 <=> result % 256 = length
    BY <1>3, <1>4 DEF AfterSegment
  <2>3. result % 256 = length <=> result = length
    <3>1. result \in 0..length => result % 256 = result
      BY <2>1
    <3>2. result \notin 0..length => result \in {-99, -7, -4, -1}
      BY <1>3 DEF Result
    <3>3. result \notin 0..length => result % 256 \in 157..255
      <4>1. \A e \in {-99, -7, -4, -1} :
              e \in Int /\ e < 0 /\ e >= -256 /\ e + 256 \in 157..255
        OBVIOUS
      <4>. QED
        BY <3>2, <4>1, Wraps
    <3>. QED
      BY <2>1, <3>1, <3>2, <3>3
  <2>. QED
    BY <1>3, <2>1, <2>2, <2>3
<1>5. EnoughBytes'
  <2>1. ASSUME read, lastError' = 0, NEW i \in 1..length
        PROVE  buffer'[i] = [call |-> n, index |-> i]
    <3>1. result = length /\ length \in 0..63
      BY <1>4, <2>1
    <3>2. i <= result
      BY <2>1, <3>1
    <3>. QED
      BY <1>3, <2>1, <3>2
  <2>2. read <=> Current'.code \in Get
    BY <1>2
  <2>. QED
    BY <1>2, <1>4, <2>1, <2>2 DEF EnoughBytes, ReadOver
<1>6. ErrorsAreReal'
  BY <1>1, <1>2, <1>4 DEF ErrorsAreReal, ReadOver
<1>. QED
  BY <1>1, <1>5, <1>6 DEF AnswerInv, ReadTruthful

LEMMA DeliverAnswer ==
  ASSUME Isolated, TInv, LinkInv, AnswerInv, transport = "StreamBT", Deliver
  PROVE  AnswerInv'
<1> DEFINE n == Len(calls)
           L == Len(toTic)
           b == toTic[1]
<1>1. /\ TypeOK /\ Shape /\ Asking /\ OnTheWay /\ Hears(b)
      /\ UNCHANGED <<transport, calls, phase, unsent, readC, buffer, lastError, hurt>>
  BY DeliverLink DEF TInv, LinkInv, AnswerInv, Deliver, driver, reader
<1>2. /\ L \in Nat /\ L >= 1 /\ DOMAIN toTic = 1..L /\ DOMAIN toTic' = 1..L - 1
      /\ \A m \in 1..L - 1 : toTic'[m] = toTic[m + 1]
  <2>1. toTic \in Seq(Written) /\ toTic # <<>> /\ toTic' = Tail(toTic)
    BY <1>1 DEF TypeOK, Deliver
  <2>2. /\ L \in Nat \ {0} /\ Tail(toTic) \in Seq(Written) /\ Len(Tail(toTic)) = L - 1
        /\ \A m \in 1..L - 1 : Tail(toTic)[m] = toTic[m + 1]
    BY <2>1, Tailed
  <2>3. DOMAIN toTic = 1..L /\ DOMAIN Tail(toTic) = 1..Len(Tail(toTic))
    BY <2>1, <2>2, Elements
  <2>. QED
    BY <2>1, <2>2, <2>3
<1>3. /\ n \in Nat /\ n \in 1..n /\ Current = calls[n] /\ LastIndex(n) \in 1..6
      /\ Current' = Current /\ Length' = Length /\ readC \in Nat
      /\ Len(fromTic) \in Nat
  <2>1. n \in Nat /\ n \in 1..n
    BY <1>1 DEF Hears, Strays, TypeOK
  <2>2. LastIndex(n) \in 1..6
    BY <1>1, <2>1, CallBytes
  <2>. QED
    BY <1>1, <2>1, <2>2, OnItsWay DEF Current, Length, TypeOK, SizeT
<1>4. \A m \in DOMAIN toTic' :
        calls'[toTic'[m].call].code \in Get => toTic'[m].call = Len(calls') /\ phase' # "idle"
  BY <1>1, <1>2 DEF Asking
<1>5. phase = "read" => Frontier = At(n + 1, 1)
  BY DEF Frontier
<1>6. CASE Executes(b.call) /\ calls[b.call].code \in Get
  <2>1. b.call = n /\ phase # "idle" /\ b.index = LastIndex(n) /\ AnswerDue
    <3>1. b.call = n /\ phase # "idle"
      BY <1>1, <1>2, <1>6 DEF Asking
    <3>2. executed' # executed
      <4>1. b.call \in 1..n /\ calls[b.call] \in Commands
        BY <1>1, CallBytes DEF Hears, Strays
      <4>2. [call |-> b.call, command |-> calls[b.call]] \in Execution
        <5>1. b.call \in 1..MaxCalls
          <6>1. n <= MaxCalls /\ n \in Int /\ MaxCalls \in Int
            BY <1>1, <1>3, TiclibAssumption DEF TypeOK
          <6>2. b.call \in Int /\ 1 <= b.call /\ b.call <= n
            BY <1>3, <4>1
          <6>. QED
            BY <6>1, <6>2
        <5>2. calls[b.call] \in [code : Codes, arg : Seq(Byte)]
          BY <4>1, TiclibAssumption
        <5>. QED
          BY <5>1, <5>2 DEF Execution
      <4>3. executed \in Seq(Execution) /\ Len(executed) \in Nat
        BY <1>1 DEF TypeOK
      <4>4. Len(executed') = Len(executed) + 1
        BY <1>6, <4>2, <4>3, Appended DEF Executes
      <4>. QED
        BY <4>3, <4>4
    <3>3. b.index = LastIndex(n)
      BY <1>1, <3>1, <3>2 DEF Hears, Strays
    <3>. QED
      BY <1>2, <3>1, <3>3 DEF AnswerDue
  <2>2. phase = "read"
    <3>1. SUFFICES ASSUME phase = "write" PROVE FALSE
      BY <1>1, <2>1 DEF TypeOK
    <3>2. At(n, LastIndex(n)) < At(n, NextIndex)
      BY <1>1, <1>2, <2>1, <3>1 DEF OnTheWay, Where, Frontier
    <3>3. Len(unsent) \in Nat /\ Len(unsent) >= 1
      BY <1>1, <3>1 DEF Shape, TypeOK
    <3>4. LastIndex(n) = DataLength(Current.code) + 1 /\ DataLength(Current.code) \in Int
      BY <1>1, <1>3, CallBytes, CommandBytes
    <3>. QED
      BY <1>3, <3>2, <3>3, <3>4 DEF At, NextIndex
  <2>3. readC = 0 /\ fromTic = <<>> /\ (readC < Length \/ Length = 0)
    BY <1>1, <2>1, <2>2 DEF Asking, Reading
  <2>4. Length \in 0..63
    BY <1>1, <2>2, CurrentType DEF Shape
  <2>5. fromTic' = [k \in 1..Length |-> [call |-> n, index |-> k]]
    <3>1. fromTic' = <<>> \o [k \in 1..Length |-> [call |-> n, index |-> k]]
      BY <1>3, <1>6, <2>1, <2>3 DEF Executes, Length
    <3>2. [k \in 1..Length |-> [call |-> n, index |-> k]] \in Seq([call : {n}, index : Nat])
      BY <2>4
    <3>. QED
      BY <3>1, <3>2
  <2>6. /\ Len(fromTic') = Length /\ DOMAIN fromTic' = 1..Length /\ Lost' = 0
        /\ \A m \in 1..Length : fromTic'[m].call = n /\ fromTic'[m].index = m
    <3>1. Len(fromTic') = Length /\ DOMAIN fromTic' = 1..Length
      BY <2>4, <2>5
    <3>2. Lost' = 0
      BY <1>1, <1>3, <2>3, <2>4, <3>1 DEF Lost
    <3>. QED
      BY <2>5, <3>1, <3>2
  <2>7. ~AnswerDue'
    <3>1. SUFFICES ASSUME NEW m \in 1..L - 1, toTic[m + 1].call = n PROVE FALSE
      BY <1>1, <1>2 DEF AnswerDue
    <3>2. m + 1 \in 1..L /\ 1 < m + 1
      BY <1>2
    <3>3. Where(1) < Where(m + 1) /\ toTic[m + 1].index \in 1..LastIndex(n)
      BY <1>1, <1>2, <3>1, <3>2 DEF OnTheWay
    <3>. QED
      BY <1>3, <2>1, <3>1, <3>3 DEF Where, At
  <2>8. Reading'
    <3>1. \A m \in DOMAIN fromTic' : fromTic'[m].index - (readC' + m) \in 0..Lost'
      BY <1>1, <2>3, <2>4, <2>6
    <3>. QED
      BY <1>1, <1>3, <2>3, <2>4, <2>6, <2>7, <3>1 DEF Reading
  <2>9. Asking'
    BY <1>1, <1>4, <2>2, <2>8 DEF Asking
  <2>. QED
    BY <1>1, <2>2, <2>9, Busy
<1>7. CASE ~(Executes(b.call) /\ calls[b.call].code \in Get)
  <2>1. fromTic' = fromTic
    BY <1>1, <1>7 DEF Hears, Strays, Executes
  <2>2. AnswerDue' => AnswerDue
    <3>1. \A m \in 1..L - 1 : m + 1 \in 1..L
      BY <1>2
    <3>. QED
      BY <1>1, <1>2, <3>1 DEF AnswerDue
  <2>3. ASSUME phase = "read", n \notin hurt, AnswerDue PROVE AnswerDue'
    <3>1. \E m \in DOMAIN toTic : m # 1 /\ toTic[m].call = n
      <4>1. CASE b.call # n
        BY <2>3, <4>1 DEF AnswerDue
      <4>2. CASE b.call = n
        <5>1. Current.code \in Get
          BY <1>1, <2>3 DEF Shape
        <5>2. b.index < LastIndex(n) /\ b.index \in 1..LastIndex(n)
          BY <1>1, <1>3, <1>7, <2>3, <4>2, <5>1 DEF Hears, Strays
        <5>3. PICK a \in 0..n, x \in 0..6 : Ahead(a, x)
          BY DEF LinkInv, Flow
        <5>4. At(a, x) < At(n, b.index)
          BY <1>2, <4>2, <5>3 DEF Ahead, Where
        <5>5. LastIndex(n) \in 1..LastIndex(n) /\ At(a, x) < At(n, LastIndex(n))
              /\ At(n, LastIndex(n)) < Frontier
          <6>1. b.index \in Int /\ At(a, x) \in Int /\ At(n, b.index) < At(n, LastIndex(n))
            BY <1>3, <5>2 DEF At
          <6>2. LastIndex(n) \in Int /\ At(n, LastIndex(n)) \in Int /\ At(n, b.index) \in Int
            BY <1>3, <6>1 DEF At
          <6>3. At(a, x) < At(n, LastIndex(n))
            BY <5>4, <6>1, <6>2
          <6>4. At(n, LastIndex(n)) < Frontier
            BY <1>3, <1>5, <2>3 DEF At
          <6>. QED
            BY <1>3, <6>3, <6>4
        <5>6. PICK m \in DOMAIN toTic : toTic[m].call = n /\ toTic[m].index = LastIndex(n)
          BY <1>3, <2>3, <5>3, <5>5 DEF Ahead
        <5>7. m # 1
          BY <1>3, <5>2, <5>6
        <5>. QED
          BY <5>6, <5>7
      <4>. QED
        BY <4>1, <4>2
    <3>2. PICK m \in 1..L : m # 1 /\ toTic[m].call = n
      BY <1>2, <3>1
    <3>3. m - 1 \in 1..L - 1 /\ toTic'[m - 1] = toTic[m]
      BY <1>2, <3>2
    <3>. QED
      BY <1>1, <1>2, <3>2, <3>3 DEF AnswerDue
  <2>4. ASSUME phase = "read" PROVE Reading'
    <3>1. Lost' = Lost
      BY <1>1, <1>3, <2>1 DEF Lost
    <3>. QED
      BY <1>1, <1>3, <2>1, <2>2, <2>3, <2>4, <3>1 DEF Asking, Reading
  <2>5. Asking'
    BY <1>1, <1>4, <2>1, <2>4 DEF Asking
  <2>. QED
    BY <1>1, <2>5, Unread
<1>. QED
  BY <1>6, <1>7

LEMMA LoseAnswerAnswer ==
  ASSUME TInv, LinkInv, AnswerInv, transport = "StreamBT", LoseAnswer
  PROVE  AnswerInv'
<1> DEFINE n == Len(calls)
           K == Len(fromTic)
<1>1. /\ TypeOK /\ Shape /\ Asking
      /\ UNCHANGED <<transport, calls, phase, readC, buffer, lastError, toTic>>
  BY DEF TInv, AnswerInv, LoseAnswer, driver, reader
<1>2. PICK i \in 1..K : fromTic' = RemoveAt(fromTic, i) /\ hurt' = hurt \cup {fromTic[i].call}
  BY DEF LoseAnswer, Lose
<1>3. /\ K \in Nat /\ i \in DOMAIN fromTic /\ DOMAIN fromTic = 1..K
      /\ Len(fromTic') = K - 1 /\ DOMAIN fromTic' = 1..K - 1
      /\ \A m \in 1..K - 1 : fromTic'[m] = IF m < i THEN fromTic[m] ELSE fromTic[m + 1]
  <2>1. fromTic \in Seq(Answered)
    BY <1>1 DEF TypeOK
  <2>2. /\ fromTic' \in Seq(Answered) /\ Len(fromTic') = K - 1
        /\ \A m \in 1..K - 1 : fromTic'[m] = IF m < i THEN fromTic[m] ELSE fromTic[m + 1]
    BY <1>2, <2>1, OneLess
  <2>. QED
    BY <1>2, <2>1, <2>2, Elements
<1>4. phase = "read" /\ Reading /\ fromTic # <<>>
  BY <1>1, <1>3 DEF Asking
<1>5. ~AnswerDue'
  BY <1>1, <1>4 DEF Reading, AnswerDue
<1>6. n \in hurt'
  BY <1>2, <1>3, <1>4 DEF Reading
<1>7. /\ Length' = Length /\ Length \in Nat /\ readC \in Nat
      /\ Lost' = Lost + 1 /\ Lost \in Nat
  <2>1. Length' = Length /\ Length \in Nat /\ readC \in Nat
    BY <1>1, <1>4, CurrentType DEF Length, Current, Shape, TypeOK, SizeT
  <2>. QED
    BY <1>1, <1>3, <1>4, <2>1 DEF Reading, Lost
<1>8. ASSUME NEW m \in DOMAIN fromTic'
      PROVE  fromTic'[m].call = n /\ fromTic'[m].index - (readC' + m) \in 0..Lost'
  <2>1. CASE m < i
    <3>1. m \in DOMAIN fromTic /\ fromTic'[m] = fromTic[m]
      BY <1>3, <2>1
    <3>2. fromTic[m].call = n /\ fromTic[m].index - (readC + m) \in 0..Lost
      BY <1>4, <3>1 DEF Reading
    <3>. QED
      BY <1>1, <1>7, <3>1, <3>2
  <2>2. CASE ~(m < i)
    <3>1. m + 1 \in DOMAIN fromTic /\ fromTic'[m] = fromTic[m + 1]
      BY <1>3, <2>2
    <3>2. fromTic[m + 1].call = n /\ fromTic[m + 1].index - (readC + (m + 1)) \in 0..Lost
      BY <1>4, <3>1 DEF Reading
    <3>0. fromTic[m + 1].index \in Int
      BY <1>1, <3>1, OnItsWay
    <3>3. fromTic[m + 1].index - (readC + m) \in 0..Lost + 1
      <4>1. \A x \in Int, r, k, l \in Nat : x - (r + (k + 1)) \in 0..l => x - (r + k) \in 0..l + 1
        OBVIOUS
      <4>2. m \in Nat /\ readC \in Nat /\ Lost \in Nat
        BY <1>3, <1>7
      <4>. QED
        BY <3>0, <3>2, <4>1, <4>2, Zenon
    <3>. QED
      BY <1>1, <1>7, <3>1, <3>2, <3>3
  <2>. QED
    BY <2>1, <2>2
<1>9. ASSUME NEW j \in 1..readC'
      PROVE  buffer'[j].call = n /\ buffer'[j].index - j \in 0..Lost'
  <2>1. buffer[j].call = n /\ buffer[j].index - j \in 0..Lost
    BY <1>1, <1>4, <1>9 DEF Reading
  <2>. QED
    BY <1>1, <1>7, <2>1
<1>10. Reading'
  <2>1. /\ readC < Length \/ Length = 0
        /\ readC + K <= Length
    BY <1>4 DEF Reading
  <2>. QED
    BY <1>1, <1>3, <1>5, <1>6, <1>7, <1>8, <1>9, <2>1 DEF Reading
<1>11. Asking'
  BY <1>1, <1>4, <1>10 DEF Asking
<1>. QED
  BY <1>1, <1>2, <1>11, Unread

LEMMA AnswerStarts == Init => AnswerInv
BY DEF Init, AnswerInv, Asking, ReadTruthful, EnoughBytes, ErrorsAreReal, ReadOver

LEMMA AnswerStep ==
  ASSUME Isolated, Prompt, TInv, LinkInv, AnswerInv, [Next]_vars PROVE AnswerInv'
<1>1. transport \in {"TicUsb", "StreamSerial", "StreamBT"} /\ transport' = transport
  BY DEF TInv, TypeOK, Transport, Next, Transfer, Give, Write, Read, ReadNothing,
         Deliver, LoseAnswer, vars
<1>2. CASE transport = "StreamSerial"
  BY <1>1, <1>2 DEF AnswerInv, ReadTruthful, ErrorsAreReal
<1>3. CASE UNCHANGED vars
  <2>1. Current' = Current /\ Length' = Length
    BY <1>3 DEF Current, Length, vars, driver
  <2>2. Reading' <=> Reading
    BY <1>3, <2>1 DEF Reading, Lost, AnswerDue, vars, driver, reader
  <2>. QED
    BY <1>3, <2>1, <2>2 DEF AnswerInv, Asking, ReadTruthful, EnoughBytes, ErrorsAreReal,
                            ReadOver, vars, driver, reader
<1>4. CASE transport = "TicUsb" /\ Next
  <2>1. (\E c \in Commands : Transfer(c)) \/ UNCHANGED vars
    <3>1. phase = "idle" /\ toTic = <<>> /\ fromTic = <<>>
      BY <1>4 DEF TInv, Shape, LinkInv
    <3>2. ~(\E c \in Commands : Give(c)) /\ ~Write /\ ~Read /\ ~ReadNothing
          /\ ~Deliver /\ ~LoseAnswer
      BY <1>4, <3>1 DEF Give, Write, Read, ReadNothing, Deliver, LoseAnswer
    <3>. QED
      BY <1>4, <3>2 DEF Next
  <2>. QED
    BY <1>3, <2>1, TransferAnswer
<1>5. CASE transport = "StreamBT" /\ Next
  <2>1. ~(\E c \in Commands : Transfer(c))
    BY <1>5 DEF Transfer
  <2>. QED
    BY <1>5, <2>1, GiveAnswer, WriteAnswer, ReadAnswer, ReadNothingAnswer, DeliverAnswer,
       LoseAnswerAnswer DEF Next
<1>. QED
  BY <1>1, <1>2, <1>3, <1>4, <1>5

LEMMA AnswerAlways == ASSUME Isolated, Prompt PROVE Spec => []AnswerInv
<1>1. TInv /\ LinkInv /\ AnswerInv /\ [Next]_vars => AnswerInv'
  BY AnswerStep
<1>2. Spec => [](TInv /\ LinkInv)
  BY LinkAlways
<1>. QED
  BY <1>1, <1>2, AnswerStarts, PTL DEF Spec

(* Over USB and Bluetooth a read that reports no error returns the bytes of*)
(* its own answer, each in its place, however transfers are cut short, an  *)
(* answer is torn or reconnections lose it (both getSegments and           *)
(* StreamBT::readBytes).                                                   *)
THEOREM AnswersWhole == ASSUME Isolated, Prompt PROVE Spec => []ReadTruthful
<1>1. AnswerInv => ReadTruthful
  BY DEF AnswerInv
<1>. QED
  BY <1>1, AnswerAlways, PTL

(* There a read that reports an error has lost something on the way, and no*)
(* read leaves anything for the next one to find.                          *)
THEOREM ErrorsEarned == ASSUME Isolated, Prompt PROVE Spec => []ErrorsAreReal
<1>1. AnswerInv => ErrorsAreReal
  BY DEF AnswerInv
<1>. QED
  BY <1>1, AnswerAlways, PTL

-----------------------------------------------------------------------------
(* What is not lost is executed.                                           *)

Arrived(i) ==
  /\ i \notin hurt
  /\ i = Len(calls) => phase # "write"
  /\ \A m \in DOMAIN toTic : toTic[m].call # i

IsExecuted(i) ==
  \E e \in DOMAIN executed : executed[e] = [call |-> i, command |-> calls[i]]

LEMMA WholeMeans ==
  WholeExecuted <=> \A i \in DOMAIN calls : Arrived(i) => IsExecuted(i)
BY DEF WholeExecuted, Arrived, IsExecuted

LEMMA StaysExecuted ==
  ASSUME TypeOK, NEW i, IsExecuted(i), calls'[i] = calls[i],
         \/ executed' = executed
         \/ \E x \in Execution : executed' = Append(executed, x)
  PROVE  IsExecuted(i)'
<1>1. CASE executed' = executed
  BY <1>1 DEF IsExecuted
<1>2. CASE \E x \in Execution : executed' = Append(executed, x)
  <2>1. executed \in Seq(Execution) /\ Len(executed) \in Nat
    BY DEF TypeOK
  <2>2. PICK e \in DOMAIN executed : executed[e] = [call |-> i, command |-> calls[i]]
    BY DEF IsExecuted
  <2>3. e \in DOMAIN executed' /\ executed'[e] = executed[e]
    <3>1. DOMAIN executed = 1..Len(executed)
      BY <2>1, Elements
    <3>2. /\ executed' \in Seq(Execution) /\ Len(executed') = Len(executed) + 1
          /\ \A k \in 1..Len(executed) : executed'[k] = executed[k]
      BY <1>2, <2>1, Appended
    <3>3. DOMAIN executed' = 1..Len(executed) + 1
      BY <3>2, Elements
    <3>. QED
      BY <2>1, <2>2, <3>1, <3>2, <3>3
  <2>. QED
    BY <2>2, <2>3 DEF IsExecuted
<1>. QED
  BY <1>1, <1>2

LEMMA NewlyExecuted ==
  ASSUME TypeOK, NEW i \in DOMAIN calls',
         [call |-> i, command |-> calls'[i]] \in Execution,
         executed' = Append(executed, [call |-> i, command |-> calls'[i]])
  PROVE  IsExecuted(i)'
<1> DEFINE x == [call |-> i, command |-> calls'[i]]
<1>1. executed \in Seq(Execution) /\ Len(executed) \in Nat /\ x \in Execution
  BY DEF TypeOK
<1>2. /\ executed' \in Seq(Execution) /\ Len(executed') = Len(executed) + 1
      /\ executed'[Len(executed) + 1] = x
  BY <1>1, Appended
<1>3. Len(executed) + 1 \in DOMAIN executed'
  BY <1>1, <1>2, Elements
<1>. QED
  BY <1>2, <1>3 DEF IsExecuted

LEMMA TransferWhole ==
  ASSUME TInv, LinkInv, WholeExecuted, NEW c \in Commands, Transfer(c)
  PROVE  WholeExecuted'
<1> DEFINE n == Len(calls)
           length == IF c.code \in Get THEN c.arg[2] ELSE 0
<1>1. /\ TypeOK /\ phase = "idle" /\ toTic = <<>> /\ n \in Nat /\ n < MaxCalls
      /\ calls' = Append(calls, c) /\ calls \in Seq(Commands)
  BY DEF Transfer, TInv, Shape, LinkInv, TypeOK
<1>2. PICK new \in Nat : new = n + 1
  BY <1>1
<1>. DEFINE x == [call |-> new, command |-> c]
<1>3. PICK result \in Result(length), reached \in BOOLEAN :
        /\ result >= 0 => reached
        /\ executed' = IF reached THEN Append(executed, x) ELSE executed
        /\ hurt' = IF result = length THEN hurt ELSE hurt \cup {new}
  BY <1>2 DEF Transfer
<1>4. /\ DOMAIN calls = 1..n /\ DOMAIN calls' = 1..n + 1 /\ calls'[new] = c
      /\ \A i \in 1..n : calls'[i] = calls[i]
  <2>1. /\ calls' \in Seq(Commands) /\ Len(calls') = n + 1 /\ calls'[new] = c
        /\ \A i \in 1..n : calls'[i] = calls[i]
    BY <1>1, <1>2, Appended
  <2>. QED
    BY <1>1, <1>2, <2>1, Elements
<1>5. x \in Execution
  BY <1>1, <1>2, TiclibAssumption DEF Execution
<1>6. ASSUME NEW i \in 1..n, Arrived(i)' PROVE IsExecuted(i)'
  <2>1. Arrived(i)
    BY <1>1, <1>2, <1>3, <1>6 DEF Arrived
  <2>2. IsExecuted(i)
    BY <1>4, <2>1, WholeMeans
  <2>. QED
    BY <1>1, <1>3, <1>4, <1>5, <2>2, StaysExecuted
<1>7. ASSUME new \notin hurt' PROVE IsExecuted(new)'
  <2>1. result = length /\ length >= 0
    <3>1. length \in Nat
      <4>1. CASE c.code \in Get
        <5>1. c.arg[2] \in 0..63
          BY <4>1, CommandBytes, Zenon
        <5>. QED
          BY <4>1, <5>1
      <4>2. CASE c.code \notin Get
        BY <4>2
      <4>. QED
        BY <4>1, <4>2
    <3>. QED
      BY <1>3, <1>7, <3>1
  <2>2. executed' = Append(executed, x)
    BY <1>3, <2>1
  <2>3. x = [call |-> new, command |-> calls'[new]]
    BY <1>4
  <2>4. new \in DOMAIN calls'
    BY <1>1, <1>2, <1>4
  <2> HIDE DEF x, n
  <2>. QED
    BY <1>1, <1>5, <2>2, <2>3, <2>4, NewlyExecuted
<1>8. \A i \in DOMAIN calls' : i \in 1..n \/ i = new
  BY <1>1, <1>2, <1>4
<1>9. ASSUME NEW i \in DOMAIN calls', Arrived(i)' PROVE IsExecuted(i)'
  <2>1. CASE i \in 1..n
    BY <1>6, <1>9, <2>1
  <2>2. CASE i = new
    <3>1. new \notin hurt'
      BY <1>9, <2>2 DEF Arrived
    <3>. QED
      BY <1>7, <2>2, <3>1
  <2>. QED
    BY <1>8, <2>1, <2>2
<1>. QED
  BY <1>9, WholeMeans, Zenon DEF WholeExecuted, Arrived, IsExecuted

(* Nothing arrives and nothing is executed.                                *)
LEMMA NothingArrives ==
  ASSUME WholeExecuted, UNCHANGED <<calls, executed>>,
         \A i \in DOMAIN calls : Arrived(i)' => Arrived(i)
  PROVE  WholeExecuted'
<1>1. \A i : IsExecuted(i)' <=> IsExecuted(i)
  BY DEF IsExecuted
<1>2. \A i \in DOMAIN calls' : Arrived(i)' => IsExecuted(i)'
  BY <1>1, WholeMeans
<1>. QED
  BY <1>2 DEF WholeExecuted, Arrived, IsExecuted

LEMMA GiveWhole ==
  ASSUME TInv, WholeExecuted, NEW c \in Commands, Give(c) PROVE WholeExecuted'
<1> DEFINE n == Len(calls)
<1>1. /\ TypeOK /\ phase = "idle" /\ phase' = "write" /\ n \in Nat
      /\ calls' = Append(calls, c) /\ calls \in Seq(Commands)
      /\ UNCHANGED <<toTic, executed, hurt>>
  BY DEF Give, TInv, TypeOK, device
<1>2. /\ DOMAIN calls = 1..n /\ DOMAIN calls' = 1..n + 1 /\ Len(calls') = n + 1
      /\ \A i \in 1..n : calls'[i] = calls[i]
  <2>1. /\ calls' \in Seq(Commands) /\ Len(calls') = n + 1
        /\ \A i \in 1..n : calls'[i] = calls[i]
    BY <1>1, Appended
  <2>. QED
    BY <1>1, <2>1, Elements
<1>3. ASSUME NEW i \in DOMAIN calls', Arrived(i)' PROVE IsExecuted(i)'
  <2>1. i \in 1..n
    BY <1>1, <1>2, <1>3 DEF Arrived
  <2>2. Arrived(i)
    BY <1>1, <1>3 DEF Arrived
  <2>3. IsExecuted(i)
    BY <1>2, <2>1, <2>2, WholeMeans
  <2>. QED
    BY <1>1, <1>2, <2>1, <2>3 DEF IsExecuted
<1>. QED
  BY <1>3 DEF WholeExecuted, Arrived, IsExecuted

LEMMA WriteWhole ==
  ASSUME TInv, LinkInv, WholeExecuted, Write PROVE WholeExecuted'
<1>1. /\ UNCHANGED <<calls, executed>> /\ hurt \subseteq hurt' /\ WritesOn
      /\ toTic \in Seq(Written)
  BY WriteLink DEF Write, device, Lose, TInv, TypeOK
<1>2. ASSUME NEW m \in DOMAIN toTic
      PROVE  \/ toTic[m].call \in hurt'
             \/ \E l \in DOMAIN toTic' : toTic'[l].call = toTic[m].call
  <2>1. \/ toTic[m].call \in hurt'
        \/ toTic' = toTic
        \/ \E x \in Written : toTic' = toTic \o <<x>>
    <3>1. PICK sent \in BOOLEAN, reconnected \in {FALSE, transport = "StreamBT"} :
            /\ toTic' = (IF reconnected THEN <<>> ELSE toTic)
                        \o (IF sent THEN <<[value |-> Head(unsent), call |-> Len(calls),
                                            index |-> NextIndex]>> ELSE <<>>)
            /\ Lose((IF reconnected THEN UnderWay ELSE {})
                    \cup (IF sent THEN {} ELSE {Len(calls)}))
      BY DEF Write
    <3>2. CASE reconnected
      BY <3>1, <3>2 DEF Lose, UnderWay
    <3>3. CASE ~reconnected /\ ~sent
      BY <1>1, <3>1, <3>3
    <3>4. CASE ~reconnected /\ sent
      <4> DEFINE x == [value |-> Head(unsent), call |-> Len(calls), index |-> NextIndex]
      <4>1. toTic' = toTic \o <<x>>
        BY <3>1, <3>4
      <4>2. x \in Written
        <5>1. toTic' \in Seq(Written)
          BY WriteTypes DEF TInv, TypeOK
        <5>. QED
          BY <1>1, <4>1, <5>1
      <4>. QED
        BY <4>1, <4>2
    <3>. QED
      BY <3>2, <3>3, <3>4
  <2>2. ASSUME NEW x \in Written, toTic' = toTic \o <<x>>
        PROVE  m \in DOMAIN toTic' /\ toTic'[m] = toTic[m]
    BY <1>1, <2>2
  <2>. QED
    BY <2>1, <2>2
<1>3. ASSUME NEW i \in DOMAIN calls, Arrived(i)' PROVE Arrived(i)
  <2>1. i # Len(calls)
    BY <1>1, <1>3 DEF Arrived, WritesOn
  <2>. QED
    BY <1>1, <1>2, <1>3, <2>1 DEF Arrived
<1>. QED
  BY <1>1, <1>3, NothingArrives

LEMMA DeliverWhole ==
  ASSUME TInv, LinkInv, WholeExecuted, Deliver PROVE WholeExecuted'
<1> DEFINE n == Len(calls)
           L == Len(toTic)
           b == toTic[1]
<1>1. TypeOK /\ OnTheWay /\ Hears(b) /\ UNCHANGED <<calls, phase, hurt>> /\ n \in Nat
  <2>1. TypeOK /\ OnTheWay /\ n \in Nat
    <3>1. TypeOK /\ n \in Nat
      BY DEF TInv, TypeOK
    <3>. QED
      BY <3>1 DEF LinkInv, Deliver
  <2>2. Hears(b)
    BY DeliverLink
  <2>3. UNCHANGED <<calls, phase, hurt>>
    BY DEF Deliver, driver
  <2>. QED
    BY <2>1, <2>2, <2>3
<1>2. /\ L \in Nat /\ L >= 1 /\ DOMAIN toTic = 1..L /\ DOMAIN toTic' = 1..L - 1
      /\ \A m \in 1..L - 1 : toTic'[m] = toTic[m + 1]
  <2>1. toTic \in Seq(Written) /\ toTic # <<>> /\ toTic' = Tail(toTic)
    BY <1>1 DEF TypeOK, Deliver
  <2>2. /\ L \in Nat \ {0} /\ Tail(toTic) \in Seq(Written) /\ Len(Tail(toTic)) = L - 1
        /\ \A m \in 1..L - 1 : Tail(toTic)[m] = toTic[m + 1]
    BY <2>1, Tailed
  <2>3. DOMAIN toTic = 1..L /\ DOMAIN Tail(toTic) = 1..Len(Tail(toTic))
    BY <2>1, <2>2, Elements
  <2>. QED
    BY <2>1, <2>2, <2>3
<1>3. PICK j \in 1..n : j = b.call
  BY <1>1 DEF Hears, Strays
<1>4. DOMAIN calls = 1..n /\ calls[j] \in Commands
  <2>1. calls \in Seq(Commands)
    BY <1>1 DEF TypeOK
  <2>. QED
    BY <2>1, Elements
<1>5. [call |-> j, command |-> calls[j]] \in Execution
  <2>1. j \in 1..MaxCalls
    <3>1. n <= MaxCalls /\ MaxCalls \in Int
      BY <1>1, TiclibAssumption DEF TypeOK
    <3>2. j \in Int /\ 1 <= j /\ j <= n
      BY <1>1, <1>3
    <3>. QED
      BY <1>1, <3>1, <3>2
  <2>2. calls[j] \in [code : Codes, arg : Seq(Byte)]
    BY <1>4, TiclibAssumption
  <2>. QED
    BY <2>1, <2>2 DEF Execution
<1>6. \/ executed' = executed
      \/ executed' = Append(executed, [call |-> j, command |-> calls[j]])
      \/ Strays(b)
  BY <1>1, <1>3 DEF Hears, Strays, Executes
<1>7. ASSUME NEW i \in 1..n, i # j, Arrived(i)' PROVE Arrived(i)
  <2>1. ASSUME NEW m \in 1..L, toTic[m].call = i PROVE FALSE
    <3>1. m - 1 \in 1..L - 1 /\ toTic'[m - 1] = toTic[m]
      <4>1. m # 1
        BY <1>3, <1>7, <2>1
      <4>. QED
        BY <1>2, <4>1
    <3>. QED
      BY <1>2, <1>7, <2>1, <3>1 DEF Arrived
  <2>. QED
    BY <1>1, <1>2, <1>7, <2>1 DEF Arrived
<1>8. ASSUME Arrived(j)' PROVE IsExecuted(j)'
  <2>1. j \notin hurt /\ (j = n => phase # "write")
        /\ \A m \in 2..L : toTic[m].call # j
    <3>1. \A m \in 2..L : m - 1 \in 1..L - 1 /\ toTic'[m - 1] = toTic[m]
      BY <1>2
    <3>2. \A m \in 1..L - 1 : toTic'[m].call # j
      BY <1>2, <1>8 DEF Arrived
    <3>3. j \notin hurt /\ (j = n => phase # "write")
      BY <1>1, <1>8 DEF Arrived
    <3>. QED
      BY <3>1, <3>2, <3>3
  <2>2. CASE Executes(j)
    <3>1. j \in DOMAIN calls' /\ calls'[j] = calls[j]
      BY <1>1, <1>4
    <3>2. executed' = Append(executed, [call |-> j, command |-> calls'[j]])
      BY <2>2, <3>1 DEF Executes
    <3>. QED
      BY <1>1, <1>5, <3>1, <3>2, NewlyExecuted
  <2>3. CASE ~Executes(j)
    <3>1. /\ b.index < LastIndex(j) /\ b.index \in 1..LastIndex(j)
          /\ LastIndex(j) \in 1..6
      BY <1>1, <1>3, <2>1, <2>3, CallBytes DEF Hears, Strays
    <3>2. PICK a \in 0..n, x \in 0..6 : Ahead(a, x)
      BY DEF LinkInv, Flow, Deliver
    <3>3. At(a, x) < At(j, b.index)
      BY <1>2, <1>3, <3>2 DEF Ahead, Where
    <3>4. At(a, x) < At(j, LastIndex(j))
      <4>1. /\ At(a, x) \in Int /\ At(j, b.index) \in Int
            /\ At(j, b.index) < At(j, LastIndex(j))
            /\ At(j, LastIndex(j)) \in Int
        <5>1. /\ a \in Int /\ x \in Int /\ j \in Int /\ b.index \in Int
              /\ LastIndex(j) \in Int /\ b.index < LastIndex(j)
          BY <1>1, <3>1
        <5>. QED
          BY <5>1 DEF At
      <4>. QED
        BY <3>3, <4>1
    <3>5. At(j, LastIndex(j)) < Frontier
      <4>1. CASE phase # "write"
        BY <1>1, <1>3, <3>1, <4>1 DEF At, Frontier
      <4>2. CASE phase = "write"
        <5>1. j < n /\ NextIndex \in Int /\ NextIndex >= 1
          <6>1. j < n
            BY <1>1, <1>3, <2>1, <4>2
          <6>2. Len(unsent) \in Nat /\ Len(unsent) <= LastIndex(n)
            BY <4>2 DEF TInv, Shape, TypeOK
          <6>3. n \in 1..n /\ LastIndex(n) = DataLength(Current.code) + 1
                /\ DataLength(Current.code) \in Int
            <7>1. n \in 1..n
              BY <1>1, <1>3
            <7>. QED
              BY <1>1, <7>1, CallBytes, CommandBytes DEF Current
          <6>. QED
            BY <6>1, <6>2, <6>3 DEF NextIndex
        <5>. QED
          BY <1>1, <1>3, <3>1, <4>2, <5>1 DEF At, Frontier
      <4>. QED
        BY <4>1, <4>2
    <3>6. PICK m \in DOMAIN toTic :
            toTic[m].call = j /\ toTic[m].index = LastIndex(j)
      <4>1. LastIndex(j) \in 1..LastIndex(j)
        BY <3>1
      <4>. QED
        BY <1>3, <2>1, <3>2, <3>4, <3>5, <4>1 DEF Ahead
    <3>7. m # 1
      BY <3>1, <3>6
    <3>8. m \in 2..L
      BY <1>2, <3>6, <3>7
    <3>. QED
      BY <2>1, <3>6, <3>8
  <2>. QED
    BY <2>2, <2>3
<1>9. ASSUME NEW i \in 1..n, i # j, Arrived(i)' PROVE IsExecuted(i)'
  <2>1. IsExecuted(i)
    BY <1>4, <1>7, <1>9, WholeMeans
  <2>. QED
    <3>1. calls'[i] = calls[i]
      BY <1>1
    <3>2. executed' = executed \/ \E x \in Execution : executed' = Append(executed, x)
      BY <1>5, <1>6 DEF Strays
    <3>. QED
      BY <1>1, <2>1, <3>1, <3>2, StaysExecuted
<1>10. ASSUME NEW i \in DOMAIN calls', Arrived(i)' PROVE IsExecuted(i)'
  <2>1. i \in 1..n
    BY <1>1, <1>4
  <2>2. CASE i = j
    BY <1>8, <1>10, <2>2
  <2>3. CASE i # j
    BY <1>9, <1>10, <2>1, <2>3
  <2>. QED
    BY <2>2, <2>3
<1>. QED
  BY <1>10 DEF WholeExecuted, Arrived, IsExecuted

LEMMA WholeStep ==
  ASSUME TInv, LinkInv, WholeExecuted, [Next]_vars PROVE WholeExecuted'
<1>1. CASE \E c \in Commands : Transfer(c) \/ Give(c)
  BY <1>1, TransferWhole, GiveWhole
<1>2. CASE Write
  BY <1>2, WriteWhole
<1>3. CASE Deliver
  BY <1>3, DeliverWhole
<1>4. CASE Read \/ ReadNothing \/ LoseAnswer \/ UNCHANGED vars
  <2>1. UNCHANGED <<calls, executed>> /\ hurt \subseteq hurt'
    BY <1>4 DEF Read, ReadNothing, LoseAnswer, Lose, vars, driver, device
  <2>2. phase = "write" => phase' = "write"
    BY <1>4 DEF Read, ReadNothing, LoseAnswer, vars, driver
  <2>3. toTic' = toTic \/ \A m \in DOMAIN toTic : toTic[m].call \in hurt'
    BY <1>4 DEF Read, ReadNothing, LoseAnswer, Lose, UnderWay, vars, driver
  <2>4. ASSUME NEW i \in DOMAIN calls, Arrived(i)' PROVE Arrived(i)
    BY <2>1, <2>2, <2>3, <2>4 DEF Arrived
  <2>. QED
    BY <2>1, <2>4, NothingArrives
<1>. QED
  BY <1>1, <1>2, <1>3, <1>4 DEF Next

(* A command whose bytes have all been written and have all arrived has    *)
(* been executed, with its argument, whatever became of the bytes of the   *)
(* others: on a link that loses nothing ticlib does what the driver asks,  *)
(* although it never learns so.                                            *)
THEOREM WholeCommandsExecuted == Spec => []WholeExecuted
<1>1. Init => WholeExecuted
  BY DEF Init, WholeExecuted
<1>2. TInv /\ LinkInv /\ WholeExecuted /\ [Next]_vars => WholeExecuted'
  BY WholeStep
<1>. QED
  BY <1>1, <1>2, LinkAlways, PTL DEF Spec

=============================================================================
