--------------------------- MODULE TicCodecProofs ---------------------------
(***************************************************************************)
(* The bytes of a command tell what it is and what it is given, for every  *)
(* argument: what TicSerial writes, the controller reads back.             *)
(***************************************************************************)
EXTENDS TicCodec, TLAPS

(* The byte of top bits gives each of them back.                           *)
LEMMA TopBits ==
  ASSUME NEW a \in Byte, NEW b \in Byte, NEW c \in Byte, NEW d \in Byte
  PROVE  LET m == Msbs(<<a, b, c, d>>) IN
         /\ m \in 0..15
         /\ SerialW7(m) = m
         /\ Bit(m, 1) = a \div 128 /\ Bit(m, 2) = b \div 128
         /\ Bit(m, 4) = c \div 128 /\ Bit(m, 8) = d \div 128
<1> DEFINE w == a \div 128
           x == b \div 128
           y == c \div 128
           z == d \div 128
           m == w + 2 * x + 4 * y + 8 * z
<1>1. w \in {0, 1} /\ x \in {0, 1} /\ y \in {0, 1} /\ z \in {0, 1}
  BY DEF Byte
<1>2. Msbs(<<a, b, c, d>>) = m
  BY DEF Msbs
<1> HIDE DEF w, x, y, z
<1>3. m \in 0..15 /\ m % 128 = m
  BY <1>1
<1>4. (m \div 1) % 2 = w /\ (m \div 2) % 2 = x
  BY <1>1
<1>5. (m \div 4) % 2 = y /\ (m \div 8) % 2 = z
  BY <1>1
<1>. QED
  BY <1>2, <1>3, <1>4, <1>5 DEF Bit, SerialW7, w, x, y, z

(* A byte is its low bits and its top bit.                                 *)
LEMMA LowAndTop ==
  ASSUME NEW a \in Byte
  PROVE  /\ SerialW7(a) \in 0..127
         /\ SerialW7(a) + 128 * (a \div 128) = a
BY DEF Byte, SerialW7

(* commandW32: the four bytes of a position come back as they were.        *)
LEMMA Value32 ==
  ASSUME NEW code \in W32, NEW arg \in Arguments(code)
  PROVE  /\ Decoded(code, DataOf(code, arg)) = arg
         /\ DataOf(code, arg) \in Seq(0..127)
         /\ Len(DataOf(code, arg)) = DataLength(code)
<1>1. arg \in Byte \X Byte \X Byte \X Byte
  BY DEF Arguments, Quick, W7, W32, Get
<1>2. PICK a \in Byte, b \in Byte, c \in Byte, d \in Byte : arg = <<a, b, c, d>>
  BY <1>1
<1> DEFINE m == Msbs(<<a, b, c, d>>)
<1>3. DataOf(code, arg) = <<SerialW7(m), SerialW7(a), SerialW7(b), SerialW7(c), SerialW7(d)>>
  BY <1>2 DEF DataOf, Data32, Quick, W7, W32, Get
<1>4. /\ m \in 0..15 /\ SerialW7(m) = m
      /\ Bit(m, 1) = a \div 128 /\ Bit(m, 2) = b \div 128
      /\ Bit(m, 4) = c \div 128 /\ Bit(m, 8) = d \div 128
  BY TopBits
<1> HIDE DEF m
<1>5. Decoded(code, DataOf(code, arg))
        = <<SerialW7(a) + 128 * (a \div 128), SerialW7(b) + 128 * (b \div 128),
            SerialW7(c) + 128 * (c \div 128), SerialW7(d) + 128 * (d \div 128)>>
  BY <1>3, <1>4 DEF Decoded, Quick, W7, W32, Get
<1>6. Decoded(code, DataOf(code, arg)) = arg
  BY <1>2, <1>5, LowAndTop
<1>7. DataOf(code, arg) \in Seq(0..127) /\ Len(DataOf(code, arg)) = 5
  BY <1>3, <1>4, LowAndTop
<1>. QED
  BY <1>6, <1>7 DEF DataLength, Quick, W7, W32, Get

(* getSegment: offset and length come back as they were.                   *)
LEMMA Variable ==
  ASSUME NEW code \in Get, NEW arg \in Arguments(code)
  PROVE  /\ Decoded(code, DataOf(code, arg)) = arg
         /\ DataOf(code, arg) \in Seq(0..127)
         /\ Len(DataOf(code, arg)) = DataLength(code)
<1>1. arg \in Byte \X (0..63)
  BY DEF Arguments, Quick, W7, W32, Get
<1>2. PICK o \in Byte, n \in 0..63 : arg = <<o, n>>
  BY <1>1
<1> DEFINE p == SerialW7(o % 128)
           q == SerialW7((n % 64) + 64 * (o \div 128))
<1>3. DataOf(code, arg) = <<p, q>>
  BY <1>2 DEF DataOf, DataGet, Quick, W7, W32, Get
<1>4. p \in 0..127 /\ q \in 0..127 /\ q = n + 64 * (o \div 128) /\ p = o % 128
  BY SMTT(30) DEF SerialW7, Byte
<1>5. p + 128 * (q \div 64) = o /\ q % 64 = n
  <2> DEFINE t == o \div 128
  <2>1. t \in {0, 1} /\ o = (o % 128) + 128 * t
    BY DEF Byte
  <2> HIDE DEF p, q, t
  <2>2. q = n + 64 * t
    BY <1>4 DEF t
  <2>3. q \div 64 = t /\ q % 64 = n
    BY <2>1, <2>2
  <2>. QED
    BY <1>4, <2>1, <2>3
<1> HIDE DEF p, q
<1>6. Decoded(code, DataOf(code, arg)) = <<p + 128 * (q \div 64), q % 64>>
  BY <1>3 DEF Decoded, Quick, W7, W32, Get
<1>7. DataOf(code, arg) \in Seq(0..127) /\ Len(DataOf(code, arg)) = 2
  BY <1>3, <1>4
<1>. QED
  BY <1>2, <1>5, <1>6, <1>7 DEF DataLength, Quick, W7, W32, Get

(* Every command, with every argument it may have: the data bytes decode   *)
(* to the argument (no position is sent as another), each has its top bit  *)
(* clear (none is taken for the start of a command) and there are as many  *)
(* as the controller waits for; the code has its top bit set.              *)
THEOREM RoundTrip ==
  ASSUME NEW code \in Codes, NEW arg \in Arguments(code)
  PROVE  /\ Decoded(code, DataOf(code, arg)) = arg
         /\ DataOf(code, arg) \in Seq(0..127)
         /\ Len(DataOf(code, arg)) = DataLength(code)
         /\ code \in 128..255
<1>1. code \in 128..255
  BY DEF Codes, Quick, W7, W32, Get
<1>2. CASE code \in Quick
  <2>1. arg = <<>> /\ DataOf(code, arg) = <<>> /\ Decoded(code, <<>>) = <<>>
    BY <1>2 DEF Arguments, DataOf, Decoded, Quick, W7, W32, Get
  <2>2. DataLength(code) = 0
    BY <1>2 DEF DataLength, Quick, W7, W32, Get
  <2>3. Decoded(code, DataOf(code, arg)) = arg
    BY <2>1
  <2>4. DataOf(code, arg) \in Seq(0..127) /\ Len(DataOf(code, arg)) = 0
    <3>1. <<>> \in Seq(0..127) /\ Len(<<>>) = 0
      OBVIOUS
    <3>. QED
      BY <2>1, <3>1, Zenon
  <2>. QED
    BY <1>1, <2>2, <2>3, <2>4
<1>3. CASE code \in W7
  <2>1. PICK v \in 0..127 : arg = <<v>>
    BY <1>3 DEF Arguments, Quick, W7, W32, Get
  <2>2. DataOf(code, arg) = <<SerialW7(v)>>
    BY <1>3, <2>1 DEF DataOf, Quick, W7, W32, Get
  <2>3. SerialW7(v) = v
    BY DEF SerialW7
  <2>4. Decoded(code, <<v>>) = <<v>> /\ DataLength(code) = 1
    <3>1. code = 151
      BY <1>3 DEF W7
    <3>2. Decoded(code, <<v>>) = <<(<<v>>)[1]>>
      BY <3>1 DEF Decoded, Quick, W7, W32, Get
    <3>3. DataLength(code) = 1
      BY <3>1 DEF DataLength, Quick, W7, W32, Get
    <3>. QED
      BY <3>2, <3>3
  <2>5. Decoded(code, DataOf(code, arg)) = arg
    BY <2>1, <2>2, <2>3, <2>4
  <2>6. DataOf(code, arg) \in Seq(0..127) /\ Len(DataOf(code, arg)) = 1
    BY <2>2, <2>3
  <2>. QED
    BY <1>1, <2>4, <2>5, <2>6
<1>4. CASE code \in W32
  BY <1>1, <1>4, Value32
<1>5. CASE code \in Get
  BY <1>1, <1>5, Variable
<1>. QED
  BY <1>2, <1>3, <1>4, <1>5 DEF Codes

=============================================================================
