------------------------------ MODULE TicCodec ------------------------------
(***************************************************************************)
(* The bytes of a Tic command, as TicSerial writes them (TicBase.cpp) and  *)
(* as the controller reads them: one byte with the top bit set, which says *)
(* which command it is, then data bytes with the top bit clear.            *)
(*                                                                         *)
(* An argument is the sequence of its bytes, the least significant first.  *)
(* Only the compact protocol is there: no TicSerial of this program is     *)
(* given a device number.                                                  *)
(***************************************************************************)
EXTENDS Integers, Sequences

Byte == 0..255

(* The commands by the method that sends them.  One of each kind stands    *)
(* for the others, which differ in the code alone.                         *)
Quick == {133, 137}      \* Energize, HaltAndHold
W7    == {151}           \* GoHome
W32   == {224, 236}      \* SetTargetPosition, HaltAndSetPosition
Get   == {161}           \* GetVariable
Codes == Quick \cup W7 \cup W32 \cup Get

(* MUTANT of SerialW7: the top bit is sent as it is.                       *)
SerialW8(val) == val

(* serialW7: one data byte.                                                *)
SerialW7(val) == val % 128

(* The byte with the top bits of the four bytes of a value.                *)
Msbs(val) ==
  (val[1] \div 128) + 2 * (val[2] \div 128) + 4 * (val[3] \div 128) + 8 * (val[4] \div 128)

(* commandW32.                                                             *)
Data32(val) ==
  <<SerialW7(Msbs(val)), SerialW7(val[1]), SerialW7(val[2]), SerialW7(val[3]), SerialW7(val[4])>>

(* getSegment: the offset's top bit travels with the length.               *)
DataGet(offset, length) ==
  <<SerialW7(offset % 128), SerialW7((length % 64) + 64 * (offset \div 128))>>

(* How many data bytes follow a code.                                      *)
DataLength(code) ==
  CASE code \in Quick -> 0
    [] code \in W7    -> 1
    [] code \in W32   -> 5
    [] code \in Get   -> 2

(* The arguments a command may have.                                       *)
Arguments(code) ==
  CASE code \in Quick -> {<<>>}
    [] code \in W7    -> {<<v>> : v \in 0..127}
    [] code \in W32   -> Byte \X Byte \X Byte \X Byte
    [] code \in Get   -> Byte \X (0..63)

(* The data bytes of a command.                                            *)
DataOf(code, arg) ==
  CASE code \in Quick -> <<>>
    [] code \in W7    -> <<SerialW7(arg[1])>>
    [] code \in W32   -> Data32(arg)
    [] code \in Get   -> DataGet(arg[1], arg[2])

(* All the bytes of a command.                                             *)
Encoded(code, arg) == <<code>> \o DataOf(code, arg)

(* The controller's reading of the data bytes.                             *)
Bit(byte, weight) == (byte \div weight) % 2

Decoded(code, data) ==
  CASE code \in Quick -> <<>>
    [] code \in W7    -> <<data[1]>>
    [] code \in W32   -> <<data[2] + 128 * Bit(data[1], 1), data[3] + 128 * Bit(data[1], 2),
                           data[4] + 128 * Bit(data[1], 4), data[5] + 128 * Bit(data[1], 8)>>
    [] code \in Get   -> <<data[1] + 128 * (data[2] \div 64), data[2] % 64>>

=============================================================================
