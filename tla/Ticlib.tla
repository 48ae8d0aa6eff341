------------------------------- MODULE Ticlib -------------------------------
(***************************************************************************)
(* The calls of TicBase over what may lie between it and a Tic:            *)
(*   "TicUsb"        a USB control transfer for each call;                 *)
(*   "StreamSerial"  TicSerial on a serial line, and                       *)
(*   "StreamBT"      TicSerial on a Bluetooth socket: the bytes of a       *)
(*                   command are written one at a time and, for a variable,*)
(*                   the answer is read back.                              *)
(* A transfer may fail.  A byte may be lost on its way there or back, and  *)
(* an answer may keep the reader waiting.                                  *)
(*                                                                         *)
(* Bytes are tagged with the call they belong to and their place in it.  No*)
(* guard and no byte that is sent depends on a tag: they let the properties*)
(* say whose bytes a reader got and whose command was executed, and the    *)
(* proofs how far a command has come.                                      *)
(***************************************************************************)
EXTENDS TicCodec, SequencesExt

CONSTANTS
  Commands,   \* the commands that are given, [code, arg]
  MaxCalls,   \* bound on how many
  Prompt,     \* does a read that waits in vain outwait every byte on its way?
  Isolated    \* do two calls in a row never lose something?

Transport == {"TicUsb", "StreamSerial", "StreamBT"}

ASSUME TiclibAssumption ==
  /\ Commands \subseteq [code : Codes, arg : Seq(Byte)]
  /\ \A c \in Commands : c.arg \in Arguments(c.code)
  /\ MaxCalls \in Nat
  /\ Prompt \in BOOLEAN /\ Isolated \in BOOLEAN

VARIABLES
  transport,  \* what lies between
  calls,      \* the commands given so far
  phase,      \* what the driver does: "idle", "write" or "read"
  unsent,     \* the bytes it has still to write
  readC,      \* readBytes: bytes it believes to have
  numZeros,   \* readBytes: reads in a row that brought nothing
  buffer,     \* the bytes of the answer
  lastError,  \* _lastError
  toTic,      \* bytes on their way to the controller
  fromTic,    \* bytes on their way back
  parser,     \* the command the controller is receiving
  executed,   \* the commands it executed
  hurt        \* the calls that failed or lost something on the way

reader == <<readC, numZeros, buffer>>
driver == <<calls, phase, unsent, reader, lastError>>
device == <<parser, executed>>
vars   == <<transport, driver, toTic, fromTic, device, hurt>>

(* readC is a size_t and is compared as a uint8_t in the end: what it is   *)
(* modulo 256 decides, as it never lies between 256 and 2^64 - 256.        *)
SizeT == 256

MaxZeros == 5

Unset  == [call |-> 0, index |-> 0]   \* a byte of the buffer never written
Zeroed == [call |-> 0, index |-> 1]   \* one that memset wrote

NoCommand == [code |-> 0, call |-> 0, data |-> <<>>]

Current == calls[Len(calls)]
Length  == Current.arg[2]             \* of the answer that is read

Init ==
  /\ transport \in Transport
  /\ calls = <<>> /\ phase = "idle" /\ unsent = <<>>
  /\ readC = 0 /\ numZeros = 0 /\ buffer = <<>>
  /\ lastError = 0
  /\ toTic = <<>> /\ fromTic = <<>>
  /\ parser = NoCommand /\ executed = <<>>
  /\ hurt = {}

(* Something of these calls is lost.                                       *)
Lose(lost) ==
  /\ hurt' = hurt \cup lost
  /\ Isolated => \A i \in hurt' : i + 1 \notin hurt'

(* The calls that have bytes on their way.                                 *)
UnderWay == {toTic[i].call : i \in DOMAIN toTic} \cup {fromTic[i].call : i \in DOMAIN fromTic}

-----------------------------------------------------------------------------
(* The driver.                                                             *)

(* What libusb_control_transfer returns of an n byte transfer: how many    *)
(* bytes went over, or a negative error.                                   *)
Result(n) == (0..n) \cup {-99, -7, -4, -1}

(* _lastError, a uint8_t, after a command of TicUsb: every error is more   *)
(* than 0 and is cleared.                                                  *)
AfterCommand(result) ==
  LET stored == result % 256 IN IF stored > 0 THEN 0 ELSE stored

(* MUTANT of AfterSegment: a short answer is taken for the whole.          *)
AfterSegmentShort(result, length) ==
  LET stored == result % 256 IN IF stored > length THEN 157 ELSE 0

(* And after its getSegment: LIBUSB_ERROR_OTHER unless the whole answer    *)
(* came.                                                                   *)
AfterSegment(result, length) ==
  LET stored == result % 256 IN IF stored # length THEN 157 ELSE 0

(* A call over USB, whose failed transfer may have reached the controller. *)
Transfer(c) ==
  LET i      == Len(calls) + 1
      read   == c.code \in Get
      length == IF read THEN c.arg[2] ELSE 0
  IN
  /\ transport = "TicUsb" /\ Len(calls) < MaxCalls
  /\ calls' = Append(calls, c)
  /\ \E result \in Result(length), reached \in BOOLEAN :
       /\ result >= 0 => reached
       /\ executed' = IF reached THEN Append(executed, [call |-> i, command |-> c])
                                 ELSE executed
       /\ hurt' = IF result = length THEN hurt ELSE hurt \cup {i}
       /\ lastError' = IF read THEN AfterSegment(result, length) ELSE AfterCommand(result)
       /\ buffer' = IF ~read THEN buffer
                    ELSE [j \in 1..length |-> IF j <= result THEN [call |-> i, index |-> j]
                                                             ELSE Unset]
  /\ UNCHANGED <<transport, phase, unsent, readC, numZeros, toTic, fromTic, parser>>

(* A command or a getSegment of TicSerial begins.                          *)
Give(c) ==
  /\ transport # "TicUsb"
  /\ phase = "idle" /\ Len(calls) < MaxCalls
  /\ calls' = Append(calls, c)
  /\ phase' = "write"
  /\ unsent' = Encoded(c.code, c.arg)
  /\ UNCHANGED <<transport, reader, lastError, toTic, fromTic, device, hurt>>

(* The place of the byte to be written next, 1 being the command's code.   *)
NextIndex == DataLength(Current.code) + 2 - Len(unsent)

(* One byte is written.  Nobody looks whether it was.  StreamBT tries three*)
(* times and reconnects before it tries again: what is under way is lost.  *)
Write ==
  /\ phase = "write"
  /\ \E sent \in BOOLEAN, reconnected \in {FALSE, transport = "StreamBT"} :
       /\ toTic' = (IF reconnected THEN <<>> ELSE toTic)
                   \o (IF sent THEN <<[value |-> Head(unsent), call |-> Len(calls),
                                       index |-> NextIndex]>> ELSE <<>>)
       /\ fromTic' = IF reconnected THEN <<>> ELSE fromTic
       /\ Lose((IF reconnected THEN UnderWay ELSE {})
               \cup (IF sent THEN {} ELSE {Len(calls)}))
  /\ unsent' = Tail(unsent)
  /\ phase' = IF unsent' # <<>> THEN "write"
              ELSE IF Current.code \in Get THEN "read" ELSE "idle"
  /\ IF phase' = "read"
     THEN /\ readC' = 0 /\ numZeros' = 0
          /\ buffer' = [i \in 1..Length |-> Unset]
     ELSE UNCHANGED reader
  /\ lastError' = IF phase' = "idle" THEN 0 ELSE lastError
  /\ UNCHANGED <<transport, calls, device>>

(* MUTANT of Return: it tries once more than it should.                    *)
ReturnLate(count, zeros, bytes) ==
  /\ readC' = count /\ numZeros' = zeros
  /\ IF count < Length /\ zeros <= MaxZeros
     THEN buffer' = bytes /\ UNCHANGED <<phase, lastError>>
     ELSE /\ phase' = "idle"
          /\ IF count = Length
             THEN lastError' = 0 /\ buffer' = bytes
             ELSE lastError' = 50 /\ buffer' = [i \in 1..Length |-> Zeroed]

(* The loop of readBytes goes round, or getSegment looks at what it got:   *)
(* the whole answer, or an error and zeros.                                *)
Return(count, zeros, bytes) ==
  /\ readC' = count /\ numZeros' = zeros
  /\ IF count < Length /\ zeros < MaxZeros
     THEN buffer' = bytes /\ UNCHANGED <<phase, lastError>>
     ELSE /\ phase' = "idle"
          /\ IF count = Length
             THEN lastError' = 0 /\ buffer' = bytes
             ELSE lastError' = 50 /\ buffer' = [i \in 1..Length |-> Zeroed]

(* MUTANT of Counted: the bytes are counted once more, as StreamSerial did.*)
CountedTwice(k) == (readC + 2 * k) % SizeT

(* What k more bytes make of the count.  StreamSerial adds them twice.     *)
Counted(k) == IF transport = "StreamSerial" THEN (readC + 2 * k) % SizeT ELSE readC + k

(* read() brings some of the bytes that have arrived.                      *)
Read ==
  /\ phase = "read"
  /\ \E k \in 1..Len(fromTic) :
       /\ k <= Length - readC
       /\ Return(Counted(k), 0,
                 [i \in 1..Length |-> IF i - readC \in 1..k THEN fromTic[i - readC]
                                                            ELSE buffer[i]])
       /\ fromTic' = SubSeq(fromTic, k + 1, Len(fromTic))
  /\ UNCHANGED <<transport, calls, unsent, toTic, device, hurt>>

(* MUTANT of ReadNothing: reads in vain are not counted.                   *)
ReadNothingForEver ==
  /\ phase = "read"
  /\ Return(readC, numZeros, buffer)
  /\ UNCHANGED <<transport, calls, unsent, toTic, fromTic, device, hurt>>

(* read() brings nothing, or fails: StreamBT takes a failure, a timeout    *)
(* too, for a lost connection and makes a new one; StreamSerial takes the  *)
(* -1 for a count.                                                         *)
ReadNothing ==
  /\ phase = "read"
  /\ Prompt => toTic = <<>> /\ fromTic = <<>>
  /\ \/ /\ Return(readC, numZeros + 1, buffer)
        /\ UNCHANGED <<toTic, fromTic, hurt>>
     \/ /\ transport = "StreamSerial"
        /\ Return((readC + 2 * (SizeT - 1)) % SizeT, 0, buffer)
        /\ UNCHANGED <<toTic, fromTic, hurt>>
     \/ /\ transport = "StreamBT"
        /\ Return(readC, numZeros + 1, buffer)
        /\ toTic' = <<>> /\ fromTic' = <<>>
        /\ Lose(UnderWay)
  /\ UNCHANGED <<transport, calls, unsent, device>>

-----------------------------------------------------------------------------
(* The controller and the link.                                            *)

(* A byte with the top bit set begins a command, whatever came before; a   *)
(* data byte that belongs to none is dropped.                              *)
Received(byte) ==
  IF byte.value \in Codes THEN [code |-> byte.value, call |-> byte.call, data |-> <<>>]
  ELSE IF byte.value >= 128 \/ parser.code = 0 THEN NoCommand
  ELSE [parser EXCEPT !.data = Append(@, byte.value)]

Complete(p) == p.code # 0 /\ Len(p.data) = DataLength(p.code)

Deliver ==
  /\ toTic # <<>>
  /\ toTic' = Tail(toTic)
  /\ LET p   == Received(Head(toTic))
         arg == Decoded(p.code, p.data)
     IN  IF Complete(p)
         THEN /\ parser' = NoCommand
              /\ executed' = Append(executed,
                   [call |-> p.call, command |-> [code |-> p.code, arg |-> arg]])
              /\ fromTic' = IF p.code \in Get
                            THEN fromTic \o [i \in 1..arg[2] |-> [call |-> p.call, index |-> i]]
                            ELSE fromTic
         ELSE /\ parser' = p
              /\ UNCHANGED <<executed, fromTic>>
  /\ UNCHANGED <<transport, driver, hurt>>

LoseAnswer ==
  /\ \E i \in 1..Len(fromTic) :
       /\ fromTic' = RemoveAt(fromTic, i)
       /\ Lose({fromTic[i].call})
  /\ UNCHANGED <<transport, driver, toTic, device>>

Next ==
  \/ \E c \in Commands : Transfer(c) \/ Give(c)
  \/ Write \/ Read \/ ReadNothing
  \/ Deliver \/ LoseAnswer

Spec == Init /\ [][Next]_vars

(* The driver's loops go on, and the link delivers what it does not lose.  *)
(* A read returns when bytes have arrived; when none do, that of StreamBT  *)
(* returns after a second (SO_RCVTIMEO, StreamBT.cpp:64), while that of    *)
(* StreamSerial, on a port as INDI opened it, may wait for ever.           *)
Fairness ==
  /\ WF_vars(Write)
  /\ WF_vars(Read \/ (transport = "StreamBT" /\ ReadNothing))
  /\ WF_vars(Deliver)

FairSpec == Spec /\ Fairness

-----------------------------------------------------------------------------
(* Properties.                                                             *)

(* A byte of the buffer, one on its way to the controller, one on its way  *)
(* back, and a command that was executed.                                  *)
Tagged    == [call : 0..MaxCalls, index : 0..63]
Written   == [value : Byte, call : 1..MaxCalls, index : 1..6]
Answered  == [call : 1..MaxCalls, index : 1..63]
Execution == [call : 1..MaxCalls, command : [code : Codes, arg : Seq(Byte)]]

(* Every variable has its type.                                            *)
TypeOK ==
  /\ transport \in Transport
  /\ calls \in Seq(Commands) /\ Len(calls) <= MaxCalls
  /\ phase \in {"idle", "write", "read"}
  /\ unsent \in Seq(Byte)
  /\ readC \in 0..SizeT - 1 /\ numZeros \in 0..MaxZeros
  /\ buffer \in Seq(Tagged)
  /\ lastError \in 0..255
  /\ toTic \in Seq(Written)
  /\ fromTic \in Seq(Answered)
  /\ parser \in [code : Codes \cup {0}, call : 0..MaxCalls, data : Seq(0..127)]
  /\ executed \in Seq(Execution)
  /\ hurt \subseteq 1..MaxCalls

(* The end of a read: the call is over and was one.                        *)
ReadOver == phase = "idle" /\ calls # <<>> /\ Current.code \in Get

(* A read that reports no error returns the bytes of its own answer, all   *)
(* of them, in their order: "try to read until we receive enough bytes"    *)
(* (StreamSerial.cpp:42).  StreamSerial counts every byte twice and has    *)
(* enough with half of them.                                               *)
EnoughBytes ==
  ReadOver /\ lastError = 0
    => \A i \in 1..Length : buffer[i] = [call |-> Len(calls), index |-> i]

(* Over USB and Bluetooth that is so, although transfers are cut short,    *)
(* reads come back with part of the answer and reconnections lose what is  *)
(* under way (both getSegments and StreamBT::readBytes).                   *)
ReadTruthful == transport # "StreamSerial" => EnoughBytes

(* Over these a read that reports an error has lost something on the way,  *)
(* and no read leaves anything of its answer for the next one to find.     *)
ErrorsAreReal ==
  transport # "StreamSerial" =>
    /\ ReadOver /\ lastError # 0 => Len(calls) \in hurt
    /\ phase = "idle" => fromTic = <<>>

(* getLastError "Returns 0 if the last communication with the device was   *)
(* successful, and non-zero if there was an error" (TicBase.h:1274).  The  *)
(* error of a command over USB is stored in a uint8_t before its sign is   *)
(* looked at, and is cleared.                                              *)
UsbErrorsShown ==
  transport = "TicUsb" /\ calls # <<>> /\ Len(calls) \in hurt => lastError # 0

(* The controller executes what it was told to, with the argument it was   *)
(* told, or not at all: a command that lost a byte is not completed by the *)
(* bytes of the next (sendCommandHeader, serialW7), if that one keeps its  *)
(* first byte: losses must be Isolated.                                    *)
Link == INSTANCE TicLink WITH Call <- Commands

ImplementsLink == Link!Spec

(* And not at all only if something of it was lost: a command whose bytes  *)
(* were all written and have all arrived has been executed, whatever became*)
(* of the others: losses need not be Isolated.  This is what               *)
(* TicDriverInterface takes a good link for, as nobody tells the driver    *)
(* (sendCommandHeader, StreamBT::write).                                   *)
WholeExecuted ==
  \A i \in DOMAIN calls :
    (/\ i \notin hurt
     /\ i = Len(calls) => phase # "write"
     /\ \A m \in DOMAIN toTic : toTic[m].call # i)
    => \E e \in DOMAIN executed : executed[e] = [call |-> i, command |-> calls[i]]

(* Over Bluetooth every call returns, however many bytes are lost:         *)
(* readBytes counts the reads in a row that bring nothing.  Over a serial  *)
(* line a call returns unless something of it is lost, whatever became of  *)
(* the calls before it and whatever they left on the line.                 *)
CallsReturn ==
  phase # "idle" ~> \/ phase = "idle"
                    \/ transport = "StreamSerial" /\ Len(calls) \in hurt

=============================================================================
