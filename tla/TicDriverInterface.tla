------------------------- MODULE TicDriverInterface -------------------------
(***************************************************************************)
(* The interface through which the focuser talks to a controller, with the *)
(* two classes that implement it:                                          *)
(*   "pololu"  PololuUsbInterface, on Pololu's libtic;                     *)
(*   "ticlib"  TiclibInterface, on ticlib's TicUsb or TicSerial.           *)
(*                                                                         *)
(* A call is synchronous.  Its result is a record: the controller it       *)
(* leaves behind and what it told the caller.  On a bad link a command may *)
(* be lost, or be carried out although an error came back.  libtic reports *)
(* every error.  ticlib never does for a command: TicUsb stores libusb's   *)
(* negative error in a uint8_t and then clears whatever is positive,       *)
(* TicSerial ignores what write() returns and sets _lastError to 0.  Both  *)
(* report a read that fails.                                               *)
(***************************************************************************)
EXTENDS Tic

CONSTANT Interface   \* which implementation of the interface is active

ASSUME InterfaceAssumption == Interface \in {"pololu", "ticlib"}

Link == {"good", "bad"}

(* What a command on a bad link may come to: was it carried out, and what  *)
(* does the call return?                                                   *)
PololuUsbInterface == {[done |-> d, told |-> FALSE] : d \in BOOLEAN}
TiclibInterface    == {[done |-> FALSE, told |-> TRUE]}

Outcomes(link) ==
  {[done |-> TRUE, told |-> TRUE]} \cup
    IF link = "good" THEN {}
    ELSE IF Interface = "pololu" THEN PololuUsbInterface ELSE TiclibInterface

(* Send a command to controller t that would turn it into one of after.    *)
Command(t, after, link) ==
  UNION {{[tic |-> u, told |-> o.told] : u \in IF o.done THEN after ELSE {t}}
           : o \in Outcomes(link)}

energize(t, link)              == Command(t, Energized(t), link)
deenergize(t, link)            == Command(t, Deenergized(t), link)
exitSafeStart(t, link)         == Command(t, SafeStartExited(t), link)
haltAndHold(t, link)           == Command(t, Halted(t), link)
setTargetPosition(t, p, link)  == Command(t, Targeted(t, p), link)
haltAndSetPosition(t, p, link) == Command(t, HaltedAt(t, p), link)

(* What getVariables may return; when it returns TRUE the target and the   *)
(* position it filled in are the controller's.                             *)
getVariables(link) == IF link = "good" THEN {TRUE} ELSE BOOLEAN

=============================================================================
