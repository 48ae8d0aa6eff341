----------------------------- MODULE Connections ----------------------------
(***************************************************************************)
(* The connections that find a controller, hold it open, and keep the name *)
(* of the one the user requires - its serial number on USB, its address on *)
(* Bluetooth:                                                              *)
(*   "libusb"     LibUsbConnection on TicUsb;                              *)
(*   "pololu"     PololuUsbConnection on libtic;                           *)
(*   "bluetooth"  BluetoothConnection on StreamBT;                         *)
(*   "serial"     SerialConnection on INDI's serial connection.            *)
(* The name the user requires, the one that is shown in the connection tab *)
(* and the one in the configuration file are three different things.       *)
(*                                                                         *)
(* A connection holds a descriptor, a number that the system gives out     *)
(* again once it is closed.  Searches and handshakes take many calls: one  *)
(* step is one round of the loop over the devices, or one reconnection of  *)
(* the stream, and devices come and go in between.                         *)
(***************************************************************************)
EXTENDS Integers, FiniteSets

CONSTANTS
  Devices,   \* what may be within reach, numbered in the order it is listed
  Tics,      \* the devices that are Tic controllers
  SerialOf,  \* their names, NoSerial if they have none
  Fds,       \* the descriptors that the process has to spend
  Counts     \* the counts of devices that a uint8_t tells apart, 256

NoSerial == ""
Garbage  == "?"    \* the buffer of a string descriptor that was never read
NoFd     == -1
Free     == 0      \* what a descriptor stands for that is not in use
Other    == -1     \* a file that the rest of the process opened

Serials == {SerialOf[d] : d \in Devices} \ {NoSerial}

ASSUME ConnectionsAssumption ==
  /\ Devices \subseteq Nat \ {0} /\ IsFiniteSet(Devices)
  /\ Tics \subseteq Devices
  /\ SerialOf \in [Devices -> STRING]
  /\ Garbage \notin Serials
  /\ Fds \subseteq Nat
  /\ Counts \in Nat \ {0}

VARIABLES
  library,   \* which of the connections is active
  running,   \* the driver process is alive
  plugged,   \* the devices within reach
  files,     \* what each descriptor stands for
  handle,    \* TicUsb::handle, tic_handle, StreamBT::btSocket, PortFD
  address,   \* StreamBT::btMacAddress, the device it connects to again
  phase,     \* of Connect
  left,      \* the devices of the list that the search has not looked at
  connected, \* isConnected()
  required,  \* requiredSerialNumber, requiredBtMacAddress
  shown,     \* TicSerialNumberT, BtMacAddressT: the text in the connection tab
  state,     \* TicSerialNumberTP.s, BtMacAddressTP.s
  config     \* the entry of the configuration file and what it says

bus      == <<library, plugged>>
device   == <<files, handle, address>>
attempt  == <<phase, left>>
settings == <<required, shown, state>>
vars     == <<bus, running, device, attempt, connected, settings, config>>

Fate  == {"fine", "undescribed", "broken", "unreadable"}
Phase == {"idle", "search", "handshake"}

Usb     == {"libusb", "pololu"}
Library == Usb \cup {"bluetooth", "serial"}

(* IPS_OK when a device is required, IPS_IDLE when any will do.            *)
RequiredState(serial) == IF serial = NoSerial THEN "Idle" ELSE "Ok"

(* The property a connection saves.                                        *)
SavedUnder == IF library = "libusb" THEN "LIBUSB_SERIAL_NUMBER_TP"
              ELSE IF library = "pololu" THEN "PUSB_SERIAL_NUMBER_TP"
              ELSE "BT_MAC_TP"

(* MUTANT of LoadedFrom: one name for all.                                 *)
LoadedFromOne == "TIC_SERIAL_TP"

(* The one its constructor looks for.                                      *)
LoadedFrom == IF library = "bluetooth" THEN "BT_MAC_TP" ELSE "TIC_SERIAL_TP"

-----------------------------------------------------------------------------
(* Descriptors.  The system gives out the lowest number that is free.      *)

LowestFree(f) ==
  files[f] = Free /\ \A g \in Fds : files[g] = Free => f <= g

Exhausted == \A f \in Fds : files[f] # Free

Open(d) ==
  \E f \in Fds : LowestFree(f) /\ files' = [files EXCEPT ![f] = d] /\ handle' = f

(* MUTANT of Close: the number is kept.                                    *)
CloseKeepsNumber ==
  /\ handle' = handle
  /\ files' = IF handle = NoFd THEN files ELSE [files EXCEPT ![handle] = Free]

(* Whatever the number stands for by now is closed.                        *)
Close ==
  /\ handle' = NoFd
  /\ files' = IF handle = NoFd THEN files ELSE [files EXCEPT ![handle] = Free]

-----------------------------------------------------------------------------
Init ==
  /\ library \in Library
  /\ running = TRUE
  /\ plugged \in SUBSET Devices
  /\ files = [f \in Fds |-> Free] /\ handle = NoFd /\ address = NoSerial
  /\ phase = "idle" /\ left = {}
  /\ connected = FALSE
  /\ required = NoSerial /\ shown = NoSerial /\ state = "Idle"
  /\ config = [name |-> SavedUnder, serial |-> NoSerial]

(* The process is gone and the system closes what it had open.             *)
Dies ==
  /\ running' = FALSE
  /\ files' = [f \in Fds |-> Free] /\ handle' = NoFd /\ address' = NoSerial
  /\ phase' = "idle" /\ left' = {}
  /\ connected' = FALSE
  /\ required' = NoSerial /\ shown' = NoSerial /\ state' = "Idle"

(* INDI has one thread: while it connects nothing else of it happens.      *)
Ready(lib)   == library = lib /\ running /\ phase = "idle" /\ ~connected
InUse(lib)   == library = lib /\ running /\ connected
AtLeisure    == running /\ phase = "idle"

(* The text shows the required name again.                                 *)
ShowRequired ==
  /\ state' = RequiredState(required)
  /\ shown' = required

-----------------------------------------------------------------------------
(* The search for a device on USB.                                         *)

Candidate(d) == d \in Tics /\ SerialOf[d] # NoSerial

(* The iterator of the list is at d.                                       *)
Listed(d) == phase = "search" /\ d \in left /\ \A e \in left : d <= e

(* Connect returns TRUE, with the number of the device on display.         *)
Found(serial) ==
  /\ phase' = "idle" /\ left' = {}
  /\ connected' = TRUE
  /\ state' = RequiredState(required) /\ shown' = serial

NotFound ==
  /\ phase' = "idle" /\ left' = {}
  /\ UNCHANGED <<files, handle, connected, shown, state>>

Continue(d) ==
  /\ left' = left \ {d}
  /\ UNCHANGED <<phase, files, handle, connected, shown, state>>

(* MUTANT of Reject: the handle of a device that does not match is left.   *)
RejectOpen(d) ==
  /\ left' = left \ {d}
  /\ Open(d)
  /\ UNCHANGED <<phase, connected, shown, state>>

(* A device that was opened and does not match is closed again.            *)
Reject(d) == ~Exhausted /\ Continue(d)

(* TicUsb::connect: the devices are listed.  The count is kept in a        *)
(* uint8_t; when that is 0 connect returns with no error set.              *)
ConnectLibusb ==
  /\ Ready("libusb")
  /\ Close
  /\ IF Cardinality(plugged) % Counts = 0
     THEN Found(NoSerial)
     ELSE /\ phase' = "search" /\ left' = plugged
          /\ UNCHANGED <<connected, shown, state>>
  /\ UNCHANGED <<bus, running, address, required, config>>

(* It takes a device it cannot read the number of if none is required: the *)
(* length is a size_t and never negative.                                  *)
Accepted(d, fate) ==
  required = NoSerial \/ (fate # "unreadable" /\ SerialOf[d] = required)

(* An error ends the search.  A device that is gone cannot be opened.      *)
VisitLibusb(d, fate) ==
  /\ library = "libusb" /\ Listed(d)
  /\ d \notin plugged => fate \in {"undescribed", "broken"}
  /\ \/ fate = "undescribed" /\ NotFound
     \/ fate # "undescribed" /\ ~Candidate(d) /\ Continue(d)
     \/ Candidate(d) /\ (fate = "broken" \/ Exhausted) /\ NotFound
     \/ /\ Candidate(d) /\ fate \in {"fine", "unreadable"}
        /\ IF Accepted(d, fate)
           THEN /\ Open(d)
                /\ Found(IF fate = "fine" THEN SerialOf[d] ELSE Garbage)
           ELSE Reject(d)
  /\ UNCHANGED <<bus, running, address, required, config>>

(* MUTANT of ExhaustedLibusb: nobody looks whether there is a handle.      *)
ExhaustedLibusbUntested ==
  /\ library = "libusb" /\ phase = "search" /\ left = {}
  /\ Found(NoSerial)
  /\ UNCHANGED <<bus, running, device, required, config>>

(* LIBUSB_ERROR_NO_DEVICE.                                                 *)
ExhaustedLibusb ==
  /\ library = "libusb" /\ phase = "search" /\ left = {}
  /\ NotFound
  /\ UNCHANGED <<bus, running, address, required, config>>

(* The devices cannot be listed: TicUsb keeps the negative result in a     *)
(* uint8_t, takes it for a count and follows the null pointer to the list. *)
ListFailsLibusb ==
  /\ Ready("libusb")
  /\ Dies
  /\ UNCHANGED <<bus, config>>

(* PololuUsbConnection::Connect begins with Disconnect, which shows what is*)
(* required; then it lists the devices, or cannot.                         *)
ConnectPololu ==
  /\ Ready("pololu")
  /\ Close
  /\ ShowRequired
  /\ \/ phase' = "search" /\ left' = plugged
     \/ UNCHANGED attempt
  /\ UNCHANGED <<bus, running, address, connected, required, config>>

(* It compares numbers first, and goes on to the next device if one cannot *)
(* be opened.                                                              *)
VisitPololu(d, fate) ==
  /\ library = "pololu" /\ Listed(d)
  /\ d \notin plugged => fate = "broken"
  /\ IF Candidate(d) /\ required \in {NoSerial, SerialOf[d]}
        /\ fate = "fine" /\ ~Exhausted
     THEN Open(d) /\ Found(SerialOf[d])
     ELSE Continue(d)
  /\ UNCHANGED <<bus, running, address, required, config>>

ExhaustedPololu ==
  /\ library = "pololu" /\ phase = "search" /\ left = {}
  /\ NotFound
  /\ UNCHANGED <<bus, running, address, required, config>>

-----------------------------------------------------------------------------
(* Streams.                                                                *)

(* The Bluetooth devices in reach that have the address.                   *)
Peers(addr) == {d \in plugged : addr # NoSerial /\ SerialOf[d] = addr}

(* StreamBT::reconnect returns TRUE: there is a new socket, whatever became*)
(* of the old one.                                                         *)
Reconnected(addr) == \E d \in Peers(addr) : Open(d)

(* MUTANT of NotReconnected: a socket that does not connect is left open.  *)
NotReconnectedLeft(addr) ==
  \/ addr = NoSerial /\ UNCHANGED <<files, handle>>
  \/ addr # NoSerial /\ handle' = NoFd /\ UNCHANGED files
  \/ \E d \in Devices : SerialOf[d] = addr /\ addr # NoSerial /\ Open(d)

(* It returns FALSE.  Without an address nothing happens; without a socket *)
(* the number is -1; a socket that does not connect is closed again and its*)
(* number is kept.                                                         *)
NotReconnected(addr) ==
  /\ UNCHANGED files
  /\ \/ addr = NoSerial /\ handle' = handle
     \/ addr # NoSerial /\ handle' = NoFd
     \/ addr # NoSerial /\ \E f \in Fds : LowestFree(f) /\ handle' = f

(* StreamBT keeps the address it is given.                                 *)
ConnectBluetooth ==
  /\ Ready("bluetooth")
  /\ address' = required
  /\ \/ Reconnected(required) /\ phase' = "handshake"
     \/ NotReconnected(required) /\ phase' = phase
  /\ UNCHANGED <<bus, running, left, connected, settings, config>>

(* MUTANT of Reconnect: it connects to what is required now.               *)
ReconnectToRequired ==
  /\ library = "bluetooth" /\ (connected \/ phase = "handshake")
  /\ Reconnected(required) \/ NotReconnected(required)
  /\ UNCHANGED <<bus, running, address, attempt, connected, settings, config>>

(* A write or a read failed, or a read timed out: StreamBT forgets its     *)
(* socket, which stays open, and makes a new one, or tries to.             *)
Reconnect ==
  /\ library = "bluetooth" /\ (connected \/ phase = "handshake")
  /\ Reconnected(address) \/ NotReconnected(address)
  /\ UNCHANGED <<bus, running, address, attempt, connected, settings, config>>

(* INDI opens the port, whatever is at the other end of it.                *)
ConnectSerial ==
  /\ Ready("serial")
  /\ \E d \in plugged : Open(d)
  /\ phase' = "handshake"
  /\ UNCHANGED <<bus, running, address, left, connected, settings, config>>

(* As many bytes as an uptime has came back, and not all of them are zero. *)
(* Whatever is in reach may send them, a Tic or not.                       *)
Answers == handle \in Fds /\ files[handle] \in plugged

(* MUTANT of HandshakeSucceeds: nobody looks at the error of getUpTime.    *)
HandshakeUntested ==
  /\ phase = "handshake" /\ phase' = "idle"
  /\ connected' = TRUE
  /\ IF library = "bluetooth" THEN state' = "Ok" /\ shown' = required
                              ELSE UNCHANGED <<state, shown>>
  /\ UNCHANGED <<bus, running, device, left, required, config>>

HandshakeSucceeds ==
  /\ phase = "handshake" /\ phase' = "idle"
  /\ Answers
  /\ connected' = TRUE
  /\ IF library = "bluetooth" THEN state' = "Ok" /\ shown' = required
                              ELSE UNCHANGED <<state, shown>>
  /\ UNCHANGED <<bus, running, device, left, required, config>>

(* No uptime came back, or zero, and the stream is closed.                 *)
HandshakeFails ==
  /\ phase = "handshake" /\ phase' = "idle"
  /\ Close
  /\ UNCHANGED <<bus, running, address, left, connected, settings, config>>

-----------------------------------------------------------------------------
(* MUTANT of DisconnectPololu: the text of the closed device is left.      *)
DisconnectKeepsText ==
  /\ InUse("pololu") /\ connected' = FALSE
  /\ Close
  /\ UNCHANGED <<bus, running, address, attempt, settings, config>>

DisconnectPololu ==
  /\ InUse("pololu") /\ connected' = FALSE
  /\ Close
  /\ ShowRequired
  /\ UNCHANGED <<bus, running, address, attempt, required, config>>

(* The others leave the text alone.                                        *)
Disconnected(lib) ==
  /\ InUse(lib) /\ connected' = FALSE
  /\ Close
  /\ UNCHANGED <<bus, running, address, attempt, settings, config>>

DisconnectLibusb    == Disconnected("libusb")
DisconnectBluetooth == Disconnected("bluetooth")
DisconnectSerial    == Disconnected("serial")

(* MUTANT of Edit: the property of a connected driver is not marked busy.  *)
EditQuietly(name) ==
  /\ AtLeisure
  /\ required' = name
  /\ state' = RequiredState(name)
  /\ shown' = IF connected THEN shown ELSE name
  /\ UNCHANGED <<bus, running, device, attempt, connected, config>>

(* ISNewText: the user requires a device.  While connected the text keeps  *)
(* showing the device, and the property turns busy: a reconnection is due. *)
Edit(name) ==
  /\ AtLeisure
  /\ name # required
  /\ required' = name
  /\ state' = IF connected /\ name # NoSerial THEN "Busy" ELSE RequiredState(name)
  /\ shown' = IF connected THEN shown ELSE name
  /\ UNCHANGED <<bus, running, device, attempt, connected, config>>

EditSerialNumber(serial) == library \in Usb /\ Edit(serial)
EditAddress(mac)         == library = "bluetooth" /\ Edit(mac)

(* MUTANT of Saved: the text is saved as it is shown.                      *)
SavedShown ==
  /\ AtLeisure
  /\ config' = [name |-> SavedUnder, serial |-> shown]
  /\ UNCHANGED <<bus, running, device, attempt, connected, settings>>

(* saveConfigItems: the file is written anew, with the required name, if   *)
(* there is one.                                                           *)
Saved ==
  /\ AtLeisure
  /\ config' = [name |-> SavedUnder, serial |-> required]
  /\ UNCHANGED <<bus, running, device, attempt, connected, settings>>

SaveSerialNumber == library \in Usb /\ Saved
SaveAddress      == library = "bluetooth" /\ Saved

(* A client has the file loaded: INDI replays its entry as an edit.        *)
LoadConfig == config.serial # NoSerial /\ Edit(config.serial)

Exit == running /\ Dies /\ UNCHANGED <<bus, config>>

(* The constructor of the next process reads the file.                     *)
Start ==
  LET loaded == IF config.name = LoadedFrom THEN config.serial ELSE NoSerial IN
  /\ ~running /\ running' = TRUE
  /\ required' = loaded /\ shown' = loaded
  /\ UNCHANGED <<bus, device, attempt, connected, state, config>>

Plug(d) ==
  /\ d \notin plugged /\ plugged' = plugged \cup {d}
  /\ UNCHANGED <<library, running, device, attempt, connected, settings, config>>

Unplug(d) ==
  /\ d \in plugged /\ plugged' = plugged \ {d}
  /\ UNCHANGED <<library, running, device, attempt, connected, settings, config>>

(* The rest of the process, INDI's log for one, opens and closes files.    *)
OpenOther(f) ==
  /\ AtLeisure /\ LowestFree(f)
  /\ files' = [files EXCEPT ![f] = Other]
  /\ UNCHANGED <<bus, running, handle, address, attempt, connected, settings, config>>

CloseOther(f) ==
  /\ AtLeisure /\ files[f] = Other
  /\ files' = [files EXCEPT ![f] = Free]
  /\ UNCHANGED <<bus, running, handle, address, attempt, connected, settings, config>>

Next ==
  \/ ConnectLibusb \/ ConnectPololu \/ ConnectBluetooth \/ ConnectSerial
  \/ \E d \in Devices, fate \in Fate : VisitLibusb(d, fate) \/ VisitPololu(d, fate)
  \/ ExhaustedLibusb \/ ExhaustedPololu \/ ListFailsLibusb
  \/ Reconnect \/ HandshakeSucceeds \/ HandshakeFails
  \/ DisconnectLibusb \/ DisconnectPololu \/ DisconnectBluetooth \/ DisconnectSerial
  \/ \E name \in Serials \cup {NoSerial} : EditSerialNumber(name) \/ EditAddress(name)
  \/ SaveSerialNumber \/ SaveAddress \/ LoadConfig
  \/ Exit \/ Start
  \/ \E d \in Devices : Plug(d) \/ Unplug(d)
  \/ \E f \in Fds : OpenOther(f) \/ CloseOther(f)

Spec == Init /\ [][Next]_vars

-----------------------------------------------------------------------------
(* Every variable has its type.                                            *)
TypeOK ==
  /\ library \in Library
  /\ running \in BOOLEAN
  /\ plugged \subseteq Devices
  /\ files \in [Fds -> Devices \cup {Free, Other}]
  /\ handle \in Fds \cup {NoFd}
  /\ address \in Serials \cup {NoSerial}
  /\ phase \in Phase /\ left \subseteq Devices
  /\ connected \in BOOLEAN
  /\ required \in Serials \cup {NoSerial}
  /\ shown \in Serials \cup {NoSerial, Garbage}
  /\ state \in {"Idle", "Ok", "Busy"}
  /\ config \in [name : {SavedUnder}, serial : Serials \cup {NoSerial}]

(* The device that is held, if the number stands for one.                  *)
Held == {files[f] : f \in {handle} \cap Fds} \cap Devices

(* On USB and on a serial port the process has open exactly the device it  *)
(* holds a handle of: no search, whatever fails in it and whatever is      *)
(* unplugged meanwhile, no handshake and no reconnection leaves a device   *)
(* open behind it.  StreamBT does leave its old sockets.                   *)
HandlesAccounted ==
  library # "bluetooth" =>
    \A f \in Fds : files[f] \in Devices <=> f = handle

(* A device that is open is the one the user requires, unless the property *)
(* says that a reconnection is due; with no requirement any will do.  No   *)
(* edit of the requirement, and no reconnection after one, goes unsaid.    *)
RequiredServed ==
  connected /\ required # NoSerial /\ state # "Busy"
    => \A d \in Held : SerialOf[d] = required

(* While connected the Bluetooth connection talks to one device: the one   *)
(* whose address the text shows, however often it connects again and       *)
(* whatever the user requires in the meantime.                             *)
ShowsPeer ==
  library = "bluetooth" /\ connected => \A d \in Held : shown = SerialOf[d]

(* On libtic, with nothing connected the tab shows what is required, not   *)
(* the device that was connected last: Disconnect, a failed Connect and an *)
(* edit each see to it.                                                    *)
ShownWhenClosed == library = "pololu" /\ ~connected => shown = required

(* No Connect returns TRUE without an open device in hand that is in reach *)
(* and has the name that is required, whatever was unplugged, replaced or  *)
(* reconnected during the search or the handshake.  On USB it is a Tic; on *)
(* a stream it is whatever answered.  The one exception is TicUsb, when it *)
(* takes the count of devices for zero.                                    *)
FoundHolds ==
  [][~connected /\ connected' =>
       \/ /\ library = "libusb" /\ Cardinality(plugged) % Counts = 0
          /\ handle' = NoFd
       \/ /\ handle' \in Fds /\ files'[handle'] \in plugged
          /\ required # NoSerial => SerialOf[files'[handle']] = required
          /\ library \in Usb => files'[handle'] \in Tics]_vars

(* The descriptors of devices, the one of them in hand if there is one, and*)
(* those that nobody will close.                                           *)
Opened    == {f \in Fds : files[f] \in Devices}
InHand    == Opened \cap {handle}
Forgotten == Opened \ {handle}

(* Every reconnection of StreamBT forgets the socket in hand, whether it   *)
(* succeeds or not (StreamBT.cpp:60).  But one that fails leaves none in   *)
(* its place, and there is one again only when a device in reach was       *)
(* connected to: an outage costs one descriptor, however often StreamBT    *)
(* tries to reconnect until it is over.  Outages may follow each other     *)
(* until no descriptor is left.                                            *)
OutageCostsOne ==
  [][/\ Forgotten' \subseteq Forgotten \cup InHand
     /\ \A f \in InHand' :
          f \in InHand \/ (files[f] = Free /\ files'[f] \in plugged)]_vars

(* A file of the rest of the process is closed by the rest of the process: *)
(* a number is forgotten when it is closed.  The one exception is StreamBT,*)
(* which keeps that of a socket that did not connect.                      *)
OthersSpared ==
  [][\A f \in Fds : files[f] = Other /\ files'[f] # Other
                      => \/ ~running'
                         \/ CloseOther(f)
                         \/ (library = "bluetooth" /\ f = handle)]_vars

Restored == ~running /\ running' => required' = config.serial

(* The address in the file is required again by the next process: it is    *)
(* saved under the name that the constructor looks for.                    *)
AddressRestored == [][library = "bluetooth" => Restored]_vars

(* "each derived class must use its own name for UI fields"                *)
(* (UsbConnectionBase.h:33), and the field is saved under that name: the   *)
(* number that was saved is required again by the next process.  The       *)
(* constructor looks for it under a fixed name that nothing is saved under.*)
SerialRestored == [][(library \in Usb) => Restored]_vars

=============================================================================
