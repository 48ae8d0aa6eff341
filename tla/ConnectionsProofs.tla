-------------------------- MODULE ConnectionsProofs --------------------------
(***************************************************************************)
(* What is held open is accounted for and is what the user requires, for   *)
(* every set of devices, names and descriptors.                            *)
(***************************************************************************)
EXTENDS Connections, TLAPS

(* The numbers that stand for nothing are none of a device or descriptor.  *)
LEMMA Numbers == /\ Free \notin Devices /\ Other \notin Devices /\ Free # Other
                 /\ NoFd \notin Fds
BY ConnectionsAssumption DEF Free, Other, NoFd

(* When a connection may hold a descriptor at all.  Only StreamBT has a    *)
(* number while it is not connected.                                       *)
Sessions ==
  /\ connected => running /\ phase = "idle"
  /\ ~running => phase = "idle"
  /\ phase = "search" => library \in Usb
  /\ phase = "handshake" => library \in {"bluetooth", "serial"}
  /\ library # "bluetooth" /\ ~connected /\ phase # "handshake" => handle = NoFd

(* Nothing is ever required of a serial port by name.                      *)
SerialNameless ==
  library = "serial" => required = NoSerial /\ config.serial = NoSerial

(* StreamBT's peer has the address that it keeps; that is the one on       *)
(* display, and the required one unless a reconnection is due.             *)
PeerKept ==
  library = "bluetooth" =>
    /\ connected \/ phase = "handshake" =>
         (handle \in Fds /\ files[handle] \in Devices => SerialOf[files[handle]] = address)
    /\ connected => shown = address
    /\ connected /\ required # NoSerial /\ state # "Busy" => required = address
    /\ phase = "handshake" => required = address

(* The device that is open on USB has the required number.                 *)
UsbServed ==
  library \in Usb /\ connected /\ required # NoSerial /\ state # "Busy" =>
    (handle \in Fds /\ files[handle] \in Devices => SerialOf[files[handle]] = required)

CInv ==
  /\ TypeOK
  /\ Sessions
  /\ SerialNameless
  /\ HandlesAccounted
  /\ PeerKept
  /\ UsbServed
  /\ ShownWhenClosed

(* A descriptor is opened, or closed.                                      *)
LEMMA Opens ==
  ASSUME TypeOK, NEW d \in Devices, Open(d)
  PROVE  /\ handle' \in Fds
         /\ files' \in [Fds -> Devices \cup {Free, Other}]
         /\ files'[handle'] = d /\ files[handle'] = Free
         /\ \A f \in Fds : f # handle' => files'[f] = files[f]
BY DEF TypeOK, Open, LowestFree

LEMMA Closes ==
  ASSUME TypeOK, Close
  PROVE  /\ handle' = NoFd
         /\ files' \in [Fds -> Devices \cup {Free, Other}]
         /\ \A f \in Fds : files'[f] = IF f = handle THEN Free ELSE files[f]
BY Numbers DEF TypeOK, Close

LEMMA ConnectionsStart == Init => CInv
<1> SUFFICES ASSUME Init PROVE CInv
  OBVIOUS
<1>1. TypeOK
  BY DEF Init, TypeOK, Phase
<1>2. Sessions /\ SerialNameless /\ PeerKept /\ UsbServed /\ ShownWhenClosed
  BY DEF Init, Sessions, SerialNameless, PeerKept, UsbServed, ShownWhenClosed
<1>3. HandlesAccounted
  BY Numbers DEF Init, HandlesAccounted
<1>4. QED
  BY <1>1, <1>2, <1>3 DEF CInv

(* The end of the process ends everything.                                 *)
LEMMA DiesKeeps ==
  ASSUME CInv, Dies, UNCHANGED <<bus, config>> PROVE CInv'
<1>1. TypeOK'
  BY DEF CInv, TypeOK, Dies, Phase, bus, SavedUnder
<1>2. (Sessions /\ SerialNameless /\ PeerKept /\ UsbServed /\ ShownWhenClosed)'
  BY DEF CInv, Dies, bus, Sessions, SerialNameless, PeerKept, UsbServed, ShownWhenClosed
<1>3. HandlesAccounted'
  BY Numbers DEF Dies, HandlesAccounted
<1>4. QED
  BY <1>1, <1>2, <1>3 DEF CInv

LEMMA ConnectLibusbKeeps == ASSUME CInv, ConnectLibusb PROVE CInv'
<1>1. TypeOK'
  BY Closes DEF CInv, TypeOK, ConnectLibusb, Found, RequiredState, Phase, bus, SavedUnder
<1>2. (Sessions /\ SerialNameless /\ PeerKept /\ ShownWhenClosed)'
  BY Closes DEF CInv, ConnectLibusb, Ready, Found, bus, Usb,
            Sessions, SerialNameless, PeerKept, ShownWhenClosed
<1>3. HandlesAccounted' /\ UsbServed'
  BY Closes, Numbers DEF CInv, ConnectLibusb, Ready, Sessions, bus, HandlesAccounted, UsbServed
<1>4. QED
  BY <1>1, <1>2, <1>3 DEF CInv

LEMMA ConnectPololuKeeps == ASSUME CInv, ConnectPololu PROVE CInv'
<1>1. TypeOK'
  BY Closes DEF CInv, TypeOK, ConnectPololu, ShowRequired, RequiredState, Phase, bus,
                attempt, SavedUnder
<1>2. (Sessions /\ SerialNameless /\ PeerKept /\ ShownWhenClosed)'
  BY Closes DEF CInv, ConnectPololu, Ready, ShowRequired, bus, Usb, attempt,
            Sessions, SerialNameless, PeerKept, ShownWhenClosed
<1>3. HandlesAccounted' /\ UsbServed'
  BY Closes, Numbers DEF CInv, ConnectPololu, Ready, Sessions, bus, HandlesAccounted, UsbServed
<1>4. QED
  BY <1>1, <1>2, <1>3 DEF CInv

(* A search that finds nothing, here or in the end.                        *)
LEMMA SearchGoesOn ==
  ASSUME CInv, phase = "search", UNCHANGED <<bus, running, address, required, config>>,
         UNCHANGED <<files, handle, connected, shown, state>>,
         phase' \in {"search", "idle"}, left' \subseteq left
  PROVE  CInv'
<1>1. TypeOK'
  BY DEF CInv, TypeOK, Phase, bus, SavedUnder
<1>2. (Sessions /\ SerialNameless /\ PeerKept /\ UsbServed /\ ShownWhenClosed)'
  BY DEF CInv, bus, Sessions, SerialNameless, PeerKept, UsbServed, ShownWhenClosed
<1>3. HandlesAccounted'
  BY DEF CInv, bus, HandlesAccounted
<1>4. QED
  BY <1>1, <1>2, <1>3 DEF CInv

(* A search that finds a device.                                           *)
LEMMA SearchFinds ==
  ASSUME CInv, phase = "search", UNCHANGED <<bus, running, address, required, config>>,
         running, NEW d \in Devices, Open(d),
         NEW serial \in Serials \cup {NoSerial, Garbage}, Found(serial),
         required = NoSerial \/ SerialOf[d] = required
  PROVE  CInv'
<1>1. TypeOK'
  BY Opens DEF CInv, TypeOK, Found, RequiredState, Phase, bus, SavedUnder
<1>2. library \in Usb /\ library' = library /\ handle = NoFd /\ connected' /\ running'
      /\ phase' = "idle" /\ required' = required /\ config' = config
  BY DEF CInv, Sessions, Found, bus, Usb
<1>3. (Sessions /\ SerialNameless /\ PeerKept /\ ShownWhenClosed)'
  BY <1>2 DEF Usb, Sessions, SerialNameless, PeerKept, ShownWhenClosed
<1>4. HandlesAccounted' /\ UsbServed'
  BY <1>2, Opens, Numbers DEF CInv, HandlesAccounted, UsbServed
<1>5. QED
  BY <1>1, <1>3, <1>4 DEF CInv

LEMMA NameTyped ==
  ASSUME NEW d \in Devices PROVE SerialOf[d] \in Serials \cup {NoSerial}
BY DEF Serials

LEMMA SearchLibusbKeeps ==
  ASSUME CInv, NEW d \in Devices, NEW fate \in Fate,
         VisitLibusb(d, fate) \/ ExhaustedLibusb
  PROVE  CInv'
<1>1. phase = "search" /\ UNCHANGED <<bus, running, address, required, config>>
  BY DEF VisitLibusb, ExhaustedLibusb, Listed
<1>2. running
  BY <1>1 DEF CInv, Sessions
<1>3. CASE NotFound \/ Continue(d)
  BY <1>1, <1>3, SearchGoesOn DEF NotFound, Continue, CInv, TypeOK
<1>4. CASE ~(NotFound \/ Continue(d))
  <2>1. /\ Accepted(d, fate) /\ Open(d)
        /\ Found(IF fate = "fine" THEN SerialOf[d] ELSE Garbage)
    BY <1>4 DEF VisitLibusb, ExhaustedLibusb, Reject
  <2>2. required = NoSerial \/ SerialOf[d] = required
    BY <2>1 DEF Accepted
  <2>3. (IF fate = "fine" THEN SerialOf[d] ELSE Garbage) \in Serials \cup {NoSerial, Garbage}
    BY NameTyped
  <2>4. QED
    BY <1>1, <1>2, <2>1, <2>2, <2>3, SearchFinds
<1>5. QED
  BY <1>3, <1>4

LEMMA SearchPololuKeeps ==
  ASSUME CInv, NEW d \in Devices, NEW fate \in Fate,
         VisitPololu(d, fate) \/ ExhaustedPololu
  PROVE  CInv'
<1>1. phase = "search" /\ UNCHANGED <<bus, running, address, required, config>>
  BY DEF VisitPololu, ExhaustedPololu, Listed
<1>2. running
  BY <1>1 DEF CInv, Sessions
<1>3. CASE NotFound \/ Continue(d)
  BY <1>1, <1>3, SearchGoesOn DEF NotFound, Continue, CInv, TypeOK
<1>4. CASE ~(NotFound \/ Continue(d))
  <2>1. required \in {NoSerial, SerialOf[d]} /\ Open(d) /\ Found(SerialOf[d])
    BY <1>4 DEF VisitPololu, ExhaustedPololu
  <2>2. SerialOf[d] \in Serials \cup {NoSerial, Garbage}
    BY NameTyped
  <2>3. QED
    BY <1>1, <1>2, <2>1, <2>2, SearchFinds
<1>5. QED
  BY <1>3, <1>4

(* What a reconnection leaves in hand is the peer, or nothing.             *)
LEMMA Redialled ==
  ASSUME TypeOK, NEW addr \in Serials \cup {NoSerial},
         Reconnected(addr) \/ NotReconnected(addr)
  PROVE  /\ handle' \in Fds \cup {NoFd}
         /\ files' \in [Fds -> Devices \cup {Free, Other}]
         /\ addr = NoSerial => files' = files /\ handle' = handle
         /\ addr # NoSerial /\ handle' \in Fds /\ files'[handle'] \in Devices
              => SerialOf[files'[handle']] = addr
<1>1. CASE Reconnected(addr)
  <2>1. PICK d \in plugged : addr # NoSerial /\ SerialOf[d] = addr /\ Open(d)
    BY <1>1 DEF Reconnected, Peers
  <2>2. d \in Devices
    BY DEF TypeOK
  <2>3. QED
    BY <2>1, <2>2, Opens
<1>2. CASE NotReconnected(addr)
  BY <1>2, Numbers DEF NotReconnected, TypeOK, LowestFree
<1>3. QED
  BY <1>1, <1>2

LEMMA ConnectBluetoothKeeps == ASSUME CInv, ConnectBluetooth PROVE CInv'
<1>1. /\ library = "bluetooth" /\ running /\ ~connected /\ phase = "idle"
      /\ address' = required /\ phase' \in {"idle", "handshake"}
      /\ UNCHANGED <<bus, running, left, connected, settings, config>>
      /\ TypeOK /\ required \in Serials \cup {NoSerial}
  BY DEF ConnectBluetooth, Ready, CInv, TypeOK
<1>2. /\ handle' \in Fds \cup {NoFd}
      /\ files' \in [Fds -> Devices \cup {Free, Other}]
      /\ required # NoSerial /\ handle' \in Fds /\ files'[handle'] \in Devices
           => SerialOf[files'[handle']] = required
  BY <1>1, Redialled DEF ConnectBluetooth
<1>3. phase' = "handshake" => required # NoSerial
  BY <1>1 DEF ConnectBluetooth, Reconnected, Peers
<1>4. TypeOK'
  BY <1>1, <1>2 DEF TypeOK, Phase, bus, settings, SavedUnder
<1>5. (Sessions /\ SerialNameless /\ HandlesAccounted /\ UsbServed /\ ShownWhenClosed)'
  BY <1>1 DEF bus, settings, Usb, Sessions, SerialNameless, HandlesAccounted, UsbServed,
              ShownWhenClosed
<1>6. PeerKept'
  BY <1>1, <1>2, <1>3 DEF bus, settings, PeerKept
<1>7. QED
  BY <1>4, <1>5, <1>6 DEF CInv

LEMMA ReconnectKeeps == ASSUME CInv, Reconnect PROVE CInv'
<1>1. /\ library = "bluetooth" /\ (connected \/ phase = "handshake")
      /\ UNCHANGED <<bus, running, address, attempt, connected, settings, config>>
      /\ TypeOK /\ address \in Serials \cup {NoSerial}
  BY DEF Reconnect, CInv, TypeOK
<1>2. /\ handle' \in Fds \cup {NoFd}
      /\ files' \in [Fds -> Devices \cup {Free, Other}]
      /\ address = NoSerial => files' = files /\ handle' = handle
      /\ address # NoSerial /\ handle' \in Fds /\ files'[handle'] \in Devices
           => SerialOf[files'[handle']] = address
  BY <1>1, Redialled DEF Reconnect
<1>3. TypeOK'
  BY <1>1, <1>2 DEF TypeOK, bus, attempt, settings, SavedUnder
<1>4. (Sessions /\ SerialNameless /\ HandlesAccounted /\ UsbServed /\ ShownWhenClosed)'
  BY <1>1 DEF CInv, bus, attempt, settings, Usb, Sessions, SerialNameless, HandlesAccounted,
              UsbServed, ShownWhenClosed
<1>5. PeerKept'
  BY <1>1, <1>2 DEF CInv, bus, attempt, settings, PeerKept
<1>6. QED
  BY <1>3, <1>4, <1>5 DEF CInv

LEMMA ConnectSerialKeeps == ASSUME CInv, ConnectSerial PROVE CInv'
<1>1. /\ library = "serial" /\ running /\ ~connected /\ phase = "idle"
      /\ phase' = "handshake"
      /\ UNCHANGED <<bus, running, address, left, connected, settings, config>>
      /\ TypeOK /\ handle = NoFd
  BY DEF ConnectSerial, Ready, CInv, Sessions
<1>2. PICK d \in plugged : Open(d)
  BY DEF ConnectSerial
<1>3. d \in Devices
  BY <1>1 DEF TypeOK
<1>4. TypeOK'
  BY <1>1, <1>2, <1>3, Opens DEF TypeOK, Phase, bus, settings, SavedUnder
<1>5. (Sessions /\ SerialNameless /\ PeerKept /\ UsbServed /\ ShownWhenClosed)'
  BY <1>1 DEF CInv, bus, settings, Usb, Sessions, SerialNameless, PeerKept, UsbServed,
              ShownWhenClosed
<1>6. HandlesAccounted'
  BY <1>1, <1>2, <1>3, Opens, Numbers DEF CInv, HandlesAccounted, bus
<1>7. QED
  BY <1>4, <1>5, <1>6 DEF CInv

LEMMA HandshakeKeeps ==
  ASSUME CInv, HandshakeSucceeds \/ HandshakeFails PROVE CInv'
<1>1. CASE HandshakeSucceeds
  <2>1. TypeOK'
    BY <1>1 DEF HandshakeSucceeds, CInv, TypeOK, Phase, bus, device, SavedUnder
  <2>2. (Sessions /\ SerialNameless /\ HandlesAccounted /\ UsbServed /\ ShownWhenClosed)'
    BY <1>1 DEF HandshakeSucceeds, CInv, bus, device, Usb, Sessions, SerialNameless,
                HandlesAccounted, UsbServed, ShownWhenClosed
  <2>3. PeerKept'
    BY <1>1 DEF HandshakeSucceeds, CInv, bus, device, PeerKept
  <2>4. QED
    BY <2>1, <2>2, <2>3 DEF CInv
<1>2. CASE HandshakeFails
  <2>1. TypeOK'
    BY <1>2, Closes DEF HandshakeFails, CInv, TypeOK, Phase, bus, settings, SavedUnder
  <2>2. (Sessions /\ SerialNameless /\ UsbServed /\ PeerKept /\ ShownWhenClosed)'
    BY <1>2, Closes DEF HandshakeFails, CInv, bus, settings, Usb, Sessions, SerialNameless,
                UsbServed, PeerKept, ShownWhenClosed
  <2>3. HandlesAccounted'
    BY <1>2, Closes, Numbers DEF HandshakeFails, CInv, bus, HandlesAccounted
  <2>4. QED
    BY <2>1, <2>2, <2>3 DEF CInv
<1>3. QED
  BY <1>1, <1>2

LEMMA DisconnectKeeps ==
  ASSUME CInv, DisconnectPololu \/ \E lib \in Library \ {"pololu"} : Disconnected(lib)
  PROVE  CInv'
<1>1. /\ Close /\ connected' = FALSE /\ running /\ phase = "idle"
      /\ UNCHANGED <<bus, running, address, attempt, required, config>>
      /\ \/ UNCHANGED <<shown, state>> /\ library # "pololu"
         \/ shown' = required /\ state' \in {"Idle", "Ok"}
  BY DEF DisconnectPololu, Disconnected, InUse, ShowRequired, RequiredState, settings, CInv,
         Sessions
<1>2. TypeOK'
  <2>1. SavedUnder' = SavedUnder
    BY <1>1 DEF bus, SavedUnder
  <2>2. shown' \in Serials \cup {NoSerial, Garbage} /\ state' \in {"Idle", "Ok", "Busy"}
    BY <1>1 DEF CInv, TypeOK
  <2>3. QED
    BY <1>1, <2>1, <2>2, Closes DEF CInv, TypeOK, bus, attempt
<1>3. (Sessions /\ SerialNameless /\ UsbServed /\ PeerKept /\ ShownWhenClosed)'
  BY <1>1, Closes DEF CInv, bus, attempt, Sessions, SerialNameless, UsbServed, PeerKept,
           ShownWhenClosed
<1>4. HandlesAccounted'
  BY <1>1, Closes, Numbers DEF CInv, bus, HandlesAccounted
<1>5. QED
  BY <1>2, <1>3, <1>4 DEF CInv

LEMMA EditKeeps ==
  ASSUME CInv, library # "serial", NEW name \in Serials \cup {NoSerial}, Edit(name)
  PROVE  CInv'
<1>1. TypeOK'
  BY DEF Edit, CInv, TypeOK, RequiredState, bus, device, attempt, SavedUnder
<1>2. (Sessions /\ SerialNameless /\ HandlesAccounted /\ ShownWhenClosed)'
  BY DEF Edit, AtLeisure, CInv, bus, device, attempt, Sessions, SerialNameless,
         HandlesAccounted, ShownWhenClosed
<1>3. PeerKept' /\ UsbServed'
  BY DEF Edit, AtLeisure, CInv, bus, device, attempt, PeerKept, UsbServed
<1>4. QED
  BY <1>1, <1>2, <1>3 DEF CInv

LEMMA FileKeeps ==
  ASSUME CInv, SaveSerialNumber \/ SaveAddress \/ Start PROVE CInv'
<1>1. TypeOK'
  <2>1. SavedUnder' = SavedUnder
    BY DEF SaveSerialNumber, SaveAddress, Saved, Start, bus, SavedUnder
  <2>2. CASE Saved
    BY <2>1, <2>2 DEF Saved, CInv, TypeOK, bus, device, attempt, settings
  <2>3. CASE Start
    BY <2>1, <2>3 DEF Start, CInv, TypeOK, bus, device, attempt
  <2>4. QED
    BY <2>2, <2>3 DEF SaveSerialNumber, SaveAddress
<1>2. (Sessions /\ SerialNameless /\ HandlesAccounted /\ ShownWhenClosed)'
  BY DEF SaveSerialNumber, SaveAddress, Saved, AtLeisure, Start, CInv, TypeOK, bus, device,
         attempt, settings, Usb, Sessions, SerialNameless, HandlesAccounted, ShownWhenClosed
<1>3. PeerKept' /\ UsbServed'
  BY DEF SaveSerialNumber, SaveAddress, Saved, AtLeisure, Start, CInv, bus, device, attempt,
         settings, Sessions, PeerKept, UsbServed
<1>4. QED
  BY <1>1, <1>2, <1>3 DEF CInv

LEMMA PlugKeeps ==
  ASSUME CInv, NEW d \in Devices, Plug(d) \/ Unplug(d) PROVE CInv'
<1>1. /\ UNCHANGED <<library, running, device, attempt, connected, settings, config>>
      /\ plugged' \subseteq plugged \cup {d}
  BY DEF Plug, Unplug
<1>2. QED
  BY <1>1 DEF CInv, TypeOK, device, attempt, settings, SavedUnder, Sessions, SerialNameless,
              HandlesAccounted, PeerKept, UsbServed, ShownWhenClosed

LEMMA OtherKeeps ==
  ASSUME CInv, NEW f \in Fds, OpenOther(f) \/ CloseOther(f) PROVE CInv'
<1>1. /\ UNCHANGED <<bus, running, handle, address, attempt, connected, settings, config>>
      /\ files[f] \in {Free, Other}
      /\ files' \in {[files EXCEPT ![f] = Free], [files EXCEPT ![f] = Other]}
  BY DEF OpenOther, CloseOther, LowestFree
<1>2. /\ files' \in [Fds -> Devices \cup {Free, Other}]
      /\ \A g \in Fds : files[g] \in Devices \/ files'[g] \in Devices => files'[g] = files[g]
  BY <1>1, Numbers DEF CInv, TypeOK
<1>3. TypeOK'
  BY <1>1, <1>2 DEF CInv, TypeOK, bus, attempt, settings, SavedUnder
<1>4. (Sessions /\ SerialNameless /\ ShownWhenClosed)'
  BY <1>1 DEF CInv, bus, attempt, settings, Sessions, SerialNameless, ShownWhenClosed
<1>5. (HandlesAccounted /\ PeerKept /\ UsbServed)'
  BY <1>1, <1>2 DEF CInv, bus, attempt, settings, HandlesAccounted, PeerKept, UsbServed
<1>6. QED
  BY <1>3, <1>4, <1>5 DEF CInv

LEMMA Idles == ASSUME CInv, UNCHANGED vars PROVE CInv'
BY DEF vars, bus, device, attempt, settings, CInv, TypeOK, SavedUnder, Sessions,
       SerialNameless, HandlesAccounted, PeerKept, UsbServed, ShownWhenClosed

THEOREM Inductive == Spec => []CInv
<1>1. CInv /\ [Next]_vars => CInv'
  <2> SUFFICES ASSUME CInv, [Next]_vars PROVE CInv'
    OBVIOUS
  <2>1. CASE ConnectLibusb \/ ConnectPololu \/ ConnectBluetooth \/ ConnectSerial
    BY <2>1, ConnectLibusbKeeps, ConnectPololuKeeps, ConnectBluetoothKeeps,
       ConnectSerialKeeps
  <2>2. CASE \E d \in Devices, fate \in Fate : VisitLibusb(d, fate) \/ VisitPololu(d, fate)
    BY <2>2, SearchLibusbKeeps, SearchPololuKeeps
  <2>3. CASE ExhaustedLibusb \/ ExhaustedPololu
    <3>1. phase = "search" /\ NotFound /\ UNCHANGED <<bus, running, address, required, config>>
      BY <2>3 DEF ExhaustedLibusb, ExhaustedPololu
    <3>2. left' \subseteq left
      BY <3>1 DEF NotFound
    <3>3. QED
      BY <3>1, <3>2, SearchGoesOn DEF NotFound
  <2>4. CASE ListFailsLibusb \/ Exit
    BY <2>4, DiesKeeps DEF ListFailsLibusb, Exit
  <2>5. CASE Reconnect \/ HandshakeSucceeds \/ HandshakeFails
    BY <2>5, ReconnectKeeps, HandshakeKeeps
  <2>6. CASE DisconnectLibusb \/ DisconnectPololu \/ DisconnectBluetooth \/ DisconnectSerial
    BY <2>6, DisconnectKeeps DEF DisconnectLibusb, DisconnectBluetooth, DisconnectSerial,
             Library, Usb
  <2>7. CASE \E name \in Serials \cup {NoSerial} : EditSerialNumber(name) \/ EditAddress(name)
    BY <2>7, EditKeeps DEF EditSerialNumber, EditAddress, Usb
  <2>8. CASE LoadConfig
    <3>1. library # "serial" /\ config.serial \in Serials \cup {NoSerial}
      BY <2>8 DEF LoadConfig, CInv, SerialNameless, TypeOK
    <3>2. QED
      BY <2>8, <3>1, EditKeeps DEF LoadConfig
  <2>9. CASE SaveSerialNumber \/ SaveAddress \/ Start
    BY <2>9, FileKeeps
  <2>10. CASE \E d \in Devices : Plug(d) \/ Unplug(d)
    BY <2>10, PlugKeeps
  <2>11. CASE \E f \in Fds : OpenOther(f) \/ CloseOther(f)
    BY <2>11, OtherKeeps
  <2>12. CASE UNCHANGED vars
    BY <2>12, Idles
  <2>13. QED
    BY <2>1, <2>2, <2>3, <2>4, <2>5, <2>6, <2>7, <2>8, <2>9, <2>10, <2>11, <2>12 DEF Next
<1>2. QED
  BY ConnectionsStart, <1>1, PTL DEF Spec

(* On USB and on a serial port exactly the device in hand is open.         *)
THEOREM HandlesKept == Spec => []HandlesAccounted
<1>1. CInv => HandlesAccounted
  BY DEF CInv
<1>2. QED
  BY <1>1, Inductive, PTL

LEMMA HeldIsInHand ==
  ASSUME NEW d \in Held PROVE handle \in Fds /\ files[handle] = d /\ d \in Devices
BY DEF Held

(* The open device is the required one unless a reconnection is due.       *)
THEOREM Served == Spec => []RequiredServed
<1>1. CInv => RequiredServed
  <2> SUFFICES ASSUME CInv, connected, required # NoSerial, state # "Busy", NEW d \in Held
               PROVE  SerialOf[d] = required
    BY DEF RequiredServed
  <2>1. handle \in Fds /\ files[handle] = d /\ d \in Devices
    BY HeldIsInHand
  <2>2. library \in Usb \/ library = "bluetooth"
    BY DEF CInv, TypeOK, Library, SerialNameless
  <2>3. QED
    BY <2>1, <2>2 DEF CInv, UsbServed, PeerKept
<1>2. QED
  BY <1>1, Inductive, PTL

(* Bluetooth shows the address of the device it talks to.                  *)
THEOREM PeerShown == Spec => []ShowsPeer
<1>1. CInv => ShowsPeer
  BY HeldIsInHand DEF ShowsPeer, CInv, PeerKept
<1>2. QED
  BY <1>1, Inductive, PTL

(* On libtic the tab of a closed connection shows what is required.        *)
THEOREM ClosedShown == Spec => []ShownWhenClosed
<1>1. CInv => ShownWhenClosed
  BY DEF CInv
<1>2. QED
  BY <1>1, Inductive, PTL

(* What a step may do to the descriptors.                                  *)
Keeps == files' = files /\ (handle' \in Fds => handle' = handle \/ files[handle'] = Free)

LEMMA FileStep ==
  ASSUME CInv, [Next]_vars
  PROVE  \/ Keeps
         \/ Close
         \/ Dies
         \/ \E d \in plugged : Open(d)
         \/ \E f \in Fds : OpenOther(f) \/ CloseOther(f)
<1>1. CASE ConnectLibusb \/ ConnectPololu \/ HandshakeFails
  BY <1>1 DEF ConnectLibusb, ConnectPololu, HandshakeFails
<1>2. CASE ConnectBluetooth \/ Reconnect \/ ConnectSerial
  <2>1. ASSUME NEW addr, Reconnected(addr) \/ NotReconnected(addr)
        PROVE  Keeps \/ \E d \in plugged : Open(d)
    BY <2>1, Numbers DEF Reconnected, Peers, NotReconnected, LowestFree, Keeps
  <2>2. QED
    BY <1>2, <2>1 DEF ConnectBluetooth, Reconnect, ConnectSerial
<1>3. ASSUME NEW d \in Devices, NEW fate \in Fate, VisitLibusb(d, fate)
      PROVE  Keeps \/ \E e \in plugged : Open(e)
  BY <1>3 DEF VisitLibusb, NotFound, Continue, Reject, Keeps
<1>4. ASSUME NEW d \in Devices, NEW fate \in Fate, VisitPololu(d, fate)
      PROVE  Keeps \/ \E e \in plugged : Open(e)
  BY <1>4 DEF VisitPololu, Continue, Keeps
<1>5. CASE ExhaustedLibusb \/ ExhaustedPololu \/ HandshakeSucceeds
  BY <1>5 DEF ExhaustedLibusb, ExhaustedPololu, NotFound, HandshakeSucceeds, device, Keeps
<1>6. CASE ListFailsLibusb \/ Exit
  BY <1>6 DEF ListFailsLibusb, Exit
<1>7. CASE DisconnectLibusb \/ DisconnectPololu \/ DisconnectBluetooth \/ DisconnectSerial
  BY <1>7 DEF DisconnectLibusb, DisconnectPololu, DisconnectBluetooth, DisconnectSerial,
           Disconnected
<1>8. CASE \/ \E name \in Serials \cup {NoSerial} : EditSerialNumber(name) \/ EditAddress(name)
           \/ LoadConfig \/ SaveSerialNumber \/ SaveAddress \/ Start
  BY <1>8 DEF EditSerialNumber, EditAddress, LoadConfig, Edit, SaveSerialNumber, SaveAddress,
           Saved, Start, device, Keeps
<1>9. CASE \E d \in Devices : Plug(d) \/ Unplug(d)
  BY <1>9 DEF Plug, Unplug, device, Keeps
<1>10. CASE UNCHANGED vars
  BY <1>10 DEF vars, device, Keeps
<1>11. QED
  BY <1>1, <1>2, <1>3, <1>4, <1>5, <1>6, <1>7, <1>8, <1>9, <1>10 DEF Next

(* A step forgets no device but the one in hand, and takes none in hand    *)
(* that it did not connect to: an outage costs one descriptor.             *)
THEOREM OutagesCostOne == Spec => OutageCostsOne
<1> DEFINE Costs == /\ Forgotten' \subseteq Forgotten \cup InHand
                    /\ \A f \in InHand' :
                         f \in InHand \/ (files[f] = Free /\ files'[f] \in plugged)
<1>1. ASSUME CInv, [Next]_vars PROVE Costs
  <2>1. TypeOK
    BY <1>1 DEF CInv
  <2>2. CASE Keeps
    <3>1. Opened' = Opened
      BY <2>2 DEF Opened, Keeps
    <3>2. handle' \in Opened => handle' = handle
      BY <2>2, Numbers DEF Opened, Keeps
    <3>3. QED
      BY <3>1, <3>2 DEF InHand, Forgotten
  <2>3. CASE Close
    <3>1. Opened' = Opened \ {handle} /\ handle' \notin Opened'
      BY <2>1, <2>3, Closes, Numbers DEF Opened
    <3>2. QED
      BY <3>1 DEF InHand, Forgotten
  <2>4. CASE Dies
    <3>1. Opened' = {}
      BY <2>4, Numbers DEF Dies, Opened
    <3>2. QED
      BY <3>1 DEF InHand, Forgotten
  <2>5. CASE \E d \in plugged : Open(d)
    <3>1. PICK d \in plugged : Open(d)
      BY <2>5
    <3>2. /\ handle' \in Fds /\ files[handle'] = Free /\ files'[handle'] = d
          /\ \A f \in Fds : f # handle' => files'[f] = files[f]
      BY <2>1, <3>1, Opens DEF TypeOK
    <3>3. Opened' \ {handle'} \subseteq Opened
      BY <3>2 DEF Opened
    <3>4. QED
      BY <3>1, <3>2, <3>3 DEF InHand, Forgotten
  <2>6. CASE \E g \in Fds : OpenOther(g) \/ CloseOther(g)
    <3>1. Opened' = Opened /\ handle' = handle
      BY <2>1, <2>6, Numbers DEF OpenOther, CloseOther, LowestFree, Opened, TypeOK
    <3>2. QED
      BY <3>1 DEF InHand, Forgotten
  <2>7. QED
    BY <1>1, <2>2, <2>3, <2>4, <2>5, <2>6, FileStep
<1>2. CInv /\ [Next]_vars => [Costs]_vars
  BY <1>1
<1>3. QED
  BY <1>2, Inductive, PTL DEF Spec, OutageCostsOne

(* No connection but Bluetooth closes a file that is not its own.          *)
THEOREM OthersAreSpared == Spec => OthersSpared
<1>1. ASSUME CInv, [Next]_vars, NEW f \in Fds, files[f] = Other, files'[f] # Other
      PROVE  \/ ~running'
             \/ CloseOther(f)
             \/ (library = "bluetooth" /\ f = handle)
  <2>1. TypeOK /\ HandlesAccounted
    BY <1>1 DEF CInv
  <2>2. CASE \E d \in plugged : Open(d)
    BY <1>1, <2>1, <2>2, Numbers DEF Open, LowestFree, TypeOK
  <2>3. CASE Close
    BY <1>1, <2>1, <2>3, Closes, Numbers DEF HandlesAccounted
  <2>4. CASE Dies
    BY <2>4 DEF Dies
  <2>5. CASE \E g \in Fds : OpenOther(g) \/ CloseOther(g)
    BY <1>1, <2>1, <2>5, Numbers DEF OpenOther, CloseOther, LowestFree, TypeOK
  <2>6. CASE Keeps
    BY <1>1, <2>6 DEF Keeps
  <2>7. QED
    BY <1>1, <2>2, <2>3, <2>4, <2>5, <2>6, FileStep
<1>2. CInv /\ [Next]_vars
        => [\A f \in Fds : files[f] = Other /\ files'[f] # Other
                             => \/ ~running'
                                \/ CloseOther(f)
                                \/ (library = "bluetooth" /\ f = handle)]_vars
  BY <1>1
<1>3. QED
  BY <1>2, Inductive, PTL DEF Spec, OthersSpared

(* A Connect that succeeds has an open device in hand that is in reach and *)
(* has the required name, on USB a Tic, but for TicUsb's when it takes the *)
(* count of devices for zero.                                              *)
THEOREM DeviceFound == Spec => FoundHolds
<1> DEFINE Holds == \/ /\ library = "libusb" /\ Cardinality(plugged) % Counts = 0
                       /\ handle' = NoFd
                    \/ /\ handle' \in Fds /\ files'[handle'] \in plugged
                       /\ required # NoSerial => SerialOf[files'[handle']] = required
                       /\ library \in Usb => files'[handle'] \in Tics
<1>1. ASSUME CInv, [Next]_vars, ~connected, connected'
      PROVE  Holds
  <2>1. TypeOK /\ Tics \subseteq Devices
    BY <1>1, ConnectionsAssumption DEF CInv
  <2>2. CASE ConnectLibusb
    BY <1>1, <2>2 DEF ConnectLibusb, Close, Ready
  <2>3. ASSUME NEW d \in Tics \cap plugged, Open(d), required = NoSerial \/ SerialOf[d] = required
        PROVE  Holds
    BY <2>1, <2>3, Opens
  <2>4. ASSUME NEW d \in Devices, NEW fate \in Fate,
               VisitLibusb(d, fate) \/ VisitPololu(d, fate)
        PROVE  Holds
    <3>1. CASE VisitLibusb(d, fate)
      <4>1. d \in Tics /\ fate \in {"fine", "unreadable"} /\ Accepted(d, fate) /\ Open(d)
        BY <1>1, <3>1 DEF VisitLibusb, NotFound, Continue, Reject, Candidate
      <4>2. d \in plugged
        BY <3>1, <4>1 DEF VisitLibusb
      <4>3. QED
        BY <2>3, <4>1, <4>2 DEF Accepted
    <3>2. CASE VisitPololu(d, fate)
      <4>1. /\ d \in Tics /\ fate = "fine" /\ required \in {NoSerial, SerialOf[d]}
            /\ Open(d)
        BY <1>1, <3>2 DEF VisitPololu, Continue, Candidate
      <4>2. d \in plugged
        BY <3>2, <4>1 DEF VisitPololu
      <4>3. QED
        BY <2>3, <4>1, <4>2
    <3>3. QED
      BY <2>4, <3>1, <3>2
  <2>5. CASE HandshakeSucceeds
    <3>1. /\ phase = "handshake" /\ handle' = handle /\ files' = files
          /\ handle \in Fds /\ files[handle] \in plugged /\ files[handle] \in Devices
      BY <2>1, <2>5 DEF HandshakeSucceeds, Answers, device, TypeOK
    <3>2. library \in {"bluetooth", "serial"}
      BY <1>1, <3>1 DEF CInv, Sessions
    <3>3. required # NoSerial => SerialOf[files[handle]] = required
      BY <1>1, <3>1, <3>2 DEF CInv, PeerKept, SerialNameless
    <3>4. QED
      BY <3>1, <3>2, <3>3 DEF Usb
  <2>6. CASE ConnectPololu \/ ConnectBluetooth \/ ConnectSerial
    BY <1>1, <2>6 DEF ConnectPololu, ConnectBluetooth, ConnectSerial
  <2>7. CASE ExhaustedLibusb \/ ExhaustedPololu
    BY <1>1, <2>7 DEF ExhaustedLibusb, ExhaustedPololu, NotFound
  <2>8. CASE ListFailsLibusb \/ Exit
    BY <1>1, <2>8 DEF ListFailsLibusb, Exit, Dies
  <2>9. CASE Reconnect \/ HandshakeFails
    BY <1>1, <2>9 DEF Reconnect, HandshakeFails
  <2>10. CASE DisconnectLibusb \/ DisconnectPololu \/ DisconnectBluetooth \/ DisconnectSerial
    BY <1>1, <2>10 DEF DisconnectLibusb, DisconnectPololu, DisconnectBluetooth,
             DisconnectSerial, Disconnected
  <2>11. CASE \/ \E name \in Serials \cup {NoSerial} :
                   EditSerialNumber(name) \/ EditAddress(name)
              \/ LoadConfig \/ SaveSerialNumber \/ SaveAddress \/ Start
    BY <1>1, <2>11 DEF EditSerialNumber, EditAddress, LoadConfig, Edit, SaveSerialNumber,
             SaveAddress, Saved, Start
  <2>12. CASE \/ \E d \in Devices : Plug(d) \/ Unplug(d)
              \/ \E f \in Fds : OpenOther(f) \/ CloseOther(f)
    BY <1>1, <2>12 DEF Plug, Unplug, OpenOther, CloseOther
  <2>13. CASE UNCHANGED vars
    BY <1>1, <2>13 DEF vars
  <2> HIDE DEF Holds
  <2>14. QED
    BY <1>1, <2>2, <2>4, <2>5, <2>6, <2>7, <2>8, <2>9, <2>10, <2>11, <2>12, <2>13 DEF Next
<1>2. CInv /\ [Next]_vars => [~connected /\ connected' => Holds]_vars
  BY <1>1
<1>3. QED
  BY <1>2, Inductive, PTL DEF Spec, FoundHolds

(* Every variable keeps its type; that of config says under which name a   *)
(* connection saves.                                                       *)
THEOREM TypesKept == Spec => []TypeOK
<1>1. CInv => TypeOK
  BY DEF CInv
<1>2. QED
  BY <1>1, Inductive, PTL

(* The next process requires the address in the file.                      *)
THEOREM AddressComesBack == Spec => AddressRestored
<1>1. ASSUME CInv, [Next]_vars, library = "bluetooth", ~running, running'
      PROVE  required' = config.serial
  <2>1. CASE Start
    <3>1. config.name = LoadedFrom
      BY <1>1 DEF CInv, TypeOK, SavedUnder, LoadedFrom
    <3>2. QED
      BY <2>1, <3>1 DEF Start
  <2>2. CASE ConnectLibusb \/ ConnectPololu \/ ConnectBluetooth \/ ConnectSerial
    BY <1>1, <2>2 DEF ConnectLibusb, ConnectPololu, ConnectBluetooth, ConnectSerial
  <2>3. CASE \/ \E d \in Devices, fate \in Fate : VisitLibusb(d, fate) \/ VisitPololu(d, fate)
             \/ ExhaustedLibusb \/ ExhaustedPololu
    BY <1>1, <2>3 DEF VisitLibusb, VisitPololu, ExhaustedLibusb, ExhaustedPololu
  <2>4. CASE ListFailsLibusb \/ Exit
    BY <1>1, <2>4 DEF ListFailsLibusb, Exit, Dies
  <2>5. CASE Reconnect \/ HandshakeSucceeds \/ HandshakeFails
    BY <1>1, <2>5 DEF Reconnect, HandshakeSucceeds, HandshakeFails
  <2>6. CASE DisconnectLibusb \/ DisconnectPololu \/ DisconnectBluetooth \/ DisconnectSerial
    BY <1>1, <2>6 DEF DisconnectLibusb, DisconnectPololu, DisconnectBluetooth,
             DisconnectSerial, Disconnected
  <2>7. CASE \/ \E name \in Serials \cup {NoSerial} :
                   EditSerialNumber(name) \/ EditAddress(name)
             \/ LoadConfig \/ SaveSerialNumber \/ SaveAddress
    BY <1>1, <2>7 DEF EditSerialNumber, EditAddress, LoadConfig, Edit, SaveSerialNumber,
             SaveAddress, Saved
  <2>8. CASE \/ \E d \in Devices : Plug(d) \/ Unplug(d)
             \/ \E f \in Fds : OpenOther(f) \/ CloseOther(f)
             \/ UNCHANGED vars
    BY <1>1, <2>8 DEF Plug, Unplug, OpenOther, CloseOther, vars
  <2>9. QED
    BY <1>1, <2>1, <2>2, <2>3, <2>4, <2>5, <2>6, <2>7, <2>8 DEF Next
<1>2. CInv /\ [Next]_vars => [(library = "bluetooth") => Restored]_vars
  BY <1>1 DEF Restored
<1>3. QED
  BY <1>2, Inductive, PTL DEF Spec, AddressRestored

=============================================================================
