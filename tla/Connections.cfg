\* The four connections, with every fate a device may meet.
CONSTANTS
  Devices <- MCDevices
  Tics <- MCTics
  SerialOf <- MCSerialOf
  Fds <- MCFds
  Counts = 3
SPECIFICATION Spec
INVARIANTS
  TypeOK
  HandlesAccounted
  RequiredServed
  ShowsPeer
  ShownWhenClosed
PROPERTIES
  FoundHolds
  OutageCostsOne
  OthersSpared
  AddressRestored
