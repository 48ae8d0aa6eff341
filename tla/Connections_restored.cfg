CONSTANTS
  Devices <- MCDevices
  Tics <- MCTics
  SerialOf <- MCSerialOf
  Fds <- MCFds
  Counts = 3
SPECIFICATION Spec
PROPERTY SerialRestored
