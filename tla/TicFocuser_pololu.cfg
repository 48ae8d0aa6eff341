\* Every operation of the driver over libtic, with a faulty link and device.
\* One backlash fits on the travel and one is longer.
CONSTANTS
  MaxPos = 2
  Word = 16
  StartPositions <- MCStartPositions
  Steps = {1}
  Backlashes = {1, 3}
  Interface = "pololu"
SPECIFICATION Spec
VIEW MCView
INVARIANTS
  TypeOK
  TargetOnTravel
  PollingAlive
PROPERTIES
  StaysOnTravel
  RelMoveBounded
  ParksFromRest
  EnergizeReadies
  ImplementsContract
