CONSTANTS
  MaxPos = 2
  Word = 16
  StartPositions <- MCStartPositions
  Steps = {1}
  Backlashes = {1}
  Interface = "pololu"
SPECIFICATION Spec
PROPERTY DirectionRecorded
