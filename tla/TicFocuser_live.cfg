\* Liveness over ticlib, whose replies cannot be trusted.
CONSTANTS
  MaxPos = 1
  Word = 16
  StartPositions <- MCStartPositions
  Steps = {1}
  Backlashes = {}
  Interface = "ticlib"
SPECIFICATION MCFairSpec
PROPERTIES
  ViewRecovers
  MoveEnds
