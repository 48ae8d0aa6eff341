\* Polls over every library, with up to two changes of the controller
\* and one failed read in each.
CONSTANTS
  MaxPos = 2
  Settings <- MCSettings
  MaxChanges = 2
  MaxFailed = 1
SPECIFICATION Spec
VIEW MCView
INVARIANTS
  TypeOK
PROPERTIES
  PositionsOfOneMoment
  ArrivalSeen
  TabTruthful
  ShownAtOnce
