\* Every transport: three calls, any of which may fail or lose bytes.
CONSTANTS
  Commands <- MCCommands
  MaxCalls = 3
  Prompt = TRUE
  Isolated = TRUE
SPECIFICATION FairSpec
CHECK_DEADLOCK FALSE
INVARIANTS
  TypeOK
  ReadTruthful
  ErrorsAreReal
  WholeExecuted
PROPERTIES
  ImplementsLink
  CallsReturn
