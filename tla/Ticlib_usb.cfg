CONSTANTS
  Commands <- MCCommands
  MaxCalls = 2
  Prompt = TRUE
  Isolated = TRUE
SPECIFICATION Spec
CHECK_DEADLOCK FALSE
INVARIANT UsbErrorsShown
