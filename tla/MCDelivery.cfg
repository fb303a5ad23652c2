SPECIFICATION FairSpec
CONSTANTS
  console = console
  window = window
  None = None
  Submitters <- MCSubmitters
  Console <- MCConsole
  QueueSize = 1
  Capacity = 5
  HastyAnswers = FALSE
  MaxTurns = 3
  MaxPrompts = 1
  MaxEpoch = 2
INVARIANTS
  Inv
  DirectTextMeetsItsPrompt
  WithdrawnInputIsDropped
PROPERTIES
  InputGetsSomewhere
CHECK_DEADLOCK FALSE
