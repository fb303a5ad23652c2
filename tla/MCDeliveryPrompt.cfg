SPECIFICATION Spec
CONSTANTS
  console = console
  window = window
  None = None
  Submitters <- MCSubmitters
  Console <- MCConsole
  QueueSize = 1
  Capacity = 5
  HastyAnswers = FALSE
  MaxTurns = 3
  MaxPrompts = 1
  MaxEpoch = 2
INVARIANT DelayedTextMeetsItsPrompt
CHECK_DEADLOCK FALSE
