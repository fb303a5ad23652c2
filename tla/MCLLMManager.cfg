SPECIFICATION FairSpec
CONSTANTS
  gemini = gemini
  groq = groq
  ollama = ollama
  Order <- ThreeProviders
  Gemini = gemini
  Kinds = {"chat", "natural", "quiet", "single"}
  FirstTexts = {0, 1}
  TurnTime = 4
  RetryTime = 2
  Attempts = 3
  MaxPause = 2
  MaxTurns = 3
INVARIANTS
  Inv
  AnswersStand
PROPERTIES
  PausedProviderNotAsked
  TurnEnds
CHECK_DEADLOCK FALSE
