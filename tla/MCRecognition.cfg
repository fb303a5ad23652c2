SPECIFICATION FairSpec
CONSTANTS
  None = None
  Nobody = Nobody
  Wait = 4
  Most = 3
  Places = 2
  Silence <- Pauses
  ShortSpan = 2
  LongSpan = 4
  Hold = 1
  Jobs <- Two
  MaxListens = 2
  Microphones = 1
  Budgeted = TRUE
  Escalates = TRUE
  Cuda = FALSE
  Explored <- AllPaths
  Brief <- BriefPaths
INVARIANTS
  Inv
  SpeechIsWhole
  OnlyFitSpeechActs
PROPERTIES
  ThreadsEnd
CHECK_DEADLOCK FALSE
