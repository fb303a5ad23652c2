SPECIFICATION FairSpec
CONSTANTS
  Sayers = {s1, s2}
  Stoppers = {p1, p2}
  Outputs = {TRUE, FALSE}
  QueueSize = 1
  MaxParts = 2
  MaxPhrases = 2
  MaxGeneration = 2
INVARIANTS
  Inv
  StaleRequestsCannotPlay
PROPERTIES
  StopsSpareNewSpeech
  WaitingEnds
CHECK_DEADLOCK FALSE
