SPECIFICATION FairSpec
CONSTANTS
  c1 = c1
  c2 = c2
  voice = voice
  typed = typed
  Callers <- MCCallers
  Sources <- MCSources
  Voice <- MCVoice
  Spoken <- MCSpoken
  Timeout = 1
  MaxRequests = 2
  MaxQueued = 2
INVARIANTS
  IInv
  GrantAnswersItsRequest
  RepliesDecide
PROPERTIES
  KeepsContract
  NobodyIsLeftWaiting
