SPECIFICATION Spec
CONSTANTS
  None = None
  Tools = {"open_app", "find_files", "prepare_workplace", "web_search", "window_control", "media_control"}
  Qualities <- Qualities_All
  Spoken = {"memory", "read", "stop", "pause", "control", "command", "request", "yes", "no", "first", "second", "bare", "chat", "unnamed", "name"}
  Skills <- Skills_AllOrNone
INVARIANTS
  Inv
  ProposalsAreCurrent
  ActionsWereMeant
  ReplacedFileStaysShut
