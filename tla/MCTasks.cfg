SPECIFICATION FairSpec
CONSTANTS
  None = None
  a = a
  b = b
  MaxTasks = 2
  Lists <- TwoNames
  Targets <- Programs
  Files = 3
  Requests = {"name", "recent"}
  Dated = {"recent"}
  Wanted <- Matches
  Limit = 1
  Nothing = Nothing
  c = c
  d = d
  e = e
  n = n
  m = m
  Urls <- Addresses
  Canon <- PublicForm
  Sites <- Webs
  Queries = {"question", "link", "secret"}
  Unsafe = {"secret"}
  Lookups = {"link"}
  Results <- Found
  Citations <- Cites
  NoTarget = NoTarget
  Aims = {"box", "net", "far", "bad"}
  HostsOf <- Machines
  Ports = {22, 80}
  WebPorts = {80}
  Permitted = {1, 2}
  Concurrency = 1
  Enabled = TRUE
  Nobody = Nobody
  Versions <- TwoFiles
  PartsOf <- Chunked
  Topics = {"room"}
  MaxEntries = 2
  Facts <- Known
  Passwords = {"mail", "bank"}
  Profiles <- Sessions
INVARIANTS
  Inv
  OnlyApprovedRuns
  DataIsWhole
  AnswersAreSound
PROPERTIES
  FirstAnswerStands
  TasksEnd
CHECK_DEADLOCK FALSE
