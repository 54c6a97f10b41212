\* A client that sends well-formed requests one after the other.
SPECIFICATION FairSpec
CONSTANTS
  Methods <- MCMethods
  Targets <- MCTargets
  Servers = {"srv"}
  BufCap = 12
  NoConf = "noconf"
  Accepts <- MCAccepts
  Redirected = {"old"}
  CgiTargets = {"cgi"}
  Directories = {"page"}
  MaxBody <- MCMaxBody
  ErrorPages = {"404", "500"}
  CgiOutputs = {"ok", "absent", "malformed"}
  CgiTimeout = 2
  FileBlocks = 2
  Requests <- WellFormed
  MaxRequests = 3
  Pipelining = FALSE
  Faults = {}
INVARIANTS EventMatchesCallback KeepAliveAtBoundary CgiReadsOwnBody PageNotLost
PROPERTIES ImplementsExchange EveryRequestAnswered ChildReaped
CHECK_DEADLOCK FALSE
