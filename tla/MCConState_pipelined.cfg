\* A client that does not wait for its answers.
SPECIFICATION FairSpec
CONSTANTS
  Methods <- MCMethods
  Targets <- MCTargets
  Servers = {"srv"}
  BufCap = 12
  NoConf = "noconf"
  Accepts <- MCAccepts
  Redirected = {"old"}
  CgiTargets = {"cgi"}
  Directories = {"page"}
  MaxBody <- MCMaxBody
  ErrorPages = {"404", "500"}
  CgiOutputs = {"ok", "absent", "malformed"}
  CgiTimeout = 2
  FileBlocks = 2
  Requests <- Pipelined
  MaxRequests = 3
  Pipelining = TRUE
  Faults = {}
INVARIANTS KeepAliveAtBoundary CgiReadsOwnBody
PROPERTY AnsweredOrStalled
CHECK_DEADLOCK FALSE
