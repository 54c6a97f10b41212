\* A refused POST after a served one, on the same connection.
SPECIFICATION Spec
CONSTANTS
  Methods <- MCMethods
  Targets <- MCTargets
  Servers = {"srv"}
  BufCap = 12
  NoConf = "noconf"
  Accepts <- MCAccepts
  Redirected = {"old"}
  CgiTargets = {"cgi"}
  Directories = {"page"}
  MaxBody <- MCMaxBody
  ErrorPages = {"404", "500"}
  CgiOutputs = {"ok", "absent", "malformed"}
  CgiTimeout = 2
  FileBlocks = 2
  Requests <- RefusedAfterPost
  MaxRequests = 2
  Pipelining = FALSE
  Faults = {}
INVARIANT KeepAliveAtBoundary
CHECK_DEADLOCK FALSE
