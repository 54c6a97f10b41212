\* Requests the server refuses, at every point of their header and body.
SPECIFICATION Spec
CONSTANTS
  Methods <- MCMethods
  Targets <- MCTargets
  Servers = {"srv"}
  BufCap = 12
  NoConf = "noconf"
  Accepts <- MCAccepts
  Redirected = {"old"}
  CgiTargets = {"cgi"}
  Directories = {"page"}
  MaxBody <- MCMaxBody
  ErrorPages = {"404", "500"}
  CgiOutputs = {"ok", "absent", "malformed"}
  CgiTimeout = 2
  FileBlocks = 2
  Requests <- Refused
  MaxRequests = 2
  Pipelining = TRUE
  Faults = {}
INVARIANTS NullConf KeepAliveAtBoundary OneStatusLinePerRequest BodyWithinLimit
CHECK_DEADLOCK FALSE
