\* A chunked body of two chunks.
SPECIFICATION Spec
CONSTANTS
  Methods <- MCMethods
  Targets <- MCTargets
  Servers = {"srv"}
  BufCap = 12
  NoConf = "noconf"
  Accepts <- MCAccepts
  Redirected = {"old"}
  CgiTargets = {"cgi"}
  Directories = {"page"}
  MaxBody <- MCMaxBody
  ErrorPages = {"404", "500"}
  CgiOutputs = {"ok", "absent", "malformed"}
  CgiTimeout = 2
  FileBlocks = 2
  Requests <- SeveralChunks
  MaxRequests = 1
  Pipelining = FALSE
  Faults = {}
INVARIANT TrailerFollowsLastChunk
CHECK_DEADLOCK FALSE
