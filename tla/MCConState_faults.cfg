\* Every operating system call the code checks may fail.
SPECIFICATION Spec
CONSTANTS
  Methods <- MCMethods
  Targets <- MCTargets
  Servers = {"srv"}
  BufCap = 12
  NoConf = "noconf"
  Accepts <- MCAccepts
  Redirected = {"old"}
  CgiTargets = {"cgi"}
  Directories = {"page"}
  MaxBody <- MCMaxBody
  ErrorPages = {"404", "500"}
  CgiOutputs = {"ok", "absent", "malformed"}
  CgiTimeout = 2
  FileBlocks = 2
  Requests <- WellFormed
  MaxRequests = 2
  Pipelining = FALSE
  Faults = {"slots", "open", "disk", "fork", "read", "send"}
INVARIANTS TypeOK PidMatchesCallback RespFileMatchesResponse CgiReadsOwnBody
CHECK_DEADLOCK FALSE
