\* An error page named by two directives.
SPECIFICATION Spec
CONSTANTS
  Plain = {"a", "a-b"}
  Rank <- MCRank
  Names <- OnlyRoot
  SubNames = {}
  Uris <- MCUris
  Options = {"root", "redirect"}
  PortNumbers = {}
  PortValues = 4
  Hosts = {}
  Pages = {"p1", "p2"}
  ErrCodes = {404, 405}
  NULL = NULL
  Default = Default
  Endless = Endless
  MaxServers = 1
  MaxDirectives = 5
INVARIANT ErrorPageNamed
CHECK_DEADLOCK FALSE
