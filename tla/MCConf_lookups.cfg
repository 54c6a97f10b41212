\* Configurations of up to three servers, about one thing at a time.
SPECIFICATION Spec
CONSTANTS
  Plain = {"a", "a-b"}
  Rank <- MCRank
  Names <- MCNames
  SubNames <- MCSubNames
  Uris <- MCUris
  Options = {"root", "redirect"}
  PortNumbers = {1, 2, 5}
  PortValues = 4
  Hosts = {"h1", "h2"}
  Pages = {"p1", "p2", "p3"}
  ErrCodes = {404, 405}
  NULL = NULL
  Default = Default
  Endless = Endless
  MaxServers = 3
  MaxDirectives = 9
INVARIANTS TypeOK OptionsKept LongestPrefix RedirectKeepsRest PortServed ErrorPagesDistinct
CONSTRAINT OneTopic
CHECK_DEADLOCK FALSE
