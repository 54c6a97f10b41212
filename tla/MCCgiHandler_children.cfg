\* Two connections, and processes of others, share two pids.
SPECIFICATION Spec
CONSTANTS
  Conns = {c1, c2}
  Names = {0, 1, 2}
  LeftNames = {0}
  LeftPages = {1}
  Pids = {p1, p2}
  Other = Other
  None = None
  MaxRequests = 2
  CatchesTerm = FALSE
  Faults = {"create", "access", "open", "exec", "fork"}
INVARIANTS NamesMatch OnlyKilledChildrenLeak PageIsOwn
PROPERTY KillsOwnChild
SYMMETRY Symmetric
CHECK_DEADLOCK FALSE
