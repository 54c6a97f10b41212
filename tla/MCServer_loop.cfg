\* Three clients on two ports, with two descriptors for them.  Memory runs out at every point of the loop, and a port may be taken.
SPECIFICATION Spec
CONSTANTS
  Ports <- TwoPorts
  Clients = {c1, c2, c3}
  MaxFd = 4
  Faults = {"bind", "memory", "push"}
  NoSock = NoSock
INVARIANTS TypeOK ConnectionsMatch ReadyServed FilesHaveConnection
SYMMETRY Symmetric
CHECK_DEADLOCK FALSE
