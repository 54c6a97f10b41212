\* Every iteration of the loop, with clients that leave at any moment.
SPECIFICATION FairSpec
CONSTANTS
  Ports <- OnePort
  Clients = {c1, c2}
  MaxFd = 3
  Faults = {"memory"}
  NoSock = NoSock
PROPERTIES QuitStops GoneIsClosed

CHECK_DEADLOCK FALSE
