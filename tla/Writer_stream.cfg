SPECIFICATION FairSpec
CONSTANTS
  NoFile = NoFile
  MaxFields = 2
  BodySizes = {0, 1, 3, 7}
  FileSizes = {1, 2, 3, 4, 6, 8, 9}
  MaxWrite = 4
  BufSize = 3
  Faults = {"send", "read"}
INVARIANT DeclaredLength
PROPERTY ImplementsResponse SendingEnds
CHECK_DEADLOCK FALSE
