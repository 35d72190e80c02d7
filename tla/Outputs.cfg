SPECIFICATION OutputsSpec
CONSTANTS
  MaxFiles = 4
  t1 = t1
  t2 = t2
  Threads = {t1, t2}
  Lengths = {1, 3, 9}
  Header = 1
  Priorities <- MCPriorities
  BufSizes = {0, 2, 5}
  LOG4C_BUFFER_SIZE_DEFAULT = 5
  STATIC_BUFFER = 7
  SPRINTF_BUFFER = 9
  MAPPED = 4
  MaxMessages = 2
SYMMETRY SameThreads
INVARIANTS
  FaultsHaveCause
  ClosedByOwner
  LinesHaveCause
  MappingIsRing
CHECK_DEADLOCK FALSE
