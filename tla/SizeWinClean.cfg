SPECIFICATION Spec
CONSTANTS
  Cap = 3
  MaxNums = {1, 2, 3}
  MaxSizes = {0, 2}
  Lens = {0, 1, 3}
  Faults = {}
  MaxMsgs = 6
  MaxFaults = 0
  MaxLoads = 2
INVARIANTS
  NothingElseLost
PROPERTIES
  ImplementsLogWindow
CHECK_DEADLOCK FALSE
