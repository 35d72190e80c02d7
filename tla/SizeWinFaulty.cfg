SPECIFICATION Spec
CONSTANTS
  Cap = 3
  MaxNums = {2, 3}
  MaxSizes = {0, 2}
  Lens = {1, 3}
  Faults = {"unlink", "fclose", "rename", "fopen", "fprintf", "crash", "remove", "reload"}
  MaxMsgs = 5
  MaxFaults = 2
  MaxLoads = 2
INVARIANTS
  WindowOrdered
  RotateInBounds
  StreamMatchesFlag
  SizeCountsFile
PROPERTIES
  WriteRespectsLimit
  AppendReturns
CHECK_DEADLOCK FALSE
