SPECIFICATION Spec
CONSTANTS
  Cap = 3
  MaxNums = {3}
  MaxSizes = {2}
  Lens = {1, 3}
  Faults = {"fopen"}
  MaxMsgs = 5
  MaxFaults = 1
  MaxLoads = 1
PROPERTIES
  RolloverKeepsNewest
CHECK_DEADLOCK FALSE
