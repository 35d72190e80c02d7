SPECIFICATION Spec
CONSTANTS
  t1 = t1
  t2 = t2
  t3 = t3
  Threads <- MCThreads
  Main = main
  None = none
  LenOf <- MCLenOf
  MaxSize = 4
  Reentrant = TRUE
  MaxMsgs = 2
INVARIANTS
  OneInside
  WriteToOpenFile
  WrittenOnce
  SizeCountsLines
PROPERTIES
  EveryoneFinishes
CHECK_DEADLOCK FALSE
