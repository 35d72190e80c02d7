SPECIFICATION ContainersSpec
CONSTANTS
  k1 = k1
  k2 = k2
  k3 = k3
  k4 = k4
  i1 = i1
  i2 = i2
  Keys = {k1, k2, k3, k4}
  KeyHash <- MCKeyHash
  NoKey = nokey
  Values = {v}
  NoData = none
  Absent = absent
  InitSize = 1
  HashCells = {1, 2, 3, 4, 5}
  Data = {1, 2}
  ListCells = {1, 2, 3}
  Item = {i1, i2}
  SD_STACK_INIT_SIZE = 2
  INT_MAX = 8
  Maxima = {0, 1, 2, 3}
SYMMETRY Exchanges
INVARIANTS
  ChainsSound
  LoopsMeetAll
  StackInBounds
PROPERTIES
  ImplementsHashMap
  ImplementsDataList
  ImplementsLifo
CHECK_DEADLOCK FALSE
