SPECIFICATION Spec
CONSTANTS
  NULL = NULL
  a1 = a1
  l = l
  p = p
  Appenders = {a1}
  Layouts = {l}
  Categories = {}
  Policies = {p}
  Texts <- MCTexts
  MaxLoads = 3
  MaxInits = 2
INVARIANTS
  FaultsHaveCause
  FiniClosesAll
CHECK_DEADLOCK FALSE
