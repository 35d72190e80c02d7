CONSTANTS
  a1 = a1
  a2 = a2
  p1 = p1
  p2 = p2
  NoPolicy = NoPolicy
  Appenders = {a1, a2}
  Policies = {p1, p2}
  Texts <- MCTexts
  Rereads <- MCRereads
  MaxUdata = 4
  MaxLoads = 5
  MaxInits = 2
SPECIFICATION Spec
INVARIANT OmittedPolicyDefaults
CHECK_DEADLOCK FALSE
