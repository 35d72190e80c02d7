SPECIFICATION Spec
CONSTANTS
  console = console
  journal = journal
  Names <- MCNames
  Levels <- MCLevels
  Appenders = {console, journal}
  NoAppender = none
  Unset = unset
  Texts <- MCTexts
  Broken = broken
  Missing = missing
  NFiles = 2
  Settings <- MCSettings
  Environment <- MCEnvironment
  MaxEdits = 2
  MaxClock = 2
  MaxSets = 1
INVARIANTS
  ParentsExist
  NearestPriorityDecides
  DeliversAdditiveChain
  SeenIsLoaded
PROPERTIES
  CallReturns
  ChangesArrive
CHECK_DEADLOCK FALSE
