SPECIFICATION Spec
CONSTANTS
  N = 2
  MaxTerm = 2
  MaxBlocks = 2
  LinkLimit = 1
  MaxFaults = 1
INVARIANTS TypeOK SealsOnMajorityParent
PROPERTIES LeaderKeepsTerm
CHECK_DEADLOCK FALSE
