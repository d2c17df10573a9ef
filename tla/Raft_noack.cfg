SPECIFICATION Spec
CONSTANTS
  N = 2
  MaxTerm = 2
  MaxBlocks = 1
  LinkLimit = 1
  MaxFaults = 0
INVARIANT CommittedByMajority
CHECK_DEADLOCK FALSE
