SPECIFICATION SealerSpec
CONSTANTS
  N = 2
  Self = 1
  MaxNumber = 2
  MaxView = 2
INVARIANT NoLockCycle
CHECK_DEADLOCK FALSE
