SPECIFICATION Spec
CONSTANTS
  a = a
  b = b
  NoTxs = none
  N = 2
  Up <- AllUp
  Payload <- PayloadTwo
  MaxNumber = 1
  MaxView = 1
  MaxCrash = 1
  Heard <- HeardAll
  Events = {"backup"}
  LoseBackup = TRUE
INVARIANTS OneCommitPerHeight
CHECK_DEADLOCK FALSE
