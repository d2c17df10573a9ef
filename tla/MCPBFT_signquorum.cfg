SPECIFICATION Spec
CONSTANTS
  a = a
  b = b
  NoTxs = none
  N = 4
  Up <- AllUp
  Payload <- PayloadTwo
  MaxNumber = 1
  MaxView = 0
  MaxCrash = 1
  Heard <- HeardOne
  Events = {}
  LoseBackup = FALSE
INVARIANTS SignQuorumNotMissed
CHECK_DEADLOCK FALSE
