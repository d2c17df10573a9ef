SPECIFICATION Spec
CONSTANTS
  a = a
  b = b
  NoTxs = none
  N = 2
  Up <- AllUp
  Payload <- PayloadTwo
  MaxNumber = 1
  MaxView = 1
  MaxCrash = 1
  Heard <- HeardAll
  Events = {"empty", "disconnect", "garbage", "sync", "backup"}
  LoseBackup = FALSE
SYMMETRY PayloadSymmetry
INVARIANTS TypeOK Agreement OneCommitPerHeight QuorumOfOneView
PROPERTIES CommitQuorumNotMissed ImplementsAgreedChain ViewGrows
CHECK_DEADLOCK FALSE
