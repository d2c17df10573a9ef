SPECIFICATION Spec
CONSTANTS
  MaxShards = 6
  Workers = {"u", "v"}
  Field = {"f", "g"}
  NoField = "none"
  MaxTx = 4
  N = 2
  Self = 1
  MaxNumber = 2
  MaxView = 2
  FileBlocks = 2
  MaxForward = 1
  Interval = 2
  MaxBlock = 4
  MaxCrash = 3
  MaxError = 1
  Readers = {"r1"}
  Objects = {1, 2, 3}
  MaxUpdates = 3
INVARIANTS PartsTypeOK CountsRight UpperCoversCoordinators LowerIsSubtree PairsFitCoordinator ProposesOnce EngineSafe NoGap UnflushedIsCached ConflictsOrdered NothingStuck ReturnsWhenDone TreeReachesOnce PromisedComes CommittedNotPooled RotationFollowsChain
PROPERTIES ProposedAsSealed RecoversCommitted
CHECK_DEADLOCK FALSE
