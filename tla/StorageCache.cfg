SPECIFICATION CacheSpec
CONSTANTS
  Readers = {"r1", "r2"}
  Objects = {1, 2, 3, 4}
  MaxUpdates = 3
INVARIANTS NothingLost
CHECK_DEADLOCK FALSE
