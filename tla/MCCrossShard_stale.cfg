CONSTANTS
  a = a
  b = b
  g = g
  h = h
  t1 = t1
  t2 = t2
  t3 = t3
  x1 = x1
  x2 = x2
  Shard = {1, 2, 3}
  Key = {a, b, g}
  InterTx = {t1, t2, t3}
  IntraTx = {}
  Participants <- StaleParticipants
  RwKeys <- StaleRwKeys
  Coordinator <- OrderCoordinator
  Home <- None
  IntraKeys <- None
  Upper <- OrderUpper
  Workloads <- Everything
  NoShard = 0
  FlushEvery = 1
SPECIFICATION SafeSpec
INVARIANT ReadSetBeforeExecute
