CONSTANTS
  a = a
  b = b
  g = g
  h = h
  t1 = t1
  t2 = t2
  t3 = t3
  x1 = x1
  x2 = x2
  Shard = {1, 2, 3, 4}
  Key = {a, b, g, h}
  InterTx = {t1, t2, t3}
  IntraTx = {x1, x2}
  Participants <- TwoParticipants
  RwKeys <- TwoRwKeys
  Coordinator <- TwoCoordinator
  Home <- TwoHome
  IntraKeys <- TwoIntraKeys
  Upper <- TwoUpper
  Workloads <- TwoWorkloads
  NoShard = 0
  FlushEvery = 1
SPECIFICATION Spec
INVARIANTS ConflictOrder CommitCount
PROPERTIES AllCommitted DeliversInOrder
