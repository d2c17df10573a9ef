---------------------------- MODULE MCCrossShard ----------------------------
(* Instances of CrossShard for TLC.  In those named Two, the root 1 is the   *)
(* parent of 2, and 2 of the leaves 3 and 4; in the others shard 3 is the    *)
(* parent of the leaves 1 and 2.                                             *)
EXTENDS CrossShard, TLC

CONSTANTS a, b, g, h, t1, t2, t3, x1, x2

None == <<>>
Everything == {Tx}

\* One coordinator, two participants: t1 and t3 share their participant list, t2 names
\* the same shards in the other order and so is a batch of its own.
OrderUpper == (1 :> <<3>>) @@ (2 :> <<3>>) @@ (3 :> <<3>>)
OrderParticipants == (t1 :> <<1, 2>>) @@ (t2 :> <<2, 1>>) @@ (t3 :> <<1, 2>>)
OrderRwKeys == (t1 :> <<a, b>>) @@ (t2 :> <<b, a>>) @@ (t3 :> <<a, b>>)
OrderCoordinator == [t \in {t1, t2, t3} |-> 3]
OrderSymmetry == Permutations({t1, t3})

\* Leaf 3 has two coordinators, its parent 2 and the root 1, which takes part in t2;
\* x1 accesses a state of t2, and x2 one of t1 and t3.  The clients submit t1 and t2,
\* which wait in two queues of leaf 3, or t1 and t3, which go to the same leaves in
\* one batch or in two, that may overtake each other.
TwoUpper == (1 :> <<1>>) @@ (2 :> <<2, 1>>) @@ (3 :> <<2, 1>>) @@ (4 :> <<2, 1>>)
TwoParticipants == (t1 :> <<3, 4>>) @@ (t2 :> <<3, 1>>) @@ (t3 :> <<4, 3>>)
TwoRwKeys == (t1 :> <<a, b>>) @@ (t2 :> <<g, h>>) @@ (t3 :> <<b, a>>)
TwoCoordinator == (t1 :> 2) @@ (t2 :> 1) @@ (t3 :> 2)
TwoHome == (x1 :> 3) @@ (x2 :> 4)
TwoIntraKeys == (x1 :> {g}) @@ (x2 :> {b})
TwoWorkloads == {{t1, t2, x1}, {t1, t3, x2}}

\* t1 and t2 can be in one batch and need different states of shard 2; t3 needs
\* the same states as t1 and can come in a later batch.
StaleParticipants == [t \in {t1, t2, t3} |-> <<1, 2>>]
StaleRwKeys == (t1 :> <<a, b>>) @@ (t2 :> <<a, g>>) @@ (t3 :> <<a, b>>)

\* Conflicting transactions wait in one queue, which ConflictOrder needs, in every
\* instance.
ASSUME ConflictsShareQueue

\* Only one instance has transactions of one group that access different states:
\* in the others ReadSetBeforeExecute must hold.
ASSUME ReadSetsMatch \/ RwKeys = StaleRwKeys

\* The upper lists are the ones that the shards derive from these trees.
ST == INSTANCE ShardTree
UpperOf(json) == LET T == ST!Build(json) IN [s \in ST!Shards(T) |-> ST!UpperShards(T, s)]
ASSUME UpperFromTree ==
  /\ OrderUpper = UpperOf([root |-> 3, children |-> 3 :> <<1, 2>>])
  /\ TwoUpper = UpperOf([root |-> 1, children |-> (1 :> <<2>>) @@ (2 :> <<3, 4>>)])
=============================================================================
