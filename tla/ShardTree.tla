----------------------------- MODULE ShardTree -----------------------------
(***************************************************************************)
(* HieraShardTree as operators: the tree of shards that buildFromJson      *)
(* makes of tree.json, the lists of upper and lower shards that each shard *)
(* derives from it, and the queries of the workload generator.             *)
(*                                                                         *)
(* A description (tree.json) is a record with the root and the list of     *)
(* children of every shard that has some.  A tree T has the same children, *)
(* of every shard, and the coordinator (parent) of every shard.            *)
(***************************************************************************)
EXTENDS Naturals, Sequences, SequencesExt

CONSTANT NoShard   \* the null pointer

-----------------------------------------------------------------------------
\* recursionInsertChild: the edges below s.
RECURSIVE RecursionInsertChild(_, _)
RecursionInsertChild(json, s) ==
  IF s \notin DOMAIN json.children THEN {}
  ELSE UNION {{<<s, c>>} \cup RecursionInsertChild(json, c) : c \in Range(json.children[s])}

\* buildFromJson.
Build(json) ==
  LET edges  == RecursionInsertChild(json, json.root)
      shards == {json.root} \cup {e[2] : e \in edges}
  IN [root        |-> json.root,
      children    |-> [s \in shards |-> IF s \in DOMAIN json.children THEN json.children[s] ELSE <<>>],
      coordinator |-> [s \in shards |-> IF s = json.root THEN NoShard
                                        ELSE CHOOSE p \in shards : <<p, s>> \in edges]]

Shards(T) == DOMAIN T.children

IsLeaf(T, s) == T.children[s] = <<>>
IsInter(T, s) == ~IsLeaf(T, s)
IsCrossLayer(T, s) == \E c \in Range(T.children[s]) : ~IsLeaf(T, c)

\* Mutants: only the direct children; the subtree's root is left out of the count.
GetAllChildOneLevel(T, s) == T.children[s]
RECURSIVE DfsBelow(_, _, _)
DfsBelow(T, S, s) ==
  FoldFunction(LAMBDA x, y : x + y, 0,
    [i \in DOMAIN T.children[s] |->
       DfsBelow(T, S, T.children[s][i]) + (IF T.children[s][i] \in S THEN 1 ELSE 0)])

\* get_all_child: the shards below s, each before its own subtree.
RECURSIVE GetAllChild(_, _)
GetAllChild(T, s) ==
  FlattenSeq([i \in DOMAIN T.children[s] |->
                <<T.children[s][i]>> \o GetAllChild(T, T.children[s][i])])

\* dfs: the number of shards of the set S in the subtree of s.
RECURSIVE Dfs(_, _, _)
Dfs(T, S, s) ==
  (IF s \in S THEN 1 ELSE 0) +
  FoldFunction(LAMBDA x, y : x + y, 0,
    [i \in DOMAIN T.children[s] |-> Dfs(T, S, T.children[s][i])])

-----------------------------------------------------------------------------
(* get_shard_info_by_internal_groupId and init_upperlower_shardids.        *)

\* Mutant: the loop stops one layer below the root.
RECURSIVE UpperFromShort(_, _)
UpperFromShort(T, s) ==
  LET up == T.coordinator[s]
  IN IF up = NoShard \/ T.coordinator[up] = NoShard THEN <<s>> ELSE T.children[up] \o UpperFromShort(T, up)

\* The while loop: all shards of the layer of s, of its parent's layer ..., and the root.
RECURSIVE UpperFrom(_, _)
UpperFrom(T, s) ==
  LET up == T.coordinator[s]
  IN IF up = NoShard THEN <<s>> ELSE T.children[up] \o UpperFrom(T, up)

UpperShards(T, s) ==
  IF T.coordinator[s] = NoShard THEN <<s>>
  ELSE (IF IsInter(T, s) THEN <<s>> ELSE <<>>) \o UpperFrom(T, T.coordinator[s])

LowerShards(T, s) == IF IsLeaf(T, s) THEN <<>> ELSE <<s>> \o GetAllChild(T, s) \o <<s>>

-----------------------------------------------------------------------------
(* Queries.  The random numbers are a choice of the whole set of answers.  *)

OutOfRange == <<>>   \* vector::at has thrown

\* getLCA: both lists are split from shard_1_upper; the loop compares them from the
\* two indices on and leaves through the range check of at().
GetLCA(T, s1, s2) ==
  LET ids    == UpperShards(T, s1)
      depth1 == Len(ids) + (IF IsLeaf(T, s1) THEN 1 ELSE 0)
      depth2 == Len(ids) + (IF IsLeaf(T, s2) THEN 1 ELSE 0)
      index1 == IF depth1 >= depth2 THEN 1 ELSE 1 + (depth2 - depth1)
      index2 == IF depth1 >= depth2 THEN 1 + (depth1 - depth2) ELSE 1
      equal  == {n \in 0..Len(ids) : /\ index1 + n <= Len(ids) /\ index2 + n <= Len(ids)
                                     /\ ids[index1 + n] = ids[index2 + n]}
  IN IF equal = {} THEN OutOfRange
     ELSE <<ids[index1 + (CHOOSE n \in equal : \A k \in equal : n <= k)]>>

\* get_inter_childs: two different shards among s and its children.
InterChilds(T, s) ==
  LET ids == {s} \cup Range(T.children[s])
  IN {p \in ids \X ids : p[1] # p[2]}

\* Mutant: the second subtree may be the first one.
CrossLayerChildsSameTree(T, s) ==
  LET inter == SelectSeq(T.children[s], LAMBDA c : IsInter(T, c))
  IN UNION {({s, c1} \cup Range(GetAllChild(T, c1))) \X Range(GetAllChild(T, c2)) :
              c1 \in Range(T.children[s]), c2 \in Range(inter)}

\* get_cross_layer_childs: with several inner children, one shard of any subtree (or s)
\* and one strictly inside another inner child's subtree; with one inner child, s or a
\* leaf child, whose index is drawn from the range of all children.
CrossLayerChilds(T, s) ==
  LET kids  == T.children[s]
      inter == SelectSeq(kids, LAMBDA c : IsInter(T, c))
      leafs == SelectSeq(kids, LAMBDA c : IsLeaf(T, c))
  IN IF Len(inter) > 1
     THEN UNION {({s, c1} \cup Range(GetAllChild(T, c1))) \X Range(GetAllChild(T, c2)) :
                   <<c1, c2>> \in {p \in Range(kids) \X Range(inter) : p[1] # p[2]}}
     ELSE (({s} \cup Range(leafs)) \X Range(GetAllChild(T, inter[1])))
          \cup (IF Len(leafs) < Len(kids) THEN {OutOfRange} ELSE {})
=============================================================================
