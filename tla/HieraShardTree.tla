--------------------------- MODULE HieraShardTree ---------------------------
(***************************************************************************)
(* The shard tree of a node: built once from tree.json, then asked for its *)
(* upper and lower shards and by the workload generator.  A step is one    *)
(* call; answer holds the arguments and the result of the last one.        *)
(***************************************************************************)
EXTENDS ShardTree, FiniteSets

CONSTANT Descriptions   \* the contents of tree.json

VARIABLES json,     \* tree.json
          tree,     \* root, children and coordinator pointers
          numbers,  \* hiera_shard_number, intra_, inter_ and cross_layer_shard_number
          answer    \* the last query and its result

vars == <<json, tree, numbers, answer>>

None == [query |-> "none"]
Unbuilt == [root |-> NoShard]

Init ==
  /\ json \in Descriptions
  /\ tree = Unbuilt
  /\ numbers = [hiera |-> 1, intra |-> 0, inter |-> 0, cross_layer |-> 0]
  /\ answer = None

Built == tree # Unbuilt

\* dfs from the root adds to the three counters; hiera_shard_number is one more than
\* the number of shards below the root that it returns.
BuildFromJson ==
  /\ ~Built
  /\ tree' = Build(json)
  /\ numbers' =
       [hiera       |-> Dfs(tree', Shards(tree'), json.root),
        intra       |-> numbers.intra + Dfs(tree', {s \in Shards(tree') : IsLeaf(tree', s)}, json.root),
        inter       |-> numbers.inter + Dfs(tree', {s \in Shards(tree') : IsInter(tree', s)}, json.root),
        cross_layer |-> numbers.cross_layer + Dfs(tree', {s \in Shards(tree') : IsCrossLayer(tree', s)}, json.root)]
  /\ UNCHANGED <<json, answer>>

Ask(a) == Built /\ answer' = a /\ UNCHANGED <<json, tree, numbers>>

GetShardInfo(s) ==
  Ask([query |-> "info", shard |-> s, upper |-> UpperShards(tree, s), lower |-> LowerShards(tree, s)])

AskLCA(s1, s2) == Ask([query |-> "LCA", shard |-> s1, other |-> s2, result |-> GetLCA(tree, s1, s2)])

\* Both workloads are only generated by shards that have such transactions (main).
GetInterChilds(s) ==
  /\ Built /\ IsInter(tree, s)
  /\ \E p \in InterChilds(tree, s) : Ask([query |-> "inter", shard |-> s, result |-> p])

GetCrossLayerChilds(s) ==
  /\ Built /\ IsCrossLayer(tree, s)
  /\ \E p \in CrossLayerChilds(tree, s) : Ask([query |-> "cross_layer", shard |-> s, result |-> p])

Next ==
  \/ BuildFromJson
  \/ /\ Built
     /\ \E s \in Shards(tree) :
          \/ GetShardInfo(s)
          \/ \E s2 \in Shards(tree) \ {s} : AskLCA(s, s2)
          \/ GetInterChilds(s)
          \/ GetCrossLayerChilds(s)

Spec == Init /\ [][Next]_vars

-----------------------------------------------------------------------------
(* Properties, against the ancestors that tree.json describes.             *)

Ids == {json.root} \cup UNION {Range(json.children[p]) : p \in DOMAIN json.children}
RECURSIVE AncestorsOrSelf(_)
AncestorsOrSelf(s) ==
  {s} \cup UNION {AncestorsOrSelf(p) : p \in {q \in DOMAIN json.children : s \in Range(json.children[q])}}

\* a is the lowest common ancestor of x and y, which may be one of them.
IsLCA(a, x, y) ==
  LET common == AncestorsOrSelf(x) \cap AncestorsOrSelf(y)
  IN a \in common /\ common \subseteq AncestorsOrSelf(a)

\* The numbers of shards that buildFromJson counts while it walks the tree are those of
\* tree.json: all shards, the leaves, the inner shards, those with grandchildren.
CountsRight == Built =>
  LET inner == DOMAIN json.children
  IN numbers = [hiera |-> Cardinality(Ids), intra |-> Cardinality(Ids \ inner),
                inter |-> Cardinality(inner),
                cross_layer |-> Cardinality({s \in inner : Range(json.children[s]) \cap inner # {}})]

\* A shard has an epoch counter and a queue for every shard that can coordinate a
\* transaction of it: the lowest common ancestor of it and any other shard is among its
\* upper shards, and none is listed twice (else at() throws in
\* processOrderedBatchedSubInterShardTxs).
UpperCoversCoordinators == answer.query = "info" =>
  /\ \A other \in Ids \ {answer.shard} : \E c \in Range(answer.upper) : IsLCA(c, answer.shard, other)
  /\ Cardinality(Range(answer.upper)) = Len(answer.upper)

\* A shard has a container for exactly the shards of its subtree, to which the
\* transactions it coordinates go; a leaf coordinates none.
LowerIsSubtree == answer.query = "info" =>
  Range(answer.lower) = {s \in Ids : /\ answer.shard \in DOMAIN json.children
                                     /\ answer.shard \in AncestorsOrSelf(s)}

\* A generated pair of shards is coordinated by the shard that generates it, and a
\* cross-layer pair is not one that get_inter_childs could give.  at() throws only
\* where a single child is an inner shard, its siblings are leaves, and the index,
\* drawn for the list of all children, is the last one (cross_layer).
PairsFitCoordinator ==
  /\ answer.query \in {"inter", "cross_layer"} /\ answer.result = OutOfRange =>
       Cardinality(Range(json.children[answer.shard]) \cap DOMAIN json.children) = 1
  /\ answer.query \in {"inter", "cross_layer"} /\ answer.result # OutOfRange =>
    /\ answer.result[1] # answer.result[2]
    /\ IsLCA(answer.shard, answer.result[1], answer.result[2])
    /\ answer.query = "cross_layer" =>
         ~(Range(answer.result) \subseteq {answer.shard} \cup Range(json.children[answer.shard]))
=============================================================================
