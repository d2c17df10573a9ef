------------------------------- MODULE MCParts -------------------------------
(* Parts of a node that share no state, checked by one run of TLC: Init      *)
(* chooses the part, whose variables start as its module says while those of *)
(* the others stay as they begin, or Idle.  The states of the parts add up,  *)
(* they do not multiply, and each part's properties are asked of its own     *)
(* behaviours.  Four parts are the modules this one extends: the execution   *)
(* of a block (TxDAG), the threads of a PBFT node that seals (SealerThreads), *)
(* the way of a block to RocksDB (BlockStore) and one key of the cache       *)
(* (StorageCache).                                                           *)
EXTENDS TxDAG, SealerThreads, BlockStore, StorageCache, Sequences, SequencesExt

VARIABLE part
Idle == "idle"

-----------------------------------------------------------------------------
(* The shard tree: every shape of tree with 2 to MaxShards shards, numbered  *)
(* so that a parent comes before its children.                               *)
VARIABLES json, tree, numbers, answer
treeVars == <<json, tree, numbers, answer>>

CONSTANT MaxShards

ParentMaps(n) == {p \in [2..n -> 1..(n-1)] : \A s \in 2..n : p[s] < s}
Describe(n, p) ==
  [root |-> 1,
   children |-> [s \in {p[c] : c \in 2..n} |-> SetToSortSeq({c \in 2..n : p[c] = s}, LAMBDA x, y : x < y)]]
AllTrees == UNION {{Describe(n, p) : p \in ParentMaps(n)} : n \in 2..MaxShards}

Tree == INSTANCE HieraShardTree WITH NoShard <- 0, Descriptions <- AllTrees

CountsRight == part = "tree" => Tree!CountsRight
UpperCoversCoordinators == part = "tree" => Tree!UpperCoversCoordinators
LowerIsSubtree == part = "tree" => Tree!LowerIsSubtree
PairsFitCoordinator == part = "tree" => Tree!PairsFitCoordinator

-----------------------------------------------------------------------------
(* The engine of four sealers, of which only one hears the others: more signs *)
(* than a quorum may come before the prepare.                                *)
VARIABLES ledger, known, engineView, toView, suspects, rawPrepare, prep, lockedOn, backup,
          signs, commits, commitKey, recvViewChange, latestViewChange, future, sealed,
          msgs, viewMsgs, restarts
engineVars == <<ledger, known, engineView, toView, suspects, rawPrepare, prep, lockedOn, backup,
                signs, commits, commitKey, recvViewChange, latestViewChange, future, sealed,
                msgs, viewMsgs, restarts>>

Engine == INSTANCE PBFT
            WITH N <- 4, Up <- 0..3, Payload <- {"a"}, NoTxs <- "none",
                 MaxNumber <- 1, MaxView <- 2, MaxCrash <- 0,
                 Heard <- [n \in 0..3 |-> IF n = 1 THEN 0..3 ELSE {}],
                 Events <- {"sync"}, LoseBackup <- FALSE,
                 chain <- ledger, highest <- known, view <- engineView,
                 leaderFailed <- suspects, raw <- rawPrepare, committed <- lockedOn,
                 sealing <- sealed, crashes <- restarts

(* Two sealers over two heights: a node may be a block ahead of the other, and *)
(* requests for the next height come before the block below it.              *)
Heights == INSTANCE PBFT
             WITH N <- 2, Up <- 0..1, Payload <- {"a", "b"}, NoTxs <- "none",
                  MaxNumber <- 2, MaxView <- 1, MaxCrash <- 0,
                  Heard <- [n \in 0..1 |-> 0..1],
                  Events <- {"sync"}, LoseBackup <- FALSE,
                  chain <- ledger, highest <- known, view <- engineView,
                  leaderFailed <- suspects, raw <- rawPrepare, committed <- lockedOn,
                  sealing <- sealed, crashes <- restarts

(* In its own behaviours no node steps over a quorum of signs before a late   *)
(* prepare; over two heights the chains agree, a node commits to one block per *)
(* height, and no quorum is stepped over (checkAndCommit, checkAndSave).      *)
EngineSafe ==
  /\ part = "engine" => Engine!SignQuorumNotMissed
  /\ part = "heights" => /\ Heights!Agreement
                         /\ Heights!OneCommitPerHeight
                         /\ \A n \in 0..1 : ~Heights!CommitsMissed(n)
                         /\ Heights!SignQuorumNotMissed

-----------------------------------------------------------------------------
(* A transaction on its way through the pools of three sealers.  The tree is *)
(* a chain, and the positions in it are relative to the root: it may as well *)
(* be sealer 0 that gets the transaction from its client.                    *)
VARIABLES up, early, origin, txsHash, txsHashFilter, object, announcing, buffer, loading,
          packets, inBlock, nonces, handled, erasing, got
gossipVars == <<up, early, origin, txsHash, txsHashFilter, object, announcing, buffer, loading,
                packets, inBlock, nonces, handled, erasing, got>>

Gossip == INSTANCE TxGossip
            WITH N <- 3, Width <- 1, Clients <- {0}, msgs <- packets, sealed <- inBlock

TreeReachesOnce == part = "gossip" => Gossip!TreeReachesOnce
PromisedComes == part = "gossip" => Gossip!PromisedComes
CommittedNotPooled == part = "gossip" => Gossip!CommittedNotPooled

-----------------------------------------------------------------------------
(* The rotation of up to three sealers, seen by node 0.                      *)
VARIABLES height, config, changes, rot, reported, checked, newBlock, picked, seen
rotationVars == <<height, config, changes, rot, reported, checked, newBlock, picked, seen>>

Rotation == INSTANCE RotatingPBFT
              WITH N <- 3, Self <- 0, Sizes <- 1..3, Intervals <- {2, 3},
                   MaxNumber <- 5, MaxChanges <- 2,
                   number <- height, highest <- reported, syncBlock <- newBlock

RotationFollowsChain == part = "rotation" => Rotation!RotationFollowsChain

ASSUME PartsAssumption ==
  Gossip!GossipAssumption /\ Rotation!RotationAssumption

-----------------------------------------------------------------------------
(* What the parts are to the others: at an empty block, before any block.    *)
DagIdle == criticals = <<>> /\ Generate
SealerIdle == SealerInit
StoreIdle == StoreInit /\ ~binaryLog
CacheIdle == CacheInit

TreeIdle ==
  /\ json = Idle /\ tree = Idle /\ numbers = Idle /\ answer = Idle
EngineIdle ==
  /\ ledger = Idle /\ known = Idle /\ engineView = Idle /\ toView = Idle
  /\ suspects = Idle /\ rawPrepare = Idle /\ prep = Idle /\ lockedOn = Idle
  /\ backup = Idle /\ signs = Idle /\ commits = Idle /\ commitKey = Idle
  /\ recvViewChange = Idle /\ latestViewChange = Idle /\ future = Idle /\ sealed = Idle
  /\ msgs = Idle /\ viewMsgs = Idle /\ restarts = Idle
GossipIdle ==
  /\ up = Idle /\ early = Idle /\ origin = Idle /\ txsHash = Idle /\ txsHashFilter = Idle
  /\ object = Idle /\ announcing = Idle /\ buffer = Idle /\ loading = Idle
  /\ packets = Idle /\ inBlock = Idle /\ nonces = Idle /\ handled = Idle
  /\ erasing = Idle /\ got = Idle
RotationIdle ==
  /\ height = Idle /\ config = Idle /\ changes = Idle /\ rot = Idle /\ reported = Idle
  /\ checked = Idle /\ newBlock = Idle /\ picked = Idle /\ seen = Idle

(* Threads, log files, cache entries and pools of every part are in states    *)
(* that the code describes: the fields of Sealer and PBFTEngine, BinaryLog,   *)
(* CachedStorage, DAG, TxPool and RotatingPBFTEngine.                        *)
PartsTypeOK ==
  /\ part = "sealer" => SealerTypeOK
  /\ part = "engine" => Engine!TypeOK
  /\ part = "heights" => Heights!TypeOK
  /\ part = "store" => StoreTypeOK
  /\ part = "cache" => CacheTypeOK
  /\ part = "dag" => DagTypeOK
  /\ part = "gossip" => Gossip!GossipTypeOK
  /\ part = "rotation" => Rotation!RotationTypeOK

Init ==
  \/ part = "tree" /\ Tree!Init
     /\ SealerIdle /\ EngineIdle /\ StoreIdle /\ CacheIdle /\ DagIdle /\ GossipIdle /\ RotationIdle
  \/ part = "sealer" /\ SealerInit
     /\ TreeIdle /\ EngineIdle /\ StoreIdle /\ CacheIdle /\ DagIdle /\ GossipIdle /\ RotationIdle
  \/ part = "engine" /\ Engine!Init
     /\ TreeIdle /\ SealerIdle /\ StoreIdle /\ CacheIdle /\ DagIdle /\ GossipIdle /\ RotationIdle
  \/ part = "heights" /\ Heights!Init
     /\ TreeIdle /\ SealerIdle /\ StoreIdle /\ CacheIdle /\ DagIdle /\ GossipIdle /\ RotationIdle
  \/ part = "store" /\ StoreInit
     /\ TreeIdle /\ SealerIdle /\ EngineIdle /\ CacheIdle /\ DagIdle /\ GossipIdle /\ RotationIdle
  \/ part = "cache" /\ CacheInit
     /\ TreeIdle /\ SealerIdle /\ EngineIdle /\ StoreIdle /\ DagIdle /\ GossipIdle /\ RotationIdle
  \/ part = "dag" /\ DagInit
     /\ TreeIdle /\ SealerIdle /\ EngineIdle /\ StoreIdle /\ CacheIdle /\ GossipIdle /\ RotationIdle
  \/ part = "gossip" /\ Gossip!GossipInit
     /\ TreeIdle /\ SealerIdle /\ EngineIdle /\ StoreIdle /\ CacheIdle /\ DagIdle /\ RotationIdle
  \/ part = "rotation" /\ Rotation!RotationInit
     /\ TreeIdle /\ SealerIdle /\ EngineIdle /\ StoreIdle /\ CacheIdle /\ DagIdle /\ GossipIdle

Next ==
  /\ UNCHANGED part
  /\ \/ part = "tree" /\ Tree!Next
        /\ UNCHANGED <<sealerVars, engineVars, storeVars, cacheVars, dagVars,
                      gossipVars, rotationVars>>
     \/ part = "sealer" /\ SealerNext
        /\ UNCHANGED <<treeVars, engineVars, storeVars, cacheVars, dagVars,
                      gossipVars, rotationVars>>
     \/ part = "engine" /\ Engine!Next
        /\ UNCHANGED <<treeVars, sealerVars, storeVars, cacheVars, dagVars,
                      gossipVars, rotationVars>>
     \/ part = "heights" /\ Heights!Next
        /\ UNCHANGED <<treeVars, sealerVars, storeVars, cacheVars, dagVars,
                      gossipVars, rotationVars>>
     \/ part = "store" /\ StoreNext
        /\ UNCHANGED <<treeVars, sealerVars, engineVars, cacheVars, dagVars,
                      gossipVars, rotationVars>>
     \/ part = "cache" /\ CacheNext
        /\ UNCHANGED <<treeVars, sealerVars, engineVars, storeVars, dagVars,
                      gossipVars, rotationVars>>
     \/ part = "dag" /\ DagNext
        /\ UNCHANGED <<treeVars, sealerVars, engineVars, storeVars, cacheVars,
                      gossipVars, rotationVars>>
     \/ part = "gossip" /\ Gossip!GossipNext
        /\ UNCHANGED <<treeVars, sealerVars, engineVars, storeVars, cacheVars, dagVars,
                      rotationVars>>
     \/ part = "rotation" /\ Rotation!RotationNext
        /\ UNCHANGED <<treeVars, sealerVars, engineVars, storeVars, cacheVars, dagVars,
                      gossipVars>>

vars == <<part, treeVars, sealerVars, engineVars, storeVars, cacheVars, dagVars, gossipVars,
          rotationVars>>
Spec == Init /\ [][Next]_vars
=============================================================================
