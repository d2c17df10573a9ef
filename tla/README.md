# hierachain: models, checks and proofs

hierachain is a fork of FISCO-BCOS 2.x that turns the groups of a consortium
chain into a *tree of shards*. Every shard is an ordinary group with its own
consensus. A transaction that accesses states of several shards is ordered by
the lowest common ancestor of these shards, its *coordinator*, and executed by
each of them, its *participants*. The fork's own logic is in `src/libplugin`;
the rest is the FISCO-BCOS node. This directory holds TLA+ modules for both,
TLC configurations that check them on small instances, and proofs that TLAPS
checks.

    tlc -workers 2 -config MCCrossShard_order.cfg MCCrossShard
    tlapm CrossShardProofs.tla

`PROJECT.json` lists the runs, the lines of code behind every definition, the
hazards, the findings and the theorems.

## 1. Inventory

### libplugin, the hierarchical shards

| Component | State | Operations | Correct when |
|---|---|---|---|
| Coordinator (`TransactionExecuter`: `processInterShardTx`, `accumulateSubTxs`, `checkSubTxsContainers`, `sendBatchDistributedTxMsg`) | `m_subTxsContainers`: per lower shard the collected transactions and the next epoch number | collect a transaction, flush the containers at the end of a block, send the batches | every lower shard gets every transaction it takes part in once, in the coordinator's order |
| Participant (`processOrderedBatchedSubInterShardTxs`, `processBatchSubInterShardTxs`, `processReorderedTxs`) | `m_precessedEpochIds`, `m_cachedBatchTxs` per coordinator | take or cache a batch, empty the cache, sort a batch, enqueue | batches start in epoch order, without gap or repetition; all participants sort alike |
| Blocking queues (`BlockingTxQueue`) | one queue and a count of locked keys per coordinator | `isBlocked`, `insertTx(s)`, `batch_pop`, `deleteTx` (no caller) | a transaction never overtakes a queued one that accesses the same state |
| Execution (`processBlockingTxsPlus`, `checkReadWriteKeyReady`, `responseCommitToCoordinator`) | `m_txQueues`, `m_sendedrwsetTx`, `receivedTxRWset`, commit counters | send the read set of a batch, wait for the others', execute, report the commit | executes after the read sets have been sent, in the same order everywhere; every transaction is counted once; all commit |
| Message workers (`SyncThreadMaster`, `PluginMsgManager`) | one concurrent queue per kind of message | batches to the shard's consensus, read sets to the counts, commits to the counters | nothing is lost between the queues |
| Shard tree (`HieraShardTree`) | root, children, coordinator pointers, four counters | build from `tree.json`, upper and lower lists, `getLCA`, pairs of shards for the workload | every shard knows all its possible coordinators and all shards it can coordinate |
| Change of a state's master shard (`TransactionExecuter` 1290-1646, 2535-3100) | `m_masterChangedKey`, vote counters | request, PrePrepare, Prepare, Commit between shards | one master per state, agreed by all shards. Nothing starts this protocol at this commit |
| Statistics (`LRU_StatesInfo`), workload (`Benchmark`, `InjectThreadMaster`), `ExecuteVM` | counters, generated files | | feed the protocol above, or generate load |

*Interaction.* Four threads of a node touch this state: `processConsensusBlock`
(transactions of the shard's chain), `processBlockingTxsPlus` (blocked
transactions), `receiveRemoteMsgWorker` and `receiveRemoteCommitMsgWorker`
(messages of other shards). One node of a shard, the *forward node*, talks to
the other shards. A batch travels: coordinator's chain, container, p2p message,
forward node of the participant, transaction pool and consensus of the
participant, epoch check, sort, blocking queue, read-set exchange, execution,
commit report back to the coordinator.

*What is hard.* Network and consensus may reorder batches. Participants sort a
batch independently and then wait for each other's read sets at the head of
their queues, so that a different order is a deadlock. A shard has one queue per
coordinator but the queues share locks and read-set counts. The consensus thread
tests `isBlocked` while the blocking thread empties the queues. Messages are
sent once.

### The FISCO-BCOS node

A transaction enters a node through RPC, goes to the other sealers by the
forwarding tree and the gossip of hashes, is sealed by a leader, agreed on by
PBFT or Raft, executed, and committed through the cache and the binary log to
RocksDB; nodes that were not there get the block by download.

| Component | State and hard behaviours | Status |
|---|---|---|
| PBFT (`libconsensus/pbft`) | view, prepare/sign/commit caches, view change, the lock on a block and its backup; quorums tested for equality, timeouts, restarts; two locks shared by the sealer and the engine | `PBFT`, `SealerThreads` |
| Rotating PBFT and VRF | the window of sealers that take part, moved from remembered state by downloads and late reports; sealers and intervals that change | `RotatingPBFT`; the choice by VRF not |
| Raft (`libconsensus/raft`) | term, vote, leader heartbeat, uncommitted block, answers of members; elections, late answers, two threads | `Raft` |
| Transaction pool, nonce checks (`libtxpool`) | queue, hashes, hash filter, nonce cache; late copies of what is sealed or committed | `TxGossip`, in part |
| Block synchronisation (`libsync`) | peer status, downloading queue, request ranges; blocks out of order, queue limit, a consensus that commits too | `BlockSync` |
| Transaction synchronisation, broadcast trees (`SyncTransaction`, `TreeTopology`, `SyncTreeTopology`) | who knows a transaction, index arithmetic on a k-ary tree; sealers missing in it | `TxGossip`; `SyncTreeTopology` not |
| Block execution and DAG (`libblockverifier`) | critical fields, in-degrees, parallel pops | `TxDAG` |
| Storage (`BinaryLogStorage`, `BinLogHandler`, `CachedStorage`, `DBInitializer`) | cache, task thread, binary log; crash between log and database, several threads at one cache object | `BlockStore`, `StorageCache` |
| Rate limits (`libflowlimit`) | token bucket | not modelled |
| Block chain store, event filters, p2p, RPC, channel server, VM, precompiled contracts, codecs, cryptography, start-up | mostly I/O, encoding and wiring | not modelled |

## 2. Modules

| Module | Models | Uses |
|---|---|---|
| `OrderedBatches` | abstract: in-order, exactly-once delivery of each coordinator's batches to each shard | |
| `CrossShard` | the coordinator, participant, queue, execution and message parts of libplugin | instantiates `OrderedBatches` as `OB` |
| `MCCrossShard` | instances: a parent with two leaves; a root above a parent with two leaves | `CrossShard`; checks its upper lists against `ShardTree` |
| `ShardTree`, `HieraShardTree` | the operations of the tree as operators; the tree of a node, built once and then queried | |
| `AgreedChain` | abstract: one chain that only grows, of which every node has learned a beginning | |
| `PBFT` | the engine: messages, caches, view changes, lock, backup, crash and restart | instantiates `AgreedChain` as `AC` |
| `SealerThreads` | the same node at the grain of its locks: sealer, engine and download thread | |
| `Raft` | the engine and sealer threads of every node of a Raft group | |
| `BlockSync` | the download of blocks by one node, its peers, its own consensus beside it | |
| `BlockStore` | a committed block's way to the disk and back after crashes | |
| `StorageCache` | one key of the cache and the threads that touch it | |
| `TxDAG` | the graph of a block's transactions and its parallel execution | |
| `TxGossip` | one transaction in the pools of the sealers | |
| `RotatingPBFT` | which sealers a node takes for the chosen ones | |
| `MCPBFT`, `MCSealerThreads` | instances of `PBFT` and `SealerThreads` | |
| `MCParts` | nine parts that share no state, in one run | `SealerThreads`, `BlockStore`, `StorageCache`, `TxDAG` by EXTENDS; `HieraShardTree`, `PBFT` (twice), `TxGossip`, `RotatingPBFT` by INSTANCE |
| `CrossShardProofs`, `PBFTProofs`, `BlockSyncProofs`, `RaftProofs`, `SealerThreadsProofs`, `TxDAGProofs`, `RotatingPBFTProofs` | the theorems | their module and `TLAPS` |
| `StorageProofs` | the theorems about `BlockStore` and `StorageCache` | both, and `TLAPS` |

`MCParts` chooses a part in its initial state; that part then runs as its own
module says while the variables of the others keep one value: `Idle`, or, for the
four modules that `MCParts` extends, a state they begin in. The states of the
parts add up and do not multiply, and each property is one of its part. The four
are extended, and their definitions named apart (`StoreSpec`, `CacheSpec`,
`SealerSpec`), so that what the run checks is what the theorems state.

### CrossShard

A shard is its forward node. Variables carry the names of the members they
stand for. `pool` is the shard's transaction pool and consensus together, which
are external: any submitted transaction may be the next one of the chain, and a
block may end after any number of them. `flushed`, `delivered`, `arrived` and
`executed` are histories that only properties read.

Actions, by thread:

* `processConsensusBlock`: `ProcessInterShardTx` (collect), `EndOfBlock` (with
  `CheckSubTxsContainers`, which flushes and sends; every `FlushEvery` blocks,
  10 when `cross_rate` is 20 and else 1), `ProcessOrderedBatchedSubInterShardTxs`
  (`ProcessNextEpoch` or `CacheBatch`), `DrainCachedBatch` (one round of the loop
  that empties the cache; the thread does nothing else while `draining`),
  `ProcessSingleIntraShardTx` (execute, or queue behind a locked state).
* `processBlockingTxsPlus`: `BatchPop`, `SendReadWriteSet`,
  `ExecuteInterShardTx`, `ExecuteBlockedIntraShardTx`.
* `receiveRemoteMsgWorker`: `ReceiveBatchDistributedTxMsg`, `ReceiveRwset`.
* `receiveRemoteCommitMsgWorker`: `ReceiveCommit`.
* `Idle`: every thread polls with nothing to do.

Details kept because the properties depend on them: the comparator of the
sorting set is `<=`, so of two transactions with the same participants the later
one comes first (`Before`); a batch keeps its place in the cache after it has
been processed; only the first transaction of a group with equal participants
sends read sets and only the last one uses them up, its own keys alone
(`Consume`); locks are never released; an intra-shard transaction locks nothing
when it is queued, waits in the first blocking queue only, and is counted but not
executed when several queues block it; the participant with the smallest id
reports the commit, directly when it is the coordinator, because p2p does not
deliver to the sender.

Abstracted: transaction contents to their participants and one state per
participant, as the workload writes them; message encoding; read-set values;
statistics; logging. Participant lists are compared as strings in the code and as
sequences of numbers here, which agree for ids of one digit.

Assumed: messages between shards are neither lost nor duplicated (they are sent
once over p2p sessions, the code has no retry, and a loss stops a participant's
stream for ever); the client names the participants of a transaction without
repetition, with different states, and sends it to a coordinator that all of
them know; no state has changed its master shard.

### ShardTree and HieraShardTree

`Build`, `Dfs`, `GetAllChild`, `UpperShards`, `LowerShards`, `GetLCA`,
`InterChilds` and `CrossLayerChilds` are translated from the functions of
`hieraShardTree.cpp`. A random draw becomes the set of all answers, an
`out_of_range` exception the answer `OutOfRange`. Each query is an action; the
properties compare its answer with the ancestors that `tree.json` describes.
These modules use RECURSIVE operators and are for TLC only. A description has at
least two shards (the system has no use for a tree of one).

### PBFT and SealerThreads

In `PBFT` a handler is one action, because it holds `m_mutex` from its first
check to its last effect. The network keeps every message ever sent: a delivery
that never happens is a loss, one that happens late or twice a reordered or
forwarded message. The sealers outside `Up` are silent. A block is its number
and what it carries; `NoTxs` is the empty block the engine leaves out. Actions:
`Seal`, `SealEmpty`, `RehandleCommittedPrepare` (PBFTSealer), `HandlePrepare`,
`HandleSign`, `HandleCommit`, `HandleFuture`, `HandleViewChange`, `Timeout`,
`Disconnect`, `SyncBlock` (a block from the download, whose signatures are a
quorum), `ReportBlock` (the engine learns of the chain), `CollectGarbage`,
`BackupMsg` (the thread pool writes the lock) and `CrashAndRestart`.
Simplified because nothing follows from it: `broadcastMsg` returns true whatever
happens (`PBFTEngine.cpp` 692-732), so that the early return of `Timeout` and the
condition on the own commit request are dead code; a request refused while the node
synchronises (`isSyncingHigherBlock`), and one that drops out of the full cache of
future prepares, are messages that are not delivered; the sealer of the next leader
only loads transactions ahead of its turn; genesis is reported once, when every cache is empty.
`Events` switches the rare ones on, `LoseBackup` lets a crash come before the
backup is on disk.

`SealerThreads` splits the sealer, the engine and the downloading thread where a
lock is taken or given back: `x_sealing` and `m_mutex` are taken in both orders,
and `m_generatePrepare` is read and written outside both. A block that is too
large is dropped (`DropOversized`) before it is handled. What other nodes send
is left open. A proposal that a lagging node makes for a height that is already
committed elsewhere, which the others keep as a future block, is not counted as
`proposed`.

### Raft

`role`, `term`, `lastLeaderTerm`, `firstVote` and `votes` per node; links in
order; `store` is what engine and sealer share under `m_commitMutex`; `engine`
and `sealer` say where each thread is between two critical sections. The actions
are the handlers of vote requests and answers, heartbeats and their answers, the
steps that store, execute and report an uncommitted block, the steps of the
sealer (`reportNewBlock`, `shouldSeal`, `handleBlock`, `Wake`, `CommitSealed`), a
synchronised block, a lost message and a restart. Timeouts fire at any time.

Merged: the two critical sections of `reportBlock`, `commitBlock` with the
callback of the synchronisation, `shouldSeal` right after `reportNewBlock`. Left
out: `heartbeatCount`, a group of one sealer, `resetConfig`, empty blocks, the
pause while `isSyncing`. A full link loses messages (`LinkLimit`).

### BlockSync

One node that lags: `buffer` and `queue` are the two stages of
`DownloadingBlockQueue`, `worker` is the place of the download thread,
`reqQueue` the ranges the peers owe. The peers commit, tell their height, merge
overlapping requests and cut their answers to `PacketSize`. The node's consensus
seals, commits or gives up. Equal requests of one peer are one; a status reaches
every node at once; a block nobody signed, a lost request, an answer after the
time limit and a failed execution are `MaxFaults` faults.

### BlockStore and StorageCache

`BlockStore` has the committing thread (`writeBlocktoBinLog`, `SubmitTask`,
`CommitReturns` once fewer than `max_forward_block` blocks wait), the task thread
of `CachedStorage` with its two kinds of errors (`BackendCommits`,
`BackendNeedsRetry`, `BackendFails`), RocksDB, whose own log is off when the binary log is on (so
that a crash takes what it has not flushed), and the start of a node: newest
file, `recoverFromBinaryLog` in turns of `Interval` blocks. RocksDB may fail on a
block that is recovered: the cache stops, and the node goes on with a number that
only its cache has. A write to the log
that a crash cuts leaves a record torn at its length, number or content. Every
block takes one place in a file; an old file that is written again keeps its
tail; a `fatal` log line only logs, `exit` is a crash; disk errors that the code
does not report are not modelled. The genesis block is on the disk before the model
begins. A cache that is `disabled()` is left out: the committing thread then writes
RocksDB itself.

`StorageCache` is `touchCache`, `restoreCache`, `removeCache`, `commit`, `select`
and `checkAndClear` on one key, each split where it waits for the lock of the
object or of the map. Force entries, conditions and the size of the cache are
left out (whether the cache is over its limit is a free choice).

### TxDAG

`DagInit` chooses the critical fields of up to `MaxTx` transactions; `Edges` is
what `TxDAG::init` draws; the actions are the steps of `executeUnit`, `waitPop`
and `consume` between which another thread can run. Two equal edges of a field
listed twice are one; `m_totalConsume`, which only ends a wait before its 10 ms,
is left out. At this commit `executeBlock` always takes the serial path
(`BlockVerifier.cpp:60-69`), which runs nothing; the parallel one is used by
`fisco-bcos/para/para_main.cpp:201` and the tests.

### TxGossip

One transaction: `submit` by a client, `broadcastTransactions` and
`sendTxsStatus` of `SyncTransaction`, `push` and `pop2TxPool` of
`DownloadingTxsQueue` with `import`, the two handlers of `SyncMsgEngine`, `seal`,
`updateCache`, `dropTransactions` and the thread-pool task `dropBlockTxsFilter`.
`TreeTopology` is translated as operators. Sealers come during the run
(`newSyncPeerStatus`); both sides see a new connection at once. What is sent
arrives, in any order. The block that takes the transaction is committed
everywhere. `known` is kept for the latest `Transaction` object of a sealer.
Left out: observers, limits of pool and filter, invalid transactions. The module
has recursive operators and is for TLC only.

### RotatingPBFT

One node. `rot` is a record of the members that `resetConfig` reads and writes;
its steps (`updateConsensusNodeList`, `updateRotatingInterval`, `updateEpochSize`,
`resetChosedConsensusNodes`, `chooseConsensusNodes`, `updateConsensusInfo`) are
functions of it and of `config`, what the chain says at its number. The calls come
from `checkBlock` of a download, from `reportBlock`, which the sealer thread makes
for a block it took from the chain a while ago, and from the start of the node.
Blocks come by download or by the node's own consensus; each may add or remove a
sealer, set the number of chosen ones or the interval. A call is one step, since
both callers hold `m_mutex`; a commit in the middle of one is not modelled. The
interval is at least 2, as it is since version 2.6.0.

## 3. Runs

| Run | Instance | Checks | Distinct states |
|---|---|---|---|
| `order` | parent 3 of leaves 1, 2; three cross-shard transactions, two with the same participant list and one with it reversed | `TypeOK`, `SameOrder`, `InEpochOrder`, `ReadSetBeforeExecute` | 189 091 |
| `two` | root 1 above parent 2 of leaves 3, 4; either two cross-shard transactions of two coordinators, so that leaf 3 has two queues, or two of one coordinator, in one batch for each leaf or in two; with each an intra-shard transaction on a state of theirs | `ConflictOrder`, `CommitCount`, `AllCommitted`, `DeliversInOrder` | 37 820 |
| `pbft` | 2 sealers, 1 height, 2 views, 2 payloads and empty blocks, every rare event and one crash | `TypeOK`, `Agreement`, `OneCommitPerHeight`, `CommitQuorumNotMissed`, `QuorumOfOneView`, `ImplementsAgreedChain`, `ViewGrows` | 496 111 |
| `sync` | 2 peers, 2 blocks, 1 fault, a queue that two copies fill | `TypeOK`, `ChainIsCanonical`, `NothingForgotten`, `CatchesUp` | 54 533 |
| `raft` | 2 nodes, 2 terms, 2 blocks, one message per link, 1 fault | `TypeOK`, `SealsOnMajorityParent`, `LeaderKeepsTerm` | 2 727 278 |
| `parts` | the nine parts of `MCParts` | the properties of the parts, below | 1 380 579 |

`parts` has: every tree of 2 to 6 shards with every query; the threads of node 1
of 2 over two heights and three views; four sealers, one of which hears the
others, over one height; two sealers over two heights and two views; a log with
files of two blocks, four blocks, three crashes and one error of RocksDB; one key with one reader, three objects and
three updates; every block of up to four transactions on two fields with two
workers; three sealers in a chain-shaped tree; five blocks with two changes among
three sealers, of which one to three are chosen for two or three blocks each.

What the properties say:

* `SameOrder`: two transactions of one coordinator are executed in the same order
  by every shard that takes part in both, and none twice. `InEpochOrder`: the
  batches a shard has started are a prefix of those its coordinator produced.
  `ReadSetBeforeExecute`: a participant executes a transaction only after all
  others have sent the read set of its batch. `ConflictOrder`: transactions that
  access a common state of a shard leave its queues in chain order.
  `CommitCount`: counted commits and reports on the way are the executed
  transactions, once each. `AllCommitted`: in the end everything is executed
  everywhere and counted. `DeliversInOrder`: `CrossShard` implements
  `OrderedBatches`, its liveness included.
* `CountsRight`, `UpperCoversCoordinators`, `LowerIsSubtree`,
  `PairsFitCoordinator`: the counters of the tree, the shards a shard has a queue
  for, those it has a container for, and the pairs drawn for the workload agree
  with the ancestors in `tree.json`.
* `Agreement`: no two nodes commit different blocks at a height.
  `OneCommitPerHeight`: a node sends commit requests for one block per height in
  all its views and lives. `CommitQuorumNotMissed`: no step leaves a node with a
  quorum of signs and no lock, or with both quorums and no block, whatever came
  before the prepare, after it or in other views; the exception is a prepare that
  comes again after its leader restarted (`PreparedAgain`), which
  `SignQuorumNotMissed` shows to lose a quorum: it holds while no leader proposes
  two blocks in one view (`OneProposalPerView`).
  `QuorumOfOneView`: requests kept from other views complete no quorum.
  `ViewGrows`: between two blocks a view shrinks by a restart only.
  `ImplementsAgreedChain`: `PBFT` implements `AgreedChain`. `EngineSafe` asks
  `SignQuorumNotMissed` of the four sealers, and that one, `Agreement`,
  `OneCommitPerHeight` and that no node has both quorums and no block of the two
  over two heights, where no prepare comes again after another.
* `ProposesOnce`, `ProposedAsSealed`: a leader proposes one block per height and
  view, and as it was sealed, whatever resets three threads do in between.
* `SealsOnMajorityParent`: a Raft leader seals on a parent that a majority has.
  `LeaderKeepsTerm`: a leader keeps its term as long as it leads, and one that
  has not crashed leaves office only for a higher term.
* `ChainIsCanonical`: the downloading node's chain holds the signed block of each
  number once, in order. `NothingForgotten`: merging requests and cutting answers
  loses no number. `CatchesUp`: each block a peer has reaches the node.
* `NoGap`: RocksDB holds a beginning of the chain at all times.
  `RecoversCommitted`: a restarted node has every block whose commit returned,
  or all but `max_forward_block` of them without the log.
  `UnflushedIsCached`: updates RocksDB does not hold yet are in the object that
  the map points to.
* `ConflictsOrdered`: conflicting transactions run one after the other in the
  order of the block. `NothingStuck`: while a transaction is left, one is free or
  with a thread. `ReturnsWhenDone`: the executor returns when every transaction
  has been executed, and not before.
* `TreeReachesOnce`: the tree brings a transaction to every sealer that was
  connected when it was sent, and to none twice, whoever is missing in between.
  `PromisedComes`: a sealer that has asked for a transaction, or is said to have
  it, gets it unless a block takes it first. `CommittedNotPooled`: after a block
  has been handled no late copy brings its transactions back into the pool.
* `RotationFollowsChain`: an engine that has seen the newest block has the chosen
  sealers, the round and the quorum that a node which starts at that block
  computes, although it moves its window by one place per call from what it
  remembers; and it never misses a block (`KeepsUp`), which that depends on.

Six runs show where the code does not do what its own comments say;
`PROJECT.json` quotes them:

* `stale` (`ReadSetBeforeExecute`): the counts of read sets that the last
  transaction of a batch does not use up let a later batch execute before its
  read set has been sent.
* `pbft_lockbackup` (`OneCommitPerHeight`): the lock on a block is written to disk
  by a thread pool after the commit request has gone out; after a crash in
  between the node commits to another block of the height.
* `pbft_signquorum` (`SignQuorumNotMissed`): a leader that restarts proposes a
  second block in the same view; when the prepare of the first comes again, the
  signs a node took before and those it kept for later exceed the quorum that
  `checkAndCommit` tests for equality, and it sends no commit request.
* `lockcycle` (`NoLockCycle`): `m_generatePrepare` is tested before the lock is
  taken; the sealer and the engine wait for each other.
* `raft_noack` (`CommittedByMajority`): an answer to an empty heartbeat, on its way
  when the block was sealed, counts as the group of one sealer and commits the
  block.
* `cache` (`NothingLost`): a thread puts a cache object back into the map that left
  it while another one was filling it; the next commit of the key starts from old
  rows.

The passing runs use instances in which `stale`, and the first two points of
section 6, do not arise. What that means is defined in `CrossShard`:
`ReadSetsMatch` for `ReadSetBeforeExecute`, `ConflictsShareQueue` for
`ConflictOrder`. Under these two the properties are theorems (section 4), and TLC
evaluates them on every instance (`MCCrossShard`): only `stale` does without the
first. Nothing in the code enforces them; what is sent to the shards decides.
`OneCommitPerHeight` is claimed with the backup on disk before a crash, and
`SignQuorumNotMissed` where no leader proposes two blocks in one view: also a
theorem, with what makes it so (`SignQuorumKept`, `OneProposalCorrect`).
`NoGap` and `RecoversCommitted` are claimed while no error asked for a retry and
no log file has a torn beginning (`damage`).

*Bounds.* `order`: three transactions suffice for a batch that is overtaken, a
batch with two transactions, and a batch with two groups; two participants give
all exchanges of read sets between a pair. It permutes the two transactions with
equal participants (`OrderSymmetry`), which nothing distinguishes. `two`: two
queues at one shard, one of them of a coordinator that is itself a participant,
give the sharing of locks. `Workloads` names the sets of transactions of which the
clients submit one: with two queues each coordinator sends one batch; with one
coordinator a block of it may end between its two transactions, so that each leaf
gets two batches, the second of which may come first and wait in the cache, or both
arrive before the leaf starts either. Liveness is checked with these; `order` has
three transactions, for safety. Six shards give every shape in which an uncle, a
cousin and a grandparent occur together. `pbft`: with two sealers a quorum is both,
so that every exchange of messages and view changes between two nodes
occurs, with one crash and the rare events at one height and without them at two
(in `parts`); the run permutes the two payloads (`PayloadSymmetry`), which the engine
never tells apart; quorums that differ occur in the engine part of `parts` (four sealers,
quorum three) and for every number in the proofs. `sync`: one fault suffices to
lose a turn, repeat a block or make room for a copy in the queue, which two
blocks overrun. `raft`: two terms and two blocks give a leader that follows
another one and finds its uncommitted block; a majority is two of two, as a
majority of three is with one node silent. `parts`: files of two blocks overlap
after the second crash and the third comes in the recovery; four transactions
give a conflict that is only ordered through a third one; in a chain of three
sealers the middle one may be missing or come late. Elections, views and blocks
are bounded by guards named `Max...`, the messages of a Raft link by `LinkLimit`.

*Deadlock* is checked in `order`, `stale`, `two` and `sync`. The others stop at
their bounds.

*Fairness.* In `CrossShard`, weak fairness of each thread, and of the blocking
thread's visit of each queue: the threads are endless polling loops, the visits
are round-robin over the upper list, and the operating system runs every thread.
Weak fairness of `ConsensusThread` and `MessageThread` contains the assumptions
that a shard's consensus is live and that p2p delivers; the code has nothing to
say when they are not. In `BlockSync`, weak fairness of the download worker (a
loop), of the timeout of a request turn and of a view (clocks), of each peer's
periodic status and of its answers; not of the node's own consensus, of the
commits of peers, nor of any fault. No other run has a liveness property.

## 4. Proofs

Each theorem is for every value of the constants that the named assumptions of
its module allow, the bounds included.

| Module | Theorem | States |
|---|---|---|
| `CrossShardProofs` | `TypeCorrect`, `EpochOrderCorrect`, `RefinesOrderedBatches`, `SameOrderCorrect`; `CommitCountCorrect`; `ConflictOrderCorrect`; `ReadSetBeforeExecuteCorrect` | `TypeOK`, `InEpochOrder`, `SafeSpec => OB!SafeSpec`, `SameOrder`; with `OneCoordinatorEach`: `CommitCount`; with `ConflictsShareQueue`: `ConflictOrder`; with `ReadSetsMatch`: `ReadSetBeforeExecute` |
| `PBFTProofs` | `TypeCorrect`, `OneViewCorrect`, `ViewGrowsCorrect`, `QuorumsKept`; `SignQuorumKept`, `CommitQuorumKept`; `OneProposalCorrect`, `SignQuorumCorrect`; `AgreementCorrect`, `OneCommitCorrect`, `RefinesAgreedChain` | `TypeOK`, `QuorumOfOneView`, `ViewGrows`, `CommitQuorumNotMissed`; with `OneProposalPerView`: `SignQuorumNotMissed`, no `CommitsMissed`; with `MaxCrash = 0` and `ReportsInTime`: `OneProposalPerView`, `SignQuorumNotMissed`; with `~LoseBackup`: `Agreement`, `OneCommitPerHeight`, `ImplementsAgreedChain` |
| `SealerThreadsProofs` | `SealerTypeCorrect`, `ProposedAsSealedCorrect`, `ProposesOnceCorrect` | `SealerTypeOK`, `ProposedAsSealed`, `ProposesOnce` |
| `RaftProofs` | `RaftTypeCorrect`, `LeaderKeepsItsTerm`, `SealsOnMajority` | `TypeOK`, `LeaderKeepsTerm`, `SealsOnMajorityParent` |
| `BlockSyncProofs` | `SyncTypeCorrect`, `SyncKeepsChainCanonical`, `RequestsKept` | `TypeOK`, `ChainIsCanonical`, `NothingForgotten` |
| `StorageProofs` | `StoreTypeCorrect`, `NoGapCorrect`, `RecoversCommittedCorrect`; `CacheTypeCorrect`, `UnflushedIsCachedCorrect` | `StoreTypeOK`, `NoGap`, `RecoversCommitted`; `CacheTypeOK`, `UnflushedIsCached` |
| `TxDAGProofs` | `DagTypeCorrect`, `DagConflictsOrdered`, `DagNothingStuck`, `DagReturnsWhenDone` | `DagTypeOK`, `ConflictsOrdered`, `NothingStuck`, `ReturnsWhenDone` |
| `RotatingPBFTProofs` | `RotationKeepsUp` | `KeepsUp`, the first half of `RotationFollowsChain` |

The assumptions on constants say that bounds are numbers and that the data is
what the code works on: shards, participants and keys of the right types, a
transaction with at least one participant, of which each is named once and has a
key of its own and a queue for the coordinator (`ShardAssumption`,
`TxAssumption`); a request for blocks that has a size (`LimitsAssumption`); a
file of the log, and a turn of the recovery, of at least one block
(`StoreAssumption`); cache objects numbered apart from "no object", and reading
threads apart from the one that commits and the one that clears
(`CacheAssumption`). TLC evaluates them in every run.

*CrossShard.* `InEpochOrder` is not inductive: a step that starts the batch of
an item of the chain must know that the item is the batch its coordinator
produced under that number. `IInv` is `TypeOK` and `EpochInv`: batches hold only
transactions of their coordinator in which their destination takes part
(`Addressed`, without which sorting would look up a participant that is not
there); a batch on the way, in the pool or in the cache is the one produced under
its epoch number (`InTransitProduced`); the epoch counter is one more than the
number of batches produced, and a shard that empties its cache finds the next
epoch there (`EpochCounters`). Each action has a lemma for the types and, when it
touches batches, one for the epochs; `NextBatchInOrder` is the step from "epoch
is the next one and the batch is the produced one" to "the prefix grows by one",
used for the chain and for the cache. In the refinement a flush is `Flush`, the
start of a batch `Deliver`, every other step a stutter.

`SameOrder` speaks of what has been executed, and follows from where transactions
stand on their way there. `PlaceInv` is about the stream of batches a coordinator
produces for each lower shard, the open container included: a transaction that
has a place in one is no longer in the pool (`Fresh`), has one place per stream
(`PlacedOnce`) and one in the stream of every participant (`PlacedEverywhere`);
what one flush puts into a batch was in the open containers together
(`OpenTogether`), so that two transactions stand in the same order, of batches and
within a batch, at every participant of both (`Parallel`). `LineInv` is about a
shard: the executed transactions of a coordinator, those in the queue that is
worked on and the blocked ones form one line; exactly the transactions of the
batches that were started stand in it (`OnlyStarted`, `AllStarted`), ordered by
batch and within a batch as `ReadWriteKeyCompare` sorts (`LineOrdered`). The sort
depends on participant lists and places only (`Ahead`), which all shards share;
no step lets one transaction of a line overtake another (`NoneOvertakes`).

`CommitCount` needs `CountInv`: what is on the way to the coordinator was
executed, so that a report is new to the set of messages. An intra-shard
transaction that several queues block is counted without being executed
(section 6); then the count is wrong, and the theorem has the hypothesis
`OneCoordinatorEach`: the states of an intra-shard transaction are shared with
cross-shard transactions of one coordinator at most. Under it such a transaction
is blocked by one queue (`BlockInv`, with `LocksKnown`).

`ConflictOrder` is about the queues of one shard, of which each keeps its order, so
that two transactions on one state must meet in one. `ConflictsShareQueue` has three
parts: transactions across shards on a state of the shard have one coordinator
(`OneCoordinatorPerState`), those inside it that share a state access the same ones
(`SameStatesLocked`), and each of the latter conflicts with the queue of one
coordinator at most (`OneCoordinatorEach`). Without any of the three TLC finds a
transaction that overtakes another: the first two points of section 6 and its
remark on two coordinators. `QueueInv` says that a transaction waits in the queue of
its coordinator, or of one that has locked a state it accesses (`QueuedBlocked`),
that a state stays locked when its transaction has left (`ArrivedKnown`: no code
unlocks one), that a queue keeps the order of the chain (`QueuesOrdered`), and that
behind a waiting transaction a conflicting one waits in the same queue
(`ConflictKept`).

`ReadSetBeforeExecute` cannot be read off the code: a shard counts the read sets it
gets per state (`receivedTxRWset`), and does not keep whose they are. `ReadInv`
says what the count stands for. Of the transactions of one batch with the same
participants (`SameGroup`) the first of the sorted batch carries the read set
(`IsHead`) and the last one uses up the counts (`EntriesFit`). For each shard and state,
what was received, with what is on the way and what was used up by groups that
are executed, is what was sent (`ReadBalance`); a head is sent for once, when it
is first in its queue, and executed after that (`SentKnown`, `HeadsSent`). When a
count is not zero, more groups were sent for than were used up. The senders work
through their queues in the order of the streams, which is the order here
(`SentInOrder`), so that the group that is now first is among those sent
(`ReadyMeansSent`). That asks of the data that a count is fed from one stream and
that a group asks for the counts it will use: a state belongs to one shard
(`OneOwnerPerState`), its transactions have one coordinator
(`OneCoordinatorPerState`), and transactions of one coordinator with equal
participants access the same states (`GroupSharesStates`). Each is needed: `stale`
is without the last one, and TLC finds a transaction executed early without either
of the others.

*PBFT.* `TypeOK` needs that heights stay within the chain's bound (`Bounded`).
`Agreement` follows from `SafeInv`: the raw prepare is the prepared one
(`RawIsPrepared`), a prepared block is that of the lock when their heights are
equal (`PreparedFitsLock`), every commit request is for the block its sender is
locked on or for a lower height (`CommitsLocked`, `CommitsSent`), and every block
of a chain is *certified*, a quorum having sent commit requests for it
(`ChainsCertified`). Two quorums of `N - f` sealers share one (`QuorumsMeet`), and
that one sent commit requests for one block. Messages are never removed, so that
certificates only grow. The assumption `~LoseBackup` is needed, as
`pbft_lockbackup` shows. All sealers run this code: a sealer that lies is not
modelled, and the proof uses only that quorums meet, not that they meet in `f + 1`.
For the refinement, the longest chain is unique by `Agreement`, and a commit
extends it or repeats what another node has. `QuorumOfOneView` is inductive beside
the types: a prepare that is taken up drops the requests of other views, one that
comes later is compared with it. `ViewGrows` needs that `m_toView` is never below
`m_view` (`ViewOrdered`). `CommitQuorumNotMissed` needs `QuorumInv`: a signer of a block
is cached once, and a node has its own sign beside every sign for a block that did
not come before the prepare (`SignsFit`); for the prepared block it has its own
sign (`PreparedFits`). A prepare that is new to the node therefore finds early
signs only, which `getSigCacheSize` cuts, and from there signs come one at a time
and meet the exact quorum. As an invariant, without the exception of
`PreparedAgain`, the property is false for four sealers.

It is an invariant, and so is `SignQuorumNotMissed`, when every leader proposes one
block for a height in a view (`OneProposalPerView`, the empty block counted: one
that comes after another block of its view loses a quorum as well). `ProposalInv`:
what a node has as its raw prepare or keeps for later was proposed, and an own sign
of its height and view is for the raw prepare (`OwnSignsFit`), so that
`isExistPrepare` turns away whatever comes again; a quorum of signs has locked the
node (`Locked`). Crashes and lost backups are allowed. When a leader does propose
once is `OneProposalCorrect`: without a crash (`MaxCrash = 0`), and when a node
learns of its chain before it has grown by `N` blocks (`ReportsInTime`). A proposal
made at the height and view a leader is in blocks it: it has given up its turn, its
block is sealed, or it has taken up again what it is locked on (`Blocked`); one made
at a lower height has a turn less than a round ago, and another remainder modulo `N`
(`ProposedAt`, `Remainders`). Both conditions are needed. A crash is the run
`pbft_signquorum`. Without `ReportsInTime` a leader that has downloaded `N` blocks
proposes on top of them in the view it still has for the first, and again when it
reaches that view after `reportBlock`: of two sealers, one that has downloaded two
blocks does so in view 1.

*SealerThreads.* `ProposedAsSealed` holds because the sealer has `x_sealing` from
the load to the proposal (`SealedInv`). `ProposesOnce` needs to know what may
follow a proposal: after the leader has proposed for the current height and view
it has given up, or the block being sealed is still the proposed one, or the
chain has moved on (`ProposedNow`); nothing was proposed beyond the engine's
height and view (`ProposedBefore`); and the engine makes room for the next leader
only when it is not the leader itself (`NotifyInv`). The sealer loads transactions
into a block that is not sealed and proposes a sealed one (`SealerInv`).

*BlockSync.* Types need that the chain never outgrows the blocks there are. `IInv`: whatever is in the buffers, in the queue or in the worker's
hands is a block, and what the worker is about to commit is signed. Commits check
the number against the chain in the step that appends, so the order holds whatever
was queued; the invariant is needed for the signature, which is checked several
steps earlier. `NothingForgotten` rests on what `topAndPop` takes from the
queue of requests: one range that covers the requests it merges (`MergedRanges`),
whose numbers are in the packets sent or in the range that is put back
(`PacketOf`, `AnswerForgetsNothing`).

*Raft.* `IInv` gives types to votes, links, the shared store and the threads, and
`TermsInOrder`: the last leader's term is not above the term of a node. Steps of
the leader that could lower or change its term are those of `handleVoteRequest`,
which falls through for a leader; `KeepsTerm` is proved for every action beside
the invariant. `SealsOnMajorityParent` is about what a leader believes of others:
`MajorityInv` says that a height and hash in an answer on its way, or in the hands
of an engine about to answer, is on the chain of its sender (`HonestNet`,
`HonestEngines`); chains only grow (`ChainsGrow`), so that it stays there however
late it is read, and what `m_memberState` keeps is true of distinct other nodes
(`MembersHold`). A sealer that was granted then has a majority for its base
(`GrantedOnMajority`), and keeps it while it waits and executes
(`SealedOnMajority`); that the base is the end of the chain when nothing new was
reported (`CaughtUp`) is what the grant tests against.

*BlockStore.* `StoreInv` is the types and, while nothing is damaged, `Undamaged`:
RocksDB holds a beginning of the chain (`IsBeginning`); the queue of the task
thread holds the blocks that follow it, up to the last one handed over
(`TasksFollow`); while the node is up the files of the log hold the blocks up to
the last one begun and nothing else, in their order, and the open file is the
newest (`LogFollows`, `Covers`); while it is down they do so up to the last
committed block or the one after it, and RocksDB is not beyond (`LogLeft`);
without the log RocksDB is at most `max_forward_block` blocks behind, unless the
cache has stopped (`NotFarBehind`). `NoGap` is the first part. For `RecoversCommitted`,
`RecoversAll` shows that the turns of `recoverFromBinaryLog` find every block
above the height they start from, whatever the files' sizes: each block lies in
the interval of one turn (`TurnOf`), and the files a turn visits hold all blocks
of its interval (`TurnFinds`).

*StorageCache.* `UnflushedIsCached` is about one object of many: an object that
left the map may still be held, filled or waited for by other threads. `CacheInv`:
the waiting rows are numbered from `m_syncNum` (`UpdatesFollow`); threads do what
their role is and an object has one lock (`Roles`); only the clearing thread takes
an object out of the map, when everything is flushed, and a thread that waits for
a second lock waits for the object in the map (`InMap`); the commit's object is in
the map or still empty (`CommitsIntoMap`); and the property, with the number of
the last commit in the object (`UnflushedInMap`). The stronger `NothingLost` is
false (`cache`).

*TxDAG.* `Inv` is `DagTypeOK`; a thread's place fits its fields (`ThreadsRight`);
a transaction is with one holder only (`PlacedOnce`) and only when it is free
(`PlacedWhenFree`); an in-degree is the number of edges not yet taken away
(`CountsOpen`); what has started is finished or with a thread (`StartedIsHeld`);
and `ConflictsOrdered`. The graph keeps one predecessor per field: that a
transaction is ordered after *every* earlier one it conflicts with follows from
the latest transaction on the field, by the least number argument
(`LatestExists`, `FreeIsOrdered`). `DagNothingStuck` looks at the least
transaction not executed: all its edges come from executed ones.
`DagReturnsWhenDone` needs that nothing is counted twice: `Accounted` says which
transactions stand behind `m_exeCnt` and which behind the count of each thread,
sets that share no member. When as many are done as there are, all are.

*RotatingPBFT.* `KeepsUpInv`: the chain ends with the block that `resetConfig` was
last called for or with the one after it; `m_highestBlock` is not beyond the
former, a downloaded block that has been checked at most one beyond it. The
consensus commits on top of `m_highestBlock` and the download the block it has
checked, so that neither passes a block without that call.

*Only model-checked:* the properties of the shard tree and of `TxGossip`, whose
operators are recursive; the second half of `RotationFollowsChain`, arithmetic
modulo the number of sealers; `EngineSafe` and `PartsTypeOK`, which gather
properties of parts that the theorems state one by one, save the types of
`TxGossip` and `RotatingPBFT`. `DeliversInOrder` is proved as far as safety goes.
Liveness (`AllCommitted`, the fairness part of `DeliversInOrder`, `CatchesUp`) is out of the
prover's reach.

## 5. What could follow

Replicas inside a shard that process the same chain; the agreement on a new
master shard, once the code starts it; the rotation of sealers; the token bucket
of `RateLimiter`, whose fast path reads `m_currentStoredPermits` without the lock
that `updatePermits` holds; the status tree of `SyncTreeTopology`. Proofs: the
second half of `RotationFollowsChain`; the tree and `TxGossip`, once their operators are written as recursive functions.

## 6. Observations without a run

Met while modelling. What a model leaves out because of them is said with it.

libplugin:

* An intra-shard transaction that waits in a queue locks none of its states
  (`insertTx` gets no keys from it, `TransactionExecuter.cpp:1251`), so that a later
  one on a state of it, which no cross-shard transaction has locked, is executed at
  once. With `x1` on `{a, g}`, `x2` on `{g}` and a cross-shard transaction on `a`,
  TLC finds `ConflictOrder` violated. So `ConflictOrder` says nothing on this hazard:
  its instances have `SameStatesLocked`.
* An intra-shard transaction that the queues of two coordinators block leaves the
  first one, counted and not executed, while the transaction it waits for is still in
  the second, although the comment at `TransactionExecuter.cpp:2469` has it wait for
  both heads. TLC finds `ConflictOrder` violated with `x1` on `{a, g}` in the instance
  `two`; the instances of the passing runs have `OneCoordinatorEach`.
* `getLCA` compares the first shard's list with itself.
* For a coordinator with one inner child the index of a leaf child is drawn from
  too large a range (`hieraShardTree.cpp:392`).
* With `cross_rate` = 20 only every tenth block flushes the containers: the last
  transactions of a workload wait for blocks that do not come
  (`TransactionExecuter.cpp:364`).
* Transactions of two coordinators have no common order: two shards that take part
  in both may execute them in different orders (`TransactionExecuter.cpp:2355`).

Consensus:

* `updateEpochSize` (`RotatingPBFTEngine.cpp` 80-101) returns early when the
  configured number of chosen sealers is the one it keeps, so that after a sealer
  was removed `m_epochSize` may exceed the number of sealers, to which a node that
  starts cuts it (`RotatingPBFTEngineTest.cpp:97` expects the cut value).
  `selectLeader` divides by it: the two nodes take different leaders. With three
  sealers, all chosen, TLC gets there in seven steps. `RotationFollowsChain`
  compares `m_epochSize` only where it does not exceed the sealers.
* With an interval of 1, allowed before version 2.6.0, the block that sets it gives
  the round -1 (`RotatingPBFTEngine.cpp` 64-65): C++ rounds towards zero and keeps
  the sign in `%`, so that the index of the first chosen sealer is negative.
* `m_generatePrepare` stays set after an empty block is left out
  (`PBFTEngine.cpp` 520-527), until the next proposal.
* The preloaded block of the next leader survives a block that arrives by
  download (`Sealer.h` 105-109), so that its transactions may come twice.
* Raft: `LEADER_REJECT` (`RaftEngine.cpp:1005`) is never sent, since a leader does
  not return there; `LeaderKeepsTerm` shows that no harm follows. Votes carry no
  voter, terms are lowered by `handleHeartbeat` and by a lost election and start
  at 0 after a restart, so that a term may have two leaders. The engine commits
  `m_uncommittedBlock` by reference and then reports an empty block.
* `Sealer.cpp:141` drops the transactions of a block before it is proposed, while
  `TxPool.cpp:610` speaks of a block that "has been committed successfully": when
  the proposal fails, its transactions are gone from the leader's pool. `TxGossip`
  leaves failed proposals out.

Synchronisation:

* Packets with several blocks may overrun the limit of the queue;
  `clearFullQueueIfNotHas` tests it with `==` (`DownloadingBlockQueue.cpp:247`);
  `clearQueue` keeps `m_blockQueueSize`.
* A hash is asked for once; if the answer is lost it is not asked for again until a
  block clears the filter.
* A node that gets a transaction past a sealer that was not connected marks that
  sealer, when it comes, as one that has it (`DownloadingTxsQueue.cpp:45`), and
  will not announce it there.
* When the sealer an observer has chosen is not connected, the children selected
  are those of index `_consIndex` instead of 0 (`TreeTopology.cpp:215`, comment
  200-201).
* `SyncTreeTopology`: a consensus node inside another one's slot does not serve
  that slot, and `selectParentNodes` reads `m_nodeList[-1]` for a start index 0.
  The random gossip of block statuses repairs both.

Storage:

* An error that asks for a retry is logged and the block counts as written
  (`RocksDBStorage.cpp` 179-182): the block is lost for good.
* A torn first record of the newest log file makes `getLastBlockNum` 0 and a torn
  length -1, and the recovery is skipped; a file of less than 12 bytes ends the
  start of the node.
* A file with a torn beginning stays and later leaves a real gap (with files of
  three blocks, after 23 steps).
* Without the binary log up to `max_forward_block` blocks are lost, in an orderly
  stop too.
* `restoreCache` ends the process when another object is in the map. `touchCache`
  locks an object while it holds the map, `removeCache` the other way round
  (`CachedStorage.cpp` 736-745, 776-790).

Execution: a transaction with an empty list of critical fields is ordered with
nothing, although `TxDAG.cpp:91` says that a normal transaction conflicts with
all.

## 7. Not modelled

Sockets, RPC, codecs, cryptography, the virtual machine, precompiled contracts and
start-up: I/O or computation without protocol state. Workload generation beyond
the choice of shards: it only produces input. The change of a state's master
shard: nothing starts it at this commit (the call of `analyseWorkload` is
commented out); its votes are counted per message id. `deleteTx`,
`insertChildren` and the commented-out variants of the handlers in
`TransactionExecuter.cpp`: nothing calls them. The node ids in the tree
(`putGroupPubKeyIntoService`): a shard is one node here. `PartiallyPBFTEngine`,
the choice of sealers by a verifiable random function and the prepare sent along a
tree, the block chain store's tables, event filters and rate limits.
`txPoolNonceCheck` of the pool is switched off at this commit, and `drop` has no
caller.
