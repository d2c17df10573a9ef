----------------------------- MODULE CrossShard -----------------------------
(***************************************************************************)
(* Cross-shard transactions of libplugin: a coordinator shard orders them, *)
(* cuts them into epochs and sends each participant shard its batches; a   *)
(* participant takes the batches of one coordinator in epoch order, sorts  *)
(* a batch, exchanges read sets with the other participants and executes.  *)
(*                                                                         *)
(* A shard is represented by its forward node, the one that talks to the   *)
(* other shards.  It runs three threads: processConsensusBlock (the        *)
(* transactions of the chain), processBlockingTxsPlus (the blocked         *)
(* transactions) and receiveRemoteMsgWorker (messages of other shards);    *)
(* receiveRemoteCommitMsgWorker counts commits.  The consensus inside a    *)
(* shard is external: it puts the submitted transactions on the chain in   *)
(* any order and in blocks of any size.  The order is chosen when the      *)
(* transaction is processed, which loses no behaviour because nothing else *)
(* reads the chain.                                                        *)
(*                                                                         *)
(* No state has changed its master shard here (m_masterChangedKey and      *)
(* transfered_states are empty): nothing in the code starts that protocol. *)
(***************************************************************************)
EXTENDS Naturals, Sequences, FiniteSets, Functions

CONSTANTS
  Shard,         \* internal group ids of the shards
  Key,           \* state addresses
  InterTx,       \* cross-shard transactions
  IntraTx,       \* transactions inside one shard
  Participants,  \* Participants[t]: the participant list of t, as the client wrote it
  RwKeys,        \* RwKeys[t][i]: the state of Participants[t][i] that t accesses
  Coordinator,   \* Coordinator[t]: the shard that t was sent to
  Home,          \* Home[x]: the shard of x
  IntraKeys,     \* IntraKeys[x]: the states that x accesses
  Upper,         \* Upper[d]: upper_groupids of d, the coordinators of d in polling order
  Workloads,     \* the sets of transactions of which the clients submit one
  NoShard,       \* no coordinator's cache is being emptied
  FlushEvery     \* blocks between two flushes: 10 when cross_rate = 20, else 1

Tx == InterTx \cup IntraTx

ASSUME ShardAssumption ==
  /\ Shard \subseteq Nat
  /\ NoShard \notin Shard
  /\ InterTx \cap IntraTx = {}
  /\ Upper \in [Shard -> Seq(Shard)]
  /\ FlushEvery \in Nat \ {0}

ASSUME TxAssumption ==
  /\ Participants \in [InterTx -> Seq(Shard)]
  /\ RwKeys \in [InterTx -> Seq(Key)]
  /\ \A t \in InterTx : /\ Participants[t] # <<>>
                        /\ Len(RwKeys[t]) = Len(Participants[t])
                        /\ Coordinator[t] \in Shard
                        /\ \A i, j \in DOMAIN Participants[t] :
                              i # j => /\ Participants[t][i] # Participants[t][j]
                                       /\ RwKeys[t][i] # RwKeys[t][j]
                        /\ \A d \in Range(Participants[t]) :
                              Coordinator[t] \in Range(Upper[d])
  /\ Home \in [IntraTx -> Shard]
  /\ IntraKeys \in [IntraTx -> SUBSET Key]
  /\ Workloads \subseteq SUBSET Tx

VARIABLES
  pool,               \* submitted to the shard's consensus, not yet on its chain
  openBlock,          \* the thread is inside a block of the chain
  blockid,            \* number of blocks finished, modulo FlushEvery
  subTxs,             \* m_subTxsContainers[c][d]->m_subtxs
  epochIds,           \* m_subTxsContainers[c][d]->m_epochId
  batchMsgs,          \* BatchDistributedTxMsg on the way
  precessedEpochIds,  \* m_precessedEpochIds[d][c]
  cachedBatchTxs,     \* m_cachedBatchTxs[d][c]: epoch -> batch
  draining,           \* coordinator whose cached batches the thread is processing
  blockingTxQueues,   \* m_blockingTxQueues[d][c]->txs
  lockingkeys,        \* keys with a non-zero count in lockingkeys of that queue
  txQueues,           \* m_txQueues[d][c]
  sendedrwsetTx,      \* m_sendedrwsetTx[d]
  rwsetMsgs,          \* csTxRWset messages on the way
  receivedTxRWset,    \* receivedTxRWset[d][k]: number of read sets received for k
  commitMsgs,         \* CommitResponseToCoordinator messages on the way
  processedTxNum,     \* number of transactions the shard has counted as committed
  flushed,            \* history: batches the coordinator c has produced for d
  delivered,          \* history: batches of c that d has processed
  arrived,            \* history: transactions in the order the chain of d gives them
  executed            \* history: transactions in the order d executes them

coordVars   == <<openBlock, blockid, subTxs, epochIds, batchMsgs, flushed>>
epochVars   == <<precessedEpochIds, cachedBatchTxs, draining, delivered>>
queueVars   == <<blockingTxQueues, lockingkeys, txQueues, arrived>>
rwsetVars   == <<sendedrwsetTx, rwsetMsgs, receivedTxRWset>>
commitVars  == <<commitMsgs, processedTxNum>>
vars == <<pool, coordVars, epochVars, queueVars, rwsetVars, commitVars, executed>>

-----------------------------------------------------------------------------
(* Data.  A transaction of the chain is a client's cross-shard or          *)
(* intra-shard transaction, or a batch that a forward node wrapped up.     *)

Batch      == Seq(InterTx)
InterItem  == [kind : {"InterShard"}, tx : InterTx]
IntraItem  == [kind : {"SingleIntraShard"}, tx : IntraTx]
BatchItem  == [kind : {"BatchedSubInterShard"}, coord : Shard, epoch : Nat, txs : Batch]
BatchMsg   == [coord : Shard, epoch : Nat, dest : Shard, txs : Batch]
RwsetMsg   == [dest : Shard, source : Shard, keys : SUBSET Key, first : InterTx]
CommitMsg  == [coord : Shard, from : Shard, tx : InterTx]

\* transactionWithReadWriteSet: a transaction with the keys to send and to receive;
\* queues is blockingQueue_keys, the coordinators whose queues block an intra-shard one.
InterEntrySet == [tx : InterTx, inter : {TRUE}, send : SUBSET Key, recv : SUBSET Key,
                  lastTxInBatch : BOOLEAN, queues : {{}}]
IntraEntrySet == [tx : IntraTx, inter : {FALSE}, send : {{}}, recv : {{}},
                  lastTxInBatch : {FALSE}, queues : SUBSET Shard]
Entry == InterEntrySet \cup IntraEntrySet

IndexOf(d, t) == CHOOSE i \in DOMAIN Participants[t] : Participants[t][i] = d
LocalKey(d, t) == RwKeys[t][IndexOf(d, t)]
RemoteKeys(d, t) == {RwKeys[t][i] : i \in {j \in DOMAIN Participants[t] : Participants[t][j] # d}}
MinParticipant(t) == CHOOSE d \in Range(Participants[t]) :
                       \A e \in Range(Participants[t]) : d <= e

\* The order of the participantIds strings, for ids of one digit.
IdsLess(p, q) ==
  \/ \E i \in DOMAIN p \cap DOMAIN q : p[i] < q[i] /\ \A j \in 1..(i-1) : p[j] = q[j]
  \/ Len(p) < Len(q) /\ \A j \in DOMAIN p : p[j] = q[j]

\* std::set with ReadWriteKeyCompare (<=): sorted by participants, and a later
\* transaction with the same participants goes in front of the earlier ones.
Before(b, i, j) == \/ IdsLess(Participants[b[i]], Participants[b[j]])
                   \/ Participants[b[i]] = Participants[b[j]] /\ i > j
Reorderings(b) ==
  {[k \in DOMAIN b |-> b[p[k]]] :
     p \in {q \in [DOMAIN b -> DOMAIN b] :
              \A i, j \in DOMAIN b : i < j => Before(b, q[i], q[j])}}

\* processReorderedTxs: transactions of r with the same participants are one batch;
\* its first one carries the keys to send, its last one is marked.
SameBatch(r, k) == {j \in DOMAIN r : Participants[r[j]] = Participants[r[k]]}
InterEntry(d, r, k) ==
  [tx |-> r[k], inter |-> TRUE,
   send |-> IF \A j \in SameBatch(r, k) : k <= j
            THEN {LocalKey(d, r[j]) : j \in SameBatch(r, k)} ELSE {},
   recv |-> RemoteKeys(d, r[k]),
   lastTxInBatch |-> \A j \in SameBatch(r, k) : j <= k,
   queues |-> {}]
InterEntries(d, r) == [k \in DOMAIN r |-> InterEntry(d, r, k)]

IntraEntry(x, Q) == [tx |-> x, inter |-> FALSE, send |-> {}, recv |-> {},
                     lastTxInBatch |-> FALSE, queues |-> Q]

-----------------------------------------------------------------------------
\* The clients send a transaction across shards to its coordinator, others to their shard.
Submitted(workload) == [s \in Shard |->
  [kind : {"InterShard"}, tx : {t \in InterTx \cap workload : Coordinator[t] = s}]
    \cup [kind : {"SingleIntraShard"}, tx : {x \in IntraTx \cap workload : Home[x] = s}]]

Init ==
  /\ \E workload \in Workloads : pool = Submitted(workload)
  /\ openBlock = [s \in Shard |-> FALSE]
  /\ blockid = [s \in Shard |-> 0]
  /\ subTxs = [c \in Shard |-> [d \in Shard |-> <<>>]]
  /\ epochIds = [c \in Shard |-> [d \in Shard |-> 1]]
  /\ batchMsgs = {}
  /\ precessedEpochIds = [d \in Shard |-> [c \in Shard |-> 0]]
  /\ cachedBatchTxs = [d \in Shard |-> [c \in Shard |-> <<>>]]
  /\ draining = [d \in Shard |-> NoShard]
  /\ blockingTxQueues = [d \in Shard |-> [c \in Shard |-> <<>>]]
  /\ lockingkeys = [d \in Shard |-> [c \in Shard |-> {}]]
  /\ txQueues = [d \in Shard |-> [c \in Shard |-> <<>>]]
  /\ sendedrwsetTx = [d \in Shard |-> {}]
  /\ rwsetMsgs = {}
  /\ receivedTxRWset = [d \in Shard |-> [k \in Key |-> 0]]
  /\ commitMsgs = {}
  /\ processedTxNum = [s \in Shard |-> 0]
  /\ flushed = [c \in Shard |-> [d \in Shard |-> <<>>]]
  /\ delivered = [d \in Shard |-> [c \in Shard |-> <<>>]]
  /\ arrived = [d \in Shard |-> <<>>]
  /\ executed = [d \in Shard |-> <<>>]

-----------------------------------------------------------------------------
(* Thread processConsensusBlock: one action per kind of transaction, and   *)
(* one for the end of a block.                                             *)

Lower(c) == {d \in Shard : c \in Range(Upper[d])}

\* The thread takes the next transaction of the chain.  A shard that is in no other
\* shard's list has no containers, and the end of its blocks changes nothing.
TakeFromChain(s, item) ==
  /\ draining[s] = NoShard
  /\ item \in pool[s]
  /\ openBlock' = [openBlock EXCEPT ![s] = Lower(s) # {}]

\* accumulateSubTxs: t goes into the container of each of its participants.
ProcessInterShardTx(s, t) ==
  LET item == [kind |-> "InterShard", tx |-> t]
  IN /\ TakeFromChain(s, item)
     /\ pool' = [pool EXCEPT ![s] = @ \ {item}]
     /\ subTxs' = [subTxs EXCEPT ![s] = [d \in Shard |->
          IF d \in Range(Participants[t]) THEN Append(@[d], t) ELSE @[d]]]
     /\ UNCHANGED <<blockid, epochIds, batchMsgs, flushed>>
     /\ UNCHANGED <<epochVars, queueVars, rwsetVars, commitVars, executed>>

\* Mutant: the epoch is not advanced.
CheckSubTxsContainersSameEpoch(s) ==
  LET full == {d \in Shard : subTxs[s][d] # <<>>}
  IN /\ batchMsgs' = batchMsgs \cup
          {[coord |-> s, epoch |-> epochIds[s][d], dest |-> d, txs |-> subTxs[s][d]] :
             d \in full \ {s}}
     /\ flushed' = [flushed EXCEPT ![s] = [d \in Shard |->
          IF d \in full THEN Append(@[d], subTxs[s][d]) ELSE @[d]]]
     /\ subTxs' = [subTxs EXCEPT ![s] = [d \in Shard |-> <<>>]]
     /\ UNCHANGED <<pool, epochIds>>

\* checkSubTxsContainers with sendBatchDistributedTxMsg: every container that is
\* not empty becomes the next batch of its shard; the shard's own batch goes to
\* its consensus at once.
CheckSubTxsContainers(s) ==
  LET full == {d \in Shard : subTxs[s][d] # <<>>}
      own  == {[kind |-> "BatchedSubInterShard", coord |-> s, epoch |-> epochIds[s][s],
                txs |-> subTxs[s][s]] : d \in full \cap {s}}
  IN /\ batchMsgs' = batchMsgs \cup
          {[coord |-> s, epoch |-> epochIds[s][d], dest |-> d, txs |-> subTxs[s][d]] :
             d \in full \ {s}}
     /\ pool' = [pool EXCEPT ![s] = @ \cup own]
     /\ epochIds' = [epochIds EXCEPT ![s] = [d \in Shard |->
          IF d \in full THEN @[d] + 1 ELSE @[d]]]
     /\ flushed' = [flushed EXCEPT ![s] = [d \in Shard |->
          IF d \in full THEN Append(@[d], subTxs[s][d]) ELSE @[d]]]
     /\ subTxs' = [subTxs EXCEPT ![s] = [d \in Shard |-> <<>>]]

EndOfBlock(s) ==
  /\ openBlock[s] /\ draining[s] = NoShard
  /\ openBlock' = [openBlock EXCEPT ![s] = FALSE]
  /\ blockid' = [blockid EXCEPT ![s] = (@ + 1) % FlushEvery]
  /\ IF blockid'[s] = 0
     THEN CheckSubTxsContainers(s)
     ELSE UNCHANGED <<pool, subTxs, epochIds, batchMsgs, flushed>>
  /\ UNCHANGED <<epochVars, queueVars, rwsetVars, commitVars, executed>>

\* processBatchSubInterShardTxs, processReorderedTxs and insertTxs: the batch b of
\* coordinator c is sorted and appended to the queue of c, its local keys are locked.
ProcessBatchSubInterShardTxs(d, c, b) ==
  \E r \in Reorderings(b) :
    /\ blockingTxQueues' = [blockingTxQueues EXCEPT ![d][c] = @ \o InterEntries(d, r)]
    /\ lockingkeys' = [lockingkeys EXCEPT ![d][c] = @ \cup {LocalKey(d, t) : t \in Range(r)}]
    /\ arrived' = [arrived EXCEPT ![d] = @ \o r]
    /\ delivered' = [delivered EXCEPT ![d][c] = Append(@, b)]
    /\ UNCHANGED txQueues

\* Mutant: any epoch is taken for the next one.
ProcessAnyEpoch(d, item) ==
  LET c == item.coord
  IN /\ ProcessBatchSubInterShardTxs(d, c, item.txs)
     /\ precessedEpochIds' = [precessedEpochIds EXCEPT ![d][c] = item.epoch]
     /\ draining' = [draining EXCEPT ![d] =
          IF item.epoch + 1 \in DOMAIN cachedBatchTxs[d][c] THEN c ELSE NoShard]
     /\ UNCHANGED cachedBatchTxs

\* The next epoch of c is processed, then those that wait in the cache behind it.
ProcessNextEpoch(d, item) ==
  LET c == item.coord
  IN /\ item.epoch = precessedEpochIds[d][c] + 1
     /\ ProcessBatchSubInterShardTxs(d, c, item.txs)
     /\ precessedEpochIds' = [precessedEpochIds EXCEPT ![d][c] = item.epoch]
     /\ draining' = [draining EXCEPT ![d] =
          IF item.epoch + 1 \in DOMAIN cachedBatchTxs[d][c] THEN c ELSE NoShard]
     /\ UNCHANGED cachedBatchTxs

\* map::insert keeps the batch that the cache already has for an epoch.
CacheBatch(d, item) ==
  LET c == item.coord
  IN /\ item.epoch # precessedEpochIds[d][c] + 1
     /\ cachedBatchTxs' = [cachedBatchTxs EXCEPT ![d][c] =
          [e \in DOMAIN @ \cup {item.epoch} |-> IF e \in DOMAIN @ THEN @[e] ELSE item.txs]]
     /\ UNCHANGED <<precessedEpochIds, draining, delivered, queueVars>>

ProcessOrderedBatchedSubInterShardTxs(d, item) ==
  /\ TakeFromChain(d, item)
  /\ item.kind = "BatchedSubInterShard"
  /\ pool' = [pool EXCEPT ![d] = @ \ {item}]
  /\ ProcessNextEpoch(d, item) \/ CacheBatch(d, item)
  /\ UNCHANGED <<blockid, subTxs, epochIds, batchMsgs, flushed>>
  /\ UNCHANGED <<rwsetVars, commitVars, executed>>

\* One round of the while loop that empties the cache; a cached batch stays there.
DrainCachedBatch(d) ==
  LET c == draining[d]
      e == precessedEpochIds[d][c] + 1
  IN /\ c # NoShard
     /\ ProcessBatchSubInterShardTxs(d, c, cachedBatchTxs[d][c][e])
     /\ precessedEpochIds' = [precessedEpochIds EXCEPT ![d][c] = e]
     /\ draining' = [draining EXCEPT ![d] =
          IF e + 1 \in DOMAIN cachedBatchTxs[d][c] THEN c ELSE NoShard]
     /\ UNCHANGED <<pool, coordVars, cachedBatchTxs, rwsetVars, commitVars, executed>>

\* Mutant: only the queue of the first coordinator is asked.
FirstBlockingQueueKeys(d, x) == {c \in {Upper[d][1]} : IntraKeys[x] \cap lockingkeys[d][c] # {}}

\* The coordinators whose queue has locked a key of x (isBlocked).
BlockingQueueKeys(d, x) == {c \in Range(Upper[d]) : IntraKeys[x] \cap lockingkeys[d][c] # {}}
\* blockingQueue_keys.at(0): the first of them in the order of upper_groupids.
FirstQueue(d, Q) ==
  LET first == CHOOSE i \in DOMAIN Upper[d] :
                 Upper[d][i] \in Q /\ \A j \in DOMAIN Upper[d] : Upper[d][j] \in Q => i <= j
  IN Upper[d][first]

\* An intra-shard transaction none of whose keys is locked is executed at once; else it
\* goes into the first queue that blocks it (and locks no key: localreadwriteKey is unset).
ProcessSingleIntraShardTx(d, x) ==
  LET item == [kind |-> "SingleIntraShard", tx |-> x]
      Q == BlockingQueueKeys(d, x)
  IN /\ TakeFromChain(d, item)
     /\ pool' = [pool EXCEPT ![d] = @ \ {item}]
     /\ arrived' = [arrived EXCEPT ![d] = Append(@, x)]
     /\ \/ /\ Q = {}
           /\ executed' = [executed EXCEPT ![d] = Append(@, x)]
           /\ processedTxNum' = [processedTxNum EXCEPT ![d] = @ + 1]
           /\ UNCHANGED blockingTxQueues
        \/ /\ Q # {}
           /\ blockingTxQueues' = [blockingTxQueues EXCEPT ![d][FirstQueue(d, Q)] =
                Append(@, IntraEntry(x, Q))]
           /\ UNCHANGED <<executed, processedTxNum>>
     /\ UNCHANGED <<blockid, subTxs, epochIds, batchMsgs, flushed, epochVars>>
     /\ UNCHANGED <<lockingkeys, txQueues, rwsetVars, commitMsgs>>

-----------------------------------------------------------------------------
(* Threads receiveRemoteMsgWorker and receiveRemoteCommitMsgWorker.        *)

\* The forward node wraps a received batch into a transaction for its consensus.
ReceiveBatchDistributedTxMsg(m) ==
  /\ m \in batchMsgs
  /\ batchMsgs' = batchMsgs \ {m}
  /\ pool' = [pool EXCEPT ![m.dest] = @ \cup
       {[kind |-> "BatchedSubInterShard", coord |-> m.coord, epoch |-> m.epoch, txs |-> m.txs]}]
  /\ UNCHANGED <<openBlock, blockid, subTxs, epochIds, flushed>>
  /\ UNCHANGED <<epochVars, queueVars, rwsetVars, commitVars, executed>>

\* insertReceivedRwset for every key of the message.
ReceiveRwset(m) ==
  /\ m \in rwsetMsgs
  /\ rwsetMsgs' = rwsetMsgs \ {m}
  /\ receivedTxRWset' = [receivedTxRWset EXCEPT ![m.dest] = [k \in Key |->
       IF k \in m.keys THEN @[k] + 1 ELSE @[k]]]
  /\ UNCHANGED <<pool, coordVars, epochVars, queueVars, sendedrwsetTx, commitVars, executed>>

\* Mutant: the message is handled again.
ReceiveCommitAgain(m) ==
  /\ m \in commitMsgs
  /\ processedTxNum' = [processedTxNum EXCEPT ![m.coord] = @ + 1]
  /\ UNCHANGED <<commitMsgs, pool, coordVars, epochVars, queueVars, rwsetVars, executed>>

ReceiveCommit(m) ==
  /\ m \in commitMsgs
  /\ commitMsgs' = commitMsgs \ {m}
  /\ processedTxNum' = [processedTxNum EXCEPT ![m.coord] = @ + 1]
  /\ UNCHANGED <<pool, coordVars, epochVars, queueVars, rwsetVars, executed>>

-----------------------------------------------------------------------------
(* Thread processBlockingTxsPlus: it polls the queues of the coordinators; *)
(* per visit of c it refills the queue or works on its first transaction.  *)

\* batch_pop: the locks stay.
BatchPop(d, c) ==
  /\ c \in Range(Upper[d])
  /\ txQueues[d][c] = <<>> /\ blockingTxQueues[d][c] # <<>>
  /\ txQueues' = [txQueues EXCEPT ![d][c] = blockingTxQueues[d][c]]
  /\ blockingTxQueues' = [blockingTxQueues EXCEPT ![d][c] = <<>>]
  /\ UNCHANGED <<pool, coordVars, epochVars, lockingkeys, arrived>>
  /\ UNCHANGED <<rwsetVars, commitVars, executed>>

\* The first transaction of a batch sends the local keys of the batch, once.
MustSend(d, head) == head.send # {} /\ head.tx \notin sendedrwsetTx[d]

SendReadWriteSet(d, c) ==
  /\ txQueues[d][c] # <<>>
  /\ LET head == Head(txQueues[d][c])
     IN /\ head.inter /\ MustSend(d, head)
        /\ sendedrwsetTx' = [sendedrwsetTx EXCEPT ![d] = @ \cup {head.tx}]
        /\ rwsetMsgs' = rwsetMsgs \cup
             {[dest |-> p, source |-> d, keys |-> head.send, first |-> head.tx] :
                p \in Range(Participants[head.tx]) \ {d}}
  /\ UNCHANGED <<pool, coordVars, epochVars, queueVars, receivedTxRWset, commitVars, executed>>

\* Mutants: the read sets are not waited for; they are never used up.
AlwaysReady(d, head) == TRUE
ConsumeNothing(d, head) == UNCHANGED receivedTxRWset

\* checkReadWriteKeyReady: the last transaction of a batch uses up its own keys.
Ready(d, head) == \A k \in head.recv : receivedTxRWset[d][k] # 0
Consume(d, head) ==
  receivedTxRWset' = [receivedTxRWset EXCEPT ![d] = [k \in Key |->
    IF head.lastTxInBatch /\ k \in head.recv THEN @[k] - 1 ELSE @[k]]]

\* Mutant: the coordinator sends itself a message, which p2p does not deliver.
ReportCommitNotToSelf(d, t) ==
  \/ /\ d = MinParticipant(t) /\ d # Coordinator[t]
     /\ commitMsgs' = commitMsgs \cup {[coord |-> Coordinator[t], from |-> d, tx |-> t]}
     /\ UNCHANGED processedTxNum
  \/ /\ d # MinParticipant(t) \/ d = Coordinator[t]
     /\ UNCHANGED commitVars

\* The participant with the smallest id reports the commit to the coordinator,
\* or counts it when it is the coordinator.
ReportCommit(d, t) ==
  LET c == Coordinator[t]
  IN \/ /\ d = MinParticipant(t) /\ d = c
        /\ processedTxNum' = [processedTxNum EXCEPT ![d] = @ + 1]
        /\ UNCHANGED commitMsgs
     \/ /\ d = MinParticipant(t) /\ d # c
        /\ commitMsgs' = commitMsgs \cup {[coord |-> c, from |-> d, tx |-> t]}
        /\ UNCHANGED processedTxNum
     \/ /\ d # MinParticipant(t)
        /\ UNCHANGED commitVars

PopHead(d, c) == txQueues' = [txQueues EXCEPT ![d][c] = Tail(@)]

ExecuteInterShardTx(d, c) ==
  /\ txQueues[d][c] # <<>>
  /\ LET head == Head(txQueues[d][c])
     IN /\ head.inter /\ ~MustSend(d, head)
        /\ Ready(d, head)
        /\ Consume(d, head)
        /\ executed' = [executed EXCEPT ![d] = Append(@, head.tx)]
        /\ ReportCommit(d, head.tx)
  /\ PopHead(d, c)
  /\ UNCHANGED <<pool, coordVars, epochVars, blockingTxQueues, lockingkeys, arrived>>
  /\ UNCHANGED <<sendedrwsetTx, rwsetMsgs>>

\* An intra-shard transaction that several queues blocked is counted, not executed.
ExecuteBlockedIntraShardTx(d, c) ==
  /\ txQueues[d][c] # <<>>
  /\ LET head == Head(txQueues[d][c])
     IN /\ ~head.inter
        /\ executed' = [executed EXCEPT ![d] =
             IF Cardinality(head.queues) = 1 THEN Append(@, head.tx) ELSE @]
        /\ processedTxNum' = [processedTxNum EXCEPT ![d] = @ + 1]
  /\ PopHead(d, c)
  /\ UNCHANGED <<pool, coordVars, epochVars, blockingTxQueues, lockingkeys, arrived>>
  /\ UNCHANGED <<rwsetVars, commitMsgs>>

-----------------------------------------------------------------------------
ConsensusThread(s) ==
  \/ \E t \in InterTx : ProcessInterShardTx(s, t)
  \/ \E x \in IntraTx : ProcessSingleIntraShardTx(s, x)
  \/ \E item \in pool[s] : ProcessOrderedBatchedSubInterShardTxs(s, item)
  \/ DrainCachedBatch(s)
  \/ EndOfBlock(s)

BlockingThread(d, c) ==
  \/ BatchPop(d, c)
  \/ SendReadWriteSet(d, c)
  \/ ExecuteInterShardTx(d, c)
  \/ ExecuteBlockedIntraShardTx(d, c)

MessageThread(d) ==
  \/ \E m \in batchMsgs : m.dest = d /\ ReceiveBatchDistributedTxMsg(m)
  \/ \E m \in rwsetMsgs : m.dest = d /\ ReceiveRwset(m)

CommitThread(d) == \E m \in commitMsgs : m.coord = d /\ ReceiveCommit(m)

\* Nothing is left to do: the threads sleep and poll.
Idle ==
  /\ \A s \in Shard : /\ pool[s] = {} /\ ~openBlock[s]
                      /\ \A c \in Shard : /\ subTxs[s][c] = <<>>
                                          /\ blockingTxQueues[s][c] = <<>>
                                          /\ txQueues[s][c] = <<>>
  /\ batchMsgs = {} /\ rwsetMsgs = {} /\ commitMsgs = {}
  /\ UNCHANGED vars

Next ==
  \/ \E s \in Shard : \/ ConsensusThread(s)
                      \/ MessageThread(s)
                      \/ CommitThread(s)
                      \/ \E c \in Shard : BlockingThread(s, c)
  \/ Idle

SafeSpec == Init /\ [][Next]_vars

\* Every thread runs: the loops poll for ever, consensus and the network are live, and
\* the round-robin over the coordinators visits every queue again and again.
Fairness == \A s \in Shard :
  /\ WF_vars(ConsensusThread(s))
  /\ WF_vars(MessageThread(s))
  /\ WF_vars(CommitThread(s))
  /\ \A c \in Range(Upper[s]) : WF_vars(BlockingThread(s, c))

Spec == SafeSpec /\ Fairness

-----------------------------------------------------------------------------
(* Properties.                                                             *)

PoolType == pool \in [Shard -> SUBSET (InterItem \cup IntraItem \cup BatchItem)]
CoordType ==
  /\ openBlock \in [Shard -> BOOLEAN]
  /\ blockid \in [Shard -> Nat]
  /\ subTxs \in [Shard -> [Shard -> Batch]]
  /\ epochIds \in [Shard -> [Shard -> Nat]]
  /\ batchMsgs \in SUBSET BatchMsg
  /\ flushed \in [Shard -> [Shard -> Seq(Batch)]]
CacheType ==
  /\ DOMAIN cachedBatchTxs = Shard
  /\ \A d \in Shard : /\ DOMAIN cachedBatchTxs[d] = Shard
                      /\ \A c \in Shard : /\ DOMAIN cachedBatchTxs[d][c] \subseteq Nat
                                          /\ \A e \in DOMAIN cachedBatchTxs[d][c] :
                                                cachedBatchTxs[d][c][e] \in Batch
EpochType ==
  /\ precessedEpochIds \in [Shard -> [Shard -> Nat]]
  /\ CacheType
  /\ draining \in [Shard -> Shard \cup {NoShard}]
  /\ delivered \in [Shard -> [Shard -> Seq(Batch)]]
QueueType ==
  /\ blockingTxQueues \in [Shard -> [Shard -> Seq(Entry)]]
  /\ lockingkeys \in [Shard -> [Shard -> SUBSET Key]]
  /\ txQueues \in [Shard -> [Shard -> Seq(Entry)]]
  /\ arrived \in [Shard -> Seq(Tx)]
RwsetType ==
  /\ sendedrwsetTx \in [Shard -> SUBSET InterTx]
  /\ rwsetMsgs \in SUBSET RwsetMsg
  /\ receivedTxRWset \in [Shard -> [Key -> Nat]]
CommitType ==
  /\ commitMsgs \in SUBSET CommitMsg
  /\ processedTxNum \in [Shard -> Nat]

TypeOK ==
  /\ PoolType
  /\ CoordType
  /\ EpochType
  /\ QueueType
  /\ RwsetType
  /\ CommitType
  /\ executed \in [Shard -> Seq(Tx)]

ExecutedBefore(d, t, u) ==
  \E i, j \in DOMAIN executed[d] : i < j /\ executed[d][i] = t /\ executed[d][j] = u

\* Two cross-shard transactions of one coordinator are executed in the same order by
\* every shard that takes part in both, and never twice: what epochs, caching and the
\* sorting of a batch by participants are for.
SameOrder ==
  \A d, e \in Shard : \A t, u \in InterTx :
    (/\ Coordinator[t] = Coordinator[u]
     /\ ExecutedBefore(d, t, u)
     /\ e \in Range(Participants[t])
     /\ u \in Range(executed[e])) => ExecutedBefore(e, t, u) /\ t # u

\* A shard has started the batches of a coordinator in the order of their epochs,
\* without a gap and without starting one twice.
InEpochOrder ==
  \A d, c \in Shard :
    /\ Len(delivered[d][c]) = precessedEpochIds[d][c]
    /\ precessedEpochIds[d][c] < epochIds[c][d]
    /\ \A i \in 1..Len(delivered[d][c]) : delivered[d][c][i] = flushed[c][d][i]

\* The parts of the inductive invariant behind InEpochOrder.  A batch, wherever it is,
\* holds only transactions of its coordinator in which its destination takes part ...
IsBatchFor(c, d, b) ==
  \A i \in DOMAIN b : Coordinator[b[i]] = c /\ d \in Range(Participants[b[i]])
Addressed ==
  /\ \A c, d \in Shard : /\ IsBatchFor(c, d, subTxs[c][d])
                         /\ \A e \in DOMAIN flushed[c][d] : IsBatchFor(c, d, flushed[c][d][e])
  /\ \A s \in Shard : \A item \in pool[s] :
       item.kind = "InterShard" => Coordinator[item.tx] = s

\* ... it is the one its coordinator produced under its epoch number ...
Produced(c, d, e, b) == e \in DOMAIN flushed[c][d] /\ flushed[c][d][e] = b
InTransitProduced ==
  /\ \A m \in batchMsgs : Produced(m.coord, m.dest, m.epoch, m.txs)
  /\ \A d \in Shard : \A item \in pool[d] :
       item.kind = "BatchedSubInterShard" => Produced(item.coord, d, item.epoch, item.txs)
  /\ \A d, c \in Shard : \A e \in DOMAIN cachedBatchTxs[d][c] :
       Produced(c, d, e, cachedBatchTxs[d][c][e])

\* ... the epoch counter is the number of batches produced, and a shard that empties its
\* cache finds the next epoch there.
EpochCounters ==
  /\ \A c, d \in Shard : epochIds[c][d] = Len(flushed[c][d]) + 1
  /\ \A d \in Shard : draining[d] # NoShard =>
       precessedEpochIds[d][draining[d]] + 1 \in DOMAIN cachedBatchTxs[d][draining[d]]

EpochInv == Addressed /\ InTransitProduced /\ EpochCounters /\ InEpochOrder

\* The commits that a shard has counted, or will count when the messages on the way
\* arrive, are its executed intra-shard transactions and the cross-shard transactions
\* it coordinates that their smallest participant has executed.
CommitCount ==
  \A s \in Shard :
    processedTxNum[s] + Cardinality({m \in commitMsgs : m.coord = s})
      = Cardinality({i \in DOMAIN executed[s] : executed[s][i] \in IntraTx})
        + Cardinality({t \in InterTx : /\ Coordinator[t] = s
                                       /\ t \in Range(executed[MinParticipant(t)])})

LocalKeys(d, t) == IF t \in InterTx THEN {LocalKey(d, t)} ELSE IntraKeys[t]

Waiting(d, t) == \E c \in Shard :
  t \in {e.tx : e \in Range(blockingTxQueues[d][c]) \cup Range(txQueues[d][c])}

\* Transactions that access a common state of a shard leave its queues in the order in
\* which the chain gives them, whatever queues they wait in: none overtakes another.
ConflictOrder ==
  \A d \in Shard : \A i, j \in DOMAIN arrived[d] :
    (/\ i < j
     /\ LocalKeys(d, arrived[d][i]) \cap LocalKeys(d, arrived[d][j]) # {}
     /\ Waiting(d, arrived[d][i])) => Waiting(d, arrived[d][j])

\* The first transaction, in the sorted order, of the batch that t is in: the one that
\* carries the read set of the whole batch.
BatchHead(c, d, t) ==
  LET i == CHOOSE i \in DOMAIN flushed[c][d] : t \in Range(flushed[c][d][i])
      r == CHOOSE r \in Reorderings(flushed[c][d][i]) : TRUE
      k == CHOOSE k \in DOMAIN r : /\ Participants[r[k]] = Participants[t]
                                   /\ \A j \in SameBatch(r, k) : k <= j
  IN r[k]

\* A shard executes a cross-shard transaction only after every other participant has
\* sent the read set of the batch the transaction belongs to (checkReadWriteKeyReady).
ReadSetBeforeExecute ==
  \A d \in Shard : \A i \in DOMAIN executed[d] :
    LET t == executed[d][i]
    IN t \in InterTx =>
         \A p \in Range(Participants[t]) \ {d} :
            BatchHead(Coordinator[t], d, t) \in sendedrwsetTx[p]

\* What lets every pair of conflicting transactions wait in one queue.  Nothing in the
\* code enforces it: it is up to the clients, who choose participants and coordinators.
\* Cross-shard transactions on one state of a shard have one coordinator: their queue.
OneCoordinatorPerState == \A t, u \in InterTx :
  \A d \in Range(Participants[t]) \cap Range(Participants[u]) :
    LocalKey(d, t) = LocalKey(d, u) => Coordinator[t] = Coordinator[u]

\* An intra-shard transaction accesses states that cross-shard transactions of one
\* coordinator, at most, lock at its shard: then one queue blocks it and not several.
OneCoordinatorEach == \A x \in IntraTx : \A t, u \in InterTx :
  (/\ Home[x] \in Range(Participants[t]) \cap Range(Participants[u])
   /\ LocalKey(Home[x], t) \in IntraKeys[x] /\ LocalKey(Home[x], u) \in IntraKeys[x]) =>
     Coordinator[t] = Coordinator[u]

\* Intra-shard transactions that share a state access the same ones of the states that
\* cross-shard transactions lock.
SameStatesLocked == \A x, y \in IntraTx :
  Home[x] = Home[y] /\ IntraKeys[x] \cap IntraKeys[y] # {} =>
    \A t \in InterTx : Home[x] \in Range(Participants[t]) /\ LocalKey(Home[x], t) \in IntraKeys[x]
                         => LocalKey(Home[x], t) \in IntraKeys[y]

ConflictsShareQueue == OneCoordinatorPerState /\ OneCoordinatorEach /\ SameStatesLocked

\* What lets a count of read sets per state (receivedTxRWset) stand for the read sets of
\* certain transactions.  Again it is up to the clients.  A state belongs to one shard ...
OneOwnerPerState == \A t, u \in InterTx :
  \A i \in DOMAIN Participants[t], j \in DOMAIN Participants[u] :
    RwKeys[t][i] = RwKeys[u][j] => Participants[t][i] = Participants[u][j]
\* ... and transactions that may end in one group of a batch, of which only the first one
\* carries its read set, access the same states.
GroupSharesStates == \A t, u \in InterTx :
  Coordinator[t] = Coordinator[u] /\ Participants[t] = Participants[u] => RwKeys[t] = RwKeys[u]
ReadSetsMatch == OneOwnerPerState /\ OneCoordinatorPerState /\ GroupSharesStates

\* Every transaction that was submitted is executed by all its shards in the end, and
\* counted once (processBlockingTxsPlus, responseCommitToCoordinator).
AllCommitted == \A workload \in Workloads : pool = Submitted(workload) =>
  <>[](\A s \in Shard :
         /\ processedTxNum[s] = Cardinality({x \in IntraTx \cap workload : Home[x] = s})
              + Cardinality({t \in InterTx \cap workload : Coordinator[t] = s})
         /\ Range(executed[s]) = {x \in IntraTx \cap workload : Home[x] = s}
              \cup {t \in InterTx \cap workload : s \in Range(Participants[t])})

\* The epoch mechanism implements in-order, exactly-once delivery of the batches.
OB == INSTANCE OrderedBatches WITH Shard <- Shard, Batch <- Batch,
                                   flushed <- flushed, delivered <- delivered
DeliversInOrder == OB!Spec
=============================================================================
