-------------------------- MODULE CrossShardProofs --------------------------
(***************************************************************************)
(* Proofs about CrossShard, for any shards, transactions and tree.         *)
(*                                                                         *)
(* The first part needs only what the queues and epochs say by themselves  *)
(* (IInv).  The second follows a transaction: every shard executes the     *)
(* cross-shard transactions of a coordinator in one order                  *)
(* (SameOrderCorrect), and the commits that a shard counts are those that  *)
(* happened (CommitCountCorrect).  A transaction has a place in the stream *)
(* of batches that its coordinator produces for each of its participants   *)
(* (PlaceInv).  At a participant it then stands in a line: blocked, in the *)
(* queue that is worked on, and executed.  The line is ordered as the      *)
(* streams are, each batch sorted (LineInv), and the streams order two     *)
(* transactions alike everywhere.                                          *)
(*                                                                         *)
(* The last two parts have hypotheses on the transactions, which only the  *)
(* clients can meet.  When conflicting transactions share a queue, none    *)
(* overtakes another (QueueInv, ConflictOrderCorrect).  When a count of    *)
(* read sets per state can stand for read sets of transactions, none is    *)
(* executed without the read sets of the others: what a shard has          *)
(* received, has on the way and has used up is what was sent for it        *)
(* (ReadInv, ReadSetBeforeExecuteCorrect).                                 *)
(***************************************************************************)
EXTENDS CrossShard, FiniteSetTheorems, TLAPS

\* Participants, keys and queue entries of a transaction (processBatchSubInterShardTxs)
\* have their types: LocalKey is a key for a participant, and so on.
LEMMA LocalKeyType ==
  ASSUME NEW t \in InterTx, NEW d \in Range(Participants[t])
  PROVE  LocalKey(d, t) \in Key
<1>1. PICK i \in DOMAIN Participants[t] : Participants[t][i] = d
  BY DEF Range
<1>2. IndexOf(d, t) \in DOMAIN Participants[t]
  BY <1>1 DEF IndexOf
<1>3. DOMAIN Participants[t] = DOMAIN RwKeys[t]
  BY TxAssumption
<1> QED BY <1>2, <1>3, TxAssumption DEF LocalKey

\* The keys that a transaction waits for are keys.
LEMMA RemoteKeysType ==
  ASSUME NEW t \in InterTx, NEW d PROVE RemoteKeys(d, t) \subseteq Key
<1>1. DOMAIN Participants[t] = DOMAIN RwKeys[t]
  BY TxAssumption
<1> QED BY <1>1, TxAssumption DEF RemoteKeys

\* Sorting a batch (ReadWriteKeyCompare) yields a batch of the same transactions.
LEMMA ReorderingType ==
  ASSUME NEW b \in Batch, NEW r \in Reorderings(b)
  PROVE  r \in Batch /\ Len(r) = Len(b) /\ \A k \in DOMAIN r : \E i \in DOMAIN b : r[k] = b[i]
<1>1. PICK p \in [DOMAIN b -> DOMAIN b] : r = [k \in DOMAIN b |-> b[p[k]]]
  BY DEF Reorderings
<1>2. b \in Seq(InterTx) /\ DOMAIN b = 1..Len(b) /\ Len(b) \in Nat
  BY DEF Batch
<1>3. r \in [1..Len(b) -> InterTx]
  BY <1>1, <1>2
<1>4. r \in Seq(InterTx) /\ Len(r) = Len(b)
  BY <1>2, <1>3
<1> QED BY <1>1, <1>4 DEF Batch

\* The entries that processReorderedTxs puts into a queue are entries.
LEMMA InterEntriesType ==
  ASSUME NEW d \in Shard, NEW r \in Batch,
         \A k \in DOMAIN r : d \in Range(Participants[r[k]])
  PROVE  InterEntries(d, r) \in Seq(Entry)
<1>1. ASSUME NEW k \in DOMAIN r PROVE InterEntry(d, r, k) \in Entry
  <2>1. r[k] \in InterTx
    BY DEF Batch
  <2>2. \A j \in SameBatch(r, k) : LocalKey(d, r[j]) \in Key
    BY LocalKeyType DEF SameBatch, Batch
  <2>3. RemoteKeys(d, r[k]) \subseteq Key
    BY <2>1, RemoteKeysType
  <2> QED BY <2>1, <2>2, <2>3 DEF InterEntry, Entry, InterEntrySet
<1> QED BY <1>1 DEF InterEntries, Batch

-----------------------------------------------------------------------------
(* Type correctness, action by action.                                     *)

\* Initially every variable has its type.
LEMMA TypeInit == Init => TypeOK
<1> SUFFICES ASSUME Init PROVE TypeOK
  OBVIOUS
<1>1. PoolType
  BY DEF Init, Submitted, PoolType, InterItem, IntraItem
<1>2. CoordType
  BY DEF Init, CoordType, Batch
<1>3. EpochType
  BY DEF Init, EpochType, CacheType, Batch
<1>4. QueueType /\ RwsetType /\ CommitType /\ executed \in [Shard -> Seq(Tx)]
  BY DEF Init, QueueType, RwsetType, CommitType
<1> QED BY <1>1, <1>2, <1>3, <1>4 DEF TypeOK

\* What an action leaves alone keeps its type.
LEMMA TypeUnchanged ==
  /\ UNCHANGED pool /\ PoolType => PoolType'
  /\ UNCHANGED coordVars /\ CoordType => CoordType'
  /\ UNCHANGED epochVars /\ EpochType => EpochType'
  /\ UNCHANGED queueVars /\ QueueType => QueueType'
  /\ UNCHANGED rwsetVars /\ RwsetType => RwsetType'
  /\ UNCHANGED commitVars /\ CommitType => CommitType'
<1>1. UNCHANGED pool /\ PoolType => PoolType'
  BY DEF PoolType
<1>2. UNCHANGED coordVars /\ CoordType => CoordType'
  BY DEF CoordType, coordVars
<1>3. UNCHANGED epochVars /\ EpochType => EpochType'
  BY DEF EpochType, CacheType, epochVars
<1>4. UNCHANGED queueVars /\ QueueType => QueueType'
  BY DEF QueueType, queueVars
<1>5. UNCHANGED rwsetVars /\ RwsetType => RwsetType'
  BY DEF RwsetType, rwsetVars
<1>6. UNCHANGED commitVars /\ CommitType => CommitType'
  BY DEF CommitType, commitVars
<1> QED BY <1>1, <1>2, <1>3, <1>4, <1>5, <1>6

\* The consensus thread keeps the types when it takes a client's cross-shard transaction.
LEMMA TypeInterShard ==
  ASSUME TypeOK, NEW s \in Shard, NEW t \in InterTx, ProcessInterShardTx(s, t)
  PROVE  TypeOK'
<1>1. PoolType'
  BY DEF TypeOK, PoolType, ProcessInterShardTx
<1>2. CoordType'
  <2>1. openBlock' \in [Shard -> BOOLEAN]
    BY DEF TypeOK, CoordType, ProcessInterShardTx, TakeFromChain
  <2>2. subTxs' \in [Shard -> [Shard -> Batch]]
    BY DEF TypeOK, CoordType, ProcessInterShardTx, Batch
  <2> QED BY <2>1, <2>2 DEF TypeOK, CoordType, ProcessInterShardTx
<1> QED BY <1>1, <1>2, TypeUnchanged DEF TypeOK, ProcessInterShardTx

\* The end of a block and the batches it produces (checkSubTxsContainers) keep the types.
LEMMA TypeEndOfBlock ==
  ASSUME TypeOK, NEW s \in Shard, EndOfBlock(s)
  PROVE  TypeOK'
<1>1. openBlock' \in [Shard -> BOOLEAN] /\ blockid' \in [Shard -> Nat]
  BY ShardAssumption DEF TypeOK, CoordType, EndOfBlock
<1>2. CASE CheckSubTxsContainers(s)
  <2>1. \A d \in Shard : subTxs[s][d] \in Batch /\ epochIds[s][d] \in Nat
    BY DEF TypeOK, CoordType
  <2>2. PoolType'
    BY <1>2, <2>1 DEF TypeOK, PoolType, CheckSubTxsContainers, BatchItem
  <2>3. batchMsgs' \in SUBSET BatchMsg
    BY <1>2, <2>1 DEF TypeOK, CoordType, CheckSubTxsContainers, BatchMsg
  <2>4. epochIds' \in [Shard -> [Shard -> Nat]]
    BY <1>2, <2>1 DEF TypeOK, CoordType, CheckSubTxsContainers
  <2>5. flushed' \in [Shard -> [Shard -> Seq(Batch)]]
    BY <1>2, <2>1 DEF TypeOK, CoordType, CheckSubTxsContainers
  <2>6. subTxs' \in [Shard -> [Shard -> Batch]]
    BY <1>2 DEF TypeOK, CoordType, CheckSubTxsContainers, Batch
  <2> QED BY <1>1, <2>2, <2>3, <2>4, <2>5, <2>6, TypeUnchanged DEF TypeOK, CoordType, EndOfBlock
<1>3. CASE UNCHANGED <<pool, subTxs, epochIds, batchMsgs, flushed>>
  BY <1>1, <1>3, TypeUnchanged DEF TypeOK, CoordType, EndOfBlock
<1> QED BY <1>2, <1>3 DEF EndOfBlock

\* receiveRemoteMsgWorker and receiveRemoteCommitMsgWorker keep the types.
LEMMA TypeReceive ==
  ASSUME TypeOK, NEW m, ReceiveBatchDistributedTxMsg(m) \/ ReceiveRwset(m) \/ ReceiveCommit(m)
  PROVE  TypeOK'
<1>1. CASE ReceiveBatchDistributedTxMsg(m)
  <2>1. m \in BatchMsg
    BY <1>1 DEF ReceiveBatchDistributedTxMsg, TypeOK, CoordType
  <2>2. PoolType'
    BY <1>1, <2>1 DEF TypeOK, PoolType, ReceiveBatchDistributedTxMsg, BatchMsg, BatchItem
  <2>3. CoordType'
    BY <1>1 DEF TypeOK, CoordType, ReceiveBatchDistributedTxMsg
  <2> QED BY <1>1, <2>2, <2>3, TypeUnchanged DEF TypeOK, ReceiveBatchDistributedTxMsg
<1>2. CASE ReceiveRwset(m)
  <2>1. m \in RwsetMsg
    BY <1>2 DEF ReceiveRwset, TypeOK, RwsetType
  <2>2. RwsetType'
    BY <1>2, <2>1 DEF TypeOK, RwsetType, ReceiveRwset, RwsetMsg
  <2> QED BY <1>2, <2>2, TypeUnchanged DEF TypeOK, ReceiveRwset
<1>3. CASE ReceiveCommit(m)
  <2>1. m \in CommitMsg
    BY <1>3 DEF ReceiveCommit, TypeOK, CommitType
  <2>2. CommitType'
    BY <1>3, <2>1 DEF TypeOK, CommitType, ReceiveCommit, CommitMsg
  <2> QED BY <1>3, <2>2, TypeUnchanged DEF TypeOK, ReceiveCommit
<1> QED BY <1>1, <1>2, <1>3

\* A batch that enters the queue of its coordinator keeps the types.
LEMMA TypeProcessBatch ==
  ASSUME TypeOK, NEW d \in Shard, NEW c \in Shard, NEW b \in Batch, IsBatchFor(c, d, b),
         ProcessBatchSubInterShardTxs(d, c, b)
  PROVE  QueueType' /\ delivered' \in [Shard -> [Shard -> Seq(Batch)]]
<1>1. PICK r \in Reorderings(b) :
        /\ blockingTxQueues' = [blockingTxQueues EXCEPT ![d][c] = @ \o InterEntries(d, r)]
        /\ lockingkeys' = [lockingkeys EXCEPT ![d][c] = @ \cup {LocalKey(d, t) : t \in Range(r)}]
        /\ arrived' = [arrived EXCEPT ![d] = @ \o r]
        /\ delivered' = [delivered EXCEPT ![d][c] = Append(@, b)]
        /\ UNCHANGED txQueues
  BY DEF ProcessBatchSubInterShardTxs
<1>2. r \in Batch /\ \A k \in DOMAIN r : \E i \in DOMAIN b : r[k] = b[i]
  BY ReorderingType
<1>3. \A k \in DOMAIN r : d \in Range(Participants[r[k]])
  BY <1>2 DEF IsBatchFor
<1>4. InterEntries(d, r) \in Seq(Entry)
  BY <1>2, <1>3, InterEntriesType
<1>5. blockingTxQueues' \in [Shard -> [Shard -> Seq(Entry)]]
  BY <1>1, <1>4 DEF TypeOK, QueueType
<1>6. {LocalKey(d, t) : t \in Range(r)} \subseteq Key
  BY <1>2, <1>3, LocalKeyType DEF Range, Batch
<1>7. lockingkeys' \in [Shard -> [Shard -> SUBSET Key]]
  BY <1>1, <1>6 DEF TypeOK, QueueType
<1>8. r \in Seq(Tx)
  BY <1>2 DEF Batch, Tx
<1>9. arrived' \in [Shard -> Seq(Tx)]
  BY <1>1, <1>8 DEF TypeOK, QueueType
<1>10. delivered' \in [Shard -> [Shard -> Seq(Batch)]]
  BY <1>1 DEF TypeOK, EpochType
<1> QED BY <1>1, <1>5, <1>7, <1>9, <1>10 DEF TypeOK, QueueType

\* processOrderedBatchedSubInterShardTxs keeps the types, whether the batch is the next
\* one or goes into the cache.
LEMMA TypeOrderedBatch ==
  ASSUME TypeOK, EpochInv, NEW d \in Shard, NEW item \in pool[d],
         ProcessOrderedBatchedSubInterShardTxs(d, item)
  PROVE  TypeOK'
<1>1. item \in BatchItem /\ item.kind = "BatchedSubInterShard"
  BY DEF ProcessOrderedBatchedSubInterShardTxs, TypeOK, PoolType, InterItem, IntraItem
<1>2. item.coord \in Shard /\ item.epoch \in Nat /\ item.txs \in Batch
  BY <1>1 DEF BatchItem
<1>3. PoolType'
  BY DEF ProcessOrderedBatchedSubInterShardTxs, TypeOK, PoolType
<1>4. CoordType'
  BY DEF ProcessOrderedBatchedSubInterShardTxs, TakeFromChain, TypeOK, CoordType
<1>5. CASE ProcessNextEpoch(d, item)
  <2>1. IsBatchFor(item.coord, d, item.txs)
    BY <1>1, <1>2 DEF EpochInv, InTransitProduced, Produced, Addressed
  <2>2. ProcessBatchSubInterShardTxs(d, item.coord, item.txs)
    BY <1>5 DEF ProcessNextEpoch
  <2>3. QueueType' /\ delivered' \in [Shard -> [Shard -> Seq(Batch)]]
    BY <1>2, <2>1, <2>2, TypeProcessBatch
  <2>4. precessedEpochIds' \in [Shard -> [Shard -> Nat]]
    BY <1>2, <1>5 DEF ProcessNextEpoch, TypeOK, EpochType
  <2>5. draining' \in [Shard -> Shard \cup {NoShard}]
    BY <1>2, <1>5 DEF ProcessNextEpoch, TypeOK, EpochType
  <2>6. CacheType'
    BY <1>5 DEF ProcessNextEpoch, TypeOK, EpochType, CacheType
  <2> QED BY <1>3, <1>4, <2>3, <2>4, <2>5, <2>6, TypeUnchanged
          DEF TypeOK, EpochType, ProcessOrderedBatchedSubInterShardTxs
<1>6. CASE CacheBatch(d, item)
  <2>1. CacheType'
    <3> DEFINE old == cachedBatchTxs[d][item.coord]
               new == [e \in DOMAIN old \cup {item.epoch} |->
                         IF e \in DOMAIN old THEN old[e] ELSE item.txs]
    <3>1. cachedBatchTxs' = [cachedBatchTxs EXCEPT ![d][item.coord] = new]
      BY <1>6 DEF CacheBatch
    <3>2. CacheType
      BY DEF TypeOK, EpochType
    <3>3. DOMAIN new \subseteq Nat /\ \A e \in DOMAIN new : new[e] \in Batch
      BY <1>2, <3>2 DEF CacheType
    <3> HIDE DEF new
    <3> QED BY <1>2, <3>1, <3>2, <3>3 DEF CacheType
  <2>2. EpochType'
    BY <1>6, <2>1 DEF CacheBatch, TypeOK, EpochType
  <2>3. UNCHANGED queueVars
    BY <1>6 DEF CacheBatch
  <2> QED BY <1>3, <1>4, <2>2, <2>3, TypeUnchanged
          DEF TypeOK, ProcessOrderedBatchedSubInterShardTxs
<1> QED BY <1>5, <1>6 DEF ProcessOrderedBatchedSubInterShardTxs

\* Emptying the cache keeps the types.
LEMMA TypeDrain ==
  ASSUME TypeOK, EpochInv, NEW d \in Shard, DrainCachedBatch(d)
  PROVE  TypeOK'
<1> DEFINE c == draining[d]
           e == precessedEpochIds[d][c] + 1
<1>1. c \in Shard
  BY DEF DrainCachedBatch, TypeOK, EpochType
<1>2. e \in DOMAIN cachedBatchTxs[d][c]
  BY DEF DrainCachedBatch, EpochInv, EpochCounters
<1>3. e \in Nat /\ cachedBatchTxs[d][c][e] \in Batch
  BY <1>1, <1>2 DEF TypeOK, EpochType, CacheType
<1>4. IsBatchFor(c, d, cachedBatchTxs[d][c][e])
  BY <1>1, <1>2 DEF EpochInv, InTransitProduced, Produced, Addressed
<1>5. ProcessBatchSubInterShardTxs(d, c, cachedBatchTxs[d][c][e])
  BY DEF DrainCachedBatch
<1>6. QueueType' /\ delivered' \in [Shard -> [Shard -> Seq(Batch)]]
  BY <1>1, <1>3, <1>4, <1>5, TypeProcessBatch
<1>7. precessedEpochIds' \in [Shard -> [Shard -> Nat]]
  BY <1>1, <1>3 DEF DrainCachedBatch, TypeOK, EpochType
<1>8. draining' \in [Shard -> Shard \cup {NoShard}]
  BY <1>1 DEF DrainCachedBatch, TypeOK, EpochType
<1>9. CacheType'
  BY DEF DrainCachedBatch, TypeOK, EpochType, CacheType
<1> QED BY <1>6, <1>7, <1>8, <1>9, TypeUnchanged DEF TypeOK, EpochType, DrainCachedBatch

\* processSingleIntraShardTx keeps the types.
LEMMA TypeIntraShard ==
  ASSUME TypeOK, NEW d \in Shard, NEW x \in IntraTx, ProcessSingleIntraShardTx(d, x)
  PROVE  TypeOK'
<1> DEFINE Q == BlockingQueueKeys(d, x)
<1>1. PoolType'
  BY DEF ProcessSingleIntraShardTx, TypeOK, PoolType
<1>2. CoordType'
  BY DEF ProcessSingleIntraShardTx, TakeFromChain, TypeOK, CoordType
<1>3. x \in Tx
  BY DEF Tx
<1>4. arrived' \in [Shard -> Seq(Tx)]
  BY <1>3 DEF ProcessSingleIntraShardTx, TypeOK, QueueType
<1>5. Q \subseteq Shard
  BY ShardAssumption DEF BlockingQueueKeys, Range
<1>6. IntraEntry(x, Q) \in Entry
  BY <1>5 DEF IntraEntry, Entry, IntraEntrySet
<1>7. CASE Q = {}
  <2>1. /\ executed' = [executed EXCEPT ![d] = Append(@, x)]
        /\ processedTxNum' = [processedTxNum EXCEPT ![d] = @ + 1]
        /\ UNCHANGED <<blockingTxQueues, lockingkeys, txQueues, commitMsgs>>
    BY <1>7 DEF ProcessSingleIntraShardTx
  <2>2. executed' \in [Shard -> Seq(Tx)]
    BY <1>3, <2>1 DEF TypeOK
  <2>3. CommitType'
    BY <2>1 DEF TypeOK, CommitType
  <2>4. QueueType'
    BY <1>4, <2>1 DEF TypeOK, QueueType
  <2> QED BY <1>1, <1>2, <2>2, <2>3, <2>4, TypeUnchanged DEF TypeOK, ProcessSingleIntraShardTx
<1>8. CASE Q # {}
  <2> DEFINE z == FirstQueue(d, Q)
             entry == IntraEntry(x, Q)
  <2>1. /\ blockingTxQueues' = [blockingTxQueues EXCEPT ![d][z] = Append(@, entry)]
        /\ UNCHANGED <<executed, processedTxNum, lockingkeys, txQueues, commitMsgs>>
    BY <1>8 DEF ProcessSingleIntraShardTx
  <2> HIDE DEF z, entry
  <2>2. blockingTxQueues' \in [Shard -> [Shard -> Seq(Entry)]]
    <3>1. entry \in Entry
      BY <1>6 DEF entry
    <3>2. blockingTxQueues \in [Shard -> [Shard -> Seq(Entry)]]
      BY DEF TypeOK, QueueType
    <3>3. CASE z \in Shard
      BY <2>1, <3>1, <3>2, <3>3
    <3>4. CASE z \notin Shard
      BY <2>1, <3>2, <3>4
    <3> QED BY <3>3, <3>4
  <2>3. QueueType'
    BY <1>4, <2>1, <2>2 DEF TypeOK, QueueType
  <2>4. CommitType' /\ executed' \in [Shard -> Seq(Tx)]
    BY <2>1 DEF TypeOK, CommitType
  <2> QED BY <1>1, <1>2, <2>3, <2>4, TypeUnchanged DEF TypeOK, ProcessSingleIntraShardTx
<1> QED BY <1>7, <1>8

\* batch_pop and the sending of a read set keep the types.
LEMMA TypeBatchPop ==
  ASSUME TypeOK, NEW d \in Shard, NEW c \in Shard, BatchPop(d, c)
  PROVE  TypeOK'
<1>1. QueueType'
  BY DEF BatchPop, TypeOK, QueueType
<1> QED BY <1>1, TypeUnchanged DEF TypeOK, BatchPop

\* The head of a queue is an entry.
LEMMA HeadType ==
  ASSUME TypeOK, NEW d \in Shard, NEW c \in Shard, txQueues[d][c] # <<>>
  PROVE  Head(txQueues[d][c]) \in Entry
BY DEF TypeOK, QueueType

\* Sending the read set of a batch keeps the types.
LEMMA TypeSend ==
  ASSUME TypeOK, NEW d \in Shard, NEW c \in Shard, SendReadWriteSet(d, c)
  PROVE  TypeOK'
<1> DEFINE head == Head(txQueues[d][c])
<1>1. head \in Entry /\ head.inter
  BY HeadType DEF SendReadWriteSet
<1>2. head.tx \in InterTx /\ head.send \subseteq Key
  BY <1>1 DEF Entry, InterEntrySet, IntraEntrySet
<1>3. Range(Participants[head.tx]) \subseteq Shard
  BY <1>2, TxAssumption DEF Range
<1>4. sendedrwsetTx' \in [Shard -> SUBSET InterTx]
  BY <1>2 DEF SendReadWriteSet, TypeOK, RwsetType
<1>5. rwsetMsgs' \in SUBSET RwsetMsg
  BY <1>2, <1>3 DEF SendReadWriteSet, TypeOK, RwsetType, RwsetMsg
<1> QED BY <1>4, <1>5, TypeUnchanged DEF TypeOK, RwsetType, SendReadWriteSet

\* Executing a cross-shard transaction keeps the types: the number of read sets received
\* for a key never falls below zero.
LEMMA TypeExecuteInter ==
  ASSUME TypeOK, NEW d \in Shard, NEW c \in Shard, ExecuteInterShardTx(d, c)
  PROVE  TypeOK'
<1> DEFINE head == Head(txQueues[d][c])
<1>1. head \in Entry /\ head.inter
  BY HeadType DEF ExecuteInterShardTx
<1>2. head.tx \in InterTx /\ head.recv \subseteq Key
  BY <1>1 DEF Entry, InterEntrySet, IntraEntrySet
<1>3. QueueType'
  BY SMTT(30) DEF ExecuteInterShardTx, PopHead, TypeOK, QueueType
<1>4. executed' \in [Shard -> Seq(Tx)]
  BY <1>2 DEF ExecuteInterShardTx, TypeOK, Tx
<1>5. receivedTxRWset' \in [Shard -> [Key -> Nat]]
  <2>1. \A k \in head.recv : receivedTxRWset[d][k] # 0
    BY DEF ExecuteInterShardTx, Ready
  <2>2. receivedTxRWset' = [receivedTxRWset EXCEPT ![d] = [k \in Key |->
          IF head.lastTxInBatch /\ k \in head.recv THEN @[k] - 1 ELSE @[k]]]
    BY DEF ExecuteInterShardTx, Consume
  <2>3. \A k \in Key : receivedTxRWset[d][k] \in Nat
    BY DEF TypeOK, RwsetType
  <2>4. [k \in Key |-> IF head.lastTxInBatch /\ k \in head.recv
                       THEN receivedTxRWset[d][k] - 1 ELSE receivedTxRWset[d][k]] \in [Key -> Nat]
    BY <2>1, <2>3
  <2> QED BY <2>2, <2>4 DEF TypeOK, RwsetType
<1>6. CommitType'
  <2>1. Coordinator[head.tx] \in Shard
    BY <1>2, TxAssumption
  <2>2. ReportCommit(d, head.tx)
    BY DEF ExecuteInterShardTx
  <2>3. [coord |-> Coordinator[head.tx], from |-> d, tx |-> head.tx] \in CommitMsg
    BY <1>2, <2>1 DEF CommitMsg
  <2>4. \/ UNCHANGED commitVars
        \/ /\ processedTxNum' = [processedTxNum EXCEPT ![d] = @ + 1]
           /\ UNCHANGED commitMsgs
        \/ /\ commitMsgs' = commitMsgs \cup
                {[coord |-> Coordinator[head.tx], from |-> d, tx |-> head.tx]}
           /\ UNCHANGED processedTxNum
    BY <2>2 DEF ReportCommit
  <2>5. commitMsgs \in SUBSET CommitMsg /\ processedTxNum \in [Shard -> Nat]
    BY DEF TypeOK, CommitType
  <2>6. commitMsgs' \in SUBSET CommitMsg
    BY <2>3, <2>4, <2>5 DEF commitVars
  <2>7. processedTxNum' \in [Shard -> Nat]
    BY <2>4, <2>5 DEF commitVars
  <2> QED BY <2>6, <2>7 DEF CommitType
<1> QED BY <1>3, <1>4, <1>5, <1>6, TypeUnchanged DEF TypeOK, RwsetType, ExecuteInterShardTx

\* Taking an intra-shard transaction off a queue keeps the types.
LEMMA TypeExecuteIntra ==
  ASSUME TypeOK, NEW d \in Shard, NEW c \in Shard, ExecuteBlockedIntraShardTx(d, c)
  PROVE  TypeOK'
<1>1. Head(txQueues[d][c]).tx \in Tx
  BY HeadType DEF ExecuteBlockedIntraShardTx, Entry, InterEntrySet, IntraEntrySet, Tx
<1>2. QueueType'
  <2>1. Tail(txQueues[d][c]) \in Seq(Entry)
    BY DEF ExecuteBlockedIntraShardTx, TypeOK, QueueType
  <2>2. txQueues' \in [Shard -> [Shard -> Seq(Entry)]]
    BY <2>1 DEF ExecuteBlockedIntraShardTx, PopHead, TypeOK, QueueType
  <2> QED BY <2>2 DEF ExecuteBlockedIntraShardTx, TypeOK, QueueType
<1>3. executed' \in [Shard -> Seq(Tx)]
  BY <1>1 DEF ExecuteBlockedIntraShardTx, TypeOK
<1>4. CommitType'
  BY DEF ExecuteBlockedIntraShardTx, TypeOK, CommitType
<1> QED BY <1>2, <1>3, <1>4, TypeUnchanged DEF TypeOK, ExecuteBlockedIntraShardTx

-----------------------------------------------------------------------------
(* The epoch invariant, action by action.                                  *)

\* A step that only takes transactions off the chain and leaves containers, epochs,
\* caches and batches alone keeps the epoch invariant.
LEMMA EpochUnchanged ==
  ASSUME TypeOK, EpochInv, \A s \in Shard : pool'[s] \subseteq pool[s],
         UNCHANGED <<subTxs, epochIds, batchMsgs, flushed, epochVars>>
  PROVE  EpochInv'
<1>1. Addressed'
  BY DEF EpochInv, Addressed, IsBatchFor
<1>2. InTransitProduced'
  BY DEF EpochInv, InTransitProduced, Produced, epochVars
<1>3. EpochCounters'
  BY DEF EpochInv, EpochCounters, epochVars
<1>4. InEpochOrder'
  BY DEF EpochInv, InEpochOrder, epochVars
<1> QED BY <1>1, <1>2, <1>3, <1>4 DEF EpochInv

\* accumulateSubTxs puts a transaction only into containers of its participants.
LEMMA EpochInterShard ==
  ASSUME TypeOK, EpochInv, NEW s \in Shard, NEW t \in InterTx, ProcessInterShardTx(s, t)
  PROVE  EpochInv'
<1>1. UNCHANGED <<epochIds, batchMsgs, flushed, precessedEpochIds, cachedBatchTxs, draining, delivered>>
  BY DEF ProcessInterShardTx, epochVars
<1>2. \A x \in Shard : pool'[x] \subseteq pool[x]
  BY DEF ProcessInterShardTx, TypeOK, PoolType
<1>3. Coordinator[t] = s
  BY DEF ProcessInterShardTx, TakeFromChain, EpochInv, Addressed
<1>4. ASSUME NEW c \in Shard, NEW d \in Shard PROVE IsBatchFor(c, d, subTxs'[c][d])
  <2>1. subTxs \in [Shard -> [Shard -> Batch]] /\ IsBatchFor(c, d, subTxs[c][d])
    BY DEF TypeOK, CoordType, EpochInv, Addressed
  <2>2. CASE c = s /\ d \in Range(Participants[t])
    <3>1. subTxs'[c][d] = Append(subTxs[c][d], t)
      BY <2>1, <2>2 DEF ProcessInterShardTx
    <3> QED BY <1>3, <2>1, <2>2, <3>1 DEF IsBatchFor, Batch
  <2>3. CASE ~(c = s /\ d \in Range(Participants[t]))
    <3>1. subTxs'[c][d] = subTxs[c][d]
      BY <2>1, <2>3 DEF ProcessInterShardTx
    <3> QED BY <2>1, <3>1
  <2> QED BY <2>2, <2>3
<1>5. Addressed'
  BY <1>1, <1>2, <1>4 DEF EpochInv, Addressed, IsBatchFor
<1>6. InTransitProduced'
  BY <1>1, <1>2 DEF EpochInv, InTransitProduced, Produced
<1>7. EpochCounters' /\ InEpochOrder'
  BY <1>1 DEF EpochInv, EpochCounters, InEpochOrder
<1> QED BY <1>5, <1>6, <1>7 DEF EpochInv

\* checkSubTxsContainers adds at most one batch to each stream of its coordinator.
LEMMA FlushGrows ==
  ASSUME TypeOK, NEW s \in Shard, CheckSubTxsContainers(s), NEW c \in Shard, NEW d \in Shard
  PROVE  /\ c = s /\ subTxs[s][d] # <<>> =>
               /\ flushed'[c][d] = Append(flushed[c][d], subTxs[s][d])
               /\ epochIds'[c][d] = epochIds[c][d] + 1
         /\ ~(c = s /\ subTxs[s][d] # <<>>) =>
               flushed'[c][d] = flushed[c][d] /\ epochIds'[c][d] = epochIds[c][d]
         /\ c = s => subTxs'[c][d] = <<>>
         /\ c # s => subTxs'[c][d] = subTxs[c][d]
         /\ \A i \in DOMAIN flushed[c][d] : i \in DOMAIN flushed'[c][d] /\ flushed'[c][d][i] = flushed[c][d][i]
         /\ epochIds[c][d] <= epochIds'[c][d]
<1>1. /\ flushed \in [Shard -> [Shard -> Seq(Batch)]]
      /\ epochIds \in [Shard -> [Shard -> Nat]]
      /\ subTxs \in [Shard -> [Shard -> Batch]]
  BY DEF TypeOK, CoordType
<1>2. flushed' = [flushed EXCEPT ![s] = [e \in Shard |->
        IF subTxs[s][e] # <<>> THEN Append(flushed[s][e], subTxs[s][e]) ELSE flushed[s][e]]]
  BY <1>1 DEF CheckSubTxsContainers
<1>3. epochIds' = [epochIds EXCEPT ![s] = [e \in Shard |->
        IF subTxs[s][e] # <<>> THEN epochIds[s][e] + 1 ELSE epochIds[s][e]]]
  BY <1>1 DEF CheckSubTxsContainers
<1>4. subTxs' = [subTxs EXCEPT ![s] = [e \in Shard |-> <<>>]]
  BY DEF CheckSubTxsContainers
<1>5. flushed[c][d] \in Seq(Batch) /\ subTxs[s][d] \in Batch /\ epochIds[c][d] \in Nat
  BY <1>1
<1>6. CASE c = s /\ subTxs[s][d] # <<>>
  <2>1. flushed'[c][d] = Append(flushed[c][d], subTxs[s][d]) /\ epochIds'[c][d] = epochIds[c][d] + 1
    BY <1>1, <1>2, <1>3, <1>6
  <2> QED BY <1>1, <1>4, <1>5, <1>6, <2>1
<1>7. CASE ~(c = s /\ subTxs[s][d] # <<>>)
  <2>1. flushed'[c][d] = flushed[c][d] /\ epochIds'[c][d] = epochIds[c][d]
    BY <1>1, <1>2, <1>3, <1>7
  <2>2. /\ c = s => subTxs'[c][d] = <<>>
        /\ c # s => subTxs'[c][d] = subTxs[c][d]
    BY <1>1, <1>4
  <2>3. epochIds[c][d] <= epochIds'[c][d]
    BY <1>5, <2>1
  <2> QED BY <1>7, <2>1, <2>2, <2>3
<1> QED BY <1>6, <1>7

\* The end of a block keeps the epoch invariant: a new batch gets the number of its
\* place in the stream, and no batch in transit changes.
LEMMA EpochEndOfBlock ==
  ASSUME TypeOK, EpochInv, NEW s \in Shard, EndOfBlock(s)
  PROVE  EpochInv'
<1>1. UNCHANGED <<precessedEpochIds, cachedBatchTxs, draining, delivered>>
  BY DEF EndOfBlock, epochVars
<1>2. CASE UNCHANGED <<pool, subTxs, epochIds, batchMsgs, flushed>>
  BY <1>2, <1>1, EpochUnchanged DEF epochVars
<1>3. CASE CheckSubTxsContainers(s)
  <2>1. /\ flushed \in [Shard -> [Shard -> Seq(Batch)]]
        /\ subTxs \in [Shard -> [Shard -> Batch]]
        /\ epochIds \in [Shard -> [Shard -> Nat]]
    BY DEF TypeOK, CoordType
  <2>2. \A c, d \in Shard : epochIds[c][d] = Len(flushed[c][d]) + 1
    BY DEF EpochInv, EpochCounters
  <2> DEFINE ProducedNow(c, d, e, b) == e \in DOMAIN flushed'[c][d] /\ flushed'[c][d][e] = b
  <2>3. ASSUME NEW c \in Shard, NEW d \in Shard, NEW e, NEW b, Produced(c, d, e, b)
        PROVE  ProducedNow(c, d, e, b)
    BY <1>3, <2>1, <2>3, FlushGrows DEF Produced
  <2>4. ASSUME NEW d \in Shard, subTxs[s][d] # <<>>
        PROVE  ProducedNow(s, d, epochIds[s][d], subTxs[s][d])
    <3>1. flushed'[s][d] = Append(flushed[s][d], subTxs[s][d])
      BY <1>3, <2>4, FlushGrows
    <3>2. epochIds[s][d] = Len(flushed[s][d]) + 1
      BY <2>2
    <3>3. flushed[s][d] \in Seq(Batch) /\ subTxs[s][d] \in Batch
      BY <2>1
    <3> QED BY <3>1, <3>2, <3>3
  <2>5. Addressed'
    <3>1. ASSUME NEW c \in Shard, NEW d \in Shard
          PROVE  /\ IsBatchFor(c, d, subTxs'[c][d])
                 /\ \A e \in DOMAIN flushed'[c][d] : IsBatchFor(c, d, flushed'[c][d][e])
      <4>1. /\ IsBatchFor(c, d, subTxs[c][d])
            /\ \A e \in DOMAIN flushed[c][d] : IsBatchFor(c, d, flushed[c][d][e])
        BY DEF EpochInv, Addressed
      <4>2. IsBatchFor(c, d, <<>>)
        BY DEF IsBatchFor
      <4>3. IsBatchFor(c, d, subTxs'[c][d])
        BY <1>3, <4>1, <4>2, FlushGrows
      <4>4. CASE c = s /\ subTxs[s][d] # <<>>
        <5>1. flushed'[c][d] = Append(flushed[c][d], subTxs[c][d])
          BY <1>3, <4>4, FlushGrows
        <5>2. flushed[c][d] \in Seq(Batch) /\ subTxs[c][d] \in Batch
          BY <2>1
        <5>3. ASSUME NEW e \in DOMAIN flushed'[c][d]
              PROVE  \/ e \in DOMAIN flushed[c][d] /\ flushed'[c][d][e] = flushed[c][d][e]
                     \/ flushed'[c][d][e] = subTxs[c][d]
          BY <5>1, <5>2
        <5> QED BY <4>1, <4>3, <5>3
      <4>5. CASE ~(c = s /\ subTxs[s][d] # <<>>)
        BY <1>3, <4>1, <4>3, <4>5, FlushGrows
      <4> QED BY <4>4, <4>5
    <3>2. ASSUME NEW x \in Shard, NEW item \in pool'[x], item.kind = "InterShard"
          PROVE  Coordinator[item.tx] = x
      <4>1. item \in pool[x]
        BY <1>3, <3>2 DEF CheckSubTxsContainers, TypeOK, PoolType
      <4> QED BY <3>2, <4>1 DEF EpochInv, Addressed
    <3> QED BY <3>1, <3>2 DEF Addressed, IsBatchFor
  <2>6. InTransitProduced'
    <3>1. ASSUME NEW m \in batchMsgs' PROVE ProducedNow(m.coord, m.dest, m.epoch, m.txs)
      <4>1. CASE m \in batchMsgs
        <5>1. m.coord \in Shard /\ m.dest \in Shard
          BY <4>1 DEF TypeOK, CoordType, BatchMsg
        <5>2. Produced(m.coord, m.dest, m.epoch, m.txs)
          BY <4>1 DEF EpochInv, InTransitProduced
        <5> QED BY <2>3, <5>1, <5>2
      <4>2. CASE m \notin batchMsgs
        <5>1. PICK d \in Shard : /\ subTxs[s][d] # <<>>
                                 /\ m = [coord |-> s, epoch |-> epochIds[s][d], dest |-> d,
                                         txs |-> subTxs[s][d]]
          BY <1>3, <4>2 DEF CheckSubTxsContainers
        <5>2. m.coord = s /\ m.dest = d /\ m.epoch = epochIds[s][d] /\ m.txs = subTxs[s][d]
          BY <5>1
        <5> QED BY <2>4, <5>1, <5>2
      <4> QED BY <4>1, <4>2
    <3>2. ASSUME NEW d \in Shard, NEW item \in pool'[d], item.kind = "BatchedSubInterShard"
          PROVE  ProducedNow(item.coord, d, item.epoch, item.txs)
      <4>1. CASE item \in pool[d]
        <5>1. item.coord \in Shard
          BY <3>2, <4>1 DEF TypeOK, PoolType, BatchItem, InterItem, IntraItem
        <5>2. Produced(item.coord, d, item.epoch, item.txs)
          BY <3>2, <4>1 DEF EpochInv, InTransitProduced
        <5> QED BY <2>3, <5>1, <5>2
      <4>2. CASE item \notin pool[d]
        <5>1. /\ d = s /\ subTxs[s][s] # <<>>
              /\ item = [kind |-> "BatchedSubInterShard", coord |-> s, epoch |-> epochIds[s][s],
                         txs |-> subTxs[s][s]]
          BY <1>3, <4>2 DEF CheckSubTxsContainers, TypeOK, PoolType
        <5>2. item.coord = s /\ item.epoch = epochIds[s][s] /\ item.txs = subTxs[s][s]
          BY <5>1
        <5> QED BY <2>4, <5>1, <5>2
      <4> QED BY <4>1, <4>2
    <3>3. ASSUME NEW d \in Shard, NEW c \in Shard, NEW e \in DOMAIN cachedBatchTxs'[d][c]
          PROVE  ProducedNow(c, d, e, cachedBatchTxs'[d][c][e])
      <4>1. Produced(c, d, e, cachedBatchTxs[d][c][e])
        BY <1>1 DEF EpochInv, InTransitProduced
      <4> QED BY <1>1, <2>3, <4>1
    <3> QED BY <3>1, <3>2, <3>3 DEF InTransitProduced, Produced
  <2>7. EpochCounters'
    <3>1. ASSUME NEW c \in Shard, NEW d \in Shard
          PROVE  epochIds'[c][d] = Len(flushed'[c][d]) + 1
      <4>1. flushed[c][d] \in Seq(Batch) /\ subTxs[s][d] \in Batch /\ epochIds[c][d] = Len(flushed[c][d]) + 1
        BY <2>1, <2>2
      <4>2. CASE c = s /\ subTxs[s][d] # <<>>
        <5>1. flushed'[c][d] = Append(flushed[c][d], subTxs[s][d]) /\ epochIds'[c][d] = epochIds[c][d] + 1
          BY <1>3, <4>2, FlushGrows
        <5> QED BY <4>1, <5>1
      <4>3. CASE ~(c = s /\ subTxs[s][d] # <<>>)
        <5>1. flushed'[c][d] = flushed[c][d] /\ epochIds'[c][d] = epochIds[c][d]
          BY <1>3, <4>3, FlushGrows
        <5> QED BY <4>1, <5>1
      <4> QED BY <4>2, <4>3
    <3> QED BY <1>1, <3>1 DEF EpochInv, EpochCounters
  <2>8. InEpochOrder'
    <3> SUFFICES ASSUME NEW d \in Shard, NEW c \in Shard
                 PROVE  /\ Len(delivered[d][c]) = precessedEpochIds[d][c]
                        /\ precessedEpochIds[d][c] < epochIds'[c][d]
                        /\ \A i \in 1..Len(delivered[d][c]) :
                              delivered[d][c][i] = flushed'[c][d][i]
      BY <1>1 DEF InEpochOrder
    <3>1. /\ Len(delivered[d][c]) = precessedEpochIds[d][c]
          /\ precessedEpochIds[d][c] < epochIds[c][d]
          /\ \A i \in 1..Len(delivered[d][c]) : delivered[d][c][i] = flushed[c][d][i]
      BY DEF EpochInv, InEpochOrder
    <3>2. precessedEpochIds[d][c] \in Nat
      BY DEF TypeOK, EpochType
    <3>3. /\ \A i \in DOMAIN flushed[c][d] : flushed'[c][d][i] = flushed[c][d][i]
          /\ epochIds[c][d] <= epochIds'[c][d]
      BY <1>3, FlushGrows
    <3>4. /\ flushed[c][d] \in Seq(Batch) /\ epochIds[c][d] \in Nat
          /\ epochIds[c][d] = Len(flushed[c][d]) + 1
      BY <2>1, <2>2
    <3>5. epochIds'[c][d] \in Nat
      BY TypeEndOfBlock DEF TypeOK, CoordType
    <3>6. precessedEpochIds[d][c] < epochIds'[c][d]
      BY <3>1, <3>2, <3>3, <3>4, <3>5
    <3>7. 1..Len(delivered[d][c]) \subseteq DOMAIN flushed[c][d]
      BY <3>1, <3>2, <3>4
    <3> QED BY <3>1, <3>3, <3>6, <3>7
  <2> QED BY <2>5, <2>6, <2>7, <2>8 DEF EpochInv
<1> QED BY <1>2, <1>3 DEF EndOfBlock

\* A received batch keeps its number on its way into the shard's consensus.
LEMMA EpochReceiveBatch ==
  ASSUME TypeOK, EpochInv, NEW m, ReceiveBatchDistributedTxMsg(m)
  PROVE  EpochInv'
<1>1. UNCHANGED <<subTxs, epochIds, flushed, precessedEpochIds, cachedBatchTxs, draining, delivered>>
  BY DEF ReceiveBatchDistributedTxMsg, epochVars
<1>2. m \in batchMsgs /\ m.dest \in Shard /\ batchMsgs' \subseteq batchMsgs
  BY DEF ReceiveBatchDistributedTxMsg, TypeOK, CoordType, BatchMsg
<1> DEFINE new == [kind |-> "BatchedSubInterShard", coord |-> m.coord, epoch |-> m.epoch,
                   txs |-> m.txs]
<1>3. \A s \in Shard : \A item \in pool'[s] : item \in pool[s] \/ (s = m.dest /\ item = new)
  BY <1>2 DEF ReceiveBatchDistributedTxMsg, TypeOK, PoolType
<1>4. Addressed'
  <2>1. \A s \in Shard : \A item \in pool'[s] : item.kind = "InterShard" => Coordinator[item.tx] = s
    BY <1>3 DEF EpochInv, Addressed
  <2> QED BY <1>1, <2>1 DEF EpochInv, Addressed, IsBatchFor
<1>5. InTransitProduced'
  <2>1. Produced(m.coord, m.dest, m.epoch, m.txs)
    BY <1>2 DEF EpochInv, InTransitProduced
  <2>2. ASSUME NEW d \in Shard, NEW item \in pool'[d], item.kind = "BatchedSubInterShard"
        PROVE  Produced(item.coord, d, item.epoch, item.txs)
    BY <1>3, <2>1, <2>2 DEF EpochInv, InTransitProduced
  <2> QED BY <1>1, <1>2, <2>2 DEF EpochInv, InTransitProduced, Produced
<1>6. EpochCounters' /\ InEpochOrder'
  BY <1>1 DEF EpochInv, EpochCounters, InEpochOrder
<1> QED BY <1>4, <1>5, <1>6 DEF EpochInv

\* Starting the batch that was produced under the next epoch number keeps the order.
LEMMA NextBatchInOrder ==
  ASSUME TypeOK, EpochInv, NEW d \in Shard, NEW c \in Shard, NEW b \in Batch,
         Produced(c, d, precessedEpochIds[d][c] + 1, b),
         delivered' = [delivered EXCEPT ![d][c] = Append(@, b)],
         precessedEpochIds' = [precessedEpochIds EXCEPT ![d][c] = precessedEpochIds[d][c] + 1],
         UNCHANGED <<epochIds, flushed>>
  PROVE  InEpochOrder'
<1>1. /\ delivered \in [Shard -> [Shard -> Seq(Batch)]]
      /\ precessedEpochIds \in [Shard -> [Shard -> Nat]]
      /\ flushed \in [Shard -> [Shard -> Seq(Batch)]]
  BY DEF TypeOK, EpochType, CoordType
<1> SUFFICES ASSUME NEW d1 \in Shard, NEW c1 \in Shard
             PROVE  /\ Len(delivered'[d1][c1]) = precessedEpochIds'[d1][c1]
                    /\ precessedEpochIds'[d1][c1] < epochIds[c1][d1]
                    /\ \A i \in 1..Len(delivered'[d1][c1]) :
                          delivered'[d1][c1][i] = flushed[c1][d1][i]
  BY DEF InEpochOrder
<1>2. /\ Len(delivered[d1][c1]) = precessedEpochIds[d1][c1]
      /\ precessedEpochIds[d1][c1] < epochIds[c1][d1]
      /\ \A i \in 1..Len(delivered[d1][c1]) : delivered[d1][c1][i] = flushed[c1][d1][i]
  BY DEF EpochInv, InEpochOrder
<1>3. CASE d1 = d /\ c1 = c
  <2>1. delivered'[d][c] = Append(delivered[d][c], b)
    BY <1>1
  <2>2. precessedEpochIds'[d][c] = precessedEpochIds[d][c] + 1
    BY <1>1
  <2>3. epochIds[c][d] = Len(flushed[c][d]) + 1
    BY DEF EpochInv, EpochCounters
  <2>4. /\ precessedEpochIds[d][c] + 1 <= Len(flushed[c][d])
        /\ flushed[c][d][precessedEpochIds[d][c] + 1] = b
    <3>1. flushed[c][d] \in Seq(Batch) /\ precessedEpochIds[d][c] \in Nat
      BY <1>1
    <3>2. precessedEpochIds[d][c] + 1 \in DOMAIN flushed[c][d]
      BY DEF Produced
    <3>3. flushed[c][d][precessedEpochIds[d][c] + 1] = b
      BY DEF Produced
    <3> QED BY <3>1, <3>2, <3>3
  <2>5. precessedEpochIds'[d][c] < epochIds[c][d]
    <3>1. flushed[c][d] \in Seq(Batch) /\ precessedEpochIds[d][c] \in Nat
      BY <1>1
    <3>2. Len(flushed[c][d]) \in Nat
      BY <3>1
    <3> QED BY <2>2, <2>3, <2>4, <3>1, <3>2
  <2>6. Len(delivered'[d][c]) = precessedEpochIds'[d][c]
    BY <1>1, <1>2, <1>3, <2>1, <2>2
  <2>7. ASSUME NEW i \in 1..Len(delivered'[d][c]) PROVE delivered'[d][c][i] = flushed[c][d][i]
    <3>1. /\ delivered[d][c] \in Seq(Batch) /\ Len(delivered[d][c]) = precessedEpochIds[d][c]
          /\ \A k \in 1..Len(delivered[d][c]) : delivered[d][c][k] = flushed[c][d][k]
      BY <1>1, <1>2, <1>3
    <3>2. CASE i \in 1..Len(delivered[d][c])
      BY <2>1, <3>1, <3>2
    <3>3. CASE i = Len(delivered[d][c]) + 1
      BY <2>1, <2>4, <3>1, <3>3
    <3> QED BY <2>1, <3>1, <3>2, <3>3
  <2> QED BY <1>3, <2>5, <2>6, <2>7
<1>4. CASE ~(d1 = d /\ c1 = c)
  <2>1. delivered'[d1][c1] = delivered[d1][c1] /\ precessedEpochIds'[d1][c1] = precessedEpochIds[d1][c1]
    BY <1>1, <1>4
  <2> QED BY <1>2, <2>1
<1> QED BY <1>3, <1>4

\* Each step of the consensus thread on a batch (the next epoch, the cache, the loop that
\* empties it) keeps the epoch invariant.
LEMMA EpochOrderedBatch ==
  ASSUME TypeOK, EpochInv, NEW d \in Shard, NEW item \in pool[d],
         ProcessOrderedBatchedSubInterShardTxs(d, item)
  PROVE  EpochInv'
<1>1. UNCHANGED <<subTxs, epochIds, batchMsgs, flushed>>
  BY DEF ProcessOrderedBatchedSubInterShardTxs
<1>2. \A s \in Shard : pool'[s] \subseteq pool[s]
  BY DEF ProcessOrderedBatchedSubInterShardTxs, TypeOK, PoolType
<1>3. item.kind = "BatchedSubInterShard" /\ item \in BatchItem
  BY DEF ProcessOrderedBatchedSubInterShardTxs, TypeOK, PoolType, InterItem, IntraItem
<1>4. item.coord \in Shard /\ item.epoch \in Nat /\ item.txs \in Batch
  BY <1>3 DEF BatchItem
<1>5. Produced(item.coord, d, item.epoch, item.txs)
  BY <1>3 DEF EpochInv, InTransitProduced
<1>6. Addressed'
  BY <1>1, <1>2 DEF EpochInv, Addressed, IsBatchFor
<1>7. draining[d] = NoShard
  BY DEF ProcessOrderedBatchedSubInterShardTxs, TakeFromChain
<1>8. /\ draining \in [Shard -> Shard \cup {NoShard}]
      /\ precessedEpochIds \in [Shard -> [Shard -> Nat]]
  BY DEF TypeOK, EpochType
<1>9. CASE ProcessNextEpoch(d, item)
  <2>1. InTransitProduced'
    BY <1>1, <1>2, <1>9 DEF EpochInv, InTransitProduced, Produced, ProcessNextEpoch
  <2>2. EpochCounters'
    <3>1. precessedEpochIds'[d][item.coord] = item.epoch
      BY <1>4, <1>8, <1>9 DEF ProcessNextEpoch
    <3>2. draining' = [draining EXCEPT ![d] =
            IF item.epoch + 1 \in DOMAIN cachedBatchTxs[d][item.coord]
            THEN item.coord ELSE NoShard] /\ UNCHANGED cachedBatchTxs
      BY <1>9 DEF ProcessNextEpoch
    <3>3. ASSUME NEW x \in Shard, draining'[x] # NoShard
          PROVE  precessedEpochIds'[x][draining'[x]] + 1 \in DOMAIN cachedBatchTxs'[x][draining'[x]]
      <4>1. CASE x = d
        <5>1. draining'[d] = item.coord /\ item.epoch + 1 \in DOMAIN cachedBatchTxs[d][item.coord]
          BY <1>8, <3>2, <3>3, <4>1
        <5> QED BY <3>1, <3>2, <4>1, <5>1
      <4>2. CASE x # d
        <5>1. draining'[x] = draining[x] /\ precessedEpochIds'[x] = precessedEpochIds[x]
          BY <1>8, <1>9, <3>2, <4>2 DEF ProcessNextEpoch
        <5> QED BY <3>2, <3>3, <5>1 DEF EpochInv, EpochCounters
      <4> QED BY <4>1, <4>2
    <3> QED BY <1>1, <3>3 DEF EpochInv, EpochCounters
  <2>3. InEpochOrder'
    <3>1. item.epoch = precessedEpochIds[d][item.coord] + 1
      BY <1>9 DEF ProcessNextEpoch
    <3>2. delivered' = [delivered EXCEPT ![d][item.coord] = Append(@, item.txs)]
      BY <1>9 DEF ProcessNextEpoch, ProcessBatchSubInterShardTxs
    <3>3. precessedEpochIds' = [precessedEpochIds EXCEPT ![d][item.coord] = item.epoch]
      BY <1>9 DEF ProcessNextEpoch
    <3> QED BY <1>1, <1>4, <1>5, <3>1, <3>2, <3>3, NextBatchInOrder
  <2> QED BY <1>6, <2>1, <2>2, <2>3 DEF EpochInv
<1>10. CASE CacheBatch(d, item)
  <2> DEFINE old == cachedBatchTxs[d][item.coord]
             new == [e \in DOMAIN old \cup {item.epoch} |->
                       IF e \in DOMAIN old THEN old[e] ELSE item.txs]
  <2>1. /\ cachedBatchTxs' = [cachedBatchTxs EXCEPT ![d][item.coord] = new]
        /\ UNCHANGED <<precessedEpochIds, draining, delivered>>
    BY <1>10 DEF CacheBatch
  <2>2. \A e \in DOMAIN new : Produced(item.coord, d, e, new[e])
    BY <1>4, <1>5 DEF EpochInv, InTransitProduced
  <2>3. DOMAIN old \subseteq DOMAIN new
    OBVIOUS
  <2> HIDE DEF new
  <2>4. ASSUME NEW x \in Shard, NEW c \in Shard
        PROVE  \/ (x = d /\ c = item.coord) /\ cachedBatchTxs'[x][c] = new
               \/ ~(x = d /\ c = item.coord) /\ cachedBatchTxs'[x][c] = cachedBatchTxs[x][c]
    BY <1>4, <2>1 DEF TypeOK, EpochType, CacheType
  <2>5. InTransitProduced'
    <3>1. \A x, c \in Shard : \A e \in DOMAIN cachedBatchTxs'[x][c] :
            Produced(c, x, e, cachedBatchTxs'[x][c][e])
      BY <2>2, <2>4 DEF EpochInv, InTransitProduced
    <3> QED BY <1>1, <1>2, <3>1 DEF EpochInv, InTransitProduced, Produced
  <2>6. EpochCounters'
    <3>1. ASSUME NEW x \in Shard, draining[x] # NoShard
          PROVE  precessedEpochIds[x][draining[x]] + 1 \in DOMAIN cachedBatchTxs'[x][draining[x]]
      <4>1. x # d /\ draining[x] \in Shard
        BY <1>7, <1>8, <3>1
      <4>2. cachedBatchTxs'[x][draining[x]] = cachedBatchTxs[x][draining[x]]
        BY <2>4, <4>1
      <4> QED BY <3>1, <4>2 DEF EpochInv, EpochCounters
    <3> QED BY <1>1, <2>1, <3>1 DEF EpochInv, EpochCounters
  <2>7. InEpochOrder'
    BY <1>1, <2>1 DEF EpochInv, InEpochOrder
  <2> QED BY <1>6, <2>5, <2>6, <2>7 DEF EpochInv
<1> QED BY <1>9, <1>10 DEF ProcessOrderedBatchedSubInterShardTxs

\* The loop that empties the cache keeps the epoch invariant.
LEMMA EpochDrain ==
  ASSUME TypeOK, EpochInv, NEW d \in Shard, DrainCachedBatch(d)
  PROVE  EpochInv'
<1> DEFINE c == draining[d]
           e == precessedEpochIds[d][c] + 1
<1>1. UNCHANGED <<pool, subTxs, epochIds, batchMsgs, flushed, cachedBatchTxs>>
  BY DEF DrainCachedBatch, coordVars
<1>2. c \in Shard
  BY DEF DrainCachedBatch, TypeOK, EpochType
<1>3. e \in DOMAIN cachedBatchTxs[d][c]
  BY DEF DrainCachedBatch, EpochInv, EpochCounters
<1>4. cachedBatchTxs[d][c][e] \in Batch
  BY <1>2, <1>3 DEF TypeOK, EpochType, CacheType
<1>5. Produced(c, d, e, cachedBatchTxs[d][c][e])
  BY <1>2, <1>3 DEF EpochInv, InTransitProduced
<1>6. Addressed' /\ InTransitProduced'
  BY <1>1 DEF EpochInv, Addressed, IsBatchFor, InTransitProduced, Produced
<1>7. /\ delivered' = [delivered EXCEPT ![d][c] = Append(@, cachedBatchTxs[d][c][e])]
      /\ precessedEpochIds' = [precessedEpochIds EXCEPT ![d][c] = e]
      /\ draining' = [draining EXCEPT ![d] =
           IF e + 1 \in DOMAIN cachedBatchTxs[d][c] THEN c ELSE NoShard]
  <2>1. /\ ProcessBatchSubInterShardTxs(d, c, cachedBatchTxs[d][c][e])
        /\ precessedEpochIds' = [precessedEpochIds EXCEPT ![d][c] = e]
        /\ draining' = [draining EXCEPT ![d] =
             IF e + 1 \in DOMAIN cachedBatchTxs[d][c] THEN c ELSE NoShard]
    BY Zenon DEF DrainCachedBatch
  <2> HIDE DEF c, e
  <2> QED BY <2>1 DEF ProcessBatchSubInterShardTxs
<1>8. InEpochOrder'
  BY <1>1, <1>2, <1>4, <1>5, <1>7, NextBatchInOrder
<1>9. EpochCounters'
  <2>1. /\ draining \in [Shard -> Shard \cup {NoShard}]
        /\ precessedEpochIds \in [Shard -> [Shard -> Nat]]
    BY DEF TypeOK, EpochType
  <2>2. precessedEpochIds'[d][c] = e
    BY <1>2, <1>7, <2>1
  <2>3. ASSUME NEW x \in Shard, draining'[x] # NoShard
        PROVE  precessedEpochIds'[x][draining'[x]] + 1 \in DOMAIN cachedBatchTxs[x][draining'[x]]
    <3>1. CASE x = d
      <4>1. draining'[d] = c /\ e + 1 \in DOMAIN cachedBatchTxs[d][c]
        BY <1>7, <2>1, <2>3, <3>1
      <4> HIDE DEF c, e
      <4> QED BY <2>2, <3>1, <4>1
    <3>2. CASE x # d
      <4>1. draining'[x] = draining[x] /\ precessedEpochIds'[x] = precessedEpochIds[x]
        BY <1>7, <2>1, <3>2
      <4> QED BY <2>3, <4>1 DEF EpochInv, EpochCounters
    <3> QED BY <3>1, <3>2
  <2> QED BY <1>1, <2>3 DEF EpochInv, EpochCounters
<1> QED BY <1>6, <1>8, <1>9 DEF EpochInv

-----------------------------------------------------------------------------
(* The theorems.                                                           *)

\* The inductive invariant: a batch has its type because it was produced under its
\* number, and the numbers stay in step because the batches have their type.
IInv == TypeOK /\ EpochInv

\* Initially there are no batches and every container's epoch is 1.
LEMMA IInvInit == Init => IInv
<1> SUFFICES ASSUME Init PROVE EpochInv
  BY TypeInit DEF IInv
<1>1. Addressed
  BY DEF Init, Submitted, Addressed, IsBatchFor
<1>2. InTransitProduced
  BY DEF Init, Submitted, InTransitProduced
<1>3. EpochCounters
  BY DEF Init, EpochCounters
<1>4. InEpochOrder
  BY DEF Init, InEpochOrder
<1> QED BY <1>1, <1>2, <1>3, <1>4 DEF EpochInv

\* Every step of every thread keeps the inductive invariant.
LEMMA IInvNext == IInv /\ [Next]_vars => IInv'
<1> SUFFICES ASSUME TypeOK, EpochInv, [Next]_vars PROVE TypeOK' /\ EpochInv'
  BY DEF IInv
<1>1. CASE UNCHANGED vars
  <2>1. TypeOK'
    BY <1>1, TypeUnchanged DEF TypeOK, vars
  <2>2. EpochInv'
    BY <1>1, EpochUnchanged DEF vars, coordVars
  <2> QED BY <2>1, <2>2
<1>2. ASSUME NEW s \in Shard, ConsensusThread(s) PROVE TypeOK' /\ EpochInv'
  <2>1. ASSUME NEW t \in InterTx, ProcessInterShardTx(s, t) PROVE TypeOK' /\ EpochInv'
    BY <2>1, TypeInterShard, EpochInterShard
  <2>2. ASSUME NEW x \in IntraTx, ProcessSingleIntraShardTx(s, x) PROVE TypeOK' /\ EpochInv'
    <3>1. /\ \A d \in Shard : pool'[d] \subseteq pool[d]
          /\ UNCHANGED <<subTxs, epochIds, batchMsgs, flushed, epochVars>>
      BY <2>2 DEF ProcessSingleIntraShardTx, TypeOK, PoolType
    <3> QED BY <2>2, <3>1, TypeIntraShard, EpochUnchanged
  <2>3. ASSUME NEW item \in pool[s], ProcessOrderedBatchedSubInterShardTxs(s, item)
        PROVE  TypeOK' /\ EpochInv'
    BY <2>3, TypeOrderedBatch, EpochOrderedBatch
  <2>4. CASE DrainCachedBatch(s)
    BY <2>4, TypeDrain, EpochDrain
  <2>5. CASE EndOfBlock(s)
    BY <2>5, TypeEndOfBlock, EpochEndOfBlock
  <2> QED BY <1>2, <2>1, <2>2, <2>3, <2>4, <2>5 DEF ConsensusThread
<1>3. ASSUME NEW s \in Shard, MessageThread(s) \/ CommitThread(s) PROVE TypeOK' /\ EpochInv'
  <2>1. ASSUME NEW m, ReceiveBatchDistributedTxMsg(m) PROVE TypeOK' /\ EpochInv'
    BY <2>1, TypeReceive, EpochReceiveBatch
  <2>2. ASSUME NEW m, ReceiveRwset(m) PROVE TypeOK' /\ EpochInv'
    BY <2>2, TypeReceive, EpochUnchanged DEF ReceiveRwset, coordVars
  <2>3. ASSUME NEW m, ReceiveCommit(m) PROVE TypeOK' /\ EpochInv'
    BY <2>3, TypeReceive, EpochUnchanged DEF ReceiveCommit, coordVars
  <2> QED BY <1>3, <2>1, <2>2, <2>3 DEF MessageThread, CommitThread
<1>4. ASSUME NEW d \in Shard, NEW c \in Shard, BlockingThread(d, c) PROVE TypeOK' /\ EpochInv'
  <2>1. CASE BatchPop(d, c)
    BY <2>1, TypeBatchPop, EpochUnchanged DEF BatchPop, coordVars
  <2>2. CASE SendReadWriteSet(d, c)
    BY <2>2, TypeSend, EpochUnchanged DEF SendReadWriteSet, coordVars
  <2>3. CASE ExecuteInterShardTx(d, c)
    BY <2>3, TypeExecuteInter, EpochUnchanged DEF ExecuteInterShardTx, coordVars
  <2>4. CASE ExecuteBlockedIntraShardTx(d, c)
    BY <2>4, TypeExecuteIntra, EpochUnchanged DEF ExecuteBlockedIntraShardTx, coordVars
  <2> QED BY <1>4, <2>1, <2>2, <2>3, <2>4 DEF BlockingThread
<1>5. CASE Idle
  BY <1>1, <1>5 DEF Idle
<1> QED BY <1>1, <1>2, <1>3, <1>4, <1>5 DEF Next

\* The inductive invariant holds in every reachable state.
LEMMA IInvAlways == SafeSpec => []IInv
<1>1. Init => IInv
  BY IInvInit
<1>2. IInv /\ [Next]_vars => IInv'
  BY IInvNext
<1> QED BY <1>1, <1>2, PTL DEF SafeSpec

\* Every variable of the coordinator and participant shards always has its type: in
\* particular no count of received read sets falls below zero (checkReadWriteKeyReady),
\* and the loop that empties the cache only meets batches (processOrderedBatched...).
THEOREM TypeCorrect == SafeSpec => []TypeOK
<1>1. IInv => TypeOK
  BY DEF IInv
<1> QED BY <1>1, IInvAlways, PTL

\* Every shard starts the batches of every coordinator in epoch order, without gap and
\* without repetition, whatever order messages and consensus give them.
THEOREM EpochOrderCorrect == SafeSpec => []InEpochOrder
<1>1. IInv => InEpochOrder
  BY DEF IInv, EpochInv
<1> QED BY <1>1, IInvAlways, PTL

-----------------------------------------------------------------------------
(* The epoch mechanism implements OrderedBatches.                          *)

\* The end of a block is a Flush of the coordinator, or changes no stream.
LEMMA FlushRefines ==
  ASSUME TypeOK, NEW s \in Shard, EndOfBlock(s)
  PROVE  OB!Flush(s) \/ UNCHANGED OB!vars
<1>1. UNCHANGED delivered
  BY DEF EndOfBlock, epochVars
<1>2. CASE UNCHANGED <<pool, subTxs, epochIds, batchMsgs, flushed>>
  BY <1>1, <1>2 DEF OB!vars
<1>3. CASE CheckSubTxsContainers(s)
  <2>1. flushed' \in OB!Streams
    BY TypeEndOfBlock DEF TypeOK, CoordType, OB!Streams
  <2>2. ASSUME NEW x \in Shard, NEW d \in Shard
        PROVE  IF x = s THEN OB!GrowsByOne(flushed[x][d], flushed'[x][d])
                        ELSE flushed'[x][d] = flushed[x][d]
    <3>1. CASE x = s /\ subTxs[s][d] # <<>>
      <4>1. flushed'[x][d] = Append(flushed[x][d], subTxs[s][d])
        BY <1>3, <3>1, FlushGrows
      <4>2. flushed[x][d] \in Seq(Batch) /\ subTxs[s][d] \in Batch
        BY DEF TypeOK, CoordType
      <4> QED BY <3>1, <4>1, <4>2 DEF OB!GrowsByOne
    <3>2. CASE ~(x = s /\ subTxs[s][d] # <<>>)
      <4>1. flushed'[x][d] = flushed[x][d]
        BY <1>3, <3>2, FlushGrows
      <4> QED BY <4>1 DEF OB!GrowsByOne
    <3> QED BY <3>1, <3>2
  <2> QED BY <1>1, <2>1, <2>2 DEF OB!Flush
<1> QED BY <1>2, <1>3 DEF EndOfBlock

\* Starting the batch produced under the next epoch number is a Deliver.
LEMMA DeliverRefines ==
  ASSUME TypeOK, EpochInv, NEW d \in Shard, NEW c \in Shard, NEW b \in Batch,
         Produced(c, d, precessedEpochIds[d][c] + 1, b),
         delivered' = [delivered EXCEPT ![d][c] = Append(@, b)], UNCHANGED flushed
  PROVE  OB!Deliver(d, c)
<1>1. /\ flushed[c][d] \in Seq(Batch) /\ delivered[d][c] \in Seq(Batch)
      /\ precessedEpochIds[d][c] \in Nat
  BY DEF TypeOK, EpochType, CoordType
<1>2. Len(delivered[d][c]) = precessedEpochIds[d][c]
  BY DEF EpochInv, InEpochOrder
<1>3. precessedEpochIds[d][c] + 1 \in DOMAIN flushed[c][d]
  BY DEF Produced
<1>4. b = flushed[c][d][Len(delivered[d][c]) + 1]
  BY <1>2 DEF Produced
<1>5. Len(delivered[d][c]) < Len(flushed[c][d])
  BY <1>1, <1>2, <1>3
<1>6. delivered' = [delivered EXCEPT ![d][c] = Append(@, flushed[c][d][Len(@) + 1])]
  BY <1>4
<1> QED BY <1>5, <1>6 DEF OB!Deliver

\* Every step of the threads is a step of OrderedBatches or changes no stream.
LEMMA NextRefines ==
  ASSUME TypeOK, EpochInv, [Next]_vars
  PROVE  OB!Next \/ UNCHANGED OB!vars
<1>1. ASSUME NEW s \in Shard, NEW item \in pool[s], ProcessOrderedBatchedSubInterShardTxs(s, item)
      PROVE  OB!Next \/ UNCHANGED OB!vars
  <2>1. UNCHANGED flushed
    BY <1>1 DEF ProcessOrderedBatchedSubInterShardTxs
  <2>2. CASE CacheBatch(s, item)
    BY <2>1, <2>2 DEF CacheBatch, OB!vars
  <2>3. CASE ProcessNextEpoch(s, item)
    <3>1. item.kind = "BatchedSubInterShard" /\ item \in BatchItem
      BY <1>1 DEF ProcessOrderedBatchedSubInterShardTxs, TypeOK, PoolType, InterItem, IntraItem
    <3>2. item.coord \in Shard /\ item.txs \in Batch
      BY <3>1 DEF BatchItem
    <3>3. /\ item.epoch = precessedEpochIds[s][item.coord] + 1
          /\ delivered' = [delivered EXCEPT ![s][item.coord] = Append(@, item.txs)]
      BY <2>3 DEF ProcessNextEpoch, ProcessBatchSubInterShardTxs
    <3>4. Produced(item.coord, s, item.epoch, item.txs)
      BY <3>1 DEF EpochInv, InTransitProduced
    <3>5. OB!Deliver(s, item.coord)
      BY <2>1, <3>2, <3>3, <3>4, DeliverRefines
    <3> QED BY <3>2, <3>5 DEF OB!Next
  <2> QED BY <1>1, <2>2, <2>3 DEF ProcessOrderedBatchedSubInterShardTxs
<1>2. ASSUME NEW d \in Shard, DrainCachedBatch(d) PROVE OB!Next \/ UNCHANGED OB!vars
  <2> DEFINE c == draining[d]
             e == precessedEpochIds[d][c] + 1
  <2>1. UNCHANGED flushed
    BY <1>2 DEF DrainCachedBatch, coordVars
  <2>2. c \in Shard
    BY <1>2 DEF DrainCachedBatch, TypeOK, EpochType
  <2>3. e \in DOMAIN cachedBatchTxs[d][c]
    BY <1>2 DEF DrainCachedBatch, EpochInv, EpochCounters
  <2>4. cachedBatchTxs[d][c][e] \in Batch
    BY <2>2, <2>3 DEF TypeOK, EpochType, CacheType
  <2>5. Produced(c, d, e, cachedBatchTxs[d][c][e])
    BY <2>2, <2>3 DEF EpochInv, InTransitProduced
  <2>6. delivered' = [delivered EXCEPT ![d][c] = Append(@, cachedBatchTxs[d][c][e])]
    BY <1>2, SMTT(30) DEF DrainCachedBatch, ProcessBatchSubInterShardTxs
  <2>7. OB!Deliver(d, c)
    BY <2>1, <2>2, <2>4, <2>5, <2>6, DeliverRefines
  <2> QED BY <2>2, <2>7 DEF OB!Next
<1>3. ASSUME NEW s \in Shard, EndOfBlock(s) PROVE OB!Next \/ UNCHANGED OB!vars
  BY <1>3, FlushRefines DEF OB!Next
<1>4. ASSUME NEW s \in Shard, ConsensusThread(s) PROVE OB!Next \/ UNCHANGED OB!vars
  <2>1. ASSUME NEW t \in InterTx, ProcessInterShardTx(s, t) PROVE UNCHANGED OB!vars
    BY <2>1 DEF ProcessInterShardTx, epochVars, OB!vars
  <2>2. ASSUME NEW x \in IntraTx, ProcessSingleIntraShardTx(s, x) PROVE UNCHANGED OB!vars
    BY <2>2 DEF ProcessSingleIntraShardTx, epochVars, OB!vars
  <2> QED BY <1>1, <1>2, <1>3, <1>4, <2>1, <2>2 DEF ConsensusThread
<1>5. ASSUME NEW s \in Shard, MessageThread(s) \/ CommitThread(s) PROVE UNCHANGED OB!vars
  <2>1. ASSUME NEW m, ReceiveBatchDistributedTxMsg(m) PROVE UNCHANGED OB!vars
    BY <2>1 DEF ReceiveBatchDistributedTxMsg, epochVars, OB!vars
  <2>2. ASSUME NEW m, ReceiveRwset(m) \/ ReceiveCommit(m) PROVE UNCHANGED OB!vars
    BY <2>2 DEF ReceiveRwset, ReceiveCommit, coordVars, epochVars, OB!vars
  <2> QED BY <1>5, <2>1, <2>2 DEF MessageThread, CommitThread
<1>6. ASSUME NEW d \in Shard, NEW c \in Shard, BlockingThread(d, c) PROVE UNCHANGED OB!vars
  BY <1>6 DEF BlockingThread, BatchPop, SendReadWriteSet, ExecuteInterShardTx,
              ExecuteBlockedIntraShardTx, coordVars, epochVars, OB!vars
<1>7. CASE Idle \/ UNCHANGED vars
  BY <1>7 DEF Idle, vars, coordVars, epochVars, OB!vars
<1> QED BY <1>4, <1>5, <1>6, <1>7 DEF Next

\* The batches of the detailed model behave as OrderedBatches says: each shard starts
\* each coordinator's batches in the order of production, each once.  (That every batch
\* is started in the end is liveness and is left to TLC.)
THEOREM RefinesOrderedBatches == SafeSpec => OB!SafeSpec
<1>1. Init => OB!Init
  BY DEF Init, OB!Init
<1>2. IInv /\ [Next]_vars => [OB!Next]_OB!vars
  BY NextRefines DEF IInv
<1> QED BY <1>1, <1>2, IInvAlways, PTL DEF SafeSpec, OB!SafeSpec

-----------------------------------------------------------------------------
(* The place of a transaction in the streams of batches.                   *)

\* t is at place i of the batch with epoch e that c produces for d: of one it has
\* produced, or of the container that will become the next one.
PlacedAt(c, d, e, i, t) ==
  \/ /\ e \in DOMAIN flushed[c][d] /\ i \in DOMAIN flushed[c][d][e]
     /\ flushed[c][d][e][i] = t
  \/ /\ e = epochIds[c][d] /\ i \in DOMAIN subTxs[c][d]
     /\ subTxs[c][d][i] = t

\* t is in an earlier batch of c for d than u, or in front of u in the same batch.
EarlierBatch(c, d, t, u) == \E e, i, f, j \in Nat :
  PlacedAt(c, d, e, i, t) /\ PlacedAt(c, d, f, j, u) /\ e < f
EarlierInBatch(c, d, t, u) == \E e, i, j \in Nat :
  PlacedAt(c, d, e, i, t) /\ PlacedAt(c, d, e, j, u) /\ i < j

\* The parts of the invariant behind SameOrder.  A transaction is processed once (Fresh) and
\* then has one place for each of its participants (PlacedOnce, PlacedEverywhere); its
\* containers are emptied together (OpenTogether), so that two transactions have the same
\* order at all shards that take part in both (Parallel).
Fresh == \A c, d \in Shard : \A t \in InterTx : \A e, i \in Nat :
  PlacedAt(c, d, e, i, t) => [kind |-> "InterShard", tx |-> t] \notin pool[c]
PlacedOnce == \A c, d \in Shard : \A t \in InterTx : \A e, i, f, j \in Nat :
  PlacedAt(c, d, e, i, t) /\ PlacedAt(c, d, f, j, t) => e = f /\ i = j
PlacedEverywhere == \A c, d1, d2 \in Shard : \A t \in InterTx : \A e, i \in Nat :
  PlacedAt(c, d1, e, i, t) /\ d2 \in Range(Participants[t]) =>
    \E f, j \in Nat : PlacedAt(c, d2, f, j, t)
OpenTogether == \A c, d1, d2 \in Shard : \A t \in InterTx : \A e, i, f, j \in Nat :
  PlacedAt(c, d1, e, i, t) /\ e = epochIds[c][d1] /\ PlacedAt(c, d2, f, j, t) =>
    f = epochIds[c][d2]
Parallel == \A c, d1, d2 \in Shard : \A t, u \in InterTx :
  d2 \in Range(Participants[t]) /\ d2 \in Range(Participants[u]) =>
    /\ EarlierBatch(c, d1, t, u) => EarlierBatch(c, d2, t, u)
    /\ EarlierInBatch(c, d1, t, u) => EarlierInBatch(c, d2, t, u)
PlaceInv == Fresh /\ PlacedOnce /\ PlacedEverywhere /\ OpenTogether /\ Parallel

\* A place in a stream of c is one of a transaction of c at one of its participants.
LEMMA PlaceFacts ==
  ASSUME TypeOK, EpochInv, NEW c \in Shard, NEW d \in Shard, NEW e, NEW i, NEW t,
         PlacedAt(c, d, e, i, t)
  PROVE  /\ e \in Nat /\ i \in Nat /\ e <= epochIds[c][d] /\ t \in InterTx
         /\ Coordinator[t] = c /\ d \in Range(Participants[t])
<1>1. /\ flushed[c][d] \in Seq(Batch) /\ subTxs[c][d] \in Batch /\ epochIds[c][d] \in Nat
      /\ epochIds[c][d] = Len(flushed[c][d]) + 1
  BY DEF TypeOK, CoordType, EpochInv, EpochCounters
<1>2. /\ IsBatchFor(c, d, subTxs[c][d])
      /\ \A f \in DOMAIN flushed[c][d] : IsBatchFor(c, d, flushed[c][d][f])
  BY DEF EpochInv, Addressed
<1>3. CASE e \in DOMAIN flushed[c][d] /\ i \in DOMAIN flushed[c][d][e] /\ flushed[c][d][e][i] = t
  <2>1. flushed[c][d][e] \in Seq(InterTx)
    BY <1>1, <1>3 DEF Batch
  <2> QED BY <1>1, <1>2, <1>3, <2>1 DEF IsBatchFor
<1>4. CASE e = epochIds[c][d] /\ i \in DOMAIN subTxs[c][d] /\ subTxs[c][d][i] = t
  BY <1>1, <1>2, <1>4 DEF IsBatchFor, Batch
<1> QED BY <1>3, <1>4 DEF PlacedAt

\* A step that does not touch the streams, nor submits a client's transaction again.
LEMMA PlaceUnchanged ==
  ASSUME PlaceInv, UNCHANGED <<subTxs, epochIds, flushed>>,
         \A s \in Shard : \A item \in pool'[s] : item.kind = "InterShard" => item \in pool[s]
  PROVE  PlaceInv'
<1>1. \A c, d, e, i, t : PlacedAt(c, d, e, i, t)' <=> PlacedAt(c, d, e, i, t)
  BY DEF PlacedAt
<1>2. Fresh'
  BY <1>1 DEF PlaceInv, Fresh
<1>3. PlacedOnce'
  BY <1>1 DEF PlaceInv, PlacedOnce
<1>4. PlacedEverywhere'
  BY <1>1 DEF PlaceInv, PlacedEverywhere
<1>5. OpenTogether'
  BY <1>1 DEF PlaceInv, OpenTogether
<1>6. Parallel'
  <2>1. \A c, d, t, u : /\ EarlierBatch(c, d, t, u)' <=> EarlierBatch(c, d, t, u)
                        /\ EarlierInBatch(c, d, t, u)' <=> EarlierInBatch(c, d, t, u)
    BY <1>1 DEF EarlierBatch, EarlierInBatch
  <2> QED BY <2>1 DEF PlaceInv, Parallel
<1> QED BY <1>2, <1>3, <1>4, <1>5, <1>6 DEF PlaceInv

\* What ProcessInterShardTx adds to the streams: t gets one place for each participant,
\* the last one of the open container.
LEMMA PlaceNew ==
  ASSUME TypeOK, EpochInv, NEW s \in Shard, NEW t \in InterTx, ProcessInterShardTx(s, t),
         NEW c \in Shard, NEW d \in Shard, NEW e, NEW i, NEW u
  PROVE  PlacedAt(c, d, e, i, u)' <=>
           \/ PlacedAt(c, d, e, i, u)
           \/ /\ c = s /\ u = t /\ d \in Range(Participants[t])
              /\ e = epochIds[s][d] /\ i = Len(subTxs[s][d]) + 1
<1>1. /\ UNCHANGED <<epochIds, flushed>>
      /\ subTxs' = [subTxs EXCEPT ![s] = [x \in Shard |->
           IF x \in Range(Participants[t]) THEN Append(@[x], t) ELSE @[x]]]
  BY DEF ProcessInterShardTx
<1>2. subTxs \in [Shard -> [Shard -> Batch]]
  BY DEF TypeOK, CoordType
<1>3. CASE c = s /\ d \in Range(Participants[t])
  <2>1. subTxs'[c][d] = Append(subTxs[c][d], t) /\ subTxs[c][d] \in Seq(InterTx)
    BY <1>1, <1>2, <1>3 DEF Batch
  <2>2. (i \in DOMAIN subTxs'[c][d] /\ subTxs'[c][d][i] = u) <=>
          \/ i \in DOMAIN subTxs[c][d] /\ subTxs[c][d][i] = u
          \/ i = Len(subTxs[c][d]) + 1 /\ u = t
    BY <2>1
  <2> QED BY <1>1, <1>3, <2>2 DEF PlacedAt
<1>4. CASE ~(c = s /\ d \in Range(Participants[t]))
  <2>1. subTxs'[c][d] = subTxs[c][d]
    BY <1>1, <1>2, <1>4
  <2> QED BY <1>1, <1>4, <2>1 DEF PlacedAt
<1> QED BY <1>3, <1>4

\* A place of the open container is one of its positions.
LEMMA PlaceOpen ==
  ASSUME TypeOK, EpochInv, NEW c \in Shard, NEW d \in Shard, NEW e, NEW i, NEW t,
         PlacedAt(c, d, e, i, t), e = epochIds[c][d]
  PROVE  i \in DOMAIN subTxs[c][d] /\ subTxs[c][d][i] = t /\ i <= Len(subTxs[c][d])
<1>1. /\ flushed[c][d] \in Seq(Batch) /\ subTxs[c][d] \in Seq(InterTx)
      /\ epochIds[c][d] = Len(flushed[c][d]) + 1
  BY DEF TypeOK, CoordType, EpochInv, EpochCounters, Batch
<1>2. e \notin DOMAIN flushed[c][d]
  BY <1>1
<1> QED BY <1>1, <1>2 DEF PlacedAt

\* Processing a client's transaction keeps the invariant: it comes last everywhere.
LEMMA PlaceInterShard ==
  ASSUME TypeOK, EpochInv, PlaceInv, NEW s \in Shard, NEW t \in InterTx, ProcessInterShardTx(s, t)
  PROVE  PlaceInv'
<1> DEFINE New(c, d, e, i, u) == /\ c = s /\ u = t /\ d \in Range(Participants[t])
                                 /\ e = epochIds[s][d] /\ i = Len(subTxs[s][d]) + 1
<1>1. \A c, d \in Shard : \A e, i, u :
        PlacedAt(c, d, e, i, u)' <=> PlacedAt(c, d, e, i, u) \/ New(c, d, e, i, u)
  BY PlaceNew
<1>2. /\ [kind |-> "InterShard", tx |-> t] \in pool[s]
      /\ pool' = [pool EXCEPT ![s] = @ \ {[kind |-> "InterShard", tx |-> t]}]
      /\ UNCHANGED epochIds
  BY DEF ProcessInterShardTx, TakeFromChain
<1>3. Coordinator[t] = s
  BY <1>2 DEF EpochInv, Addressed
<1>4. \A c, d \in Shard : \A e, i : ~PlacedAt(c, d, e, i, t)
  <2> SUFFICES ASSUME NEW c \in Shard, NEW d \in Shard, NEW e, NEW i, PlacedAt(c, d, e, i, t)
               PROVE  FALSE
    OBVIOUS
  <2>1. e \in Nat /\ i \in Nat /\ Coordinator[t] = c
    BY PlaceFacts
  <2> QED BY <1>2, <1>3, <2>1 DEF PlaceInv, Fresh
<1>5. \A d \in Shard : epochIds[s][d] \in Nat /\ Len(subTxs[s][d]) \in Nat
  BY DEF TypeOK, CoordType, Batch
<1>6. \A c, d \in Shard : \A e, i, u : PlacedAt(c, d, e, i, u) =>
        /\ e \in Nat /\ i \in Nat /\ e <= epochIds[c][d]
        /\ e = epochIds[c][d] => i <= Len(subTxs[c][d])
  BY PlaceFacts, PlaceOpen
<1>7. pool \in [Shard -> SUBSET (InterItem \cup IntraItem \cup BatchItem)]
  BY DEF TypeOK, PoolType
<1> HIDE DEF New
<1>8. Fresh'
  BY <1>1, <1>2, <1>7 DEF PlaceInv, Fresh, New
<1>9. PlacedOnce'
  <2> SUFFICES ASSUME NEW c \in Shard, NEW d \in Shard, NEW u \in InterTx,
                      NEW e \in Nat, NEW i \in Nat, NEW f \in Nat, NEW j \in Nat,
                      PlacedAt(c, d, e, i, u)', PlacedAt(c, d, f, j, u)'
               PROVE  e = f /\ i = j
    BY DEF PlacedOnce
  <2> QED BY <1>1, <1>4 DEF PlaceInv, PlacedOnce, New
<1>10. PlacedEverywhere'
  <2> SUFFICES ASSUME NEW c \in Shard, NEW d1 \in Shard, NEW d2 \in Shard, NEW u \in InterTx,
                      NEW e \in Nat, NEW i \in Nat,
                      PlacedAt(c, d1, e, i, u)', d2 \in Range(Participants[u])
               PROVE  \E f, j \in Nat : PlacedAt(c, d2, f, j, u)'
    BY DEF PlacedEverywhere
  <2>1. CASE PlacedAt(c, d1, e, i, u)
    BY <1>1, <2>1 DEF PlaceInv, PlacedEverywhere
  <2>2. CASE New(c, d1, e, i, u)
    <3>1. New(c, d2, epochIds[s][d2], Len(subTxs[s][d2]) + 1, u)
      BY <2>2 DEF New
    <3> QED BY <1>1, <1>5, <3>1
  <2> QED BY <1>1, <2>1, <2>2
<1>11. OpenTogether'
  <2> SUFFICES ASSUME NEW c \in Shard, NEW d1 \in Shard, NEW d2 \in Shard, NEW u \in InterTx,
                      NEW e \in Nat, NEW i \in Nat, NEW f \in Nat, NEW j \in Nat,
                      PlacedAt(c, d1, e, i, u)', e = epochIds'[c][d1], PlacedAt(c, d2, f, j, u)'
               PROVE  f = epochIds'[c][d2]
    BY ZenonT(60) DEF OpenTogether
  <2>1. e = epochIds[c][d1] /\ epochIds'[c][d2] = epochIds[c][d2]
    BY <1>2
  <2>2. CASE PlacedAt(c, d1, e, i, u) /\ PlacedAt(c, d2, f, j, u)
    BY <2>1, <2>2 DEF PlaceInv, OpenTogether
  <2>3. CASE New(c, d1, e, i, u) \/ New(c, d2, f, j, u)
    <3>1. New(c, d2, f, j, u)
      BY <1>1, <1>4, <2>3 DEF New
    <3> QED BY <2>1, <3>1 DEF New
  <2> QED BY <1>1, <2>2, <2>3
<1>12. Parallel'
  <2> SUFFICES ASSUME NEW c \in Shard, NEW d1 \in Shard, NEW d2 \in Shard,
                      NEW u \in InterTx, NEW v \in InterTx,
                      d2 \in Range(Participants[u]), d2 \in Range(Participants[v])
               PROVE  /\ EarlierBatch(c, d1, u, v)' => EarlierBatch(c, d2, u, v)'
                      /\ EarlierInBatch(c, d1, u, v)' => EarlierInBatch(c, d2, u, v)'
    BY DEF Parallel
  <2>1. ASSUME EarlierBatch(c, d1, u, v)' PROVE EarlierBatch(c, d2, u, v)'
    <3>1. PICK e, i, f, j \in Nat : PlacedAt(c, d1, e, i, u)' /\ PlacedAt(c, d1, f, j, v)' /\ e < f
      BY <2>1 DEF EarlierBatch
    <3>2. PlacedAt(c, d1, e, i, u)
      BY <1>1, <1>5, <1>6, <3>1 DEF New
    <3>3. CASE PlacedAt(c, d1, f, j, v)
      <4>1. EarlierBatch(c, d2, u, v)
        BY <3>1, <3>2, <3>3 DEF PlaceInv, Parallel, EarlierBatch
      <4> QED BY <1>1, <4>1 DEF EarlierBatch
    <3>4. CASE New(c, d1, f, j, v)
      <4>1. PICK e2, i2 \in Nat : PlacedAt(c, d2, e2, i2, u)
        BY <3>2 DEF PlaceInv, PlacedEverywhere
      <4>2. e2 # epochIds[c][d2]
        <5>1. e # epochIds[c][d1]
          BY <1>5, <3>1, <3>4 DEF New
        <5> QED BY <3>2, <4>1, <5>1 DEF PlaceInv, OpenTogether
      <4>3. e2 < epochIds[c][d2]
        BY <1>5, <1>6, <3>4, <4>1, <4>2 DEF New
      <4>4. New(c, d2, epochIds[c][d2], Len(subTxs[c][d2]) + 1, v)
        BY <3>4 DEF New
      <4> QED BY <1>1, <1>5, <3>4, <4>1, <4>3, <4>4 DEF EarlierBatch, New
    <3> QED BY <1>1, <3>1, <3>3, <3>4
  <2>2. ASSUME EarlierInBatch(c, d1, u, v)' PROVE EarlierInBatch(c, d2, u, v)'
    <3>1. PICK e, i, j \in Nat : PlacedAt(c, d1, e, i, u)' /\ PlacedAt(c, d1, e, j, v)' /\ i < j
      BY <2>2 DEF EarlierInBatch
    <3>2. PlacedAt(c, d1, e, i, u)
      BY <1>1, <1>5, <1>6, <3>1 DEF New
    <3>3. CASE PlacedAt(c, d1, e, j, v)
      <4>1. EarlierInBatch(c, d2, u, v)
        BY <3>1, <3>2, <3>3 DEF PlaceInv, Parallel, EarlierInBatch
      <4> QED BY <1>1, <4>1 DEF EarlierInBatch
    <3>4. CASE New(c, d1, e, j, v)
      <4>1. PICK e2, i2 \in Nat : PlacedAt(c, d2, e2, i2, u)
        BY <3>2 DEF PlaceInv, PlacedEverywhere
      <4>2. e2 = epochIds[c][d2]
        BY <3>2, <3>4, <4>1 DEF PlaceInv, OpenTogether, New
      <4>3. i2 <= Len(subTxs[c][d2])
        BY <1>6, <4>1, <4>2
      <4>4. PICK j2 \in Nat : New(c, d2, e2, j2, v) /\ i2 < j2
        BY <1>5, <3>4, <4>2, <4>3 DEF New
      <4>5. PlacedAt(c, d2, e2, i2, u)' /\ PlacedAt(c, d2, e2, j2, v)'
        BY <1>1, <4>1, <4>4
      <4> QED BY <4>4, <4>5 DEF EarlierInBatch
    <3> QED BY <1>1, <3>1, <3>3, <3>4
  <2> QED BY <2>1, <2>2
<1> QED BY <1>8, <1>9, <1>10, <1>11, <1>12 DEF PlaceInv

\* The end of a block moves each container to the place of its epoch in the stream: no
\* transaction changes its place.
LEMMA PlaceFlushed ==
  ASSUME TypeOK, EpochInv, NEW s \in Shard, EndOfBlock(s),
         NEW c \in Shard, NEW d \in Shard, NEW e, NEW i, NEW t
  PROVE  PlacedAt(c, d, e, i, t)' <=> PlacedAt(c, d, e, i, t)
<1>1. CASE UNCHANGED <<pool, subTxs, epochIds, batchMsgs, flushed>>
  BY <1>1 DEF PlacedAt
<1>2. CASE CheckSubTxsContainers(s)
  <2>1. /\ flushed[c][d] \in Seq(Batch) /\ subTxs[c][d] \in Seq(InterTx)
        /\ epochIds[c][d] = Len(flushed[c][d]) + 1
    BY DEF TypeOK, CoordType, EpochInv, EpochCounters, Batch
  <2>2. CASE c = s /\ subTxs[s][d] # <<>>
    <3>1. flushed'[c][d] = Append(flushed[c][d], subTxs[c][d]) /\ subTxs'[c][d] = <<>>
      BY <1>2, <2>2, FlushGrows
    <3>2. /\ DOMAIN flushed'[c][d] = DOMAIN flushed[c][d] \cup {epochIds[c][d]}
          /\ flushed'[c][d][epochIds[c][d]] = subTxs[c][d]
          /\ \A f \in DOMAIN flushed[c][d] : flushed'[c][d][f] = flushed[c][d][f]
          /\ epochIds[c][d] \notin DOMAIN flushed[c][d]
      <4> DEFINE S == flushed[c][d]
                 b == subTxs[c][d]
                 n == epochIds[c][d]
      <4>1. S \in Seq(Batch) /\ b \in Batch /\ n = Len(S) + 1
        BY <2>1 DEF Batch
      <4> HIDE DEF S, b, n
      <4>2. /\ DOMAIN Append(S, b) = DOMAIN S \cup {n}
            /\ Append(S, b)[n] = b
            /\ \A f \in DOMAIN S : Append(S, b)[f] = S[f]
            /\ n \notin DOMAIN S
        BY <4>1
      <4> QED BY <3>1, <4>2 DEF S, b, n
    <3>3. ~(i \in DOMAIN subTxs'[c][d])
      BY <3>1
    <3> QED BY <3>2, <3>3 DEF PlacedAt
  <2>3. CASE ~(c = s /\ subTxs[s][d] # <<>>)
    <3>1. flushed'[c][d] = flushed[c][d] /\ epochIds'[c][d] = epochIds[c][d]
      BY <1>2, <2>3, FlushGrows
    <3>2. subTxs'[c][d] = subTxs[c][d]
      BY <1>2, <2>3, FlushGrows
    <3> QED BY <3>1, <3>2 DEF PlacedAt
  <2> QED BY <2>2, <2>3
<1> QED BY <1>1, <1>2 DEF EndOfBlock

\* ... and the containers are empty afterwards.
LEMMA PlaceEndOfBlock ==
  ASSUME TypeOK, EpochInv, PlaceInv, NEW s \in Shard, EndOfBlock(s)
  PROVE  PlaceInv'
<1>1. CASE UNCHANGED <<pool, subTxs, epochIds, batchMsgs, flushed>>
  BY <1>1, PlaceUnchanged
<1>2. CASE CheckSubTxsContainers(s)
  <2>1. \A c, d \in Shard : \A e, i, t : PlacedAt(c, d, e, i, t)' <=> PlacedAt(c, d, e, i, t)
    BY PlaceFlushed
  <2>2. Fresh'
    <3>1. \A c \in Shard : \A t : [kind |-> "InterShard", tx |-> t] \in pool'[c] =>
            [kind |-> "InterShard", tx |-> t] \in pool[c]
      BY <1>2 DEF CheckSubTxsContainers, TypeOK, PoolType
    <3> QED BY <2>1, <3>1 DEF PlaceInv, Fresh
  <2>3. PlacedOnce' /\ PlacedEverywhere'
    BY <2>1, SMTT(30) DEF PlaceInv, PlacedOnce, PlacedEverywhere
  <2>4. OpenTogether'
    <3> SUFFICES ASSUME NEW c \in Shard, NEW d1 \in Shard, NEW d2 \in Shard, NEW t \in InterTx,
                        NEW e \in Nat, NEW i \in Nat, NEW f \in Nat, NEW j \in Nat,
                        PlacedAt(c, d1, e, i, t)', e = epochIds'[c][d1], PlacedAt(c, d2, f, j, t)'
                 PROVE  f = epochIds'[c][d2]
      BY SMTT(30) DEF OpenTogether
    <3>1. PlacedAt(c, d1, e, i, t) /\ PlacedAt(c, d2, f, j, t)
      BY <2>1
    <3>2. CASE c = s
      <4>1. epochIds[c][d1] \in Nat /\ subTxs[c][d1] \in Seq(InterTx)
        BY DEF TypeOK, CoordType, Batch
      <4>0. e <= epochIds[c][d1]
        BY <3>1, PlaceFacts
      <4>2. CASE subTxs[s][d1] # <<>>
        <5>1. epochIds'[c][d1] = epochIds[c][d1] + 1
          BY <1>2, <3>2, <4>2, FlushGrows
        <5> QED BY <4>0, <4>1, <5>1
      <4>3. CASE subTxs[s][d1] = <<>>
        <5>1. epochIds'[c][d1] = epochIds[c][d1]
          BY <1>2, <3>2, <4>3, FlushGrows
        <5>2. i \in DOMAIN subTxs[c][d1]
          BY <3>1, <5>1, PlaceOpen
        <5> QED BY <3>2, <4>3, <5>2
      <4> QED BY <4>2, <4>3
    <3>3. CASE c # s
      <4>1. epochIds'[c][d1] = epochIds[c][d1] /\ epochIds'[c][d2] = epochIds[c][d2]
        BY <1>2, <3>3, FlushGrows
      <4> QED BY <3>1, <4>1 DEF PlaceInv, OpenTogether
    <3> QED BY <3>2, <3>3
  <2>5. Parallel'
    <3>1. \A c, d \in Shard : \A t, u :
            /\ EarlierBatch(c, d, t, u)' <=> EarlierBatch(c, d, t, u)
            /\ EarlierInBatch(c, d, t, u)' <=> EarlierInBatch(c, d, t, u)
      BY <2>1 DEF EarlierBatch, EarlierInBatch
    <3> QED BY <3>1 DEF PlaceInv, Parallel
  <2> QED BY <2>2, <2>3, <2>4, <2>5 DEF PlaceInv
<1> QED BY <1>1, <1>2 DEF EndOfBlock

-----------------------------------------------------------------------------
(* The order in which a shard executes the transactions of one coordinator. *)

\* IdsLess is a strict order (participantIds strings are compared with <).
LEMMA IdsLessAsymmetric ==
  ASSUME NEW p \in Seq(Shard), NEW q \in Seq(Shard), IdsLess(p, q)
  PROVE  ~IdsLess(q, p)
<1> SUFFICES ASSUME IdsLess(q, p) PROVE FALSE
  OBVIOUS
<1> DEFINE Diff(x, y, i) == /\ i \in DOMAIN x \cap DOMAIN y /\ x[i] < y[i]
                            /\ \A j \in 1..(i-1) : x[j] = y[j]
           Prefix(x, y) == Len(x) < Len(y) /\ \A j \in DOMAIN x : x[j] = y[j]
<1>0. /\ \A i \in DOMAIN p : p[i] \in Nat
      /\ \A i \in DOMAIN q : q[i] \in Nat
      /\ DOMAIN p = 1..Len(p) /\ DOMAIN q = 1..Len(q) /\ Len(p) \in Nat /\ Len(q) \in Nat
  <2>1. /\ \A i \in DOMAIN p : p[i] \in Shard
        /\ \A i \in DOMAIN q : q[i] \in Shard
    OBVIOUS
  <2>2. DOMAIN p = 1..Len(p) /\ DOMAIN q = 1..Len(q) /\ Len(p) \in Nat /\ Len(q) \in Nat
    OBVIOUS
  <2> QED BY <2>1, <2>2, ShardAssumption
<1>1. /\ Prefix(p, q) \/ \E i \in DOMAIN p \cap DOMAIN q : Diff(p, q, i)
      /\ Prefix(q, p) \/ \E i \in DOMAIN q \cap DOMAIN p : Diff(q, p, i)
  BY DEF IdsLess
<1>2. ASSUME NEW i, Diff(p, q, i), NEW k, Diff(q, p, k) PROVE FALSE
  <2>1. i \in DOMAIN p \cap DOMAIN q /\ k \in DOMAIN p \cap DOMAIN q /\ i \in Nat /\ k \in Nat
    BY <1>0, <1>2
  <2>2. CASE i = k
    BY <1>0, <1>2, <2>1, <2>2
  <2>3. CASE i < k
    <3>1. i \in 1..(k-1)
      BY <2>1, <2>3
    <3> QED BY <1>0, <1>2, <2>1, <3>1
  <2>4. CASE k < i
    <3>1. k \in 1..(i-1)
      BY <2>1, <2>4
    <3> QED BY <1>0, <1>2, <2>1, <3>1
  <2> QED BY <2>1, <2>2, <2>3, <2>4
<1>3. ASSUME Prefix(p, q), NEW k, Diff(q, p, k) PROVE FALSE
  BY <1>0, <1>3
<1>4. ASSUME Prefix(q, p), NEW k, Diff(p, q, k) PROVE FALSE
  BY <1>0, <1>4
<1>5. ~(Prefix(p, q) /\ Prefix(q, p))
  OBVIOUS
<1> HIDE DEF Diff, Prefix
<1> QED BY <1>1, <1>2, <1>3, <1>4, <1>5

\* t comes before u in the order that shard d gives the transactions of c: batches by
\* epoch, and a batch sorted with ReadWriteKeyCompare.
SameBatchAhead(c, d, t, u) == \E e, i, j \in Nat :
  /\ PlacedAt(c, d, e, i, t) /\ PlacedAt(c, d, e, j, u)
  /\ IdsLess(Participants[t], Participants[u]) \/ (Participants[t] = Participants[u] /\ i > j)
Ahead(c, d, t, u) == EarlierBatch(c, d, t, u) \/ SameBatchAhead(c, d, t, u)

\* No two transactions come each before the other; none comes before itself.
LEMMA AheadAsymmetric ==
  ASSUME TypeOK, EpochInv, PlaceInv, NEW c \in Shard, NEW d \in Shard, NEW t, NEW u,
         Ahead(c, d, t, u)
  PROVE  ~Ahead(c, d, u, t)
<1> SUFFICES ASSUME Ahead(c, d, u, t) PROVE FALSE
  OBVIOUS
<1>1. t \in InterTx /\ u \in InterTx
  BY PlaceFacts DEF Ahead, EarlierBatch, SameBatchAhead
<1>2. Participants[t] \in Seq(Shard) /\ Participants[u] \in Seq(Shard)
  BY <1>1, TxAssumption
<1>3. ASSUME NEW e, NEW i, NEW f, NEW j, PlacedAt(c, d, e, i, t), PlacedAt(c, d, f, j, u),
             NEW x, NEW y, NEW z, NEW w, PlacedAt(c, d, x, y, t), PlacedAt(c, d, z, w, u)
      PROVE  x = e /\ y = i /\ z = f /\ w = j /\ e \in Nat /\ i \in Nat /\ f \in Nat /\ j \in Nat
  <2>1. /\ e \in Nat /\ i \in Nat /\ f \in Nat /\ j \in Nat
        /\ x \in Nat /\ y \in Nat /\ z \in Nat /\ w \in Nat
    BY <1>3, PlaceFacts
  <2> QED BY <1>1, <1>3, <2>1 DEF PlaceInv, PlacedOnce
<1>4. ASSUME EarlierBatch(c, d, t, u), EarlierBatch(c, d, u, t) PROVE FALSE
  BY <1>3, <1>4 DEF EarlierBatch
<1>5. ASSUME EarlierBatch(c, d, t, u), SameBatchAhead(c, d, u, t) PROVE FALSE
  BY <1>3, <1>5 DEF EarlierBatch, SameBatchAhead
<1>6. ASSUME SameBatchAhead(c, d, t, u), EarlierBatch(c, d, u, t) PROVE FALSE
  BY <1>3, <1>6 DEF EarlierBatch, SameBatchAhead
<1>7. ASSUME SameBatchAhead(c, d, t, u), SameBatchAhead(c, d, u, t) PROVE FALSE
  <2> DEFINE p == Participants[t]
             q == Participants[u]
  <2>1. PICK e, i, j \in Nat : /\ PlacedAt(c, d, e, i, t) /\ PlacedAt(c, d, e, j, u)
                               /\ IdsLess(p, q) \/ (p = q /\ i > j)
    BY <1>7 DEF SameBatchAhead
  <2>2. PICK f, k, l \in Nat : /\ PlacedAt(c, d, f, k, u) /\ PlacedAt(c, d, f, l, t)
                               /\ IdsLess(q, p) \/ (q = p /\ k > l)
    BY <1>7 DEF SameBatchAhead
  <2>3. i = l /\ j = k
    BY <1>3, <2>1, <2>2
  <2>4. p \in Seq(Shard) /\ q \in Seq(Shard)
    BY <1>2
  <2> HIDE DEF p, q
  <2>5. ~(IdsLess(p, q) /\ IdsLess(q, p))
    BY <2>4, IdsLessAsymmetric
  <2>6. p = q => ~IdsLess(p, q) /\ ~IdsLess(q, p)
    BY <2>4, IdsLessAsymmetric
  <2> QED BY <2>1, <2>2, <2>3, <2>5, <2>6
<1> QED BY <1>4, <1>5, <1>6, <1>7 DEF Ahead

\* All shards that take part in two transactions of a coordinator order them alike.
LEMMA AheadEverywhere ==
  ASSUME TypeOK, EpochInv, PlaceInv, NEW c \in Shard, NEW d1 \in Shard, NEW d2 \in Shard,
         NEW t, NEW u, Ahead(c, d1, t, u)
  PROVE  d2 \in Range(Participants[t]) /\ d2 \in Range(Participants[u]) => Ahead(c, d2, t, u)
<1> SUFFICES ASSUME d2 \in Range(Participants[t]), d2 \in Range(Participants[u])
             PROVE  Ahead(c, d2, t, u)
  OBVIOUS
<1>1. /\ t \in InterTx /\ d1 \in Range(Participants[t])
      /\ u \in InterTx /\ d1 \in Range(Participants[u])
  BY PlaceFacts DEF Ahead, EarlierBatch, SameBatchAhead
<1>2. CASE EarlierBatch(c, d1, t, u)
  BY <1>1, <1>2 DEF PlaceInv, Parallel, Ahead
<1>3. CASE SameBatchAhead(c, d1, t, u)
  <2>1. PICK e, i, j \in Nat :
          /\ PlacedAt(c, d1, e, i, t) /\ PlacedAt(c, d1, e, j, u)
          /\ IdsLess(Participants[t], Participants[u]) \/ (Participants[t] = Participants[u] /\ i > j)
    BY <1>3 DEF SameBatchAhead
  <2>2. PICK f, k \in Nat : PlacedAt(c, d2, f, k, t)
    BY <1>1, <2>1 DEF PlaceInv, PlacedEverywhere
  <2>3. PICK g, l \in Nat : PlacedAt(c, d2, g, l, u)
    BY <1>1, <2>1 DEF PlaceInv, PlacedEverywhere
  <2>4. ~(f < g)
    <3> SUFFICES ASSUME f < g PROVE FALSE
      OBVIOUS
    <3>1. EarlierBatch(c, d1, t, u)
      BY <1>1, <2>2, <2>3 DEF PlaceInv, Parallel, EarlierBatch
    <3> QED BY <1>1, <2>1, <3>1 DEF EarlierBatch, PlaceInv, PlacedOnce
  <2>5. ~(g < f)
    <3> SUFFICES ASSUME g < f PROVE FALSE
      OBVIOUS
    <3>1. EarlierBatch(c, d1, u, t)
      BY <1>1, <2>2, <2>3 DEF PlaceInv, Parallel, EarlierBatch
    <3> QED BY <1>1, <2>1, <3>1 DEF EarlierBatch, PlaceInv, PlacedOnce
  <2>6. f = g
    BY <2>4, <2>5
  <2>7. CASE IdsLess(Participants[t], Participants[u])
    BY <2>2, <2>3, <2>6, <2>7 DEF Ahead, SameBatchAhead
  <2>8. CASE Participants[t] = Participants[u] /\ i > j
    <3>1. EarlierInBatch(c, d1, u, t)
      BY <2>1, <2>8 DEF EarlierInBatch
    <3>2. EarlierInBatch(c, d2, u, t)
      BY <1>1, <3>1 DEF PlaceInv, Parallel
    <3> QED BY <2>8, <3>2 DEF EarlierInBatch, Ahead, SameBatchAhead
  <2> QED BY <2>1, <2>7, <2>8
<1> QED BY <1>2, <1>3 DEF Ahead

\* The line of the transactions of c at d: executed (0), then those in the queue that is
\* worked on (1), then the blocked ones (2).  t stands at place i of part r.
InLine(d, c, r, i, t) ==
  \/ /\ r = 0 /\ i \in DOMAIN executed[d] /\ executed[d][i] = t
     /\ t \in InterTx /\ Coordinator[t] = c
  \/ /\ r = 1 /\ i \in DOMAIN txQueues[d][c]
     /\ txQueues[d][c][i].inter /\ txQueues[d][c][i].tx = t
  \/ /\ r = 2 /\ i \in DOMAIN blockingTxQueues[d][c]
     /\ blockingTxQueues[d][c][i].inter /\ blockingTxQueues[d][c][i].tx = t
Started(c, d, t) == \E e, i \in Nat : PlacedAt(c, d, e, i, t) /\ e <= precessedEpochIds[d][c]

\* The invariant behind SameOrder: exactly the transactions of the batches that d has
\* started stand in the line, and they stand in the order of Ahead.
OnlyStarted == \A c, d \in Shard : \A r \in 0..2 : \A i \in Nat : \A t \in InterTx :
  InLine(d, c, r, i, t) => Started(c, d, t)
AllStarted == \A c, d \in Shard : \A t \in InterTx :
  Started(c, d, t) => \E r \in 0..2 : \E i \in Nat : InLine(d, c, r, i, t)
LineOrdered == \A c, d \in Shard : \A r, q \in 0..2 : \A i, j \in Nat : \A t, u \in InterTx :
  InLine(d, c, r, i, t) /\ InLine(d, c, q, j, u) /\ (r < q \/ (r = q /\ i < j)) =>
    Ahead(c, d, t, u)
LineInv == OnlyStarted /\ AllStarted /\ LineOrdered

\* Sorting a batch loses no transaction (std::set::insert never refuses an element:
\* ReadWriteKeyCompare calls no two of them equal).
LEMMA ReorderingOnto ==
  ASSUME NEW b \in Batch, NEW r \in Reorderings(b)
  PROVE  \E p \in [DOMAIN b -> DOMAIN b] :
           /\ r = [k \in DOMAIN b |-> b[p[k]]]
           /\ \A i, j \in DOMAIN b : i < j => Before(b, p[i], p[j])
           /\ \A i \in DOMAIN b : \E k \in DOMAIN b : p[k] = i
<1>1. PICK p \in [DOMAIN b -> DOMAIN b] :
        /\ r = [k \in DOMAIN b |-> b[p[k]]]
        /\ \A i, j \in DOMAIN b : i < j => Before(b, p[i], p[j])
  BY DEF Reorderings
<1>2. DOMAIN b = 1..Len(b) /\ Len(b) \in Nat
  BY DEF Batch
<1>3. \A i \in DOMAIN b : ~Before(b, i, i)
  <2> SUFFICES ASSUME NEW i \in DOMAIN b, Before(b, i, i) PROVE FALSE
    OBVIOUS
  <2> DEFINE q == Participants[b[i]]
  <2>1. q \in Seq(Shard)
    BY TxAssumption DEF Batch
  <2>2. IdsLess(q, q)
    BY <1>2 DEF Before
  <2> HIDE DEF q
  <2> QED BY <2>1, <2>2, IdsLessAsymmetric
<1>4. \A i, j \in DOMAIN b : i # j => p[i] # p[j]
  BY <1>1, <1>2, <1>3
<1>5. ASSUME NEW i \in DOMAIN b, \A k \in DOMAIN b : p[k] # i PROVE FALSE
  <2>1. IsFiniteSet(DOMAIN b) /\ Cardinality(DOMAIN b) = Len(b)
    <3>1. IsFiniteSet(1..Len(b)) /\ Cardinality(1..Len(b)) = IF 1 > Len(b) THEN 0 ELSE Len(b) - 1 + 1
      BY <1>2, FS_Interval
    <3> QED BY <1>2, <3>1
  <2>2. IsFiniteSet(DOMAIN b \ {i}) /\ Cardinality(DOMAIN b \ {i}) = Len(b) - 1
    BY <2>1, FS_RemoveElement
  <2>3. p \in [DOMAIN b -> DOMAIN b \ {i}]
    BY <1>5
  <2>4. Cardinality(DOMAIN b \ {i}) < Cardinality(DOMAIN b)
    BY <1>2, <2>1, <2>2
  <2>5. \E x, y \in DOMAIN b : x # y /\ p[x] = p[y]
    <3> HIDE DEF Batch
    <3> QED BY <2>1, <2>2, <2>3, <2>4, FS_PigeonHole
  <2> QED BY <1>4, <2>5
<1> QED BY <1>1, <1>5

\* What stands in the line is a cross-shard transaction.
LEMMA InLineType ==
  ASSUME TypeOK, NEW d \in Shard, NEW c \in Shard, NEW r, NEW i, NEW t, InLine(d, c, r, i, t)
  PROVE  r \in 0..2 /\ i \in Nat /\ i >= 1 /\ t \in InterTx
<1>1. /\ blockingTxQueues[d][c] \in Seq(Entry) /\ txQueues[d][c] \in Seq(Entry)
      /\ executed[d] \in Seq(Tx)
  BY DEF TypeOK, QueueType
<1>2. \A e \in Entry : e.inter => e.tx \in InterTx
  BY DEF Entry, InterEntrySet, IntraEntrySet
<1>3. r \in 0..2
  BY DEF InLine
<1>4. CASE r = 0
  BY <1>1, <1>4 DEF InLine
<1>5. CASE r = 1
  <2>1. i \in DOMAIN txQueues[d][c] /\ txQueues[d][c][i].inter /\ txQueues[d][c][i].tx = t
    BY <1>5 DEF InLine
  <2>2. txQueues[d][c][i] \in Entry
    BY <1>1, <2>1
  <2> QED BY <1>1, <1>2, <1>3, <2>1, <2>2
<1>6. CASE r = 2
  <2>1. /\ i \in DOMAIN blockingTxQueues[d][c]
        /\ blockingTxQueues[d][c][i].inter /\ blockingTxQueues[d][c][i].tx = t
    BY <1>6 DEF InLine
  <2>2. blockingTxQueues[d][c][i] \in Entry
    BY <1>1, <2>1
  <2> QED BY <1>1, <1>2, <1>3, <2>1, <2>2
<1> QED BY <1>3, <1>4, <1>5, <1>6

\* A place in a stream, once taken, is kept, and so is the order.
LEMMA AheadKept ==
  ASSUME NEW c \in Shard, NEW d \in Shard,
         \A e, i, t : PlacedAt(c, d, e, i, t) => PlacedAt(c, d, e, i, t)'
  PROVE  \A t, u : Ahead(c, d, t, u) => Ahead(c, d, t, u)'
BY DEF Ahead, EarlierBatch, SameBatchAhead

\* A step that moves nothing in the line and starts no batch.
LEMMA LineUnmoved ==
  ASSUME LineInv,
         \A c, d \in Shard : \A e, i, t : PlacedAt(c, d, e, i, t) => PlacedAt(c, d, e, i, t)',
         \A c, d \in Shard : \A r, i, t : InLine(d, c, r, i, t)' <=> InLine(d, c, r, i, t),
         \A c, d \in Shard : \A t : Started(c, d, t)' <=> Started(c, d, t)
  PROVE  LineInv'
<1>1. OnlyStarted'
  BY DEF LineInv, OnlyStarted
<1>2. AllStarted'
  BY DEF LineInv, AllStarted
<1>3. LineOrdered'
  BY AheadKept DEF LineInv, LineOrdered
<1> QED BY <1>1, <1>2, <1>3 DEF LineInv

\* Coordinator side: new places are in epochs that no shard has started.
LEMMA LineStreams ==
  ASSUME TypeOK, EpochInv, LineInv, NEW s \in Shard,
         (\E t \in InterTx : ProcessInterShardTx(s, t)) \/ EndOfBlock(s)
  PROVE  LineInv'
<1>1. UNCHANGED <<precessedEpochIds, executed, txQueues, blockingTxQueues>>
  BY DEF ProcessInterShardTx, EndOfBlock, epochVars, queueVars
<1>2. \A c, d \in Shard : \A r, i, t : InLine(d, c, r, i, t)' <=> InLine(d, c, r, i, t)
  BY <1>1 DEF InLine
<1>3. ASSUME NEW c \in Shard, NEW d \in Shard, NEW e, NEW i, NEW t
      PROVE  /\ PlacedAt(c, d, e, i, t) => PlacedAt(c, d, e, i, t)'
             /\ PlacedAt(c, d, e, i, t)' /\ e \in Nat /\ e <= precessedEpochIds[d][c] =>
                  PlacedAt(c, d, e, i, t)
  <2>1. ASSUME NEW x \in InterTx, ProcessInterShardTx(s, x)
        PROVE  PlacedAt(c, d, e, i, t)' <=>
                 \/ PlacedAt(c, d, e, i, t)
                 \/ /\ c = s /\ t = x /\ d \in Range(Participants[x])
                    /\ e = epochIds[s][d] /\ i = Len(subTxs[s][d]) + 1
    BY <2>1, PlaceNew
  <2>2. EndOfBlock(s) => (PlacedAt(c, d, e, i, t)' <=> PlacedAt(c, d, e, i, t))
    BY PlaceFlushed
  <2>3. precessedEpochIds[d][c] < epochIds[c][d]
    BY DEF EpochInv, InEpochOrder
  <2>4. precessedEpochIds[d][c] \in Nat /\ epochIds[c][d] \in Nat
    BY DEF TypeOK, EpochType, CoordType
  <2> QED BY <2>1, <2>2, <2>3, <2>4
<1>4. \A c, d \in Shard : \A t : Started(c, d, t)' <=> Started(c, d, t)
  BY <1>1, <1>3 DEF Started
<1> QED BY <1>2, <1>3, <1>4, LineUnmoved

\* Steps that leave the streams, the started epochs and the cross-shard part of the line
\* alone.
LEMMA LineKept ==
  ASSUME LineInv, UNCHANGED <<subTxs, epochIds, flushed, precessedEpochIds>>,
         \A c, d \in Shard : \A r, i, t : InLine(d, c, r, i, t)' <=> InLine(d, c, r, i, t)
  PROVE  LineInv'
<1>1. \A c, d, e, i, t : PlacedAt(c, d, e, i, t)' <=> PlacedAt(c, d, e, i, t)
  BY DEF PlacedAt
<1>2. \A c, d, t : Started(c, d, t)' <=> Started(c, d, t)
  BY <1>1 DEF Started
<1> QED BY <1>1, <1>2, LineUnmoved

\* An intra-shard transaction takes no place among the cross-shard ones.
LEMMA LineIntraShard ==
  ASSUME TypeOK, LineInv, NEW d \in Shard, NEW x \in IntraTx, ProcessSingleIntraShardTx(d, x)
  PROVE  LineInv'
<1> DEFINE Q == BlockingQueueKeys(d, x)
           z == FirstQueue(d, Q)
           entry == IntraEntry(x, Q)
<1>1. UNCHANGED <<subTxs, epochIds, flushed, precessedEpochIds, txQueues>>
  BY DEF ProcessSingleIntraShardTx, epochVars
<1>2. \/ /\ executed' = [executed EXCEPT ![d] = Append(@, x)]
         /\ UNCHANGED blockingTxQueues
      \/ /\ blockingTxQueues' = [blockingTxQueues EXCEPT ![d][z] = Append(@, entry)]
         /\ UNCHANGED executed
  BY DEF ProcessSingleIntraShardTx
<1>3. x \notin InterTx /\ ~entry.inter
  BY ShardAssumption DEF IntraEntry
<1>4. /\ blockingTxQueues \in [Shard -> [Shard -> Seq(Entry)]]
      /\ executed \in [Shard -> Seq(Tx)]
  BY DEF TypeOK, QueueType
<1> HIDE DEF z, entry
<1>5. ASSUME NEW c \in Shard, NEW e \in Shard, NEW r, NEW i, NEW t
      PROVE  InLine(e, c, r, i, t)' <=> InLine(e, c, r, i, t)
  <2>1. (i \in DOMAIN executed'[e] /\ executed'[e][i] = t /\ t \in InterTx) <=>
          (i \in DOMAIN executed[e] /\ executed[e][i] = t /\ t \in InterTx)
    <3>1. CASE executed' = [executed EXCEPT ![d] = Append(@, x)] /\ e = d
      BY <1>3, <1>4, <3>1
    <3>2. CASE executed' = [executed EXCEPT ![d] = Append(@, x)] /\ e # d
      BY <1>4, <3>2
    <3> QED BY <1>2, <3>1, <3>2
  <2>2. (/\ i \in DOMAIN blockingTxQueues'[e][c]
         /\ blockingTxQueues'[e][c][i].inter /\ blockingTxQueues'[e][c][i].tx = t) <=>
        (/\ i \in DOMAIN blockingTxQueues[e][c]
         /\ blockingTxQueues[e][c][i].inter /\ blockingTxQueues[e][c][i].tx = t)
    <3>1. CASE /\ blockingTxQueues' = [blockingTxQueues EXCEPT ![d][z] = Append(@, entry)]
               /\ e = d /\ c = z
      <4> DEFINE B == blockingTxQueues[e][c]
      <4>1. blockingTxQueues'[e][c] = Append(B, entry) /\ B \in Seq(Entry)
        BY <1>4, <3>1
      <4> HIDE DEF B
      <4>2. /\ DOMAIN Append(B, entry) = DOMAIN B \cup {Len(B) + 1}
            /\ Append(B, entry)[Len(B) + 1] = entry
            /\ \A k \in DOMAIN B : Append(B, entry)[k] = B[k]
        BY <4>1
      <4>3. (i \in DOMAIN Append(B, entry) /\ Append(B, entry)[i].inter) <=>
              (i \in DOMAIN B /\ B[i].inter)
        BY <1>3, <4>1, <4>2
      <4> QED BY <4>1, <4>2, <4>3 DEF B
    <3>2. CASE /\ blockingTxQueues' = [blockingTxQueues EXCEPT ![d][z] = Append(@, entry)]
               /\ ~(e = d /\ c = z)
      <4>1. blockingTxQueues'[e][c] = blockingTxQueues[e][c]
        BY <1>4, <3>2
      <4> QED BY <4>1
    <3> QED BY <1>2, <3>1, <3>2
  <2> QED BY <1>1, <2>1, <2>2 DEF InLine
<1> QED BY <1>1, <1>5, LineKept

\* A step that moves the line of c at d only: the same transactions stand in it, and what
\* is in front of another was so before.
OnlyLineMoves(c, d) == \A y, x \in Shard : ~(y = c /\ x = d) =>
  \A r, i, t : InLine(x, y, r, i, t)' <=> InLine(x, y, r, i, t)
NoneEnters(c, d) == \A r, i, t : InLine(d, c, r, i, t)' =>
  \E q \in 0..2 : \E k \in Nat : InLine(d, c, q, k, t)
NoneLeaves(c, d) == \A q, k, t : InLine(d, c, q, k, t) =>
  \E r \in 0..2 : \E i \in Nat : InLine(d, c, r, i, t)'
NoneOvertakes(c, d) == \A r, q \in 0..2 : \A i, j \in Nat : \A t, u \in InterTx :
  InLine(d, c, r, i, t)' /\ InLine(d, c, q, j, u)' /\ (r < q \/ (r = q /\ i < j)) =>
    \E v, w \in 0..2 : \E k, l \in Nat :
      InLine(d, c, v, k, t) /\ InLine(d, c, w, l, u) /\ (v < w \/ (v = w /\ k < l))

\* Such a step keeps the invariant.
LEMMA LineMovesUp ==
  ASSUME LineInv, UNCHANGED <<subTxs, epochIds, flushed, precessedEpochIds>>,
         NEW c \in Shard, NEW d \in Shard,
         OnlyLineMoves(c, d), NoneEnters(c, d), NoneLeaves(c, d), NoneOvertakes(c, d)
  PROVE  LineInv'
<1>1. \A x, y, e, i, t : PlacedAt(x, y, e, i, t)' <=> PlacedAt(x, y, e, i, t)
  BY DEF PlacedAt
<1>2. \A x, y, t : Started(x, y, t)' <=> Started(x, y, t)
  BY <1>1 DEF Started
<1>3. \A x, y \in Shard : \A t, u : Ahead(x, y, t, u) => Ahead(x, y, t, u)'
  BY <1>1, AheadKept
<1>4. OnlyStarted'
  <2> SUFFICES ASSUME NEW y \in Shard, NEW x \in Shard, NEW r \in 0..2, NEW i \in Nat,
                      NEW t \in InterTx, InLine(x, y, r, i, t)'
               PROVE  Started(y, x, t)
    BY <1>2 DEF OnlyStarted
  <2> QED BY DEF OnlyLineMoves, NoneEnters, LineInv, OnlyStarted
<1>5. AllStarted'
  <2> SUFFICES ASSUME NEW y \in Shard, NEW x \in Shard, NEW t \in InterTx, Started(y, x, t)
               PROVE  \E r \in 0..2 : \E i \in Nat : InLine(x, y, r, i, t)'
    BY <1>2 DEF AllStarted
  <2> QED BY DEF OnlyLineMoves, NoneLeaves, LineInv, AllStarted
<1>6. LineOrdered'
  <2> SUFFICES ASSUME NEW y \in Shard, NEW x \in Shard, NEW r \in 0..2, NEW q \in 0..2,
                      NEW i \in Nat, NEW j \in Nat, NEW t \in InterTx, NEW u \in InterTx,
                      InLine(x, y, r, i, t)', InLine(x, y, q, j, u)', r < q \/ (r = q /\ i < j)
               PROVE  Ahead(y, x, t, u)'
    BY DEF LineOrdered
  <2>1. Ahead(y, x, t, u)
    <3>1. CASE y = c /\ x = d
      BY <3>1 DEF NoneOvertakes, LineInv, LineOrdered
    <3>2. CASE ~(y = c /\ x = d)
      BY <3>2 DEF OnlyLineMoves, LineInv, LineOrdered
    <3> QED BY <3>1, <3>2
  <2> QED BY <1>3, <2>1
<1> QED BY <1>4, <1>5, <1>6 DEF LineInv

\* batch_pop moves the blocked transactions as they stand.
LEMMA LineBatchPop ==
  ASSUME TypeOK, LineInv, NEW d \in Shard, NEW c \in Shard, BatchPop(d, c)
  PROVE  LineInv'
<1>1. /\ UNCHANGED <<subTxs, epochIds, flushed, precessedEpochIds, executed>>
      /\ txQueues[d][c] = <<>>
      /\ txQueues' = [txQueues EXCEPT ![d][c] = blockingTxQueues[d][c]]
      /\ blockingTxQueues' = [blockingTxQueues EXCEPT ![d][c] = <<>>]
  BY DEF BatchPop, coordVars, epochVars
<1>2. /\ blockingTxQueues \in [Shard -> [Shard -> Seq(Entry)]]
      /\ txQueues \in [Shard -> [Shard -> Seq(Entry)]]
  BY DEF TypeOK, QueueType
<1>3. ASSUME NEW y \in Shard, NEW x \in Shard, ~(y = c /\ x = d), NEW r, NEW i, NEW t
      PROVE  InLine(x, y, r, i, t)' <=> InLine(x, y, r, i, t)
  <2>1. txQueues'[x][y] = txQueues[x][y] /\ blockingTxQueues'[x][y] = blockingTxQueues[x][y]
    BY <1>1, <1>2, <1>3
  <2> QED BY <1>1, <2>1 DEF InLine
<1>4. ASSUME NEW r, NEW i, NEW t
      PROVE  InLine(d, c, r, i, t)' <=> \/ (r = 0 /\ InLine(d, c, 0, i, t))
                                       \/ (r = 1 /\ InLine(d, c, 2, i, t))
  <2>1. txQueues'[d][c] = blockingTxQueues[d][c] /\ blockingTxQueues'[d][c] = <<>>
    BY <1>1, <1>2
  <2>2. i \notin DOMAIN blockingTxQueues'[d][c]
    BY <2>1
  <2> QED BY <1>1, <2>1, <2>2 DEF InLine
<1>5. \A i, t : ~InLine(d, c, 1, i, t)
  BY <1>1 DEF InLine
<1>6. \A r, i, t : InLine(d, c, r, i, t) => r \in 0..2 /\ i \in Nat
  BY InLineType
<1>7. \A r, i, t : InLine(d, c, r, i, t)' => \E q \in 0..2 : \E k \in Nat : InLine(d, c, q, k, t)
  BY <1>4, <1>6
<1>8. ASSUME NEW q, NEW k, NEW t, InLine(d, c, q, k, t)
      PROVE  \E r \in 0..2 : \E i \in Nat : InLine(d, c, r, i, t)'
  <2>1. k \in Nat /\ q \in {0, 2}
    BY <1>5, <1>6, <1>8
  <2>2. InLine(d, c, 0, k, t)' \/ InLine(d, c, 1, k, t)'
    BY <1>4, <1>8, <2>1
  <2> QED BY <2>1, <2>2
<1>9. ASSUME NEW r \in 0..2, NEW q \in 0..2, NEW i \in Nat, NEW j \in Nat,
             NEW t \in InterTx, NEW u \in InterTx,
             InLine(d, c, r, i, t)', InLine(d, c, q, j, u)', r < q \/ (r = q /\ i < j)
      PROVE  \E v, w \in 0..2 : \E k, l \in Nat :
               InLine(d, c, v, k, t) /\ InLine(d, c, w, l, u) /\ (v < w \/ (v = w /\ k < l))
  <2> DEFINE old(n) == IF n = 0 THEN 0 ELSE 2
  <2>1. InLine(d, c, old(r), i, t) /\ InLine(d, c, old(q), j, u) /\ r # 2 /\ q # 2
    BY <1>4, <1>9
  <2>2. old(r) < old(q) \/ (old(r) = old(q) /\ i < j)
    BY <1>9, <2>1
  <2>3. old(r) \in 0..2 /\ old(q) \in 0..2
    OBVIOUS
  <2> HIDE DEF old
  <2> QED BY <2>1, <2>2, <2>3
<1>10. UNCHANGED <<subTxs, epochIds, flushed, precessedEpochIds>>
  BY <1>1
<1>11. OnlyLineMoves(c, d)
  BY <1>3 DEF OnlyLineMoves
<1>12. NoneEnters(c, d)
  BY <1>7 DEF NoneEnters
<1>13. NoneLeaves(c, d)
  BY <1>8 DEF NoneLeaves
<1>14. NoneOvertakes(c, d)
  BY <1>9 DEF NoneOvertakes
<1> QED BY <1>10, <1>11, <1>12, <1>13, <1>14, LineMovesUp

\* The first transaction of the queue is executed (or, if it is an intra-shard one, leaves).
LEMMA LineExecute ==
  ASSUME TypeOK, EpochInv, LineInv, NEW d \in Shard, NEW c \in Shard,
         ExecuteInterShardTx(d, c) \/ ExecuteBlockedIntraShardTx(d, c)
  PROVE  LineInv'
<1> DEFINE head == Head(txQueues[d][c])
           n == Len(executed[d]) + 1
<1>1. /\ UNCHANGED <<subTxs, epochIds, flushed, precessedEpochIds, blockingTxQueues>>
      /\ txQueues[d][c] # <<>>
      /\ txQueues' = [txQueues EXCEPT ![d][c] = Tail(@)]
      /\ executed' = [executed EXCEPT ![d] = Append(@, head.tx)] \/ (~head.inter /\ executed' = executed)
  BY DEF ExecuteInterShardTx, ExecuteBlockedIntraShardTx, PopHead, coordVars, epochVars, TypeOK
<1>2. /\ txQueues \in [Shard -> [Shard -> Seq(Entry)]]
      /\ executed \in [Shard -> Seq(Tx)]
  BY DEF TypeOK, QueueType
<1>3. head.inter => InLine(d, c, 1, 1, head.tx)
  BY <1>1, <1>2 DEF InLine
<1>4. /\ head.inter => head.tx \in InterTx /\ Coordinator[head.tx] = c
      /\ ~head.inter => head.tx \notin InterTx
  <2>1. head \in Entry
    BY <1>1, HeadType
  <2>2. ~head.inter => head.tx \notin InterTx
    BY <2>1, ShardAssumption DEF Entry, InterEntrySet, IntraEntrySet
  <2>3. ASSUME head.inter PROVE head.tx \in InterTx /\ Coordinator[head.tx] = c
    <3>1. head.tx \in InterTx
      BY <1>3, <2>3, InLineType
    <3>2. Started(c, d, head.tx)
      BY <1>3, <2>3, <3>1 DEF LineInv, OnlyStarted
    <3> QED BY <3>2, PlaceFacts DEF Started
  <2> QED BY <2>2, <2>3
<1>5. ASSUME NEW y \in Shard, NEW x \in Shard, NEW i, NEW t, t \in InterTx, Coordinator[t] = y
      PROVE  (i \in DOMAIN executed'[x] /\ executed'[x][i] = t) <=>
               \/ i \in DOMAIN executed[x] /\ executed[x][i] = t
               \/ x = d /\ y = c /\ head.inter /\ i = n /\ t = head.tx
  <2>1. CASE executed' = [executed EXCEPT ![d] = Append(@, head.tx)] /\ x = d
    <3> DEFINE E == executed[d]
               h == head.tx
    <3>1. executed'[x] = Append(E, h) /\ E \in Seq(Tx) /\ n = Len(E) + 1
      BY <1>2, <2>1
    <3>2. t = h <=> y = c /\ head.inter /\ t = h
      BY <1>4, <1>5
    <3> HIDE DEF E, h, head, n
    <3>3. (i \in DOMAIN Append(E, h) /\ Append(E, h)[i] = t) <=>
            (i \in DOMAIN E /\ E[i] = t) \/ (i = n /\ t = h)
      BY <3>1
    <3> QED BY <2>1, <3>1, <3>2, <3>3 DEF E, h
  <2>2. CASE executed' = [executed EXCEPT ![d] = Append(@, head.tx)] /\ x # d
    BY <1>2, <2>2
  <2>3. CASE ~head.inter /\ executed' = executed
    BY <2>3
  <2> QED BY <1>1, <2>1, <2>2, <2>3
<1>6. ASSUME NEW y \in Shard, NEW x \in Shard, ~(y = c /\ x = d), NEW r, NEW i, NEW t
      PROVE  InLine(x, y, r, i, t)' <=> InLine(x, y, r, i, t)
  <2>1. txQueues'[x][y] = txQueues[x][y]
    BY <1>1, <1>2, <1>6
  <2>2. (i \in DOMAIN executed'[x] /\ executed'[x][i] = t /\ t \in InterTx /\ Coordinator[t] = y)
          <=> (i \in DOMAIN executed[x] /\ executed[x][i] = t /\ t \in InterTx /\ Coordinator[t] = y)
    BY <1>5, <1>6
  <2> HIDE DEF head, n
  <2> QED BY <1>1, <2>1, <2>2 DEF InLine
<1>7. ASSUME NEW r, NEW i, NEW t
      PROVE  InLine(d, c, r, i, t)' <=>
               \/ (r = 0 /\ InLine(d, c, 0, i, t))
               \/ (r = 0 /\ i = n /\ t = head.tx /\ head.inter)
               \/ (r = 1 /\ i \in Nat \ {0} /\ InLine(d, c, 1, i + 1, t))
               \/ (r = 2 /\ InLine(d, c, 2, i, t))
  <2> DEFINE S == txQueues[d][c]
  <2>1. txQueues'[d][c] = Tail(S) /\ S \in Seq(Entry) /\ S # <<>>
    BY <1>1, <1>2
  <2>2. i \in DOMAIN txQueues'[d][c] <=> i \in Nat \ {0} /\ i + 1 \in DOMAIN S
    BY <2>1
  <2>3. i \in DOMAIN txQueues'[d][c] => txQueues'[d][c][i] = S[i + 1]
    BY <2>1
  <2>4. (i \in DOMAIN executed'[d] /\ executed'[d][i] = t /\ t \in InterTx /\ Coordinator[t] = c)
          <=> \/ i \in DOMAIN executed[d] /\ executed[d][i] = t /\ t \in InterTx /\ Coordinator[t] = c
              \/ head.inter /\ i = n /\ t = head.tx
    BY <1>4, <1>5
  <2> HIDE DEF head, n
  <2> QED BY <1>1, <2>2, <2>3, <2>4 DEF InLine
<1>8. \A r, i, t : InLine(d, c, r, i, t) => r \in 0..2 /\ i \in Nat /\ i >= 1 /\ t \in InterTx
  BY InLineType
<1>9. n \in Nat /\ \A i, t : InLine(d, c, 0, i, t) => i < n
  BY <1>2 DEF InLine
<1>10. \A i, t : InLine(d, c, 1, i, t) => (i = 1 /\ t = head.tx /\ head.inter) \/ i > 1
  <2>1. \A i, t : InLine(d, c, 1, i, t) => i \in DOMAIN txQueues[d][c] /\ (i = 1 => t = head.tx /\ head.inter)
    BY <1>1, <1>2 DEF InLine
  <2> QED BY <1>8, <2>1
<1> HIDE DEF head, n
<1>11. \A r, i, t : InLine(d, c, r, i, t)' => \E q \in 0..2 : \E k \in Nat : InLine(d, c, q, k, t)
  BY <1>3, <1>7, <1>8
<1>12. ASSUME NEW q, NEW k, NEW t, InLine(d, c, q, k, t)
       PROVE  \E r \in 0..2 : \E i \in Nat : InLine(d, c, r, i, t)'
  <2>0. k \in Nat /\ q \in 0..2
    BY <1>8, <1>12
  <2>1. CASE q = 0 \/ q = 2
    BY <1>7, <1>12, <2>0, <2>1
  <2>2. CASE q = 1 /\ k = 1
    <3>1. PICK m \in Nat : m = n
      BY <1>9
    <3>2. InLine(d, c, 0, m, t)'
      BY <1>7, <1>10, <1>12, <2>2, <3>1
    <3> QED BY <3>2
  <2>3. CASE q = 1 /\ k > 1
    <3>1. PICK i \in Nat \ {0} : k = i + 1
      BY <2>0, <2>3
    <3>2. InLine(d, c, 1, i, t)'
      BY <1>7, <1>12, <2>3, <3>1
    <3> QED BY <3>2
  <2> QED BY <1>8, <1>12, <2>0, <2>1, <2>2, <2>3
<1>13. ASSUME NEW r \in 0..2, NEW q \in 0..2, NEW i \in Nat, NEW j \in Nat,
              NEW t \in InterTx, NEW u \in InterTx,
              InLine(d, c, r, i, t)', InLine(d, c, q, j, u)', r < q \/ (r = q /\ i < j)
       PROVE  \E v, w \in 0..2 : \E k, l \in Nat :
                InLine(d, c, v, k, t) /\ InLine(d, c, w, l, u) /\ (v < w \/ (v = w /\ k < l))
  <2>1. \/ r = 0 /\ InLine(d, c, 0, i, t)
        \/ r = 0 /\ i = n /\ InLine(d, c, 1, 1, t)
        \/ r = 1 /\ i >= 1 /\ InLine(d, c, 1, i + 1, t)
        \/ r = 2 /\ InLine(d, c, 2, i, t)
    BY <1>3, <1>7, <1>13
  <2>2. \/ q = 0 /\ InLine(d, c, 0, j, u)
        \/ q = 0 /\ j = n /\ InLine(d, c, 1, 1, u)
        \/ q = 1 /\ j >= 1 /\ InLine(d, c, 1, j + 1, u)
        \/ q = 2 /\ InLine(d, c, 2, j, u)
    BY <1>3, <1>7, <1>13
  <2>3. CASE r = 0 /\ InLine(d, c, 0, i, t)
    BY <1>9, <1>13, <2>2, <2>3
  <2>4. CASE r = 0 /\ i = n /\ InLine(d, c, 1, 1, t)
    BY <1>9, <1>13, <2>2, <2>4
  <2>5. CASE r = 1 /\ i >= 1 /\ InLine(d, c, 1, i + 1, t)
    BY <1>9, <1>13, <2>2, <2>5
  <2>6. CASE r = 2 /\ InLine(d, c, 2, i, t)
    BY <1>9, <1>13, <2>2, <2>6
  <2> QED BY <2>1, <2>3, <2>4, <2>5, <2>6
<1>14. UNCHANGED <<subTxs, epochIds, flushed, precessedEpochIds>>
  BY <1>1
<1>15. OnlyLineMoves(c, d)
  BY <1>6 DEF OnlyLineMoves
<1>16. NoneEnters(c, d)
  BY <1>11 DEF NoneEnters
<1>17. NoneLeaves(c, d)
  BY <1>12 DEF NoneLeaves
<1>18. NoneOvertakes(c, d)
  BY <1>13 DEF NoneOvertakes
<1> QED BY <1>14, <1>15, <1>16, <1>17, <1>18, LineMovesUp

\* The elements of two sequences, one behind the other.
LEMMA ConcatElements ==
  ASSUME NEW S, NEW B \in Seq(S), NEW E \in Seq(S)
  PROVE  /\ \A i : i \in DOMAIN (B \o E) <=> i \in DOMAIN B \/ \E k \in DOMAIN E : i = Len(B) + k
         /\ \A k \in DOMAIN B : (B \o E)[k] = B[k]
         /\ \A k \in DOMAIN E : (B \o E)[Len(B) + k] = E[k] /\ Len(B) + k \notin DOMAIN B
<1>1. /\ DOMAIN (B \o E) = 1..(Len(B) + Len(E)) /\ DOMAIN B = 1..Len(B) /\ DOMAIN E = 1..Len(E)
      /\ Len(B) \in Nat /\ Len(E) \in Nat
  OBVIOUS
<1>2. ASSUME NEW i \in 1..(Len(B) + Len(E)), i \notin 1..Len(B)
      PROVE  i - Len(B) \in 1..Len(E) /\ i = Len(B) + (i - Len(B))
  BY <1>1, <1>2
<1>3. ASSUME NEW k \in 1..Len(E) PROVE Len(B) + k \in 1..(Len(B) + Len(E)) /\ Len(B) + k \notin 1..Len(B)
  BY <1>1
<1>4. 1..Len(B) \subseteq 1..(Len(B) + Len(E))
  BY <1>1
<1>5. /\ \A k \in DOMAIN B : (B \o E)[k] = B[k]
      /\ \A k \in DOMAIN E : (B \o E)[Len(B) + k] = E[k]
  OBVIOUS
<1> QED BY <1>1, <1>2, <1>3, <1>4, <1>5

\* Starting the next batch of c: its transactions join the end of the line, sorted.
LEMMA LineProcessBatch ==
  ASSUME TypeOK, EpochInv, PlaceInv, LineInv, NEW d \in Shard, NEW c \in Shard, NEW b \in Batch,
         NEW e, e = precessedEpochIds[d][c] + 1, Produced(c, d, e, b),
         ProcessBatchSubInterShardTxs(d, c, b),
         precessedEpochIds' = [precessedEpochIds EXCEPT ![d][c] = e],
         UNCHANGED <<subTxs, epochIds, flushed, executed>>
  PROVE  LineInv'
<1> DEFINE B == blockingTxQueues[d][c]
           n == Len(B)
<1>1. PICK r \in Reorderings(b) :
        /\ blockingTxQueues' = [blockingTxQueues EXCEPT ![d][c] = @ \o InterEntries(d, r)]
        /\ UNCHANGED txQueues
  BY DEF ProcessBatchSubInterShardTxs
<1>2. PICK p \in [DOMAIN b -> DOMAIN b] :
        /\ r = [k \in DOMAIN b |-> b[p[k]]]
        /\ \A i, j \in DOMAIN b : i < j => Before(b, p[i], p[j])
        /\ \A i \in DOMAIN b : \E k \in DOMAIN b : p[k] = i
  BY ReorderingOnto
<1>3. /\ blockingTxQueues \in [Shard -> [Shard -> Seq(Entry)]]
      /\ precessedEpochIds \in [Shard -> [Shard -> Nat]]
      /\ flushed[c][d] \in Seq(Batch) /\ epochIds[c][d] = Len(flushed[c][d]) + 1
  <2>1. /\ blockingTxQueues \in [Shard -> [Shard -> Seq(Entry)]]
        /\ precessedEpochIds \in [Shard -> [Shard -> Nat]]
    BY DEF TypeOK, QueueType, EpochType
  <2>2. flushed[c][d] \in Seq(Batch) /\ epochIds[c][d] = Len(flushed[c][d]) + 1
    BY DEF TypeOK, CoordType, EpochInv, EpochCounters
  <2> QED BY <2>1, <2>2
<1>4. B \in Seq(Entry) /\ n \in Nat /\ e \in Nat /\ DOMAIN b = 1..Len(b) /\ Len(b) \in Nat
  BY <1>3 DEF Batch
<1>5. /\ DOMAIN r = DOMAIN b /\ \A k \in DOMAIN b : r[k] = b[p[k]] /\ p[k] \in DOMAIN b
      /\ \A k \in DOMAIN b : b[k] \in InterTx
  BY <1>2 DEF Batch
<1>6. \A x, y, f, i, t : PlacedAt(x, y, f, i, t)' <=> PlacedAt(x, y, f, i, t)
  BY DEF PlacedAt
<1>7. \A x, y \in Shard : \A t, u : Ahead(x, y, t, u) => Ahead(x, y, t, u)'
  BY <1>6, AheadKept
<1>8. \A i, t : PlacedAt(c, d, e, i, t) <=> i \in DOMAIN b /\ b[i] = t
  <2>1. e \in DOMAIN flushed[c][d] /\ flushed[c][d][e] = b /\ e # epochIds[c][d]
    BY <1>3, SMTT(30) DEF Produced
  <2> QED BY <2>1 DEF PlacedAt
<1>9. ASSUME NEW y \in Shard, NEW x \in Shard, ~(y = c /\ x = d)
      PROVE  /\ \A q, i, t : InLine(x, y, q, i, t)' <=> InLine(x, y, q, i, t)
             /\ \A t : Started(y, x, t)' <=> Started(y, x, t)
  <2>1. /\ blockingTxQueues'[x][y] = blockingTxQueues[x][y]
        /\ precessedEpochIds'[x][y] = precessedEpochIds[x][y]
    BY <1>1, <1>3, <1>9
  <2>2. ASSUME NEW q, NEW i, NEW t PROVE InLine(x, y, q, i, t)' <=> InLine(x, y, q, i, t)
    BY <1>1, <2>1 DEF InLine
  <2>3. \A t : Started(y, x, t)' <=> Started(y, x, t)
    BY <1>6, <2>1 DEF Started
  <2> QED BY <2>2, <2>3
<1>10. ASSUME NEW q, NEW i, NEW t
       PROVE  InLine(d, c, q, i, t)' <=>
                \/ InLine(d, c, q, i, t)
                \/ q = 2 /\ \E k \in DOMAIN b : i = n + k /\ t = r[k]
  <2> DEFINE E == InterEntries(d, r)
  <2>1. /\ DOMAIN E = 1..Len(b) /\ Len(E) = Len(b) /\ E \in Seq(Entry)
        /\ \A k \in DOMAIN b : E[k].inter /\ E[k].tx = r[k]
    <3>1. DOMAIN E = DOMAIN b /\ \A k \in DOMAIN b : E[k].inter /\ E[k].tx = r[k]
      BY <1>5 DEF InterEntries, InterEntry
    <3>2. E \in Seq(Entry)
      <4>1. r \in Batch
        BY ReorderingType
      <4>2. IsBatchFor(c, d, b)
        BY DEF Produced, EpochInv, Addressed
      <4>3. \A k \in DOMAIN r : d \in Range(Participants[r[k]])
        BY <1>5, <4>2 DEF IsBatchFor
      <4> HIDE DEF E
      <4> QED BY <4>1, <4>3, InterEntriesType DEF E
    <3> HIDE DEF E
    <3> QED BY <1>4, <3>1, <3>2
  <2>2. blockingTxQueues'[d][c] = B \o E
    BY <1>1, <1>3
  <2> HIDE DEF E, B
  <2>3. /\ i \in DOMAIN (B \o E) <=> i \in DOMAIN B \/ \E k \in DOMAIN b : i = n + k
        /\ \A k \in DOMAIN B : (B \o E)[k] = B[k]
        /\ \A k \in DOMAIN b : (B \o E)[n + k] = E[k] /\ n + k \notin DOMAIN B
    BY <1>4, <2>1, ConcatElements
  <2>4. (i \in DOMAIN (B \o E) /\ (B \o E)[i].inter /\ (B \o E)[i].tx = t) <=>
          \/ i \in DOMAIN B /\ B[i].inter /\ B[i].tx = t
          \/ \E k \in DOMAIN b : i = n + k /\ t = r[k]
    <3> DEFINE C == B \o E
    <3>1. /\ i \in DOMAIN C <=> i \in DOMAIN B \/ \E k \in DOMAIN b : i = n + k
          /\ \A k \in DOMAIN B : C[k] = B[k]
          /\ \A k \in DOMAIN b : C[n + k].inter /\ C[n + k].tx = r[k] /\ n + k \notin DOMAIN B
      BY <2>1, <2>3
    <3> HIDE DEF C, n
    <3>2. CASE i \in DOMAIN B
      <4>1. i \in DOMAIN C /\ C[i] = B[i] /\ ~\E k \in DOMAIN b : i = n + k
        BY <3>1, <3>2
      <4> QED BY <3>2, <4>1
    <3>3. CASE i \notin DOMAIN B
      <4>1. i \in DOMAIN C <=> \E k \in DOMAIN b : i = n + k
        BY <3>1, <3>3
      <4>2. \A k \in DOMAIN b : i = n + k => C[i].inter /\ C[i].tx = r[k]
        BY <3>1
      <4>3. ASSUME i \in DOMAIN C, C[i].tx = t PROVE \E k \in DOMAIN b : i = n + k /\ t = r[k]
        BY <4>1, <4>2, <4>3
      <4>4. ASSUME NEW k \in DOMAIN b, i = n + k, t = r[k]
            PROVE  i \in DOMAIN C /\ C[i].inter /\ C[i].tx = t
        BY <4>1, <4>2, <4>4
      <4> QED BY <3>3, <4>3, <4>4, Zenon DEF C
    <3> QED BY <3>2, <3>3
  <2>5. (/\ i \in DOMAIN blockingTxQueues'[d][c]
         /\ blockingTxQueues'[d][c][i].inter /\ blockingTxQueues'[d][c][i].tx = t) <=>
          \/ /\ i \in DOMAIN blockingTxQueues[d][c]
             /\ blockingTxQueues[d][c][i].inter /\ blockingTxQueues[d][c][i].tx = t
          \/ \E k \in DOMAIN b : i = n + k /\ t = r[k]
    BY <2>2, <2>4 DEF B
  <2> HIDE DEF n
  <2> QED BY <1>1, <2>5 DEF InLine
<1>11. \A t : Started(c, d, t)' <=> Started(c, d, t) \/ \E k \in DOMAIN b : b[k] = t
  <2>1. precessedEpochIds'[d][c] = e /\ precessedEpochIds[d][c] \in Nat
    BY <1>3
  <2>2. \A f \in Nat : f <= e <=> f <= precessedEpochIds[d][c] \/ f = e
    BY <2>1
  <2>3. DOMAIN b \subseteq Nat
    BY <1>4
  <2> QED BY <1>4, <1>6, <1>8, <2>1, <2>2, <2>3 DEF Started
<1>12. \A i, t : InLine(d, c, 2, i, t) => i <= n
  BY <1>4 DEF InLine
<1>13. \A q, i, t : InLine(d, c, q, i, t) => q \in 0..2 /\ i \in Nat /\ t \in InterTx
  BY InLineType
<1>14. ASSUME NEW t, NEW k \in DOMAIN b, Started(c, d, t) PROVE Ahead(c, d, t, r[k])
  <2>1. PICK f, i \in Nat : PlacedAt(c, d, f, i, t) /\ f <= precessedEpochIds[d][c]
    BY <1>14 DEF Started
  <2>2. f < e
    BY <1>3, <2>1
  <2>3. PlacedAt(c, d, e, p[k], r[k]) /\ p[k] \in Nat
    BY <1>4, <1>5, <1>8
  <2> QED BY <1>4, <2>1, <2>2, <2>3 DEF Ahead, EarlierBatch
<1>15. ASSUME NEW k \in DOMAIN b, NEW l \in DOMAIN b, k < l PROVE Ahead(c, d, r[k], r[l])
  <2>1. Before(b, p[k], p[l])
    BY <1>2, <1>15
  <2>2. /\ PlacedAt(c, d, e, p[k], r[k]) /\ p[k] \in Nat
        /\ PlacedAt(c, d, e, p[l], r[l]) /\ p[l] \in Nat
    BY <1>4, <1>5, <1>8
  <2> QED BY <1>4, <1>5, <2>1, <2>2 DEF Before, Ahead, SameBatchAhead
<1> HIDE DEF B, n
<1>16. OnlyStarted'
  <2> SUFFICES ASSUME NEW y \in Shard, NEW x \in Shard, NEW q \in 0..2, NEW i \in Nat,
                      NEW t \in InterTx, InLine(x, y, q, i, t)'
               PROVE  Started(y, x, t)'
    BY DEF OnlyStarted
  <2>1. CASE y = c /\ x = d
    BY <1>5, <1>10, <1>11, <2>1 DEF LineInv, OnlyStarted
  <2>2. CASE ~(y = c /\ x = d)
    BY <1>9, <2>2 DEF LineInv, OnlyStarted
  <2> QED BY <2>1, <2>2
<1>17. AllStarted'
  <2> SUFFICES ASSUME NEW y \in Shard, NEW x \in Shard, NEW t \in InterTx, Started(y, x, t)'
               PROVE  \E q \in 0..2 : \E i \in Nat : InLine(x, y, q, i, t)'
    BY DEF AllStarted
  <2>1. CASE y = c /\ x = d /\ Started(c, d, t)
    BY <1>10, <2>1 DEF LineInv, AllStarted
  <2>2. CASE y = c /\ x = d /\ \E k \in DOMAIN b : b[k] = t
    <3>1. PICK k \in DOMAIN b : r[k] = t
      BY <1>2, <1>5, <2>2
    <3>2. PICK i \in Nat : i = n + k
      BY <1>4
    <3>3. InLine(d, c, 2, i, t)'
      BY <1>10, <3>1, <3>2
    <3> QED BY <2>2, <3>3
  <2>3. CASE ~(y = c /\ x = d)
    BY <1>9, <2>3 DEF LineInv, AllStarted
  <2> QED BY <1>11, <2>1, <2>2, <2>3
<1>18. LineOrdered'
  <2> SUFFICES ASSUME NEW y \in Shard, NEW x \in Shard, NEW v \in 0..2, NEW w \in 0..2,
                      NEW i \in Nat, NEW j \in Nat, NEW t \in InterTx, NEW u \in InterTx,
                      InLine(x, y, v, i, t)', InLine(x, y, w, j, u)', v < w \/ (v = w /\ i < j)
               PROVE  Ahead(y, x, t, u)'
    BY DEF LineOrdered
  <2>1. CASE ~(y = c /\ x = d)
    <3>1. Ahead(y, x, t, u)
      BY <1>9, <2>1 DEF LineInv, LineOrdered
    <3> QED BY <1>7, <3>1
  <2>2. CASE y = c /\ x = d
    <3>1. CASE InLine(d, c, v, i, t) /\ InLine(d, c, w, j, u)
      <4>1. Ahead(c, d, t, u)
        BY <3>1 DEF LineInv, LineOrdered
      <4> QED BY <1>7, <2>2, <4>1
    <3>2. ASSUME InLine(d, c, v, i, t), NEW k \in DOMAIN b, u = r[k] PROVE Ahead(y, x, t, u)'
      <4>1. Started(c, d, t)
        BY <3>2 DEF LineInv, OnlyStarted
      <4>2. Ahead(c, d, t, u)
        BY <1>14, <3>2, <4>1
      <4> QED BY <1>7, <2>2, <4>2
    <3>3. ASSUME NEW k \in DOMAIN b, v = 2, i = n + k, t = r[k] PROVE Ahead(y, x, t, u)'
      <4>1. w = 2 /\ i < j
        BY <3>3
      <4>2. ~InLine(d, c, w, j, u)
        BY <1>4, <1>12, <3>3, <4>1
      <4>3. PICK l \in DOMAIN b : j = n + l /\ u = r[l]
        BY <1>10, <2>2, <4>2
      <4>4. k < l
        BY <1>4, <3>3, <4>1, <4>3
      <4>5. Ahead(c, d, t, u)
        BY <1>15, <3>3, <4>3, <4>4
      <4> QED BY <1>7, <2>2, <4>5
    <3> QED BY <1>10, <2>2, <3>1, <3>2, <3>3
  <2> QED BY <2>1, <2>2
<1> QED BY <1>16, <1>17, <1>18 DEF LineInv

-----------------------------------------------------------------------------
(* The theorem about the order.                                             *)

\* Initially nothing has a place and every line is empty.
LEMMA OrderInit == Init => PlaceInv /\ LineInv
<1> SUFFICES ASSUME Init PROVE PlaceInv /\ LineInv
  OBVIOUS
<1>1. \A c, d \in Shard : \A e, i, t : ~PlacedAt(c, d, e, i, t)
  BY DEF Init, PlacedAt
<1>2. \A c, d \in Shard : \A r, i, t : ~InLine(d, c, r, i, t)
  BY DEF Init, InLine
<1>3. PlaceInv
  BY <1>1 DEF PlaceInv, Fresh, PlacedOnce, PlacedEverywhere, OpenTogether, Parallel,
              EarlierBatch, EarlierInBatch
<1>4. LineInv
  BY <1>1, <1>2 DEF LineInv, OnlyStarted, AllStarted, LineOrdered, Started
<1> QED BY <1>3, <1>4

\* A batch of the chain, or of the cache, that is started.
LEMMA OrderBatch ==
  ASSUME TypeOK, EpochInv, PlaceInv, LineInv, NEW d \in Shard,
         \/ \E item \in pool[d] : ProcessOrderedBatchedSubInterShardTxs(d, item)
         \/ DrainCachedBatch(d)
  PROVE  PlaceInv' /\ LineInv'
<1>1. /\ UNCHANGED <<subTxs, epochIds, flushed, executed>>
      /\ \A s \in Shard : pool'[s] \subseteq pool[s]
  BY DEF ProcessOrderedBatchedSubInterShardTxs, DrainCachedBatch, coordVars, TypeOK, PoolType
<1>2. PlaceInv'
  BY <1>1, PlaceUnchanged
<1>3. ASSUME NEW item \in pool[d], ProcessOrderedBatchedSubInterShardTxs(d, item) PROVE LineInv'
  <2>1. item.kind = "BatchedSubInterShard" /\ item \in BatchItem
    BY <1>3 DEF ProcessOrderedBatchedSubInterShardTxs, TypeOK, PoolType, InterItem, IntraItem
  <2>2. item.coord \in Shard /\ item.txs \in Batch
    BY <2>1 DEF BatchItem
  <2>3. CASE ProcessNextEpoch(d, item)
    <3>1. /\ item.epoch = precessedEpochIds[d][item.coord] + 1
          /\ ProcessBatchSubInterShardTxs(d, item.coord, item.txs)
          /\ precessedEpochIds' = [precessedEpochIds EXCEPT ![d][item.coord] = item.epoch]
      BY <2>3 DEF ProcessNextEpoch
    <3>2. Produced(item.coord, d, item.epoch, item.txs)
      BY <2>1 DEF EpochInv, InTransitProduced
    <3> QED BY <1>1, <2>2, <3>1, <3>2, LineProcessBatch
  <2>4. CASE CacheBatch(d, item)
    <3>1. UNCHANGED <<precessedEpochIds, txQueues, blockingTxQueues>>
      BY <2>4 DEF CacheBatch, queueVars
    <3>2. \A c, x, r, i, t : InLine(x, c, r, i, t)' <=> InLine(x, c, r, i, t)
      BY <1>1, <3>1 DEF InLine
    <3>3. UNCHANGED <<subTxs, epochIds, flushed, precessedEpochIds>>
      BY <1>1, <3>1
    <3> QED BY <3>2, <3>3, LineKept
  <2> QED BY <1>3, <2>3, <2>4 DEF ProcessOrderedBatchedSubInterShardTxs
<1>4. ASSUME DrainCachedBatch(d) PROVE LineInv'
  <2> DEFINE c == draining[d]
             e == precessedEpochIds[d][c] + 1
             b == cachedBatchTxs[d][c][e]
  <2>1. c \in Shard
    BY <1>4 DEF DrainCachedBatch, TypeOK, EpochType
  <2>2. e \in DOMAIN cachedBatchTxs[d][c]
    BY <1>4 DEF DrainCachedBatch, EpochInv, EpochCounters
  <2>3. b \in Batch
    BY <2>1, <2>2 DEF TypeOK, EpochType, CacheType
  <2>4. Produced(c, d, e, b)
    BY <2>1, <2>2 DEF EpochInv, InTransitProduced
  <2>5. /\ ProcessBatchSubInterShardTxs(d, c, b)
        /\ precessedEpochIds' = [precessedEpochIds EXCEPT ![d][c] = e]
        /\ e = precessedEpochIds[d][c] + 1
    BY <1>4 DEF DrainCachedBatch
  <2> HIDE DEF b, e, c
  <2> QED BY <1>1, <2>1, <2>3, <2>4, <2>5, LineProcessBatch
<1> QED BY <1>2, <1>3, <1>4

\* Every step of every thread keeps places and lines.
LEMMA OrderNext ==
  ASSUME TypeOK, EpochInv, PlaceInv, LineInv, [Next]_vars
  PROVE  PlaceInv' /\ LineInv'
<1>1. ASSUME UNCHANGED <<subTxs, epochIds, flushed, precessedEpochIds>>,
             UNCHANGED <<executed, txQueues, blockingTxQueues>>,
             \A s \in Shard : \A item \in pool'[s] : item.kind = "InterShard" => item \in pool[s]
      PROVE  PlaceInv' /\ LineInv'
  <2>1. PlaceInv'
    BY <1>1, PlaceUnchanged
  <2>2. \A c, d, r, i, t : InLine(d, c, r, i, t)' <=> InLine(d, c, r, i, t)
    BY <1>1 DEF InLine
  <2> QED BY <1>1, <2>1, <2>2, LineKept
<1>2. ASSUME UNCHANGED <<pool, subTxs, epochIds, flushed>> PROVE PlaceInv'
  BY <1>2, PlaceUnchanged
<1>3. CASE UNCHANGED vars
  BY <1>1, <1>3 DEF vars, coordVars, epochVars, queueVars
<1>4. ASSUME NEW s \in Shard, ConsensusThread(s) PROVE PlaceInv' /\ LineInv'
  <2>1. ASSUME NEW t \in InterTx, ProcessInterShardTx(s, t) PROVE PlaceInv' /\ LineInv'
    BY <2>1, PlaceInterShard, LineStreams
  <2>2. ASSUME NEW x \in IntraTx, ProcessSingleIntraShardTx(s, x) PROVE PlaceInv' /\ LineInv'
    <3>1. /\ \A d \in Shard : pool'[d] \subseteq pool[d]
          /\ UNCHANGED <<subTxs, epochIds, flushed>>
      BY <2>2 DEF ProcessSingleIntraShardTx, TypeOK, PoolType
    <3> QED BY <2>2, <3>1, PlaceUnchanged, LineIntraShard
  <2>3. CASE DrainCachedBatch(s) \/ \E item \in pool[s] : ProcessOrderedBatchedSubInterShardTxs(s, item)
    BY <2>3, OrderBatch
  <2>4. CASE EndOfBlock(s)
    BY <2>4, PlaceEndOfBlock, LineStreams
  <2> QED BY <1>4, <2>1, <2>2, <2>3, <2>4 DEF ConsensusThread
<1>5. ASSUME NEW s \in Shard, MessageThread(s) \/ CommitThread(s) PROVE PlaceInv' /\ LineInv'
  <2>1. ASSUME NEW m, ReceiveBatchDistributedTxMsg(m) PROVE PlaceInv' /\ LineInv'
    <3>1. /\ UNCHANGED <<subTxs, epochIds, flushed, precessedEpochIds>>
          /\ UNCHANGED <<executed, txQueues, blockingTxQueues>>
      BY <2>1 DEF ReceiveBatchDistributedTxMsg, epochVars, queueVars
    <3>2. \A d \in Shard : \A item \in pool'[d] : item.kind = "InterShard" => item \in pool[d]
      BY <2>1 DEF ReceiveBatchDistributedTxMsg, TypeOK, PoolType
    <3> QED BY <1>1, <3>1, <3>2
  <2>2. ASSUME NEW m, ReceiveRwset(m) \/ ReceiveCommit(m) PROVE PlaceInv' /\ LineInv'
    BY <1>1, <2>2 DEF ReceiveRwset, ReceiveCommit, coordVars, epochVars, queueVars
  <2> QED BY <1>5, <2>1, <2>2 DEF MessageThread, CommitThread
<1>6. ASSUME NEW d \in Shard, NEW c \in Shard, BlockingThread(d, c) PROVE PlaceInv' /\ LineInv'
  <2>1. UNCHANGED <<pool, subTxs, epochIds, flushed>>
    BY <1>6 DEF BlockingThread, BatchPop, SendReadWriteSet, ExecuteInterShardTx,
                ExecuteBlockedIntraShardTx, coordVars
  <2>2. CASE BatchPop(d, c)
    BY <1>2, <2>1, <2>2, LineBatchPop
  <2>3. CASE SendReadWriteSet(d, c)
    BY <1>1, <2>3 DEF SendReadWriteSet, coordVars, epochVars, queueVars
  <2>4. CASE ExecuteInterShardTx(d, c) \/ ExecuteBlockedIntraShardTx(d, c)
    BY <1>2, <2>1, <2>4, LineExecute
  <2> QED BY <1>6, <2>2, <2>3, <2>4 DEF BlockingThread
<1> QED BY <1>3, <1>4, <1>5, <1>6 DEF Next, Idle

\* In every reachable state.
OrderInv == IInv /\ PlaceInv /\ LineInv
LEMMA OrderAlways == SafeSpec => []OrderInv
<1>1. Init => OrderInv
  BY IInvInit, OrderInit DEF OrderInv
<1>2. OrderInv /\ [Next]_vars => OrderInv'
  BY IInvNext, OrderNext DEF OrderInv, IInv
<1> QED BY <1>1, <1>2, PTL DEF SafeSpec

\* The line of a shard with no one missing in front of t: what is ahead of an executed
\* transaction, and is for this shard, is executed before it.
LEMMA ExecutedInOrder ==
  ASSUME OrderInv, NEW c \in Shard, NEW d \in Shard, NEW t \in InterTx, NEW u \in InterTx,
         Ahead(c, d, t, u), NEW k, InLine(d, c, 0, k, u)
  PROVE  \E l \in Nat : InLine(d, c, 0, l, t) /\ l < k
<1>0. TypeOK /\ EpochInv /\ PlaceInv /\ LineInv
  BY DEF OrderInv, IInv
<1>1. k \in Nat
  BY <1>0, InLineType
<1>2. Started(c, d, u)
  BY <1>0, <1>1 DEF LineInv, OnlyStarted
<1>3. Started(c, d, t)
  <2>1. PICK f, j \in Nat : PlacedAt(c, d, f, j, u) /\ f <= precessedEpochIds[d][c]
    BY <1>2 DEF Started
  <2>2. PICK e, i, g, h \in Nat : PlacedAt(c, d, e, i, t) /\ PlacedAt(c, d, g, h, u) /\ e <= g
    BY DEF Ahead, EarlierBatch, SameBatchAhead
  <2>3. f = g
    BY <1>0, <2>1, <2>2 DEF PlaceInv, PlacedOnce
  <2>4. precessedEpochIds[d][c] \in Nat
    BY <1>0 DEF TypeOK, EpochType
  <2> QED BY <2>1, <2>2, <2>3, <2>4 DEF Started
<1>4. PICK r \in 0..2, l \in Nat : InLine(d, c, r, l, t)
  BY <1>0, <1>3 DEF LineInv, AllStarted
<1>5. ~Ahead(c, d, u, t)
  BY <1>0, AheadAsymmetric
<1>6. ~(0 < r \/ (0 = r /\ k < l))
  BY <1>0, <1>1, <1>4, <1>5 DEF LineInv, LineOrdered
<1>7. l # k
  <2> SUFFICES ASSUME l = k PROVE FALSE
    OBVIOUS
  <2>1. t = u
    BY <1>4, <1>6 DEF InLine
  <2> QED BY <1>5, <2>1
<1> QED BY <1>1, <1>4, <1>6, <1>7

\* Two cross-shard transactions of one coordinator are executed in the same order by every
\* shard that takes part in both, none of them is executed twice, and a shard that takes
\* part in the first one executes it before the second: whatever the order in which
\* messages come and however each shard's chain orders what it is given.
THEOREM SameOrderCorrect == SafeSpec => []SameOrder
<1>1. OrderInv => SameOrder
  <2> SUFFICES ASSUME OrderInv, NEW d \in Shard, NEW e \in Shard, NEW t \in InterTx, NEW u \in InterTx,
                      Coordinator[t] = Coordinator[u], ExecutedBefore(d, t, u),
                      e \in Range(Participants[t]), u \in Range(executed[e])
               PROVE  ExecutedBefore(e, t, u) /\ t # u
    BY DEF SameOrder
  <2> DEFINE c == Coordinator[t]
  <2>0. TypeOK /\ EpochInv /\ PlaceInv /\ LineInv
    BY DEF OrderInv, IInv
  <2>1. c \in Shard
    BY TxAssumption
  <2>2. PICK i, j \in DOMAIN executed[d] : i < j /\ executed[d][i] = t /\ executed[d][j] = u
    BY DEF ExecutedBefore
  <2>3. InLine(d, c, 0, i, t) /\ InLine(d, c, 0, j, u)
    BY <2>2 DEF InLine
  <2>4. Ahead(c, d, t, u)
    <3>1. i \in Nat /\ j \in Nat
      BY <2>0, <2>1, <2>3, InLineType
    <3> HIDE DEF c
    <3> QED BY <2>0, <2>1, <2>2, <2>3, <3>1 DEF LineInv, LineOrdered
  <2>5. t # u
    <3> HIDE DEF c
    <3> QED BY <2>0, <2>1, <2>4, AheadAsymmetric
  <2>6. PICK k \in DOMAIN executed[e] : InLine(e, c, 0, k, u)
    BY DEF InLine, Range
  <2>7. e \in Range(Participants[u])
    <3>1. k \in Nat
      BY <2>0, <2>1, <2>6, InLineType
    <3>2. Started(c, e, u)
      BY <2>0, <2>1, <2>6, <3>1 DEF LineInv, OnlyStarted
    <3> HIDE DEF c
    <3> QED BY <2>0, <2>1, <3>2, PlaceFacts DEF Started
  <2> HIDE DEF c
  <2>8. Ahead(c, e, t, u)
    BY <2>0, <2>1, <2>4, <2>7, AheadEverywhere
  <2>9. PICK l \in Nat : InLine(e, c, 0, l, t) /\ l < k
    BY <2>1, <2>6, <2>8, ExecutedInOrder
  <2>10. l \in DOMAIN executed[e] /\ executed[e][l] = t
    BY <2>9 DEF InLine
  <2>11. executed[e][k] = u
    BY <2>6 DEF InLine
  <2> QED BY <2>5, <2>6, <2>9, <2>10, <2>11 DEF ExecutedBefore
<1> QED BY <1>1, OrderAlways, PTL

-----------------------------------------------------------------------------
(* The count of the commits.                                                *)

\* The smallest participant of a transaction is one of its participants.
LEMMA MinParticipantType ==
  ASSUME NEW t \in InterTx PROVE MinParticipant(t) \in Range(Participants[t]) /\ MinParticipant(t) \in Shard
<1> DEFINE S == Range(Participants[t])
           less == OpToRel(<, Nat)
<1>1. S \subseteq Shard /\ S # {}
  BY TxAssumption DEF Range
<1>2. S \subseteq Nat
  BY <1>1, ShardAssumption
<1>3. \A m, n \in Nat : <<m, n>> \in less <=> m < n
  BY DEF OpToRel
<1>4. PICK m \in S : \A n \in S : ~(<<n, m>> \in less)
  <2> HIDE DEF less, S
  <2> QED BY <1>1, <1>2, NatLessThanWellFounded, WFMin DEF less
<1>5. ASSUME NEW n \in S PROVE m <= n
  <2>1. m \in Nat /\ n \in Nat
    BY <1>2, <1>4
  <2>2. ~(<<n, m>> \in less)
    BY <1>4
  <2>3. ~(n < m)
    <3> HIDE DEF less
    <3> QED BY <1>3, <2>1, <2>2
  <2> QED BY <2>1, <2>3
<1>6. m \in Range(Participants[t]) /\ \A e \in Range(Participants[t]) : m <= e
  BY <1>5
<1>7. MinParticipant(t) \in Range(Participants[t])
  BY <1>6 DEF MinParticipant
<1> QED BY <1>1, <1>7

\* The intra-shard transactions that a sequence of executed ones holds.
IntraPlaces(E) == {i \in DOMAIN E : E[i] \in IntraTx}

\* What executing one more transaction adds to them.
LEMMA IntraPlacesGrow ==
  ASSUME NEW E \in Seq(Tx), NEW x \in Tx
  PROVE  /\ Cardinality(IntraPlaces(E)) \in Nat
         /\ Cardinality(IntraPlaces(Append(E, x))) =
              Cardinality(IntraPlaces(E)) + (IF x \in IntraTx THEN 1 ELSE 0)
<1> DEFINE n == Len(E) + 1
<1>1. IsFiniteSet(IntraPlaces(E))
  <2>1. IsFiniteSet(1..Len(E))
    BY FS_Interval
  <2>2. IntraPlaces(E) \in SUBSET (1..Len(E))
    BY DEF IntraPlaces
  <2> QED BY <2>1, <2>2, FS_Subset
<1>2. n \notin IntraPlaces(E)
  BY DEF IntraPlaces
<1>3. /\ DOMAIN Append(E, x) = DOMAIN E \cup {n} /\ n \notin DOMAIN E
      /\ Append(E, x)[n] = x /\ \A i \in DOMAIN E : Append(E, x)[i] = E[i]
  OBVIOUS
<1>4. IntraPlaces(Append(E, x)) = IF x \in IntraTx THEN IntraPlaces(E) \cup {n} ELSE IntraPlaces(E)
  <2> DEFINE F == Append(E, x)
  <2>1. /\ DOMAIN F = DOMAIN E \cup {n} /\ n \notin DOMAIN E
        /\ F[n] = x /\ \A i \in DOMAIN E : F[i] = E[i]
    BY <1>3
  <2> HIDE DEF F, n
  <2> QED BY <2>1 DEF IntraPlaces, F
<1>5. Cardinality(IntraPlaces(E)) \in Nat
  BY <1>1, FS_CardinalityType
<1>6. Cardinality(IntraPlaces(E) \cup {n}) = Cardinality(IntraPlaces(E)) + 1
  BY <1>1, <1>2, FS_AddElement
<1> QED BY <1>4, <1>5, <1>6

\* The cross-shard transactions of coordinator s that their smallest participant has
\* executed, and the messages that tell s so.
Committed(s) == {t \in InterTx : Coordinator[t] = s /\ t \in Range(executed[MinParticipant(t)])}
Reports(s) == {m \in commitMsgs : m.coord = s}

\* The invariant behind CommitCount: a report on the way is about an executed transaction,
\* so that a new one is never taken for it.
CountInv ==
  /\ IsFiniteSet(commitMsgs)
  /\ \A m \in commitMsgs : m.tx \in Range(executed[m.from])
  /\ \A s \in Shard : IsFiniteSet(Committed(s))
  /\ CommitCount

\* What one queue for each intra-shard transaction needs: the keys that a queue has locked are those of transactions of its
\* coordinator, and what the chain gives a shard is its own.
AtHome == \A s \in Shard : \A item \in pool[s] :
  item.kind = "SingleIntraShard" => Home[item.tx] = s
LocksKnown == \A d, c \in Shard : \A k \in lockingkeys[d][c] : \E t \in InterTx :
  Coordinator[t] = c /\ d \in Range(Participants[t]) /\ LocalKey(d, t) = k
BlockedOnce(S) == \A i \in DOMAIN S : ~S[i].inter => Cardinality(S[i].queues) = 1
BlockInv ==
  /\ AtHome
  /\ LocksKnown
  /\ \A d, c \in Shard : BlockedOnce(txQueues[d][c]) /\ BlockedOnce(blockingTxQueues[d][c])

\* A step that leaves the queues alone and submits no client's transaction.
LEMMA BlockUnchanged ==
  ASSUME BlockInv, UNCHANGED <<txQueues, blockingTxQueues, lockingkeys>>,
         \A s \in Shard : \A item \in pool'[s] : item.kind = "SingleIntraShard" => item \in pool[s]
  PROVE  BlockInv'
<1>1. AtHome'
  BY DEF BlockInv, AtHome
<1>2. LocksKnown'
  BY DEF BlockInv, LocksKnown
<1> QED BY <1>1, <1>2 DEF BlockInv, BlockedOnce

\* A step that executes, counts and reports nothing.
LEMMA CountUnchanged ==
  ASSUME CountInv, UNCHANGED <<executed, commitMsgs, processedTxNum>>
  PROVE  CountInv'
BY DEF CountInv, Committed, CommitCount

\* All queues that block an intra-shard transaction are one.
LEMMA OneBlockingQueue ==
  ASSUME OneCoordinatorEach, BlockInv, NEW d \in Shard, NEW x \in IntraTx, Home[x] = d
  PROVE  \A c1, c2 \in BlockingQueueKeys(d, x) : c1 = c2
<1> DEFINE Q == BlockingQueueKeys(d, x)
<1>1. ASSUME NEW c \in Q
      PROVE  \E t \in InterTx : /\ Coordinator[t] = c /\ d \in Range(Participants[t])
                                /\ LocalKey(d, t) \in IntraKeys[x]
  <2>1. c \in Shard
    BY ShardAssumption DEF BlockingQueueKeys, Range
  <2>2. PICK k \in IntraKeys[x] : k \in lockingkeys[d][c]
    BY DEF BlockingQueueKeys
  <2> QED BY <2>1, <2>2 DEF BlockInv, LocksKnown
<1> QED BY <1>1 DEF OneCoordinatorEach

\* The queue that blocks an intra-shard transaction is the only one.
LEMMA OneQueueBlocks ==
  ASSUME OneCoordinatorEach, BlockInv, NEW d \in Shard, NEW x \in IntraTx, Home[x] = d,
         BlockingQueueKeys(d, x) # {}
  PROVE  Cardinality(BlockingQueueKeys(d, x)) = 1
<1>1. PICK c : BlockingQueueKeys(d, x) = {c}
  BY OneBlockingQueue
<1> QED BY <1>1, FS_Singleton

\* A batch that enters a queue locks keys of its transactions, and blocks none.
LEMMA BlockProcessBatch ==
  ASSUME TypeOK, BlockInv, NEW d \in Shard, NEW c \in Shard, NEW b \in Batch, IsBatchFor(c, d, b),
         ProcessBatchSubInterShardTxs(d, c, b), \A s \in Shard : pool'[s] \subseteq pool[s]
  PROVE  BlockInv'
<1>1. PICK r \in Reorderings(b) :
        /\ blockingTxQueues' = [blockingTxQueues EXCEPT ![d][c] = @ \o InterEntries(d, r)]
        /\ lockingkeys' = [lockingkeys EXCEPT ![d][c] = @ \cup {LocalKey(d, t) : t \in Range(r)}]
        /\ UNCHANGED txQueues
  BY DEF ProcessBatchSubInterShardTxs
<1>2. r \in Batch /\ \A k \in DOMAIN r : \E i \in DOMAIN b : r[k] = b[i]
  BY ReorderingType
<1>3. /\ blockingTxQueues \in [Shard -> [Shard -> Seq(Entry)]]
      /\ lockingkeys \in [Shard -> [Shard -> SUBSET Key]]
  BY DEF TypeOK, QueueType
<1>4. \A t \in Range(r) : t \in InterTx /\ Coordinator[t] = c /\ d \in Range(Participants[t])
  BY <1>2 DEF IsBatchFor, Range, Batch
<1>5. LocksKnown'
  <2> SUFFICES ASSUME NEW x \in Shard, NEW y \in Shard, NEW k \in lockingkeys'[x][y]
               PROVE  \E t \in InterTx : /\ Coordinator[t] = y /\ x \in Range(Participants[t])
                                         /\ LocalKey(x, t) = k
    BY DEF LocksKnown
  <2>1. k \in lockingkeys[x][y] \/ (x = d /\ y = c /\ \E t \in Range(r) : k = LocalKey(d, t))
    BY <1>1, <1>3
  <2>2. CASE k \in lockingkeys[x][y]
    BY <2>2 DEF BlockInv, LocksKnown
  <2>3. CASE x = d /\ y = c /\ \E t \in Range(r) : k = LocalKey(d, t)
    BY <1>4, <2>3
  <2> QED BY <2>1, <2>2, <2>3
<1>6. AtHome'
  BY DEF BlockInv, AtHome
<1>7. ASSUME NEW x \in Shard, NEW y \in Shard PROVE BlockedOnce(blockingTxQueues'[x][y])
  <2>1. CASE x = d /\ y = c
    <3> DEFINE B == blockingTxQueues[d][c]
               E == InterEntries(d, r)
    <3>1. blockingTxQueues'[x][y] = B \o E
      BY <1>1, <1>3, <2>1
    <3>2. B \in Seq(Entry) /\ BlockedOnce(B)
      BY <1>3 DEF BlockInv
    <3>3. E \in Seq(Entry)
      <4>1. \A k \in DOMAIN r : d \in Range(Participants[r[k]])
        BY <1>4 DEF Range
      <4> HIDE DEF E
      <4> QED BY <1>2, <4>1, InterEntriesType DEF E
    <3>4. \A k \in DOMAIN E : E[k].inter
      BY DEF InterEntries, InterEntry
    <3> HIDE DEF B, E
    <3>5. \A i \in DOMAIN (B \o E) : \/ i \in DOMAIN B /\ (B \o E)[i] = B[i]
                                    \/ \E k \in DOMAIN E : (B \o E)[i] = E[k]
      BY <3>2, <3>3, ConcatElements
    <3> QED BY <3>1, <3>2, <3>4, <3>5 DEF BlockedOnce
  <2>2. CASE ~(x = d /\ y = c)
    <3>1. blockingTxQueues'[x][y] = blockingTxQueues[x][y]
      BY <1>1, <1>3, <2>2
    <3> QED BY <3>1 DEF BlockInv
  <2> QED BY <2>1, <2>2
<1>8. \A x, y \in Shard : BlockedOnce(txQueues'[x][y])
  BY <1>1 DEF BlockInv
<1> QED BY <1>5, <1>6, <1>7, <1>8 DEF BlockInv, BlockedOnce

\* batch_pop, and the departure of the first transaction of a queue.
LEMMA BlockPop ==
  ASSUME TypeOK, BlockInv, NEW d \in Shard, NEW c \in Shard,
         BatchPop(d, c) \/ ExecuteInterShardTx(d, c) \/ ExecuteBlockedIntraShardTx(d, c)
  PROVE  BlockInv'
<1>1. UNCHANGED <<pool, lockingkeys>>
  BY DEF BatchPop, ExecuteInterShardTx, ExecuteBlockedIntraShardTx
<1>2. /\ blockingTxQueues \in [Shard -> [Shard -> Seq(Entry)]]
      /\ txQueues \in [Shard -> [Shard -> Seq(Entry)]]
  BY DEF TypeOK, QueueType
<1>3. ASSUME NEW x \in Shard, NEW y \in Shard
      PROVE  BlockedOnce(txQueues'[x][y]) /\ BlockedOnce(blockingTxQueues'[x][y])
  <2>0. BlockedOnce(txQueues[x][y]) /\ BlockedOnce(blockingTxQueues[x][y])
    BY DEF BlockInv
  <2>1. CASE BatchPop(d, c) /\ x = d /\ y = c
    <3>1. txQueues'[x][y] = blockingTxQueues[x][y] /\ blockingTxQueues'[x][y] = <<>>
      BY <1>2, <2>1 DEF BatchPop
    <3>2. BlockedOnce(<<>>)
      BY DEF BlockedOnce
    <3> QED BY <2>0, <3>1, <3>2
  <2>2. CASE ~BatchPop(d, c) /\ x = d /\ y = c
    <3> DEFINE S == txQueues[d][c]
    <3>1. /\ S # <<>> /\ txQueues' = [txQueues EXCEPT ![d][c] = Tail(@)]
          /\ blockingTxQueues' = blockingTxQueues
      BY <2>2 DEF ExecuteInterShardTx, ExecuteBlockedIntraShardTx, PopHead
    <3>2. txQueues'[x][y] = Tail(S) /\ S \in Seq(Entry)
      BY <1>2, <2>2, <3>1
    <3>3. \A i \in DOMAIN Tail(S) : i + 1 \in DOMAIN S /\ Tail(S)[i] = S[i + 1]
      BY <3>1, <3>2
    <3> HIDE DEF S
    <3>4. BlockedOnce(S) => BlockedOnce(Tail(S))
      BY <3>3 DEF BlockedOnce
    <3> QED BY <2>0, <2>2, <3>1, <3>2, <3>4 DEF S
  <2>3. CASE ~(x = d /\ y = c)
    <3>1. CASE BatchPop(d, c)
      <4>1. txQueues'[x][y] = txQueues[x][y] /\ blockingTxQueues'[x][y] = blockingTxQueues[x][y]
        BY <1>2, <2>3, <3>1 DEF BatchPop
      <4> QED BY <2>0, <4>1
    <3>2. CASE ~BatchPop(d, c)
      <4>1. /\ txQueues' = [txQueues EXCEPT ![d][c] = Tail(@)]
            /\ blockingTxQueues' = blockingTxQueues
        BY <3>2 DEF ExecuteInterShardTx, ExecuteBlockedIntraShardTx, PopHead
      <4>2. txQueues'[x][y] = txQueues[x][y]
        BY <1>2, <2>3, <4>1
      <4> QED BY <2>0, <4>1, <4>2
    <3> QED BY <3>1, <3>2
  <2> QED BY <2>1, <2>2, <2>3
<1>4. AtHome' /\ LocksKnown'
  BY <1>1 DEF BlockInv, AtHome, LocksKnown
<1> QED BY <1>3, <1>4 DEF BlockInv, BlockedOnce

\* An intra-shard transaction that is blocked enters one queue.
LEMMA BlockIntraShard ==
  ASSUME OneCoordinatorEach, TypeOK, BlockInv, NEW d \in Shard, NEW x \in IntraTx,
         ProcessSingleIntraShardTx(d, x)
  PROVE  BlockInv'
<1> DEFINE Q == BlockingQueueKeys(d, x)
           z == FirstQueue(d, Q)
           entry == IntraEntry(x, Q)
<1>1. /\ UNCHANGED <<lockingkeys, txQueues>> /\ \A s \in Shard : pool'[s] \subseteq pool[s]
      /\ [kind |-> "SingleIntraShard", tx |-> x] \in pool[d]
  BY DEF ProcessSingleIntraShardTx, TakeFromChain, TypeOK, PoolType
<1>2. \/ UNCHANGED blockingTxQueues
      \/ Q # {} /\ blockingTxQueues' = [blockingTxQueues EXCEPT ![d][z] = Append(@, entry)]
  BY DEF ProcessSingleIntraShardTx
<1>3. Home[x] = d
  BY <1>1 DEF BlockInv, AtHome
<1>4. Q # {} => Cardinality(entry.queues) = 1
  BY <1>3, OneQueueBlocks DEF IntraEntry
<1>5. blockingTxQueues \in [Shard -> [Shard -> Seq(Entry)]]
  BY DEF TypeOK, QueueType
<1> HIDE DEF z, entry
<1>6. ASSUME NEW e \in Shard, NEW c \in Shard PROVE BlockedOnce(blockingTxQueues'[e][c])
  <2>0. BlockedOnce(blockingTxQueues[e][c])
    BY DEF BlockInv
  <2>1. CASE UNCHANGED blockingTxQueues
    BY <2>0, <2>1
  <2>2. CASE /\ Q # {} /\ blockingTxQueues' = [blockingTxQueues EXCEPT ![d][z] = Append(@, entry)]
             /\ e = d /\ c = z
    <3> DEFINE B == blockingTxQueues[e][c]
    <3>1. blockingTxQueues'[e][c] = Append(B, entry) /\ B \in Seq(Entry)
      BY <1>5, <2>2
    <3> HIDE DEF B
    <3>2. /\ DOMAIN Append(B, entry) = DOMAIN B \cup {Len(B) + 1}
          /\ Append(B, entry)[Len(B) + 1] = entry
          /\ \A k \in DOMAIN B : Append(B, entry)[k] = B[k]
      BY <3>1
    <3>3. BlockedOnce(B) => BlockedOnce(Append(B, entry))
      BY <1>4, <2>2, <3>2 DEF BlockedOnce
    <3> QED BY <2>0, <3>1, <3>3 DEF B
  <2>3. CASE /\ blockingTxQueues' = [blockingTxQueues EXCEPT ![d][z] = Append(@, entry)]
             /\ ~(e = d /\ c = z)
    <3>1. blockingTxQueues'[e][c] = blockingTxQueues[e][c]
      BY <1>5, <2>3
    <3> QED BY <2>0, <3>1
  <2> QED BY <1>2, <2>1, <2>2, <2>3
<1>7. AtHome' /\ LocksKnown'
  BY <1>1 DEF BlockInv, AtHome, LocksKnown
<1> QED BY <1>1, <1>6, <1>7 DEF BlockInv, BlockedOnce

\* Every step keeps BlockInv.
LEMMA BlockNext ==
  ASSUME OneCoordinatorEach, TypeOK, EpochInv, BlockInv, [Next]_vars
  PROVE  BlockInv'
<1>1. CASE UNCHANGED vars
  BY <1>1, BlockUnchanged DEF vars, queueVars
<1>2. ASSUME NEW s \in Shard, ConsensusThread(s) PROVE BlockInv'
  <2>1. ASSUME NEW t \in InterTx, ProcessInterShardTx(s, t) PROVE BlockInv'
    <3>1. UNCHANGED queueVars /\ \A d \in Shard : pool'[d] \subseteq pool[d]
      BY <2>1 DEF ProcessInterShardTx, TypeOK, PoolType
    <3> QED BY <3>1, BlockUnchanged DEF queueVars
  <2>2. ASSUME NEW x \in IntraTx, ProcessSingleIntraShardTx(s, x) PROVE BlockInv'
    BY <2>2, BlockIntraShard
  <2>3. ASSUME NEW item \in pool[s], ProcessOrderedBatchedSubInterShardTxs(s, item) PROVE BlockInv'
    <3>1. item.kind = "BatchedSubInterShard" /\ item \in BatchItem
      BY <2>3 DEF ProcessOrderedBatchedSubInterShardTxs, TypeOK, PoolType, InterItem, IntraItem
    <3>2. item.coord \in Shard /\ item.txs \in Batch
      BY <3>1 DEF BatchItem
    <3>3. \A d \in Shard : pool'[d] \subseteq pool[d]
      BY <2>3 DEF ProcessOrderedBatchedSubInterShardTxs, TypeOK, PoolType
    <3>4. IsBatchFor(item.coord, s, item.txs)
      BY <3>1, <3>2 DEF EpochInv, InTransitProduced, Produced, Addressed
    <3>5. CASE ProcessNextEpoch(s, item)
      BY <3>2, <3>3, <3>4, <3>5, BlockProcessBatch DEF ProcessNextEpoch
    <3>6. CASE CacheBatch(s, item)
      BY <3>3, <3>6, BlockUnchanged DEF CacheBatch, queueVars
    <3> QED BY <2>3, <3>5, <3>6 DEF ProcessOrderedBatchedSubInterShardTxs
  <2>4. CASE DrainCachedBatch(s)
    <3> DEFINE c == draining[s]
               e == precessedEpochIds[s][c] + 1
               b == cachedBatchTxs[s][c][e]
    <3>1. c \in Shard
      BY <2>4 DEF DrainCachedBatch, TypeOK, EpochType
    <3>2. e \in DOMAIN cachedBatchTxs[s][c]
      BY <2>4 DEF DrainCachedBatch, EpochInv, EpochCounters
    <3>3. b \in Batch
      BY <3>1, <3>2 DEF TypeOK, EpochType, CacheType
    <3>4. IsBatchFor(c, s, b)
      BY <3>1, <3>2 DEF EpochInv, InTransitProduced, Produced, Addressed
    <3>5. ProcessBatchSubInterShardTxs(s, c, b) /\ \A d \in Shard : pool'[d] \subseteq pool[d]
      BY <2>4 DEF DrainCachedBatch
    <3> HIDE DEF b, e, c
    <3> QED BY <3>1, <3>3, <3>4, <3>5, BlockProcessBatch
  <2>5. CASE EndOfBlock(s)
    <3>1. UNCHANGED queueVars
      BY <2>5 DEF EndOfBlock
    <3>2. ASSUME NEW d \in Shard, NEW item \in pool'[d], item.kind = "SingleIntraShard"
          PROVE  item \in pool[d]
      <4>1. CASE UNCHANGED pool
        BY <3>2, <4>1
      <4>2. CASE CheckSubTxsContainers(s)
        <5> DEFINE full == {y \in Shard : subTxs[s][y] # <<>>}
                   own  == {[kind |-> "BatchedSubInterShard", coord |-> s, epoch |-> epochIds[s][s],
                             txs |-> subTxs[s][s]] : y \in full \cap {s}}
        <5>1. pool' = [pool EXCEPT ![s] = @ \cup own]
          BY <4>2 DEF CheckSubTxsContainers
        <5>2. \A i \in own : i.kind = "BatchedSubInterShard"
          OBVIOUS
        <5> HIDE DEF own
        <5> QED BY <3>2, <5>1, <5>2 DEF TypeOK, PoolType
      <4> QED BY <2>5, <4>1, <4>2 DEF EndOfBlock
    <3> QED BY <3>1, <3>2, BlockUnchanged DEF queueVars
  <2> QED BY <1>2, <2>1, <2>2, <2>3, <2>4, <2>5 DEF ConsensusThread
<1>3. ASSUME NEW s \in Shard, MessageThread(s) \/ CommitThread(s) PROVE BlockInv'
  <2>1. ASSUME NEW m, ReceiveBatchDistributedTxMsg(m) PROVE BlockInv'
    <3>1. \A d \in Shard : \A item \in pool'[d] : item.kind = "SingleIntraShard" => item \in pool[d]
      BY <2>1 DEF ReceiveBatchDistributedTxMsg, TypeOK, PoolType
    <3> QED BY <2>1, <3>1, BlockUnchanged DEF ReceiveBatchDistributedTxMsg, queueVars
  <2>2. ASSUME NEW m, ReceiveRwset(m) \/ ReceiveCommit(m) PROVE BlockInv'
    BY <2>2, BlockUnchanged DEF ReceiveRwset, ReceiveCommit, queueVars
  <2> QED BY <1>3, <2>1, <2>2 DEF MessageThread, CommitThread
<1>4. ASSUME NEW d \in Shard, NEW c \in Shard, BlockingThread(d, c) PROVE BlockInv'
  <2>1. CASE SendReadWriteSet(d, c)
    BY <2>1, BlockUnchanged DEF SendReadWriteSet, queueVars
  <2> QED BY <1>4, <2>1, BlockPop DEF BlockingThread
<1> QED BY <1>1, <1>2, <1>3, <1>4 DEF Next, Idle

LEMMA BlockInit == Init => BlockInv
<1> SUFFICES ASSUME Init PROVE BlockInv
  OBVIOUS
<1>1. AtHome
  <2> SUFFICES ASSUME NEW s \in Shard, NEW item \in pool[s], item.kind = "SingleIntraShard"
               PROVE  Home[item.tx] = s
    BY DEF AtHome
  <2>1. item \in [kind : {"SingleIntraShard"}, tx : {x \in IntraTx : Home[x] = s}]
    BY DEF Init, Submitted
  <2> QED BY <2>1
<1>2. LocksKnown
  BY DEF Init, LocksKnown
<1>3. \A d, c \in Shard : BlockedOnce(txQueues[d][c]) /\ BlockedOnce(blockingTxQueues[d][c])
  BY DEF Init, BlockedOnce
<1> QED BY <1>1, <1>2, <1>3 DEF BlockInv

\* What CommitCount says of one shard.
Balanced(s) == processedTxNum[s] + Cardinality(Reports(s))
                 = Cardinality(IntraPlaces(executed[s])) + Cardinality(Committed(s))

LEMMA CommitCountIsBalance == CommitCount <=> \A s \in Shard : Balanced(s)
BY DEF CommitCount, Balanced, Reports, IntraPlaces, Committed

\* All the numbers in it are natural.
LEMMA CountTypes ==
  ASSUME TypeOK, CountInv, NEW s \in Shard
  PROVE  /\ processedTxNum[s] \in Nat
         /\ IsFiniteSet(Reports(s)) /\ Cardinality(Reports(s)) \in Nat
         /\ Cardinality(IntraPlaces(executed[s])) \in Nat
         /\ IsFiniteSet(Committed(s)) /\ Cardinality(Committed(s)) \in Nat
<1>1. processedTxNum[s] \in Nat /\ executed[s] \in Seq(Tx)
  BY DEF TypeOK, CommitType
<1>2. IsFiniteSet(Reports(s))
  <2>1. Reports(s) \in SUBSET commitMsgs
    BY DEF Reports
  <2> QED BY <2>1, FS_Subset DEF CountInv
<1>3. IsFiniteSet(Committed(s))
  BY DEF CountInv
<1>4. Cardinality(IntraPlaces(executed[s])) \in Nat
  <2> DEFINE E == executed[s]
  <2>1. IsFiniteSet(1..Len(E))
    BY <1>1, FS_Interval
  <2>2. IntraPlaces(E) \in SUBSET (1..Len(E))
    BY <1>1 DEF IntraPlaces
  <2> QED BY <2>1, <2>2, FS_Subset, FS_CardinalityType
<1> QED BY <1>1, <1>2, <1>3, <1>4, FS_CardinalityType

LEMMA CountInit == Init => CountInv
<1> SUFFICES ASSUME Init PROVE CountInv
  OBVIOUS
<1>1. IsFiniteSet(commitMsgs) /\ \A m \in commitMsgs : m.tx \in Range(executed[m.from])
  BY FS_EmptySet DEF Init
<1>2. \A s \in Shard : Reports(s) = {} /\ Committed(s) = {} /\ IntraPlaces(executed[s]) = {}
  <2> SUFFICES ASSUME NEW s \in Shard
               PROVE  Reports(s) = {} /\ Committed(s) = {} /\ IntraPlaces(executed[s]) = {}
    OBVIOUS
  <2>1. executed[s] = <<>> /\ Reports(s) = {}
    BY DEF Init, Reports
  <2>2. ASSUME NEW t \in Committed(s) PROVE FALSE
    <3>1. t \in InterTx /\ t \in Range(executed[MinParticipant(t)])
      BY <2>2 DEF Committed
    <3>2. executed[MinParticipant(t)] = <<>>
      BY <3>1, MinParticipantType DEF Init
    <3> QED BY <3>1, <3>2 DEF Range
  <2> QED BY <2>1, <2>2 DEF IntraPlaces
<1>3. \A s \in Shard : Balanced(s)
  BY <1>2, FS_EmptySet DEF Init, Balanced
<1> QED BY <1>1, <1>2, <1>3, FS_EmptySet, CommitCountIsBalance DEF CountInv

\* A report that arrives is counted.
LEMMA CountReceive ==
  ASSUME TypeOK, CountInv, NEW m, ReceiveCommit(m)
  PROVE  CountInv'
<1>1. /\ m \in commitMsgs /\ m.coord \in Shard
      /\ commitMsgs' = commitMsgs \ {m} /\ executed' = executed
      /\ processedTxNum' = [processedTxNum EXCEPT ![m.coord] = @ + 1]
  BY DEF ReceiveCommit, TypeOK, CommitType, CommitMsg
<1>2. IsFiniteSet(commitMsgs') /\ \A r \in commitMsgs' : r.tx \in Range(executed'[r.from])
  BY <1>1, FS_RemoveElement DEF CountInv
<1>3. \A s \in Shard : Committed(s)' = Committed(s)
  BY <1>1 DEF Committed
<1>4. ASSUME NEW s \in Shard PROVE Balanced(s)'
  <2>1. Balanced(s)
    BY CommitCountIsBalance DEF CountInv
  <2>2. CASE s = m.coord
    <3>1. Reports(s)' = Reports(s) \ {m} /\ m \in Reports(s)
      BY <1>1, <2>2 DEF Reports
    <3>2. Cardinality(Reports(s)') = Cardinality(Reports(s)) - 1
      BY <3>1, CountTypes, FS_RemoveElement
    <3>3. processedTxNum'[s] = processedTxNum[s] + 1
      BY <1>1, <2>2 DEF TypeOK, CommitType
    <3> QED BY <1>1, <1>3, <2>1, <3>2, <3>3, CountTypes DEF Balanced
  <2>3. CASE s # m.coord
    <3>1. Reports(s)' = Reports(s) /\ processedTxNum'[s] = processedTxNum[s]
      BY <1>1, <2>3 DEF Reports, TypeOK, CommitType
    <3> QED BY <1>1, <1>3, <2>1, <3>1 DEF Balanced
  <2> QED BY <2>2, <2>3
<1>5. \A s \in Shard : IsFiniteSet(Committed(s)')
  BY <1>3 DEF CountInv
<1>6. CommitCount'
  BY <1>4 DEF CommitCount, Balanced, Reports, IntraPlaces, Committed
<1> QED BY <1>2, <1>5, <1>6 DEF CountInv

\* An intra-shard transaction that leaves a queue, or is not blocked, is executed and counted.
ExecutesIntra(d, x) ==
  /\ executed' = [executed EXCEPT ![d] = Append(@, x)]
  /\ processedTxNum' = [processedTxNum EXCEPT ![d] = @ + 1]
  /\ UNCHANGED commitMsgs

LEMMA CountExecuteIntra ==
  ASSUME TypeOK, CountInv, NEW d \in Shard, NEW x \in IntraTx, ExecutesIntra(d, x)
  PROVE  CountInv'
<1>1. /\ executed \in [Shard -> Seq(Tx)] /\ processedTxNum \in [Shard -> Nat]
      /\ x \in Tx /\ x \notin InterTx
  BY ShardAssumption DEF TypeOK, CommitType, Tx
<1>2. /\ executed'[d] = Append(executed[d], x) /\ executed[d] \in Seq(Tx)
      /\ processedTxNum'[d] = processedTxNum[d] + 1
      /\ \A s \in Shard : s # d => /\ executed'[s] = executed[s]
                                   /\ processedTxNum'[s] = processedTxNum[s]
      /\ commitMsgs' = commitMsgs
  BY <1>1 DEF ExecutesIntra
<1>3. \A s \in Shard : \A t \in InterTx : t \in Range(executed'[s]) <=> t \in Range(executed[s])
  <2> SUFFICES ASSUME NEW s \in Shard, NEW t \in InterTx
               PROVE  t \in Range(executed'[s]) <=> t \in Range(executed[s])
    OBVIOUS
  <2>1. CASE s = d
    <3> DEFINE E == executed[d]
    <3>1. executed'[s] = Append(E, x) /\ E \in Seq(Tx) /\ t # x
      BY <1>1, <1>2, <2>1
    <3> HIDE DEF E
    <3>2. /\ DOMAIN Append(E, x) = DOMAIN E \cup {Len(E) + 1}
          /\ Append(E, x)[Len(E) + 1] = x /\ \A i \in DOMAIN E : Append(E, x)[i] = E[i]
      BY <3>1
    <3>3. t \in Range(Append(E, x)) <=> t \in Range(E)
      BY <3>1, <3>2 DEF Range
    <3> QED BY <2>1, <3>1, <3>3 DEF E
  <2>2. CASE s # d
    BY <1>2, <2>2
  <2> QED BY <2>1, <2>2
<1>4. \A s \in Shard : Committed(s)' = Committed(s) /\ Reports(s)' = Reports(s)
  BY <1>2, <1>3, MinParticipantType DEF Committed, Reports
<1>5. ASSUME NEW s \in Shard PROVE Balanced(s)'
  <2>1. Balanced(s)
    BY CommitCountIsBalance DEF CountInv
  <2>2. CASE s = d
    <3>1. Cardinality(IntraPlaces(executed'[s])) = Cardinality(IntraPlaces(executed[s])) + 1
      BY <1>1, <1>2, <2>2, IntraPlacesGrow
    <3> QED BY <1>2, <1>4, <2>1, <2>2, <3>1, CountTypes, SMTT(30) DEF Balanced
  <2>3. CASE s # d
    BY <1>2, <1>4, <2>1, <2>3 DEF Balanced
  <2> QED BY <2>2, <2>3
<1>6. \A m \in commitMsgs' : m.tx \in Range(executed'[m.from])
  <2>1. \A m \in commitMsgs : m.tx \in InterTx /\ m.from \in Shard
    BY DEF TypeOK, CommitType, CommitMsg
  <2> QED BY <1>2, <1>3, <2>1 DEF CountInv
<1>7. IsFiniteSet(commitMsgs') /\ \A s \in Shard : IsFiniteSet(Committed(s)')
  BY <1>2, <1>4 DEF CountInv
<1>8. CommitCount'
  BY <1>5 DEF CommitCount, Balanced, Reports, IntraPlaces, Committed
<1> QED BY <1>6, <1>7, <1>8 DEF CountInv

\* The cross-shard transaction that a shard executes was not executed there before.
LEMMA HeadIsNew ==
  ASSUME OrderInv, NEW d \in Shard, NEW c \in Shard, ExecuteInterShardTx(d, c)
  PROVE  LET t == Head(txQueues[d][c]).tx
         IN t \in InterTx /\ Coordinator[t] = c /\ d \in Range(Participants[t]) /\ t \notin Range(executed[d])
<1> DEFINE t == Head(txQueues[d][c]).tx
<1>0. TypeOK /\ EpochInv /\ PlaceInv /\ LineInv
  BY DEF OrderInv, IInv
<1>1. InLine(d, c, 1, 1, t)
  BY <1>0 DEF ExecuteInterShardTx, InLine, TypeOK, QueueType
<1>2. t \in InterTx
  BY <1>0, <1>1, InLineType
<1>3. Coordinator[t] = c /\ d \in Range(Participants[t])
  <2>1. Started(c, d, t)
    BY <1>0, <1>1, <1>2 DEF LineInv, OnlyStarted
  <2> QED BY <1>0, <2>1, PlaceFacts DEF Started
<1>4. ASSUME t \in Range(executed[d]) PROVE FALSE
  <2>1. PICK k \in DOMAIN executed[d] : executed[d][k] = t
    BY <1>4 DEF Range
  <2>2. InLine(d, c, 0, k, t) /\ k \in Nat
    BY <1>0, <1>2, <1>3, <2>1 DEF InLine, TypeOK
  <2>3. Ahead(c, d, t, t)
    BY <1>0, <1>1, <1>2, <2>2 DEF LineInv, LineOrdered
  <2> QED BY <1>0, <2>3, AheadAsymmetric
<1> QED BY <1>2, <1>3, <1>4

\* A cross-shard transaction is counted when its smallest participant executes it, by the
\* coordinator itself or with a report to it.
LEMMA CountExecuteInter ==
  ASSUME OrderInv, CountInv, NEW d \in Shard, NEW c \in Shard, ExecuteInterShardTx(d, c)
  PROVE  CountInv'
<1> DEFINE t == Head(txQueues[d][c]).tx
           msg == [coord |-> c, from |-> d, tx |-> t]
           first == d = MinParticipant(t)
<1>0. TypeOK
  BY DEF OrderInv, IInv
<1>1. t \in InterTx /\ Coordinator[t] = c /\ d \in Range(Participants[t]) /\ t \notin Range(executed[d])
  BY HeadIsNew
<1>2. /\ executed \in [Shard -> Seq(Tx)] /\ processedTxNum \in [Shard -> Nat]
      /\ t \in Tx /\ t \notin IntraTx
  BY <1>0, <1>1, ShardAssumption DEF TypeOK, CommitType, Tx
<1>3. executed' = [executed EXCEPT ![d] = Append(@, t)] /\ ReportCommit(d, t)
  BY DEF ExecuteInterShardTx
<1> HIDE DEF t
<1>4. /\ executed'[d] = Append(executed[d], t) /\ executed[d] \in Seq(Tx)
      /\ \A s \in Shard : s # d => executed'[s] = executed[s]
  BY <1>2, <1>3
<1>5. \A s \in Shard : \A u \in InterTx :
        u \in Range(executed'[s]) <=> u \in Range(executed[s]) \/ (s = d /\ u = t)
  <2> SUFFICES ASSUME NEW s \in Shard, NEW u \in InterTx
               PROVE  u \in Range(executed'[s]) <=> u \in Range(executed[s]) \/ (s = d /\ u = t)
    OBVIOUS
  <2>1. CASE s = d
    <3> DEFINE E == executed[d]
    <3>1. executed'[s] = Append(E, t) /\ E \in Seq(Tx)
      BY <1>4, <2>1
    <3> HIDE DEF E
    <3>2. /\ DOMAIN Append(E, t) = DOMAIN E \cup {Len(E) + 1}
          /\ Append(E, t)[Len(E) + 1] = t /\ \A i \in DOMAIN E : Append(E, t)[i] = E[i]
      BY <3>1
    <3>3. u \in Range(Append(E, t)) <=> u \in Range(E) \/ u = t
      BY <3>1, <3>2 DEF Range
    <3> QED BY <2>1, <3>1, <3>3 DEF E
  <2>2. CASE s # d
    BY <1>4, <2>2
  <2> QED BY <2>1, <2>2
<1>6. ASSUME NEW s \in Shard
      PROVE  /\ Committed(s)' = Committed(s) \cup (IF s = c /\ first THEN {t} ELSE {})
             /\ first => t \notin Committed(s)
  <2>1. \A u \in InterTx : u \in Committed(s)' <=>
          Coordinator[u] = s /\ (u \in Range(executed[MinParticipant(u)]) \/ (MinParticipant(u) = d /\ u = t))
    BY <1>5, MinParticipantType DEF Committed
  <2>2. Committed(s)' \subseteq InterTx /\ Committed(s) \subseteq InterTx
    BY DEF Committed
  <2>3. \A u \in InterTx : u \in Committed(s) <=> Coordinator[u] = s /\ u \in Range(executed[MinParticipant(u)])
    BY DEF Committed
  <2>4. Committed(s)' = Committed(s) \cup (IF s = c /\ first THEN {t} ELSE {})
    BY <1>1, <2>1, <2>2, <2>3
  <2> QED BY <1>1, <2>3, <2>4
<1>7. \A s \in Shard : Cardinality(IntraPlaces(executed'[s])) = Cardinality(IntraPlaces(executed[s]))
  <2> SUFFICES ASSUME NEW s \in Shard
               PROVE  Cardinality(IntraPlaces(executed'[s])) = Cardinality(IntraPlaces(executed[s]))
    OBVIOUS
  <2>1. CASE s = d
    <3>1. /\ Cardinality(IntraPlaces(executed[d])) \in Nat
          /\ Cardinality(IntraPlaces(executed'[d])) = Cardinality(IntraPlaces(executed[d])) + 0
      BY <1>2, <1>4, IntraPlacesGrow
    <3> QED BY <2>1, <3>1
  <2>2. CASE s # d
    BY <1>4, <2>2
  <2> QED BY <2>1, <2>2
<1>8. \A s \in Shard : /\ IsFiniteSet(Committed(s)')
                       /\ Cardinality(Committed(s)') = Cardinality(Committed(s)) + (IF s = c /\ first THEN 1 ELSE 0)
  <2> SUFFICES ASSUME NEW s \in Shard
               PROVE  /\ IsFiniteSet(Committed(s)')
                      /\ Cardinality(Committed(s)') = Cardinality(Committed(s)) + (IF s = c /\ first THEN 1 ELSE 0)
    OBVIOUS
  <2>0. IsFiniteSet(Committed(s)) /\ Cardinality(Committed(s)) \in Nat
    BY <1>0, CountTypes
  <2>1. CASE s = c /\ first
    <3>1. Committed(s)' = Committed(s) \cup {t} /\ t \notin Committed(s)
      BY <1>6, <2>1
    <3> QED BY <2>0, <2>1, <3>1, FS_AddElement
  <2>2. CASE ~(s = c /\ first)
    <3>1. Committed(s)' = Committed(s)
      BY <1>6, <2>2
    <3> QED BY <2>0, <2>2, <3>1
  <2> QED BY <2>1, <2>2
<1>9. msg \notin commitMsgs
  BY <1>1 DEF CountInv
<1>10. /\ IsFiniteSet(commitMsgs')
       /\ \A m \in commitMsgs' : m \in commitMsgs \/ m = msg
  BY <1>1, <1>3, FS_AddElement DEF ReportCommit, commitVars, CountInv
<1>11. \A m \in commitMsgs' : m.tx \in Range(executed'[m.from])
  <2>1. \A m \in commitMsgs : m.tx \in InterTx /\ m.from \in Shard
    BY <1>0 DEF TypeOK, CommitType, CommitMsg
  <2> QED BY <1>1, <1>5, <1>10, <2>1 DEF CountInv
<1>12. ASSUME NEW s \in Shard
       PROVE  processedTxNum'[s] + Cardinality(Reports(s)') =
                processedTxNum[s] + Cardinality(Reports(s)) + (IF s = c /\ first THEN 1 ELSE 0)
  <2>0. /\ processedTxNum[s] \in Nat
        /\ IsFiniteSet(Reports(s)) /\ Cardinality(Reports(s)) \in Nat
    BY <1>0, CountTypes
  <2>1. CASE first /\ d = c
    <3>1. processedTxNum' = [processedTxNum EXCEPT ![c] = @ + 1] /\ commitMsgs' = commitMsgs
      BY <1>1, <1>3, <2>1 DEF ReportCommit
    <3>2. Reports(s)' = Reports(s)
      BY <3>1 DEF Reports
    <3> QED BY <1>2, <2>0, <2>1, <3>1, <3>2
  <2>2. CASE first /\ d # c
    <3>1. processedTxNum' = processedTxNum /\ commitMsgs' = commitMsgs \cup {msg}
      BY <1>1, <1>3, <2>2 DEF ReportCommit
    <3>2. CASE s = c
      <4>1. Reports(s)' = Reports(s) \cup {msg} /\ msg \notin Reports(s)
        BY <1>9, <3>1, <3>2 DEF Reports
      <4>2. Cardinality(Reports(s)') = Cardinality(Reports(s)) + 1
        BY <2>0, <4>1, FS_AddElement
      <4> QED BY <2>0, <2>2, <3>1, <3>2, <4>2
    <3>3. CASE s # c
      <4>1. Reports(s)' = Reports(s)
        BY <3>1, <3>3 DEF Reports
      <4> QED BY <2>0, <3>1, <3>3, <4>1
    <3> QED BY <3>2, <3>3
  <2>3. CASE ~first
    <3>1. processedTxNum' = processedTxNum /\ commitMsgs' = commitMsgs
      BY <1>3, <2>3 DEF ReportCommit, commitVars
    <3>2. Reports(s)' = Reports(s)
      BY <3>1 DEF Reports
    <3> QED BY <2>0, <2>3, <3>1, <3>2
  <2> QED BY <2>1, <2>2, <2>3
<1>13. ASSUME NEW s \in Shard PROVE Balanced(s)'
  <2>1. Balanced(s)
    BY CommitCountIsBalance DEF CountInv
  <2>2. Balanced(s)' <=> processedTxNum'[s] + Cardinality(Reports(s)')
                           = Cardinality(IntraPlaces(executed'[s])) + Cardinality(Committed(s)')
    BY DEF Balanced
  <2> QED BY <1>0, <1>7, <1>8, <1>12, <2>1, <2>2, CountTypes DEF Balanced
<1>14. CommitCount'
  BY <1>13 DEF CommitCount, Balanced, Reports, IntraPlaces, Committed
<1> QED BY <1>8, <1>10, <1>11, <1>14 DEF CountInv

\* Every step keeps CountInv.
LEMMA CountNext ==
  ASSUME OneCoordinatorEach, OrderInv, BlockInv, CountInv, [Next]_vars
  PROVE  CountInv'
<1>0. TypeOK
  BY DEF OrderInv, IInv
<1>1. CASE UNCHANGED vars
  BY <1>1, CountUnchanged DEF vars, commitVars
<1>2. ASSUME NEW s \in Shard, ConsensusThread(s) PROVE CountInv'
  <2>1. CASE \E t \in InterTx : ProcessInterShardTx(s, t)
    BY <2>1, CountUnchanged DEF ProcessInterShardTx, commitVars
  <2>2. ASSUME NEW x \in IntraTx, ProcessSingleIntraShardTx(s, x) PROVE CountInv'
    <3>1. CASE ExecutesIntra(s, x)
      BY <1>0, <3>1, CountExecuteIntra
    <3>2. CASE UNCHANGED <<executed, processedTxNum>>
      BY <2>2, <3>2, CountUnchanged DEF ProcessSingleIntraShardTx
    <3> QED BY <2>2, <3>1, <3>2 DEF ProcessSingleIntraShardTx, ExecutesIntra
  <2>3. CASE \E item \in pool[s] : ProcessOrderedBatchedSubInterShardTxs(s, item)
    BY <2>3, CountUnchanged DEF ProcessOrderedBatchedSubInterShardTxs, commitVars
  <2>4. CASE DrainCachedBatch(s) \/ EndOfBlock(s)
    BY <2>4, CountUnchanged DEF DrainCachedBatch, EndOfBlock, commitVars
  <2> QED BY <1>2, <2>1, <2>2, <2>3, <2>4 DEF ConsensusThread
<1>3. ASSUME NEW s \in Shard, MessageThread(s) \/ CommitThread(s) PROVE CountInv'
  <2>1. ASSUME NEW m, ReceiveBatchDistributedTxMsg(m) \/ ReceiveRwset(m) PROVE CountInv'
    BY <2>1, CountUnchanged DEF ReceiveBatchDistributedTxMsg, ReceiveRwset, commitVars
  <2>2. ASSUME NEW m, ReceiveCommit(m) PROVE CountInv'
    BY <1>0, <2>2, CountReceive
  <2> QED BY <1>3, <2>1, <2>2 DEF MessageThread, CommitThread
<1>4. ASSUME NEW d \in Shard, NEW c \in Shard, BlockingThread(d, c) PROVE CountInv'
  <2>1. CASE BatchPop(d, c) \/ SendReadWriteSet(d, c)
    BY <2>1, CountUnchanged DEF BatchPop, SendReadWriteSet, commitVars
  <2>2. CASE ExecuteInterShardTx(d, c)
    BY <2>2, CountExecuteInter
  <2>3. CASE ExecuteBlockedIntraShardTx(d, c)
    <3> DEFINE head == Head(txQueues[d][c])
    <3>1. head \in Entry /\ txQueues[d][c] \in Seq(Entry) /\ txQueues[d][c] # <<>> /\ ~head.inter
      BY <1>0, <2>3, HeadType DEF ExecuteBlockedIntraShardTx, TypeOK, QueueType
    <3>2. head.tx \in IntraTx
      BY <3>1 DEF Entry, InterEntrySet, IntraEntrySet
    <3>3. Cardinality(head.queues) = 1
      BY <3>1 DEF BlockInv, BlockedOnce
    <3>4. ExecutesIntra(d, head.tx)
      BY <2>3, <3>3 DEF ExecuteBlockedIntraShardTx, ExecutesIntra
    <3> QED BY <1>0, <3>2, <3>4, CountExecuteIntra
  <2> QED BY <1>4, <2>1, <2>2, <2>3 DEF BlockingThread
<1> QED BY <1>1, <1>2, <1>3, <1>4 DEF Next, Idle

\* No commit is lost and none is counted twice, whoever executes the transaction and
\* whenever its report arrives, as long as one coordinator at most blocks each intra-shard
\* transaction: one that several queues block is counted without being executed.
THEOREM CommitCountCorrect ==
  ASSUME OneCoordinatorEach
  PROVE  SafeSpec => []CommitCount
<1> DEFINE CommitInv == OrderInv /\ BlockInv /\ CountInv
<1>1. Init => CommitInv
  BY IInvInit, OrderInit, BlockInit, CountInit DEF OrderInv
<1>2. CommitInv /\ [Next]_vars => CommitInv'
  <2> SUFFICES ASSUME OrderInv, BlockInv, CountInv, [Next]_vars PROVE CommitInv'
    OBVIOUS
  <2>1. OrderInv'
    BY IInvNext, OrderNext DEF OrderInv, IInv
  <2>2. BlockInv'
    BY BlockNext DEF OrderInv, IInv
  <2>3. CountInv'
    BY CountNext
  <2> QED BY <2>1, <2>2, <2>3
<1>3. CommitInv => CommitCount
  BY DEF CountInv
<1> QED BY <1>1, <1>2, <1>3, PTL DEF SafeSpec

-----------------------------------------------------------------------------
(* The order in which conflicting transactions leave the queues of a shard. *)

\* t stands in front of u in a sequence of transactions.
Precedes(A, t, u) == \E m, n \in DOMAIN A : m < n /\ A[m] = t /\ A[n] = u

\* The queue of c at d holds t at place i of part r: the part that is worked on (1), or the
\* blocked one (2).  Unlike InLine this counts intra-shard transactions, too.
Queued(d, c, r, i, t) ==
  \/ r = 1 /\ i \in DOMAIN txQueues[d][c] /\ txQueues[d][c][i].tx = t
  \/ r = 2 /\ i \in DOMAIN blockingTxQueues[d][c] /\ blockingTxQueues[d][c][i].tx = t
InQueue(d, c, t) == \E r, i : Queued(d, c, r, i, t)
Conflict(d, t, u) == LocalKeys(d, t) \cap LocalKeys(d, u) # {}

\* The invariant behind ConflictOrder.  The chain gives a transaction once; what it has
\* given is started, with its state locked, or is no longer in the pool; what waits has
\* come from the chain, in the queue of its coordinator or of one that has locked a state
\* it accesses; a queue holds its transactions in the order of the chain; and what comes
\* behind a waiting transaction on a common state waits in the same queue.
ArrivedOnce == \A d \in Shard : \A t : ~Precedes(arrived[d], t, t)
ArrivedKnown == \A d \in Shard : \A t \in Range(arrived[d]) :
  \/ /\ t \in InterTx /\ d \in Range(Participants[t]) /\ Started(Coordinator[t], d, t)
     /\ LocalKey(d, t) \in lockingkeys[d][Coordinator[t]]
  \/ /\ t \in IntraTx /\ Home[t] = d
     /\ [kind |-> "SingleIntraShard", tx |-> t] \notin pool[d]
QueuedArrived == \A d, c \in Shard : \A t : InQueue(d, c, t) => t \in Range(arrived[d])
QueuedBlocked == \A d, c \in Shard : \A t : InQueue(d, c, t) =>
  \/ t \in InterTx /\ Coordinator[t] = c
  \/ t \in IntraTx /\ c \in Range(Upper[d]) /\ IntraKeys[t] \cap lockingkeys[d][c] # {}
QueuesOrdered == \A d, c \in Shard : \A r, i, q, j, t, u :
  Queued(d, c, r, i, t) /\ Queued(d, c, q, j, u) /\ (r < q \/ (r = q /\ i < j)) =>
    Precedes(arrived[d], t, u)
ConflictKept == \A d, c \in Shard : \A t, u :
  Precedes(arrived[d], t, u) /\ Conflict(d, t, u) /\ InQueue(d, c, t) => InQueue(d, c, u)
QueueInv == /\ ArrivedOnce /\ ArrivedKnown /\ QueuedArrived /\ QueuedBlocked
            /\ QueuesOrdered /\ ConflictKept

\* What stands in a queue has a place there.
LEMMA QueuedType ==
  ASSUME TypeOK, NEW d \in Shard, NEW c \in Shard, NEW r, NEW i, NEW t, Queued(d, c, r, i, t)
  PROVE  r \in 1..2 /\ i \in Nat /\ i >= 1
BY DEF Queued, TypeOK, QueueType

\* Of two transactions that the chain gives, one is first.
LEMMA PrecedesAsymmetric ==
  ASSUME NEW A \in Seq(Tx), \A t : ~Precedes(A, t, t), NEW t, NEW u, Precedes(A, t, u)
  PROVE  ~Precedes(A, u, t)
<1> SUFFICES ASSUME Precedes(A, u, t) PROVE FALSE
  OBVIOUS
<1>1. PICK m, n \in DOMAIN A : m < n /\ A[m] = t /\ A[n] = u
  BY DEF Precedes
<1>2. PICK k, l \in DOMAIN A : k < l /\ A[k] = u /\ A[l] = t
  BY DEF Precedes
<1>3. m \in Nat /\ n \in Nat /\ k \in Nat /\ l \in Nat
  OBVIOUS
<1>4. \A x, y \in DOMAIN A : x < y => A[x] # A[y]
  BY DEF Precedes
<1>5. ~(m < l) /\ ~(n < k)
  BY <1>1, <1>2, <1>4
<1>6. ~(l < m) /\ ~(k < n)
  BY <1>1, <1>2, <1>4
<1> QED BY <1>1, <1>2, <1>3, <1>5, <1>6

\* Transactions that come behind others.
LEMMA PrecedesConcat ==
  ASSUME NEW A \in Seq(Tx), NEW R \in Seq(Tx)
  PROVE  /\ Range(A \o R) = Range(A) \cup Range(R)
         /\ \A t, u : Precedes(A \o R, t, u) <=>
              \/ Precedes(A, t, u) \/ Precedes(R, t, u)
              \/ t \in Range(A) /\ u \in Range(R)
<1> DEFINE C == A \o R
           n == Len(A)
<1>1. /\ \A i : i \in DOMAIN C <=> i \in DOMAIN A \/ \E k \in DOMAIN R : i = n + k
      /\ \A k \in DOMAIN A : C[k] = A[k]
      /\ \A k \in DOMAIN R : C[n + k] = R[k] /\ n + k \notin DOMAIN A
  BY ConcatElements
<1>2. n \in Nat /\ DOMAIN A = 1..n /\ DOMAIN R \subseteq Nat
  OBVIOUS
<1> HIDE DEF C, n
<1>3. Range(C) = Range(A) \cup Range(R)
  <2>1. Range(C) \subseteq Range(A) \cup Range(R)
    BY <1>1 DEF Range
  <2>2. Range(A) \subseteq Range(C)
    BY <1>1 DEF Range
  <2>3. Range(R) \subseteq Range(C)
    <3> SUFFICES ASSUME NEW k \in DOMAIN R PROVE \E i \in DOMAIN C : C[i] = R[k]
      BY DEF Range
    <3> QED BY <1>1
  <2> QED BY <2>1, <2>2, <2>3
<1>4. ASSUME NEW t, NEW u, Precedes(C, t, u)
      PROVE  Precedes(A, t, u) \/ Precedes(R, t, u) \/ (t \in Range(A) /\ u \in Range(R))
  <2>1. PICK i, j \in DOMAIN C : i < j /\ C[i] = t /\ C[j] = u
    BY <1>4 DEF Precedes
  <2>2. CASE j \in DOMAIN A
    <3>1. i \in DOMAIN A
      BY <1>1, <1>2, <2>1, <2>2
    <3> QED BY <1>1, <2>1, <2>2, <3>1 DEF Precedes
  <2>3. ASSUME NEW l \in DOMAIN R, j = n + l PROVE Precedes(R, t, u) \/ (t \in Range(A) /\ u \in Range(R))
    <3>1. u = R[l]
      BY <1>1, <2>1, <2>3
    <3>2. CASE i \in DOMAIN A
      BY <1>1, <2>1, <3>1, <3>2 DEF Range
    <3>3. ASSUME NEW k \in DOMAIN R, i = n + k PROVE Precedes(R, t, u)
      <4>1. t = R[k] /\ k < l
        BY <1>1, <1>2, <2>1, <2>3, <3>3
      <4> QED BY <3>1, <4>1 DEF Precedes
    <3> QED BY <1>1, <2>1, <3>2, <3>3
  <2> QED BY <1>1, <2>1, <2>2, <2>3
<1>5. ASSUME NEW t, NEW u, Precedes(A, t, u) PROVE Precedes(C, t, u)
  BY <1>1, <1>5 DEF Precedes
<1>6. ASSUME NEW t, NEW u, Precedes(R, t, u) PROVE Precedes(C, t, u)
  <2>1. PICK k, l \in DOMAIN R : k < l /\ R[k] = t /\ R[l] = u
    BY <1>6 DEF Precedes
  <2>2. n + k \in DOMAIN C /\ n + l \in DOMAIN C /\ C[n + k] = t /\ C[n + l] = u
    BY <1>1, <2>1
  <2>3. n + k < n + l
    BY <1>2, <2>1
  <2> QED BY <2>2, <2>3 DEF Precedes
<1>7. ASSUME NEW t, NEW u, t \in Range(A), u \in Range(R) PROVE Precedes(C, t, u)
  <2>1. PICK k \in DOMAIN A, l \in DOMAIN R : A[k] = t /\ R[l] = u
    BY <1>7 DEF Range
  <2>2. k \in DOMAIN C /\ n + l \in DOMAIN C /\ C[k] = t /\ C[n + l] = u
    BY <1>1, <2>1
  <2>3. k < n + l
    <3>1. l \in Nat /\ l >= 1
      OBVIOUS
    <3> QED BY <1>2, <2>1, <3>1
  <2> QED BY <2>2, <2>3 DEF Precedes
<1> QED BY <1>3, <1>4, <1>5, <1>6, <1>7 DEF C

\* Only the coordinator's thread touches the streams of batches.
LEMMA StreamSteps ==
  ASSUME [Next]_vars
  PROVE  \/ UNCHANGED <<subTxs, epochIds, flushed>>
         \/ \E s \in Shard : EndOfBlock(s) \/ \E x \in InterTx : ProcessInterShardTx(s, x)
<1>1. CASE UNCHANGED vars
  BY <1>1 DEF vars, coordVars
<1>2. ASSUME NEW s \in Shard, ConsensusThread(s), ~EndOfBlock(s),
             ~\E x \in InterTx : ProcessInterShardTx(s, x)
      PROVE  UNCHANGED <<subTxs, epochIds, flushed>>
  BY <1>2 DEF ConsensusThread, ProcessSingleIntraShardTx, ProcessOrderedBatchedSubInterShardTxs,
              DrainCachedBatch, coordVars
<1>3. ASSUME NEW s \in Shard, MessageThread(s) \/ CommitThread(s)
      PROVE  UNCHANGED <<subTxs, epochIds, flushed>>
  BY <1>3 DEF MessageThread, CommitThread, ReceiveBatchDistributedTxMsg, ReceiveRwset,
              ReceiveCommit, coordVars
<1>4. ASSUME NEW s \in Shard, NEW y \in Shard, BlockingThread(s, y)
      PROVE  UNCHANGED <<subTxs, epochIds, flushed>>
  BY <1>4 DEF BlockingThread, BatchPop, SendReadWriteSet, ExecuteInterShardTx,
              ExecuteBlockedIntraShardTx, coordVars
<1> QED BY <1>1, <1>2, <1>3, <1>4 DEF Next, Idle

\* No step takes a place away, and new ones are in the open container.
LEMMA PlacesKept ==
  ASSUME TypeOK, EpochInv, [Next]_vars, NEW c \in Shard, NEW d \in Shard, NEW e, NEW i, NEW t
  PROVE  /\ PlacedAt(c, d, e, i, t) => PlacedAt(c, d, e, i, t)'
         /\ PlacedAt(c, d, e, i, t)' /\ e # epochIds[c][d] => PlacedAt(c, d, e, i, t)
<1>1. CASE UNCHANGED <<subTxs, epochIds, flushed>>
  BY <1>1 DEF PlacedAt
<1>2. ASSUME NEW s \in Shard, EndOfBlock(s) PROVE PlacedAt(c, d, e, i, t)' <=> PlacedAt(c, d, e, i, t)
  BY <1>2, PlaceFlushed
<1>3. ASSUME NEW s \in Shard, NEW x \in InterTx, ProcessInterShardTx(s, x)
      PROVE  /\ PlacedAt(c, d, e, i, t) => PlacedAt(c, d, e, i, t)'
             /\ PlacedAt(c, d, e, i, t)' /\ e # epochIds[c][d] => PlacedAt(c, d, e, i, t)
  BY <1>3, PlaceNew
<1> QED BY <1>1, <1>2, <1>3, StreamSteps

\* A batch that a shard has started stays started: epochs only grow.
LEMMA StartedKept ==
  ASSUME TypeOK, EpochInv, [Next]_vars, NEW c \in Shard, NEW d \in Shard, NEW t, Started(c, d, t)
  PROVE  Started(c, d, t)'
<1>1. precessedEpochIds[d][c] \in Nat /\ precessedEpochIds \in [Shard -> [Shard -> Nat]]
  BY DEF TypeOK, EpochType
<1>2. \A e, i : PlacedAt(c, d, e, i, t) => PlacedAt(c, d, e, i, t)'
  BY PlacesKept
<1>3. precessedEpochIds'[d][c] \in Nat /\ precessedEpochIds'[d][c] >= precessedEpochIds[d][c]
  <2>1. CASE UNCHANGED precessedEpochIds
    BY <1>1, <2>1
  <2>2. ASSUME NEW s \in Shard, NEW y \in Shard,
               precessedEpochIds' = [precessedEpochIds EXCEPT ![s][y] = precessedEpochIds[s][y] + 1]
        PROVE  precessedEpochIds'[d][c] \in Nat /\ precessedEpochIds'[d][c] >= precessedEpochIds[d][c]
    BY <1>1, <2>2
  <2>3. \/ UNCHANGED precessedEpochIds
        \/ \E s, y \in Shard :
             precessedEpochIds' = [precessedEpochIds EXCEPT ![s][y] = precessedEpochIds[s][y] + 1]
    <3>1. CASE UNCHANGED vars
      BY <3>1 DEF vars, epochVars
    <3>2. ASSUME NEW s \in Shard, ConsensusThread(s)
          PROVE  \/ UNCHANGED precessedEpochIds
                 \/ \E x, y \in Shard :
                      precessedEpochIds' = [precessedEpochIds EXCEPT ![x][y] = precessedEpochIds[x][y] + 1]
      <4>1. ASSUME NEW item \in pool[s], ProcessOrderedBatchedSubInterShardTxs(s, item),
                   ProcessNextEpoch(s, item)
            PROVE  \E y \in Shard : precessedEpochIds' =
                     [precessedEpochIds EXCEPT ![s][y] = precessedEpochIds[s][y] + 1]
        <5>1. item.kind = "BatchedSubInterShard" /\ item \in BatchItem
          BY <4>1 DEF ProcessOrderedBatchedSubInterShardTxs, TypeOK, PoolType, InterItem, IntraItem
        <5> QED BY <4>1, <5>1 DEF ProcessNextEpoch, BatchItem
      <4>2. ASSUME DrainCachedBatch(s)
            PROVE  \E y \in Shard : precessedEpochIds' =
                     [precessedEpochIds EXCEPT ![s][y] = precessedEpochIds[s][y] + 1]
        BY <4>2 DEF DrainCachedBatch, TypeOK, EpochType
      <4>3. CASE \E item \in pool[s] : CacheBatch(s, item)
        BY <4>3 DEF CacheBatch
      <4>4. CASE \/ \E x \in InterTx : ProcessInterShardTx(s, x)
                 \/ \E x \in IntraTx : ProcessSingleIntraShardTx(s, x)
                 \/ EndOfBlock(s)
        BY <4>4 DEF ProcessInterShardTx, ProcessSingleIntraShardTx, EndOfBlock, epochVars
      <4> QED BY <3>2, <4>1, <4>2, <4>3, <4>4 DEF ConsensusThread, ProcessOrderedBatchedSubInterShardTxs
    <3>3. ASSUME NEW s \in Shard, MessageThread(s) \/ CommitThread(s)
          PROVE  UNCHANGED precessedEpochIds
      BY <3>3 DEF MessageThread, CommitThread, ReceiveBatchDistributedTxMsg, ReceiveRwset,
                  ReceiveCommit, epochVars
    <3>4. ASSUME NEW s \in Shard, NEW y \in Shard, BlockingThread(s, y)
          PROVE  UNCHANGED precessedEpochIds
      BY <3>4 DEF BlockingThread, BatchPop, SendReadWriteSet, ExecuteInterShardTx,
                  ExecuteBlockedIntraShardTx, epochVars
    <3> QED BY <3>1, <3>2, <3>3, <3>4 DEF Next, Idle
  <2> QED BY <2>1, <2>2, <2>3
<1>4. PICK e, i \in Nat : PlacedAt(c, d, e, i, t) /\ e <= precessedEpochIds[d][c]
  BY DEF Started
<1>5. e <= precessedEpochIds'[d][c]
  BY <1>1, <1>3, <1>4
<1> QED BY <1>2, <1>4, <1>5 DEF Started

\* A step that leaves the queues alone and submits no client's transaction.
LEMMA QueueUnchanged ==
  ASSUME QueueInv, UNCHANGED queueVars,
         \A c, d \in Shard : \A t : Started(c, d, t) => Started(c, d, t)',
         \A s \in Shard : \A item \in pool'[s] : item.kind = "SingleIntraShard" => item \in pool[s]
  PROVE  QueueInv'
<1>1. UNCHANGED <<arrived, lockingkeys>> /\ \A d, c, r, i, t : Queued(d, c, r, i, t)' <=> Queued(d, c, r, i, t)
  BY DEF queueVars, Queued
<1>2. \A d, c, t : InQueue(d, c, t)' <=> InQueue(d, c, t)
  BY <1>1 DEF InQueue
<1>3. ArrivedKnown'
  <2> SUFFICES ASSUME NEW d \in Shard, NEW t \in Range(arrived'[d])
               PROVE  \/ /\ t \in InterTx /\ d \in Range(Participants[t]) /\ Started(Coordinator[t], d, t)'
                         /\ LocalKey(d, t) \in lockingkeys'[d][Coordinator[t]]
                      \/ /\ t \in IntraTx /\ Home[t] = d
                         /\ [kind |-> "SingleIntraShard", tx |-> t] \notin pool'[d]
    BY DEF ArrivedKnown
  <2>1. CASE t \in InterTx /\ Started(Coordinator[t], d, t)
    <3>1. Coordinator[t] \in Shard
      BY <2>1, TxAssumption
    <3> QED BY <1>1, <2>1, <3>1, ShardAssumption, TxAssumption DEF QueueInv, ArrivedKnown
  <2>2. CASE t \in IntraTx /\ Home[t] = d /\ [kind |-> "SingleIntraShard", tx |-> t] \notin pool[d]
    BY <2>2
  <2> QED BY <1>1, <2>1, <2>2 DEF QueueInv, ArrivedKnown
<1>4. ArrivedOnce' /\ QueuesOrdered'
  BY <1>1 DEF QueueInv, ArrivedOnce, QueuesOrdered
<1>5. QueuedArrived' /\ QueuedBlocked' /\ ConflictKept'
  BY <1>1, <1>2 DEF QueueInv, QueuedArrived, QueuedBlocked, ConflictKept
<1> QED BY <1>3, <1>4, <1>5 DEF QueueInv

\* What a step that only moves the queue of c at d may do.
OnlyQueueMoves(c, d) == \A y, x \in Shard : ~(y = c /\ x = d) =>
  \A r, i, t : Queued(x, y, r, i, t)' <=> Queued(x, y, r, i, t)
NoneJoins(c, d) == \A t : InQueue(d, c, t)' => InQueue(d, c, t)
OrderStays(c, d) == \A r, i, q, j, t, u :
  Queued(d, c, r, i, t)' /\ Queued(d, c, q, j, u)' /\ (r < q \/ (r = q /\ i < j)) =>
    \E v, k, w, l : Queued(d, c, v, k, t) /\ Queued(d, c, w, l, u) /\ (v < w \/ (v = w /\ k < l))
OnlyFirstLeaves(c, d) == \A u : InQueue(d, c, u) /\ ~InQueue(d, c, u)' =>
  \A t : InQueue(d, c, t)' => Precedes(arrived[d], u, t)

\* Such a step keeps the invariant: whoever leaves was in front of the others.
LEMMA QueueMovesUp ==
  ASSUME TypeOK, QueueInv, UNCHANGED <<pool, arrived, lockingkeys>>,
         \A c, d \in Shard : \A t : Started(c, d, t) => Started(c, d, t)',
         NEW c \in Shard, NEW d \in Shard,
         OnlyQueueMoves(c, d), NoneJoins(c, d), OrderStays(c, d), OnlyFirstLeaves(c, d)
  PROVE  QueueInv'
<1>1. ArrivedOnce'
  BY DEF QueueInv, ArrivedOnce
<1>2. ArrivedKnown'
  <2> SUFFICES ASSUME NEW x \in Shard, NEW t \in Range(arrived[x])
               PROVE  \/ /\ t \in InterTx /\ x \in Range(Participants[t]) /\ Started(Coordinator[t], x, t)'
                         /\ LocalKey(x, t) \in lockingkeys[x][Coordinator[t]]
                      \/ /\ t \in IntraTx /\ Home[t] = x
                         /\ [kind |-> "SingleIntraShard", tx |-> t] \notin pool[x]
    BY DEF ArrivedKnown
  <2>1. t \in InterTx => Coordinator[t] \in Shard
    BY TxAssumption
  <2> QED BY <2>1 DEF QueueInv, ArrivedKnown
<1>3. \A y, x \in Shard : \A t : InQueue(x, y, t)' => InQueue(x, y, t)
  BY DEF OnlyQueueMoves, NoneJoins, InQueue
<1>4. QueuedArrived' /\ QueuedBlocked'
  BY <1>3 DEF QueueInv, QueuedArrived, QueuedBlocked
<1>5. QueuesOrdered'
  <2> SUFFICES ASSUME NEW x \in Shard, NEW y \in Shard, NEW r, NEW i, NEW q, NEW j, NEW t, NEW u,
                      Queued(x, y, r, i, t)', Queued(x, y, q, j, u)', r < q \/ (r = q /\ i < j)
               PROVE  Precedes(arrived[x], t, u)
    BY DEF QueuesOrdered
  <2>1. CASE y = c /\ x = d
    BY <2>1 DEF OrderStays, QueueInv, QueuesOrdered
  <2>2. CASE ~(y = c /\ x = d)
    BY <2>2 DEF OnlyQueueMoves, QueueInv, QueuesOrdered
  <2> QED BY <2>1, <2>2
<1>6. ConflictKept'
  <2> SUFFICES ASSUME NEW x \in Shard, NEW y \in Shard, NEW t, NEW u,
                      Precedes(arrived[x], t, u), Conflict(x, t, u), InQueue(x, y, t)',
                      ~InQueue(x, y, u)'
               PROVE  FALSE
    BY DEF ConflictKept, Conflict
  <2>1. InQueue(x, y, u)
    BY <1>3 DEF QueueInv, ConflictKept
  <2>2. y = c /\ x = d
    BY <2>1 DEF OnlyQueueMoves, InQueue
  <2>3. Precedes(arrived[x], u, t)
    BY <2>1, <2>2 DEF OnlyFirstLeaves
  <2>4. arrived[x] \in Seq(Tx) /\ \A v : ~Precedes(arrived[x], v, v)
    BY DEF TypeOK, QueueType, QueueInv, ArrivedOnce
  <2> QED BY <2>3, <2>4, PrecedesAsymmetric
<1> QED BY <1>1, <1>2, <1>4, <1>5, <1>6 DEF QueueInv

\* batch_pop moves a queue as it stands.
LEMMA QueueBatchPop ==
  ASSUME TypeOK, QueueInv, NEW d \in Shard, NEW c \in Shard, BatchPop(d, c),
         \A x, y \in Shard : \A t : Started(x, y, t) => Started(x, y, t)'
  PROVE  QueueInv'
<1>1. /\ UNCHANGED <<pool, arrived, lockingkeys>>
      /\ txQueues[d][c] = <<>>
      /\ txQueues' = [txQueues EXCEPT ![d][c] = blockingTxQueues[d][c]]
      /\ blockingTxQueues' = [blockingTxQueues EXCEPT ![d][c] = <<>>]
  BY DEF BatchPop
<1>2. /\ blockingTxQueues \in [Shard -> [Shard -> Seq(Entry)]]
      /\ txQueues \in [Shard -> [Shard -> Seq(Entry)]]
  BY DEF TypeOK, QueueType
<1>3. OnlyQueueMoves(c, d)
  <2> SUFFICES ASSUME NEW y \in Shard, NEW x \in Shard, ~(y = c /\ x = d), NEW r, NEW i, NEW t
               PROVE  Queued(x, y, r, i, t)' <=> Queued(x, y, r, i, t)
    BY DEF OnlyQueueMoves
  <2>1. txQueues'[x][y] = txQueues[x][y] /\ blockingTxQueues'[x][y] = blockingTxQueues[x][y]
    BY <1>1, <1>2
  <2> QED BY <2>1 DEF Queued
<1>4. \A r, i, t : Queued(d, c, r, i, t)' <=> r = 1 /\ Queued(d, c, 2, i, t)
  <2>1. txQueues'[d][c] = blockingTxQueues[d][c] /\ DOMAIN blockingTxQueues'[d][c] = {}
    BY <1>1, <1>2
  <2> QED BY <2>1 DEF Queued
<1>5. \A r, i, t : Queued(d, c, r, i, t) => r = 2
  <2>1. DOMAIN txQueues[d][c] = {}
    BY <1>1
  <2> QED BY <2>1 DEF Queued
<1>6. NoneJoins(c, d)
  BY <1>4 DEF NoneJoins, InQueue
<1>7. OrderStays(c, d)
  <2> SUFFICES ASSUME NEW r, NEW i, NEW q, NEW j, NEW t, NEW u,
                      Queued(d, c, r, i, t)', Queued(d, c, q, j, u)', r < q \/ (r = q /\ i < j)
               PROVE  \E v, k, w, l : Queued(d, c, v, k, t) /\ Queued(d, c, w, l, u) /\ (v < w \/ (v = w /\ k < l))
    BY DEF OrderStays
  <2>1. Queued(d, c, 2, i, t) /\ Queued(d, c, 2, j, u) /\ i < j
    BY <1>4
  <2> QED BY <2>1
<1>8. OnlyFirstLeaves(c, d)
  BY <1>4, <1>5 DEF OnlyFirstLeaves, InQueue
<1> QED BY <1>1, <1>3, <1>6, <1>7, <1>8, QueueMovesUp

\* The first transaction of a queue leaves it.
LEMMA QueueExecute ==
  ASSUME TypeOK, QueueInv, NEW d \in Shard, NEW c \in Shard,
         ExecuteInterShardTx(d, c) \/ ExecuteBlockedIntraShardTx(d, c),
         \A x, y \in Shard : \A t : Started(x, y, t) => Started(x, y, t)'
  PROVE  QueueInv'
<1> DEFINE S == txQueues[d][c]
<1>1. /\ UNCHANGED <<pool, arrived, lockingkeys, blockingTxQueues>>
      /\ S # <<>> /\ txQueues' = [txQueues EXCEPT ![d][c] = Tail(@)]
  BY DEF ExecuteInterShardTx, ExecuteBlockedIntraShardTx, PopHead
<1>2. txQueues \in [Shard -> [Shard -> Seq(Entry)]] /\ S \in Seq(Entry)
  BY DEF TypeOK, QueueType
<1>3. OnlyQueueMoves(c, d)
  <2> SUFFICES ASSUME NEW y \in Shard, NEW x \in Shard, ~(y = c /\ x = d), NEW r, NEW i, NEW t
               PROVE  Queued(x, y, r, i, t)' <=> Queued(x, y, r, i, t)
    BY DEF OnlyQueueMoves
  <2>1. txQueues'[x][y] = txQueues[x][y]
    BY <1>1, <1>2
  <2> QED BY <1>1, <2>1 DEF Queued
<1>4. \A r, i, t : Queued(d, c, r, i, t)' <=>
        \/ r = 1 /\ i \in Nat \ {0} /\ Queued(d, c, 1, i + 1, t)
        \/ r = 2 /\ Queued(d, c, 2, i, t)
  <2> SUFFICES ASSUME NEW r, NEW i, NEW t
               PROVE  Queued(d, c, r, i, t)' <=>
                        \/ r = 1 /\ i \in Nat \ {0} /\ Queued(d, c, 1, i + 1, t)
                        \/ r = 2 /\ Queued(d, c, 2, i, t)
    OBVIOUS
  <2>1. txQueues'[d][c] = Tail(S)
    BY <1>1, <1>2
  <2>2. /\ i \in DOMAIN Tail(S) <=> i \in Nat \ {0} /\ i + 1 \in DOMAIN S
        /\ i \in DOMAIN Tail(S) => Tail(S)[i] = S[i + 1]
    BY <1>1, <1>2
  <2>3. /\ i \in DOMAIN txQueues'[d][c] <=> i \in Nat \ {0} /\ i + 1 \in DOMAIN txQueues[d][c]
        /\ i \in DOMAIN txQueues'[d][c] => txQueues'[d][c][i] = txQueues[d][c][i + 1]
    BY <2>1, <2>2
  <2>4. blockingTxQueues'[d][c] = blockingTxQueues[d][c]
    BY <1>1
  <2>5. Queued(d, c, 1, i, t)' <=> i \in Nat \ {0} /\ Queued(d, c, 1, i + 1, t)
    <3> HIDE DEF S
    <3>1. Queued(d, c, 1, i, t)' <=> i \in DOMAIN txQueues'[d][c] /\ txQueues'[d][c][i].tx = t
      BY DEF Queued
    <3>2. Queued(d, c, 1, i + 1, t) <=> i + 1 \in DOMAIN txQueues[d][c] /\ txQueues[d][c][i + 1].tx = t
      BY DEF Queued
    <3> QED BY <2>3, <3>1, <3>2
  <2>6. Queued(d, c, 2, i, t)' <=> Queued(d, c, 2, i, t)
    BY <2>4 DEF Queued
  <2>7. Queued(d, c, r, i, t)' => r \in {1, 2}
    BY DEF Queued
  <2> QED BY <2>5, <2>6, <2>7
<1>5. \A r, i, t : Queued(d, c, r, i, t) => r \in 1..2 /\ i \in Nat /\ i >= 1
  BY QueuedType
<1>6. \A u : Queued(d, c, 1, 1, u) <=> u = S[1].tx
  BY <1>1, <1>2 DEF Queued
<1> HIDE DEF S
<1>7. NoneJoins(c, d)
  BY <1>4 DEF NoneJoins, InQueue
<1>8. OrderStays(c, d)
  <2> SUFFICES ASSUME NEW r, NEW i, NEW q, NEW j, NEW t, NEW u,
                      Queued(d, c, r, i, t)', Queued(d, c, q, j, u)', r < q \/ (r = q /\ i < j)
               PROVE  \E v, k, w, l : Queued(d, c, v, k, t) /\ Queued(d, c, w, l, u) /\ (v < w \/ (v = w /\ k < l))
    BY SMTT(30) DEF OrderStays
  <2>1. CASE r = 1 /\ q = 1
    <3>1. /\ Queued(d, c, 1, i + 1, t) /\ Queued(d, c, 1, j + 1, u)
          /\ i \in Nat /\ j \in Nat /\ i < j
      BY <1>4, <2>1
    <3>2. i + 1 < j + 1
      BY <3>1
    <3> QED BY <3>1, <3>2
  <2>2. CASE r = 1 /\ q = 2
    <3>1. Queued(d, c, 1, i + 1, t) /\ Queued(d, c, 2, j, u) /\ 1 < 2
      BY <1>4, <2>2
    <3> QED BY <3>1
  <2>3. CASE r = 2
    <3>1. Queued(d, c, 2, i, t) /\ Queued(d, c, 2, j, u) /\ i < j
      BY <1>4, <2>3
    <3> QED BY <3>1
  <2> QED BY <1>4, <2>1, <2>2, <2>3
<1>9. OnlyFirstLeaves(c, d)
  <2> SUFFICES ASSUME NEW u, InQueue(d, c, u), ~InQueue(d, c, u)', NEW t, InQueue(d, c, t)'
               PROVE  Precedes(arrived[d], u, t)
    BY DEF OnlyFirstLeaves
  <2>1. Queued(d, c, 1, 1, u)
    <3>1. PICK r, i : Queued(d, c, r, i, u)
      BY DEF InQueue
    <3>2. CASE r = 1 /\ i > 1
      <4>1. PICK k \in Nat \ {0} : i = k + 1
        BY <1>5, <3>1, <3>2
      <4> QED BY <1>4, <3>1, <3>2, <4>1 DEF InQueue
    <3> QED BY <1>4, <1>5, <3>1, <3>2 DEF InQueue
  <2>2. PICK r, i : Queued(d, c, r, i, t)'
    BY DEF InQueue
  <2>3. \/ i \in Nat \ {0} /\ Queued(d, c, 1, i + 1, t) /\ 1 < i + 1
        \/ Queued(d, c, 2, i, t) /\ 1 < 2
    BY <1>4, <2>2
  <2> QED BY <2>1, <2>3 DEF QueueInv, QueuesOrdered
<1> QED BY <1>1, <1>3, <1>7, <1>8, <1>9, QueueMovesUp

\* The chain gives d the transactions R, and they join the blocked part of the queue of c,
\* or none: none is given twice, and what waits and conflicts with them waits there.
LEMMA QueueJoin ==
  ASSUME TypeOK, QueueInv, NEW d \in Shard, NEW c \in Shard, NEW R \in Seq(Tx), NEW n \in Nat,
         NEW joins \in BOOLEAN,
         arrived' = [arrived EXCEPT ![d] = @ \o R],
         OnlyQueueMoves(c, d),
         \A r, i, t : Queued(d, c, r, i, t)' <=>
           \/ Queued(d, c, r, i, t)
           \/ joins /\ r = 2 /\ \E k \in DOMAIN R : i = n + k /\ t = R[k],
         \A i, t : Queued(d, c, 2, i, t) => i <= n,
         \A t : ~Precedes(R, t, t),
         \A k \in DOMAIN R : R[k] \notin Range(arrived[d]),
         \A k \in DOMAIN R : \A y \in Shard : \A t :
           InQueue(d, y, t) /\ Conflict(d, t, R[k]) => y = c /\ joins,
         ArrivedKnown', QueuedBlocked'
  PROVE  QueueInv'
<1> DEFINE A == arrived[d]
<1>1. /\ A \in Seq(Tx) /\ arrived'[d] = A \o R
      /\ \A x \in Shard : x # d => arrived'[x] = arrived[x]
  BY DEF TypeOK, QueueType
<1>2. /\ Range(arrived'[d]) = Range(A) \cup Range(R)
      /\ \A t, u : Precedes(arrived'[d], t, u) <=>
           \/ Precedes(A, t, u) \/ Precedes(R, t, u) \/ (t \in Range(A) /\ u \in Range(R))
  <2> HIDE DEF A
  <2>1. /\ Range(A \o R) = Range(A) \cup Range(R)
        /\ \A t, u : Precedes(A \o R, t, u) <=>
             \/ Precedes(A, t, u) \/ Precedes(R, t, u) \/ (t \in Range(A) /\ u \in Range(R))
    BY <1>1, PrecedesConcat
  <2>2. arrived'[d] = A \o R
    BY <1>1
  <2> DEFINE C == A \o R
  <2> HIDE DEF C
  <2>3. arrived'[d] = C
    BY <2>2 DEF C
  <2> QED BY <2>1, <2>3 DEF C
<1>3. \A t, u : Precedes(A, t, u) => t \in Range(A) /\ u \in Range(A)
  BY DEF Precedes, Range
<1>4. \A t, u : Precedes(R, t, u) => t \in Range(R) /\ u \in Range(R)
  BY DEF Precedes, Range
<1>5. Range(A) \cap Range(R) = {}
  BY DEF Range
<1>6. \A t \in Range(R) : \E k \in DOMAIN R : t = R[k]
  BY DEF Range
<1> HIDE DEF A
<1>7. \A t : InQueue(d, c, t)' => InQueue(d, c, t) \/ (joins /\ t \in Range(R))
  BY DEF InQueue, Range
<1>8. \A t : InQueue(d, c, t) => InQueue(d, c, t)'
  BY DEF InQueue
<1>9. ASSUME joins, NEW t \in Range(R) PROVE InQueue(d, c, t)'
  <2>1. PICK k \in DOMAIN R : t = R[k]
    BY <1>6, <1>9
  <2>2. Queued(d, c, 2, n + k, t)'
    BY <1>9, <2>1
  <2> QED BY <2>2 DEF InQueue
<1>10. \A y, x \in Shard : ~(y = c /\ x = d) => \A t : InQueue(x, y, t)' <=> InQueue(x, y, t)
  BY DEF OnlyQueueMoves, InQueue
<1>11. \A y \in Shard : \A t : InQueue(d, y, t) => t \in Range(A)
  BY DEF QueueInv, QueuedArrived, A
<1>12. ArrivedOnce'
  <2> SUFFICES ASSUME NEW x \in Shard, NEW t, Precedes(arrived'[x], t, t) PROVE FALSE
    BY DEF ArrivedOnce
  <2>1. CASE x # d
    BY <1>1, <2>1 DEF QueueInv, ArrivedOnce
  <2>2. CASE x = d
    BY <1>2, <1>5, <2>2 DEF QueueInv, ArrivedOnce, A
  <2> QED BY <2>1, <2>2
<1>13. QueuedArrived'
  <2> SUFFICES ASSUME NEW x \in Shard, NEW y \in Shard, NEW t, InQueue(x, y, t)'
               PROVE  t \in Range(arrived'[x])
    BY DEF QueuedArrived
  <2>1. CASE x # d
    BY <1>1, <1>10, <2>1 DEF QueueInv, QueuedArrived
  <2>2. CASE x = d
    BY <1>2, <1>7, <1>10, <1>11, <2>2
  <2> QED BY <2>1, <2>2
<1>14. QueuesOrdered'
  <2> SUFFICES ASSUME NEW x \in Shard, NEW y \in Shard, NEW r, NEW i, NEW q, NEW j, NEW t, NEW u,
                      Queued(x, y, r, i, t)', Queued(x, y, q, j, u)', r < q \/ (r = q /\ i < j)
               PROVE  Precedes(arrived'[x], t, u)
    BY DEF QueuesOrdered
  <2>1. CASE Queued(x, y, r, i, t) /\ Queued(x, y, q, j, u)
    <3>1. Precedes(arrived[x], t, u)
      BY <2>1 DEF QueueInv, QueuesOrdered
    <3> QED BY <1>1, <1>2, <3>1 DEF A
  <2>2. CASE x = d /\ y = c
    <3>1. CASE Queued(d, c, r, i, t) /\ ~Queued(d, c, q, j, u)
      <4>1. t \in Range(A)
        BY <1>11, <3>1 DEF InQueue
      <4>2. u \in Range(R)
        BY <2>2, <3>1 DEF Range
      <4>3. Precedes(arrived'[d], t, u)
        BY <1>2, <4>1, <4>2
      <4> QED BY <2>2, <4>3
    <3>2. CASE ~Queued(d, c, r, i, t)
      <4>1. r = 2 /\ joins
        BY <2>2, <3>2
      <4>2. PICK k \in DOMAIN R : i = n + k /\ t = R[k]
        BY <2>2, <3>2
      <4>3. Queued(d, c, q, j, u) => q \in 1..2
        BY QueuedType
      <4>4. q = 2 /\ i < j
        BY <2>2, <4>1, <4>3
      <4>5. k \in Nat /\ k >= 1
        OBVIOUS
      <4>6. ~Queued(d, c, q, j, u)
        <5> SUFFICES ASSUME Queued(d, c, 2, j, u) PROVE FALSE
          BY <4>4
        <5>1. j \in Nat /\ j <= n
          BY QueuedType
        <5> QED BY <4>2, <4>4, <4>5, <5>1
      <4>7. PICK l \in DOMAIN R : j = n + l /\ u = R[l]
        BY <2>2, <4>6
      <4>8. k < l
        BY <4>2, <4>4, <4>5, <4>7
      <4>9. Precedes(R, t, u)
        BY <4>2, <4>7, <4>8 DEF Precedes
      <4>10. Precedes(arrived'[d], t, u)
        BY <1>2, <4>9
      <4> QED BY <2>2, <4>10
    <3> QED BY <2>1, <2>2, <3>1, <3>2
  <2>3. CASE ~(x = d /\ y = c)
    BY <2>1, <2>3 DEF OnlyQueueMoves
  <2> QED BY <2>2, <2>3
<1>15. ConflictKept'
  <2> SUFFICES ASSUME NEW x \in Shard, NEW y \in Shard, NEW t, NEW u,
                      Precedes(arrived'[x], t, u), Conflict(x, t, u), InQueue(x, y, t)'
               PROVE  InQueue(x, y, u)'
    BY DEF ConflictKept, Conflict
  <2>1. CASE x # d
    BY <1>1, <1>10, <2>1 DEF QueueInv, ConflictKept
  <2>2. CASE x = d
    <3>1. CASE Precedes(A, t, u)
      <4>1. t \in Range(A)
        BY <1>3, <3>1
      <4>2. InQueue(d, y, t)
        BY <1>5, <1>7, <1>10, <2>2, <4>1
      <4>3. InQueue(d, y, u)
        BY <2>2, <3>1, <4>2 DEF QueueInv, ConflictKept, A
      <4> QED BY <1>8, <1>10, <2>2, <4>3
    <3>2. CASE Precedes(R, t, u)
      <4>1. t \in Range(R) /\ u \in Range(R)
        BY <1>4, <3>2
      <4>2. ~InQueue(d, y, t)
        BY <1>5, <1>11, <4>1
      <4>3. y = c /\ joins
        BY <1>7, <1>10, <2>2, <4>2
      <4> QED BY <1>9, <2>2, <4>1, <4>3
    <3>3. CASE t \in Range(A) /\ u \in Range(R)
      <4>1. InQueue(d, y, t)
        BY <1>5, <1>7, <1>10, <2>2, <3>3
      <4>2. y = c /\ joins
        BY <1>6, <2>2, <3>3, <4>1
      <4> QED BY <1>9, <2>2, <3>3, <4>2
    <3> QED BY <1>2, <2>2, <3>1, <3>2, <3>3
  <2> QED BY <2>1, <2>2
<1> QED BY <1>12, <1>13, <1>14, <1>15 DEF QueueInv

\* What a batch puts into the queue of c, and nothing else, joins it.
LEMMA BatchQueued ==
  ASSUME TypeOK, NEW d \in Shard, NEW c \in Shard, NEW b \in Batch, IsBatchFor(c, d, b),
         NEW r \in Reorderings(b), UNCHANGED txQueues,
         blockingTxQueues' = [blockingTxQueues EXCEPT ![d][c] = @ \o InterEntries(d, r)]
  PROVE  /\ OnlyQueueMoves(c, d)
         /\ \A q, i, t : Queued(d, c, q, i, t)' <=>
              \/ Queued(d, c, q, i, t)
              \/ q = 2 /\ \E k \in DOMAIN r : i = Len(blockingTxQueues[d][c]) + k /\ t = r[k]
<1> DEFINE B == blockingTxQueues[d][c]
           E == InterEntries(d, r)
           n == Len(B)
<1>1. blockingTxQueues \in [Shard -> [Shard -> Seq(Entry)]] /\ B \in Seq(Entry)
  BY DEF TypeOK, QueueType
<1>2. r \in Batch /\ \A k \in DOMAIN r : \E i \in DOMAIN b : r[k] = b[i]
  BY ReorderingType
<1>3. E \in Seq(Entry)
  <2>1. \A k \in DOMAIN r : d \in Range(Participants[r[k]])
    BY <1>2 DEF IsBatchFor
  <2> HIDE DEF E
  <2> QED BY <1>2, <2>1, InterEntriesType DEF E
<1>4. DOMAIN E = DOMAIN r /\ \A k \in DOMAIN r : E[k].tx = r[k]
  BY DEF InterEntries, InterEntry
<1>5. OnlyQueueMoves(c, d)
  <2> SUFFICES ASSUME NEW y \in Shard, NEW x \in Shard, ~(y = c /\ x = d), NEW q, NEW i, NEW t
               PROVE  Queued(x, y, q, i, t)' <=> Queued(x, y, q, i, t)
    BY DEF OnlyQueueMoves
  <2>1. blockingTxQueues'[x][y] = blockingTxQueues[x][y]
    BY <1>1
  <2> QED BY <2>1 DEF Queued
<1>6. blockingTxQueues'[d][c] = B \o E
  BY <1>1
<1> HIDE DEF E
<1>7. ASSUME NEW q, NEW i, NEW t
      PROVE  Queued(d, c, q, i, t)' <=>
               Queued(d, c, q, i, t) \/ (q = 2 /\ \E k \in DOMAIN r : i = n + k /\ t = r[k])
  <2> HIDE DEF B
  <2> DEFINE C == B \o E
  <2>1. /\ i \in DOMAIN C <=> i \in DOMAIN B \/ \E k \in DOMAIN r : i = n + k
        /\ \A k \in DOMAIN B : C[k] = B[k]
        /\ \A k \in DOMAIN r : C[n + k].tx = r[k] /\ n + k \notin DOMAIN B
    <3>1. /\ i \in DOMAIN C <=> i \in DOMAIN B \/ \E k \in DOMAIN E : i = n + k
          /\ \A k \in DOMAIN B : C[k] = B[k]
          /\ \A k \in DOMAIN E : C[n + k] = E[k] /\ n + k \notin DOMAIN B
      <4>1. /\ i \in DOMAIN (B \o E) <=> i \in DOMAIN B \/ \E k \in DOMAIN E : i = Len(B) + k
            /\ \A k \in DOMAIN B : (B \o E)[k] = B[k]
            /\ \A k \in DOMAIN E : (B \o E)[Len(B) + k] = E[k] /\ Len(B) + k \notin DOMAIN B
        <5>1. B \in Seq(Entry)
          BY <1>1
        <5> QED BY <1>3, <5>1, ConcatElements
      <4> HIDE DEF C, n
      <4> QED BY <4>1 DEF C, n
    <3> HIDE DEF C, n
    <3> QED BY <1>4, <3>1
  <2> HIDE DEF C, n
  <2>2. (i \in DOMAIN C /\ C[i].tx = t) <=>
          (i \in DOMAIN B /\ B[i].tx = t) \/ \E k \in DOMAIN r : i = n + k /\ t = r[k]
    <3>1. CASE i \in DOMAIN B
      <4>1. i \in DOMAIN C /\ C[i] = B[i] /\ ~\E k \in DOMAIN r : i = n + k
        BY <2>1, <3>1
      <4> QED BY <3>1, <4>1
    <3>2. CASE i \notin DOMAIN B
      <4>1. i \in DOMAIN C <=> \E k \in DOMAIN r : i = n + k
        BY <2>1, <3>2
      <4>2. \A k \in DOMAIN r : i = n + k => C[i].tx = r[k]
        BY <2>1
      <4>3. ASSUME i \in DOMAIN C, C[i].tx = t PROVE \E k \in DOMAIN r : i = n + k /\ t = r[k]
        BY <4>1, <4>2, <4>3
      <4>4. ASSUME NEW k \in DOMAIN r, i = n + k, t = r[k] PROVE i \in DOMAIN C /\ C[i].tx = t
        BY <4>1, <4>2, <4>4
      <4> QED BY <3>2, <4>3, <4>4
    <3> QED BY <3>1, <3>2
  <2>3. (i \in DOMAIN blockingTxQueues'[d][c] /\ blockingTxQueues'[d][c][i].tx = t) <=>
          \/ i \in DOMAIN blockingTxQueues[d][c] /\ blockingTxQueues[d][c][i].tx = t
          \/ \E k \in DOMAIN r : i = n + k /\ t = r[k]
    BY <1>6, <2>2 DEF B, C
  <2> QED BY <2>3 DEF Queued
<1> QED BY <1>5, <1>7

\* Starting the next batch of c: its transactions, sorted, join the queue of c.
LEMMA QueueProcessBatch ==
  ASSUME ConflictsShareQueue, TypeOK, EpochInv, PlaceInv, BlockInv, QueueInv,
         NEW d \in Shard, NEW c \in Shard, NEW b \in Batch,
         NEW e, e = precessedEpochIds[d][c] + 1, Produced(c, d, e, b),
         ProcessBatchSubInterShardTxs(d, c, b),
         precessedEpochIds' = [precessedEpochIds EXCEPT ![d][c] = e],
         UNCHANGED <<subTxs, epochIds, flushed>>,
         \A s \in Shard : pool'[s] \subseteq pool[s],
         \A x, y \in Shard : \A t : Started(x, y, t) => Started(x, y, t)'
  PROVE  QueueInv'
<1>1. PICK r \in Reorderings(b) :
        /\ blockingTxQueues' = [blockingTxQueues EXCEPT ![d][c] = @ \o InterEntries(d, r)]
        /\ lockingkeys' = [lockingkeys EXCEPT ![d][c] = @ \cup {LocalKey(d, t) : t \in Range(r)}]
        /\ arrived' = [arrived EXCEPT ![d] = @ \o r]
        /\ UNCHANGED txQueues
  BY DEF ProcessBatchSubInterShardTxs
<1>2. PICK p \in [DOMAIN b -> DOMAIN b] :
        /\ r = [k \in DOMAIN b |-> b[p[k]]]
        /\ \A i, j \in DOMAIN b : i < j => Before(b, p[i], p[j])
  BY ReorderingOnto
<1>3. IsBatchFor(c, d, b)
  BY DEF Produced, EpochInv, Addressed
<1>4. /\ lockingkeys \in [Shard -> [Shard -> SUBSET Key]]
      /\ arrived \in [Shard -> Seq(Tx)]
      /\ precessedEpochIds \in [Shard -> [Shard -> Nat]]
      /\ blockingTxQueues[d][c] \in Seq(Entry)
  <2>1. QueueType /\ EpochType
    BY DEF TypeOK
  <2>2. blockingTxQueues[d][c] \in Seq(Entry)
    BY <2>1 DEF QueueType
  <2> QED BY <2>1, <2>2 DEF QueueType, EpochType
<1>5. /\ r \in Seq(Tx) /\ DOMAIN r = DOMAIN b /\ DOMAIN b \subseteq Nat
      /\ \A k \in DOMAIN b : r[k] = b[p[k]] /\ p[k] \in DOMAIN b /\ r[k] \in InterTx
  <2>1. r \in Batch /\ b \in Seq(InterTx)
    BY ReorderingType DEF Batch
  <2>2. DOMAIN r = DOMAIN b /\ \A k \in DOMAIN b : r[k] = b[p[k]] /\ p[k] \in DOMAIN b
    BY <1>2
  <2>3. DOMAIN b \subseteq Nat /\ \A k \in DOMAIN b : b[k] \in InterTx
    BY <2>1
  <2> QED BY <2>1, <2>2, <2>3 DEF Batch, Tx
<1>6. \A k \in DOMAIN r : Coordinator[r[k]] = c /\ d \in Range(Participants[r[k]])
  BY <1>3, <1>5 DEF IsBatchFor
<1>7. ASSUME NEW k \in DOMAIN r PROVE PlacedAt(c, d, e, p[k], r[k]) /\ p[k] \in Nat /\ e \in Nat
  BY <1>4, <1>5 DEF Produced, PlacedAt
<1>8. \A x, y, f, i, t : PlacedAt(x, y, f, i, t)' <=> PlacedAt(x, y, f, i, t)
  BY DEF PlacedAt
<1>9. \A t : ~Precedes(r, t, t)
  <2> SUFFICES ASSUME NEW k \in DOMAIN r, NEW l \in DOMAIN r, k < l, r[k] = r[l] PROVE FALSE
    BY DEF Precedes
  <2>1. Before(b, p[k], p[l])
    BY <1>2, <1>5
  <2>2. Ahead(c, d, r[k], r[l])
    BY <1>5, <1>7, <2>1 DEF Before, Ahead, SameBatchAhead
  <2> QED BY <2>2, AheadAsymmetric
<1>10. ASSUME NEW k \in DOMAIN r, r[k] \in Range(arrived[d]) PROVE FALSE
  <2>1. Started(c, d, r[k])
    <3>1. ASSUME NEW t \in Range(arrived[d]), t \in InterTx PROVE Started(Coordinator[t], d, t)
      BY <3>1, ShardAssumption DEF QueueInv, ArrivedKnown
    <3>2. r[k] \in InterTx /\ Coordinator[r[k]] = c
      BY <1>5, <1>6
    <3> QED BY <1>10, <3>1, <3>2
  <2>2. PICK f, i \in Nat : PlacedAt(c, d, f, i, r[k]) /\ f <= precessedEpochIds[d][c]
    BY <2>1 DEF Started
  <2>3. f = e
    BY <1>5, <1>7, <2>2 DEF PlaceInv, PlacedOnce
  <2> QED BY <1>4, <2>2, <2>3
<1>11. ASSUME NEW k \in DOMAIN r, NEW y \in Shard, NEW t, InQueue(d, y, t), Conflict(d, t, r[k])
       PROVE  y = c
  <2>1. LocalKey(d, r[k]) \in LocalKeys(d, t) /\ r[k] \in InterTx
    BY <1>5, <1>11 DEF Conflict, LocalKeys
  <2>2. t \in Range(arrived[d])
    BY <1>11 DEF QueueInv, QueuedArrived
  <2>3. CASE t \in InterTx /\ Coordinator[t] = y
    <3>1. d \in Range(Participants[t])
      BY <2>2, <2>3, ShardAssumption DEF QueueInv, ArrivedKnown
    <3>2. LocalKey(d, t) = LocalKey(d, r[k])
      BY <2>1, <2>3 DEF LocalKeys
    <3> QED BY <1>6, <2>1, <2>3, <3>1, <3>2 DEF ConflictsShareQueue, OneCoordinatorPerState
  <2>4. CASE t \in IntraTx /\ IntraKeys[t] \cap lockingkeys[d][y] # {}
    <3>1. Home[t] = d /\ LocalKey(d, r[k]) \in IntraKeys[t]
      BY <2>1, <2>2, <2>4, ShardAssumption DEF QueueInv, ArrivedKnown, LocalKeys
    <3>2. PICK v \in InterTx : /\ Coordinator[v] = y /\ d \in Range(Participants[v])
                               /\ LocalKey(d, v) \in IntraKeys[t]
      BY <2>4 DEF BlockInv, LocksKnown
    <3> QED BY <1>6, <2>1, <2>4, <3>1, <3>2 DEF ConflictsShareQueue, OneCoordinatorEach
  <2> QED BY <1>11, <2>3, <2>4 DEF QueueInv, QueuedBlocked
<1>12. /\ \A x, y \in Shard : lockingkeys[x][y] \subseteq lockingkeys'[x][y]
       /\ \A k \in DOMAIN r : LocalKey(d, r[k]) \in lockingkeys'[d][c]
  BY <1>1, <1>4 DEF Range
<1> DEFINE n == Len(blockingTxQueues[d][c])
<1>13. /\ OnlyQueueMoves(c, d)
       /\ \A q, i, t : Queued(d, c, q, i, t)' <=>
            Queued(d, c, q, i, t) \/ (q = 2 /\ \E k \in DOMAIN r : i = n + k /\ t = r[k])
  BY <1>1, <1>3, BatchQueued
<1>14. n \in Nat /\ \A i, t : Queued(d, c, 2, i, t) => i <= n
  BY <1>4 DEF Queued
<1> HIDE DEF n
<1>15. ArrivedKnown'
  <2> SUFFICES ASSUME NEW x \in Shard, NEW t \in Range(arrived'[x])
               PROVE  \/ /\ t \in InterTx /\ x \in Range(Participants[t]) /\ Started(Coordinator[t], x, t)'
                         /\ LocalKey(x, t) \in lockingkeys'[x][Coordinator[t]]
                      \/ /\ t \in IntraTx /\ Home[t] = x
                         /\ [kind |-> "SingleIntraShard", tx |-> t] \notin pool'[x]
    BY DEF ArrivedKnown
  <2>1. CASE t \in Range(arrived[x])
    <3>1. t \in InterTx => Coordinator[t] \in Shard
      BY TxAssumption
    <3> QED BY <1>12, <2>1, <3>1 DEF QueueInv, ArrivedKnown
  <2>2. ASSUME x = d, NEW k \in DOMAIN r, t = r[k]
        PROVE  /\ t \in InterTx /\ x \in Range(Participants[t]) /\ Started(Coordinator[t], x, t)'
               /\ LocalKey(x, t) \in lockingkeys'[x][Coordinator[t]]
    <3>1. precessedEpochIds'[d][c] = e
      BY <1>4
    <3>2. Started(c, d, r[k])'
      BY <1>7, <1>8, <3>1 DEF Started
    <3> QED BY <1>5, <1>6, <1>12, <2>2, <3>2
  <2>3. t \in Range(arrived[x]) \/ (x = d /\ \E k \in DOMAIN r : t = r[k])
    <3>1. CASE x = d
      <4>1. arrived'[d] = arrived[d] \o r /\ Range(arrived[d] \o r) = Range(arrived[d]) \cup Range(r)
        BY <1>1, <1>4, <1>5, PrecedesConcat
      <4> QED BY <3>1, <4>1 DEF Range
    <3>2. CASE x # d
      BY <1>1, <1>4, <3>2
    <3> QED BY <3>1, <3>2
  <2> QED BY <2>1, <2>2, <2>3
<1>16. QueuedBlocked'
  <2> SUFFICES ASSUME NEW x \in Shard, NEW y \in Shard, NEW t, InQueue(x, y, t)'
               PROVE  \/ t \in InterTx /\ Coordinator[t] = y
                      \/ /\ t \in IntraTx /\ y \in Range(Upper[x])
                         /\ IntraKeys[t] \cap lockingkeys'[x][y] # {}
    BY DEF QueuedBlocked
  <2>1. CASE InQueue(x, y, t)
    BY <1>12, <2>1 DEF QueueInv, QueuedBlocked
  <2>2. CASE x = d /\ y = c /\ \E k \in DOMAIN r : t = r[k]
    BY <1>5, <1>6, <2>2
  <2>3. InQueue(x, y, t) \/ (x = d /\ y = c /\ \E k \in DOMAIN r : t = r[k])
    BY <1>13 DEF InQueue, OnlyQueueMoves
  <2> QED BY <2>1, <2>2, <2>3
<1>17. /\ \A k \in DOMAIN r : r[k] \notin Range(arrived[d])
       /\ \A k \in DOMAIN r : \A y \in Shard : \A t :
            InQueue(d, y, t) /\ Conflict(d, t, r[k]) => y = c /\ TRUE
  BY <1>10, <1>11
<1>18. \A q, i, t : Queued(d, c, q, i, t)' <=>
         \/ Queued(d, c, q, i, t)
         \/ TRUE /\ q = 2 /\ \E k \in DOMAIN r : i = n + k /\ t = r[k]
  BY <1>13
<1>19. r \in Seq(Tx) /\ TRUE \in BOOLEAN /\ arrived' = [arrived EXCEPT ![d] = @ \o r]
  BY <1>1, <1>5
<1> HIDE DEF QueueInv, ArrivedKnown, QueuedBlocked
<1> QED BY <1>9, <1>13, <1>14, <1>15, <1>16, <1>17, <1>18, <1>19, QueueJoin

\* The queue that an intra-shard transaction joins is one that blocks it.
LEMMA FirstQueueBlocks ==
  ASSUME NEW d \in Shard, NEW Q, Q \subseteq Range(Upper[d]), Q # {}
  PROVE  FirstQueue(d, Q) \in Q
<1> DEFINE less == OpToRel(<, Nat)
           I == {i \in DOMAIN Upper[d] : Upper[d][i] \in Q}
<1>1. Upper[d] \in Seq(Shard) /\ I \subseteq Nat
  BY ShardAssumption
<1>2. I # {}
  BY DEF Range
<1>3. PICK i \in I : \A j \in I : ~(<<j, i>> \in less)
  <2> HIDE DEF less, I
  <2> QED BY <1>1, <1>2, NatLessThanWellFounded, WFMin DEF less
<1>4. ASSUME NEW j \in I PROVE i <= j
  <2>1. i \in Nat /\ j \in Nat
    BY <1>1, <1>3
  <2>2. ~(<<j, i>> \in less)
    BY <1>3
  <2>3. <<j, i>> \in less <=> j < i
    BY <2>1 DEF OpToRel
  <2> HIDE DEF less, I
  <2> QED BY <2>1, <2>2, <2>3
<1>5. i \in DOMAIN Upper[d] /\ Upper[d][i] \in Q /\ \A j \in DOMAIN Upper[d] : Upper[d][j] \in Q => i <= j
  BY <1>4
<1> DEFINE first == CHOOSE k \in DOMAIN Upper[d] :
                      Upper[d][k] \in Q /\ \A j \in DOMAIN Upper[d] : Upper[d][j] \in Q => k <= j
<1>6. Upper[d][first] \in Q
  BY <1>5
<1> QED BY <1>6 DEF FirstQueue

\* An intra-shard transaction joins the one queue in which anything waits that it
\* conflicts with, or is executed when there is none.
LEMMA QueueIntraShard ==
  ASSUME ConflictsShareQueue, TypeOK, BlockInv, QueueInv, NEW d \in Shard, NEW x \in IntraTx,
         ProcessSingleIntraShardTx(d, x),
         \A y, z \in Shard : \A t : Started(y, z, t) => Started(y, z, t)'
  PROVE  QueueInv'
<1> DEFINE item == [kind |-> "SingleIntraShard", tx |-> x]
           Q == BlockingQueueKeys(d, x)
           first == FirstQueue(d, Q)
<1>1. /\ item \in pool[d] /\ pool' = [pool EXCEPT ![d] = @ \ {item}]
      /\ arrived' = [arrived EXCEPT ![d] = Append(@, x)]
      /\ UNCHANGED <<lockingkeys, txQueues>>
      /\ \/ Q = {} /\ UNCHANGED blockingTxQueues
         \/ /\ Q # {}
            /\ blockingTxQueues' = [blockingTxQueues EXCEPT ![d][first] = Append(@, IntraEntry(x, Q))]
  BY DEF ProcessSingleIntraShardTx, TakeFromChain
<1>2. arrived \in [Shard -> Seq(Tx)] /\ pool \in [Shard -> SUBSET (InterItem \cup IntraItem \cup BatchItem)]
  BY DEF TypeOK, QueueType, PoolType
<1>3. blockingTxQueues \in [Shard -> [Shard -> Seq(Entry)]]
  BY DEF TypeOK, QueueType
<1>4. Home[x] = d /\ x \notin InterTx
  BY <1>1, ShardAssumption DEF BlockInv, AtHome
<1>5. x \notin Range(arrived[d])
  BY <1>1, <1>4 DEF QueueInv, ArrivedKnown
<1>6. ASSUME NEW y \in Shard, NEW t, InQueue(d, y, t), Conflict(d, t, x) PROVE y \in Q
  <2>1. t \in Range(arrived[d])
    BY <1>6 DEF QueueInv, QueuedArrived
  <2>2. CASE t \in InterTx /\ Coordinator[t] = y
    <3>1. d \in Range(Participants[t]) /\ LocalKey(d, t) \in lockingkeys[d][y]
      BY <2>1, <2>2, ShardAssumption DEF QueueInv, ArrivedKnown
    <3>2. LocalKey(d, t) \in IntraKeys[x]
      BY <1>4, <1>6, <2>2 DEF Conflict, LocalKeys
    <3>3. y \in Range(Upper[d])
      BY <2>2, <3>1, TxAssumption
    <3> QED BY <3>1, <3>2, <3>3 DEF BlockingQueueKeys
  <2>3. CASE /\ t \in IntraTx /\ y \in Range(Upper[d])
             /\ IntraKeys[t] \cap lockingkeys[d][y] # {}
    <3>1. t \notin InterTx
      BY <2>3, ShardAssumption
    <3>2. Home[t] = d /\ IntraKeys[t] \cap IntraKeys[x] # {}
      BY <1>4, <1>6, <2>1, <3>1 DEF QueueInv, ArrivedKnown, Conflict, LocalKeys
    <3>3. PICK v \in InterTx : /\ d \in Range(Participants[v]) /\ LocalKey(d, v) \in IntraKeys[t]
                               /\ LocalKey(d, v) \in lockingkeys[d][y]
      BY <2>3 DEF BlockInv, LocksKnown
    <3>4. LocalKey(d, v) \in IntraKeys[x]
      BY <1>4, <2>3, <3>2, <3>3 DEF ConflictsShareQueue, SameStatesLocked
    <3> QED BY <2>3, <3>3, <3>4 DEF BlockingQueueKeys
  <2> QED BY <1>6, <2>2, <2>3 DEF QueueInv, QueuedBlocked
<1>7. \A y, z \in Q : y = z
  BY <1>4, OneBlockingQueue DEF ConflictsShareQueue
<1>8. Q \subseteq Range(Upper[d]) /\ Q \subseteq Shard
  BY ShardAssumption DEF BlockingQueueKeys, Range
<1>9. Q # {} => first \in Q /\ first \in Shard
  <2>1. Q # {} => first \in Q
    <3> HIDE DEF Q
    <3> QED BY <1>8, FirstQueueBlocks
  <2> QED BY <1>8, <2>1
<1> DEFINE R == <<x>>
<1>10. R \in Seq(Tx) /\ DOMAIN R = {1} /\ R[1] = x
  BY DEF Tx
<1>11. arrived' = [arrived EXCEPT ![d] = @ \o R]
  <2>1. Append(arrived[d], x) = arrived[d] \o R
    <3>1. arrived[d] \in Seq(Tx) /\ x \in Tx
      BY <1>2 DEF Tx
    <3> QED BY <3>1 DEF R
  <2> QED BY <1>1, <2>1
<1>12. \A t : ~Precedes(R, t, t)
  BY <1>10 DEF Precedes
<1>13. \A k \in DOMAIN R : R[k] \notin Range(arrived[d])
  BY <1>5, <1>10
<1> HIDE DEF R
<1>14. \A z \in Shard : z # d => arrived'[z] = arrived[z]
  BY <1>1, <1>2
<1>15. \A t : t \in Range(arrived'[d]) => t = x \/ t \in Range(arrived[d])
  <2>1. arrived'[d] = Append(arrived[d], x)
    BY <1>1, <1>2
  <2>2. arrived[d] \in Seq(Tx)
    BY <1>2
  <2> QED BY <2>1, <2>2 DEF Range
<1>16. /\ \A z \in Shard : pool'[z] \subseteq pool[z]
       /\ item \notin pool'[d]
  BY <1>1, <1>2
<1>17. ArrivedKnown'
  <2> SUFFICES ASSUME NEW z \in Shard, NEW t \in Range(arrived'[z])
               PROVE  \/ /\ t \in InterTx /\ z \in Range(Participants[t]) /\ Started(Coordinator[t], z, t)'
                         /\ LocalKey(z, t) \in lockingkeys'[z][Coordinator[t]]
                      \/ /\ t \in IntraTx /\ Home[t] = z
                         /\ [kind |-> "SingleIntraShard", tx |-> t] \notin pool'[z]
    BY DEF ArrivedKnown
  <2>1. CASE z = d /\ t = x
    BY <1>4, <1>16, <2>1
  <2>2. CASE t \in Range(arrived[z])
    <3>1. t \in InterTx => Coordinator[t] \in Shard
      BY TxAssumption
    <3> QED BY <1>1, <1>16, <2>2, <3>1 DEF QueueInv, ArrivedKnown
  <2> QED BY <1>14, <1>15, <2>1, <2>2
<1>18. CASE Q = {}
  <2> DEFINE n == Len(blockingTxQueues[d][d])
  <2>1. \A y, z, q, i, t : Queued(z, y, q, i, t)' <=> Queued(z, y, q, i, t)
    BY <1>1, <1>18 DEF Queued
  <2>2. OnlyQueueMoves(d, d)
    BY <2>1 DEF OnlyQueueMoves
  <2>3. n \in Nat /\ \A i, t : Queued(d, d, 2, i, t) => i <= n
    BY <1>3 DEF Queued
  <2>4. QueuedBlocked'
    BY <1>1, <2>1 DEF QueueInv, QueuedBlocked, InQueue
  <2>5. \A k \in DOMAIN R : \A y \in Shard : \A t :
          InQueue(d, y, t) /\ Conflict(d, t, R[k]) => y = d /\ FALSE
    BY <1>6, <1>10, <1>18
  <2>6. \A q, i, t : Queued(d, d, q, i, t)' <=>
          \/ Queued(d, d, q, i, t)
          \/ FALSE /\ q = 2 /\ \E k \in DOMAIN R : i = n + k /\ t = R[k]
    BY <2>1
  <2> HIDE DEF n
  <2> QED BY <1>10, <1>11, <1>12, <1>13, <1>17, <2>2, <2>3, <2>4, <2>5, <2>6, QueueJoin
<1>19. CASE Q # {}
  <2>1. PICK c \in Shard : c = first /\ c \in Q
    BY <1>9, <1>19
  <2> DEFINE B == blockingTxQueues[d][c]
             n == Len(B)
             entry == IntraEntry(x, Q)
  <2>2. /\ blockingTxQueues'[d][c] = Append(B, entry) /\ B \in Seq(Entry)
        /\ \A y, z \in Shard : ~(y = c /\ z = d) => blockingTxQueues'[z][y] = blockingTxQueues[z][y]
    <3> HIDE DEF first, Q
    <3> QED BY <1>1, <1>3, <1>19, <2>1, SMTT(30)
  <2>3. entry.tx = x
    BY DEF IntraEntry
  <2> HIDE DEF first, entry
  <2>4. OnlyQueueMoves(c, d)
    BY <1>1, <2>2 DEF OnlyQueueMoves, Queued
  <2>5. n \in Nat /\ \A i, t : Queued(d, c, 2, i, t) => i <= n
    BY <2>2 DEF Queued
  <2>6. ASSUME NEW q, NEW i, NEW t
        PROVE  Queued(d, c, q, i, t)' <=>
                 \/ Queued(d, c, q, i, t)
                 \/ TRUE /\ q = 2 /\ \E k \in DOMAIN R : i = n + k /\ t = R[k]
    <3> HIDE DEF B
    <3>1. /\ DOMAIN Append(B, entry) = DOMAIN B \cup {n + 1} /\ n + 1 \notin DOMAIN B
          /\ Append(B, entry)[n + 1] = entry
          /\ \A k \in DOMAIN B : Append(B, entry)[k] = B[k]
      BY <2>2
    <3> HIDE DEF n
    <3>2. (i \in DOMAIN Append(B, entry) /\ Append(B, entry)[i].tx = t) <=>
            (i \in DOMAIN B /\ B[i].tx = t) \/ (i = n + 1 /\ t = x)
      BY <2>3, <3>1
    <3>3. (\E k \in DOMAIN R : i = n + k /\ t = R[k]) <=> i = n + 1 /\ t = x
      BY <1>10
    <3>4. (i \in DOMAIN blockingTxQueues'[d][c] /\ blockingTxQueues'[d][c][i].tx = t) <=>
            \/ i \in DOMAIN blockingTxQueues[d][c] /\ blockingTxQueues[d][c][i].tx = t
            \/ i = n + 1 /\ t = x
      BY <2>2, <3>2 DEF B
    <3> QED BY <1>1, <3>3, <3>4 DEF Queued
  <2>7. \A k \in DOMAIN R : \A y \in Shard : \A t :
          InQueue(d, y, t) /\ Conflict(d, t, R[k]) => y = c /\ TRUE
    BY <1>6, <1>7, <1>10, <2>1
  <2>8. QueuedBlocked'
    <3> SUFFICES ASSUME NEW z \in Shard, NEW y \in Shard, NEW t, InQueue(z, y, t)'
                 PROVE  \/ t \in InterTx /\ Coordinator[t] = y
                        \/ /\ t \in IntraTx /\ y \in Range(Upper[z])
                           /\ IntraKeys[t] \cap lockingkeys[z][y] # {}
      BY <1>1 DEF QueuedBlocked
    <3>1. InQueue(z, y, t) \/ (z = d /\ y = c /\ t = x)
      <4>1. CASE z = d /\ y = c
        <5>1. PICK q, i : Queued(d, c, q, i, t)'
          BY <4>1 DEF InQueue
        <5>2. Queued(d, c, q, i, t) \/ t = x
          BY <1>10, <2>6, <5>1
        <5> QED BY <4>1, <5>2 DEF InQueue
      <4>2. CASE ~(z = d /\ y = c)
        BY <2>4, <4>2 DEF OnlyQueueMoves, InQueue
      <4> QED BY <4>1, <4>2
    <3>2. c \in Range(Upper[d]) /\ IntraKeys[x] \cap lockingkeys[d][c] # {}
      BY <2>1 DEF BlockingQueueKeys
    <3> QED BY <3>1, <3>2 DEF QueueInv, QueuedBlocked
  <2>9. PICK m \in Nat : m = n
    BY <2>5
  <2>10. \A i, t : Queued(d, c, 2, i, t) => i <= m
    BY <2>5, <2>9
  <2>11. \A q, i, t : Queued(d, c, q, i, t)' <=>
           \/ Queued(d, c, q, i, t)
           \/ TRUE /\ q = 2 /\ \E k \in DOMAIN R : i = m + k /\ t = R[k]
    BY <2>6, <2>9
  <2> HIDE DEF B, n
  <2> QED BY <1>10, <1>11, <1>12, <1>13, <1>17, <2>4, <2>7, <2>8, <2>10, <2>11, QueueJoin
<1> QED BY <1>18, <1>19

\* Every step keeps QueueInv.
LEMMA QueueNext ==
  ASSUME ConflictsShareQueue, TypeOK, EpochInv, PlaceInv, BlockInv, QueueInv, [Next]_vars
  PROVE  QueueInv'
<1>0. \A c, d \in Shard : \A t : Started(c, d, t) => Started(c, d, t)'
  BY StartedKept
<1>1. ASSUME UNCHANGED queueVars,
             \A s \in Shard : \A item \in pool'[s] : item.kind = "SingleIntraShard" => item \in pool[s]
      PROVE  QueueInv'
  BY <1>0, <1>1, QueueUnchanged
<1>2. CASE UNCHANGED vars
  BY <1>1, <1>2 DEF vars
<1>3. ASSUME NEW s \in Shard, ConsensusThread(s) PROVE QueueInv'
  <2>1. ASSUME NEW t \in InterTx, ProcessInterShardTx(s, t) PROVE QueueInv'
    <3>1. UNCHANGED queueVars /\ \A d \in Shard : pool'[d] \subseteq pool[d]
      BY <2>1 DEF ProcessInterShardTx, TypeOK, PoolType
    <3> QED BY <1>1, <3>1
  <2>2. ASSUME NEW x \in IntraTx, ProcessSingleIntraShardTx(s, x) PROVE QueueInv'
    BY <1>0, <2>2, QueueIntraShard
  <2>3. ASSUME NEW item \in pool[s], ProcessOrderedBatchedSubInterShardTxs(s, item) PROVE QueueInv'
    <3>1. item.kind = "BatchedSubInterShard" /\ item \in BatchItem
      BY <2>3 DEF ProcessOrderedBatchedSubInterShardTxs, TypeOK, PoolType, InterItem, IntraItem
    <3>2. item.coord \in Shard /\ item.txs \in Batch
      BY <3>1 DEF BatchItem
    <3>3. /\ \A d \in Shard : pool'[d] \subseteq pool[d]
          /\ UNCHANGED <<subTxs, epochIds, flushed>>
      BY <2>3 DEF ProcessOrderedBatchedSubInterShardTxs, TypeOK, PoolType
    <3>4. Produced(item.coord, s, item.epoch, item.txs)
      BY <3>1 DEF EpochInv, InTransitProduced
    <3>5. CASE ProcessNextEpoch(s, item)
      <4>1. /\ item.epoch = precessedEpochIds[s][item.coord] + 1
            /\ ProcessBatchSubInterShardTxs(s, item.coord, item.txs)
            /\ precessedEpochIds' = [precessedEpochIds EXCEPT ![s][item.coord] = item.epoch]
        BY <3>5 DEF ProcessNextEpoch
      <4> QED BY <1>0, <3>2, <3>3, <3>4, <4>1, QueueProcessBatch
    <3>6. CASE CacheBatch(s, item)
      BY <1>1, <3>3, <3>6 DEF CacheBatch
    <3> QED BY <2>3, <3>5, <3>6 DEF ProcessOrderedBatchedSubInterShardTxs
  <2>4. CASE DrainCachedBatch(s)
    <3> DEFINE c == draining[s]
               e == precessedEpochIds[s][c] + 1
               b == cachedBatchTxs[s][c][e]
    <3>1. c \in Shard
      BY <2>4 DEF DrainCachedBatch, TypeOK, EpochType
    <3>2. e \in DOMAIN cachedBatchTxs[s][c]
      BY <2>4 DEF DrainCachedBatch, EpochInv, EpochCounters
    <3>3. b \in Batch
      BY <3>1, <3>2 DEF TypeOK, EpochType, CacheType
    <3>4. Produced(c, s, e, b)
      BY <3>1, <3>2 DEF EpochInv, InTransitProduced
    <3>5. /\ ProcessBatchSubInterShardTxs(s, c, b) /\ UNCHANGED <<subTxs, epochIds, flushed>>
          /\ precessedEpochIds' = [precessedEpochIds EXCEPT ![s][c] = e]
          /\ e = precessedEpochIds[s][c] + 1
          /\ \A d \in Shard : pool'[d] \subseteq pool[d]
      BY <2>4 DEF DrainCachedBatch, coordVars
    <3> HIDE DEF b, e, c
    <3> QED BY <1>0, <3>1, <3>3, <3>4, <3>5, QueueProcessBatch
  <2>5. CASE EndOfBlock(s)
    <3>1. UNCHANGED queueVars
      BY <2>5 DEF EndOfBlock
    <3>2. ASSUME NEW d \in Shard, NEW item \in pool'[d], item.kind = "SingleIntraShard"
          PROVE  item \in pool[d]
      <4>1. CASE UNCHANGED pool
        BY <3>2, <4>1
      <4>2. CASE CheckSubTxsContainers(s)
        <5> DEFINE full == {y \in Shard : subTxs[s][y] # <<>>}
                   own  == {[kind |-> "BatchedSubInterShard", coord |-> s, epoch |-> epochIds[s][s],
                             txs |-> subTxs[s][s]] : y \in full \cap {s}}
        <5>1. pool' = [pool EXCEPT ![s] = @ \cup own]
          BY <4>2 DEF CheckSubTxsContainers
        <5>2. \A i \in own : i.kind = "BatchedSubInterShard"
          OBVIOUS
        <5> HIDE DEF own
        <5> QED BY <3>2, <5>1, <5>2 DEF TypeOK, PoolType
      <4> QED BY <2>5, <4>1, <4>2 DEF EndOfBlock
    <3> QED BY <1>1, <3>1, <3>2
  <2> QED BY <1>3, <2>1, <2>2, <2>3, <2>4, <2>5 DEF ConsensusThread
<1>4. ASSUME NEW s \in Shard, MessageThread(s) \/ CommitThread(s) PROVE QueueInv'
  <2>1. ASSUME NEW m, ReceiveBatchDistributedTxMsg(m) PROVE QueueInv'
    <3>1. \A d \in Shard : \A item \in pool'[d] : item.kind = "SingleIntraShard" => item \in pool[d]
      BY <2>1 DEF ReceiveBatchDistributedTxMsg, TypeOK, PoolType
    <3> QED BY <1>1, <2>1, <3>1 DEF ReceiveBatchDistributedTxMsg
  <2>2. ASSUME NEW m, ReceiveRwset(m) \/ ReceiveCommit(m) PROVE QueueInv'
    BY <1>1, <2>2 DEF ReceiveRwset, ReceiveCommit
  <2> QED BY <1>4, <2>1, <2>2 DEF MessageThread, CommitThread
<1>5. ASSUME NEW d \in Shard, NEW c \in Shard, BlockingThread(d, c) PROVE QueueInv'
  <2>1. CASE SendReadWriteSet(d, c)
    BY <1>1, <2>1 DEF SendReadWriteSet
  <2>2. CASE BatchPop(d, c)
    BY <1>0, <2>2, QueueBatchPop
  <2>3. CASE ExecuteInterShardTx(d, c) \/ ExecuteBlockedIntraShardTx(d, c)
    BY <1>0, <2>3, QueueExecute
  <2> QED BY <1>5, <2>1, <2>2, <2>3 DEF BlockingThread
<1> QED BY <1>2, <1>3, <1>4, <1>5 DEF Next, Idle

\* Initially the chains have given nothing and nothing waits.
LEMMA QueueInit == Init => QueueInv
<1> SUFFICES ASSUME Init PROVE QueueInv
  OBVIOUS
<1>1. \A d \in Shard : arrived[d] = <<>>
  BY DEF Init
<1>2. \A d, c \in Shard : \A r, i, t : ~Queued(d, c, r, i, t)
  BY DEF Init, Queued
<1>3. \A d, c \in Shard : \A t : ~InQueue(d, c, t)
  BY <1>2 DEF InQueue
<1>4. ArrivedOnce /\ ArrivedKnown
  BY <1>1 DEF ArrivedOnce, ArrivedKnown, Precedes, Range
<1>5. QueuedArrived /\ QueuedBlocked /\ QueuesOrdered /\ ConflictKept
  BY <1>2, <1>3 DEF QueuedArrived, QueuedBlocked, QueuesOrdered, ConflictKept
<1> QED BY <1>4, <1>5 DEF QueueInv

\* What waits at a shard stands in one of its queues.
LEMMA WaitingInQueue ==
  ASSUME TypeOK, NEW d \in Shard, NEW t
  PROVE  Waiting(d, t) <=> \E c \in Shard : InQueue(d, c, t)
<1>1. ASSUME NEW c \in Shard
      PROVE  t \in {e.tx : e \in Range(blockingTxQueues[d][c]) \cup Range(txQueues[d][c])}
               <=> InQueue(d, c, t)
  <2> DEFINE B == blockingTxQueues[d][c]
             S == txQueues[d][c]
  <2>1. t \in {e.tx : e \in Range(B) \cup Range(S)} <=>
          \/ \E i \in DOMAIN B : B[i].tx = t
          \/ \E i \in DOMAIN S : S[i].tx = t
    BY DEF Range
  <2>2. InQueue(d, c, t) <=> \/ \E i \in DOMAIN B : B[i].tx = t
                             \/ \E i \in DOMAIN S : S[i].tx = t
    BY DEF InQueue, Queued
  <2> QED BY <2>1, <2>2
<1> QED BY <1>1 DEF Waiting

\* Transactions of a shard that access a common state leave its queues in the order of its
\* chain, as long as what conflicts waits in one queue: the cross-shard transactions that
\* lock a state have one coordinator, an intra-shard transaction accesses states that one
\* coordinator at most locks, and intra-shard transactions that share a state access the
\* same ones of those.  Nothing that arrives later overtakes, whatever epochs, caches and
\* the rounds over the queues do.
THEOREM ConflictOrderCorrect ==
  ASSUME ConflictsShareQueue
  PROVE  SafeSpec => []ConflictOrder
<1> DEFINE WaitInv == OrderInv /\ BlockInv /\ QueueInv
<1>1. Init => WaitInv
  BY IInvInit, OrderInit, BlockInit, QueueInit DEF OrderInv
<1>2. WaitInv /\ [Next]_vars => WaitInv'
  <2> SUFFICES ASSUME OrderInv, BlockInv, QueueInv, [Next]_vars PROVE WaitInv'
    OBVIOUS
  <2>1. OrderInv'
    BY IInvNext, OrderNext DEF OrderInv, IInv
  <2>2. BlockInv'
    BY BlockNext DEF OrderInv, IInv, ConflictsShareQueue
  <2>3. QueueInv'
    BY QueueNext DEF OrderInv, IInv
  <2> QED BY <2>1, <2>2, <2>3
<1>3. WaitInv => ConflictOrder
  <2> SUFFICES ASSUME TypeOK, QueueInv, NEW d \in Shard,
                      NEW i \in DOMAIN arrived[d], NEW j \in DOMAIN arrived[d], i < j,
                      LocalKeys(d, arrived[d][i]) \cap LocalKeys(d, arrived[d][j]) # {},
                      Waiting(d, arrived[d][i])
               PROVE  Waiting(d, arrived[d][j])
    BY DEF ConflictOrder, OrderInv, IInv
  <2>1. PICK c \in Shard : InQueue(d, c, arrived[d][i])
    BY WaitingInQueue
  <2>2. Precedes(arrived[d], arrived[d][i], arrived[d][j])
    BY DEF Precedes
  <2>3. InQueue(d, c, arrived[d][j])
    BY <2>1, <2>2 DEF QueueInv, ConflictKept, Conflict
  <2> QED BY <2>3, WaitingInQueue
<1> QED BY <1>1, <1>2, <1>3, PTL DEF SafeSpec

-----------------------------------------------------------------------------
(* The groups of transactions that exchange their read sets at once.        *)

\* t and u are in one batch of c for d and have the same participants; in the sorted batch
\* t comes in front of u.  The first one of a group carries the read set, the last one is
\* lastTxInBatch.
SameGroup(c, d, t, u) == Participants[t] = Participants[u] /\ \E e, i, j \in Nat :
  PlacedAt(c, d, e, i, t) /\ PlacedAt(c, d, e, j, u)
InFront(c, d, t, u) == Participants[t] = Participants[u] /\ EarlierInBatch(c, d, u, t)
IsHead(c, d, t) == \A u \in InterTx : ~InFront(c, d, u, t)
IsLast(c, d, t) == \A u \in InterTx : ~InFront(c, d, t, u)

\* One place, one transaction.
LEMMA PlaceUnique ==
  ASSUME TypeOK, EpochInv, NEW c \in Shard, NEW d \in Shard, NEW e, NEW i, NEW t, NEW u,
         PlacedAt(c, d, e, i, t), PlacedAt(c, d, e, i, u)
  PROVE  t = u
<1>1. /\ flushed[c][d] \in Seq(Batch) /\ epochIds[c][d] = Len(flushed[c][d]) + 1
  BY DEF TypeOK, CoordType, EpochInv, EpochCounters
<1>2. epochIds[c][d] \notin DOMAIN flushed[c][d]
  BY <1>1
<1> QED BY <1>2 DEF PlacedAt

\* Who is in a group is in front of it, behind it, or the same transaction.
LEMMA GroupFacts ==
  ASSUME TypeOK, EpochInv, PlaceInv, NEW c \in Shard, NEW d \in Shard, NEW t, NEW u
  PROVE  /\ SameGroup(c, d, t, u) => SameGroup(c, d, u, t)
         /\ SameGroup(c, d, t, u) => t = u \/ InFront(c, d, t, u) \/ InFront(c, d, u, t)
         /\ InFront(c, d, t, u) => SameGroup(c, d, t, u) /\ Ahead(c, d, t, u)
         /\ SameGroup(c, d, t, u) => t \in InterTx /\ u \in InterTx
<1>1. SameGroup(c, d, t, u) => SameGroup(c, d, u, t)
  BY DEF SameGroup
<1>2. ASSUME SameGroup(c, d, t, u) PROVE t = u \/ InFront(c, d, t, u) \/ InFront(c, d, u, t)
  <2>1. PICK e, i, j \in Nat : PlacedAt(c, d, e, i, t) /\ PlacedAt(c, d, e, j, u)
    BY <1>2 DEF SameGroup
  <2>2. i = j => t = u
    BY <2>1, PlaceUnique
  <2>3. i < j \/ i = j \/ j < i
    BY <2>1
  <2> QED BY <1>2, <2>1, <2>2, <2>3 DEF InFront, EarlierInBatch, SameGroup
<1>3. ASSUME InFront(c, d, t, u) PROVE SameGroup(c, d, t, u) /\ Ahead(c, d, t, u)
  BY <1>3 DEF InFront, EarlierInBatch, SameGroup, Ahead, SameBatchAhead
<1>4. SameGroup(c, d, t, u) => t \in InterTx /\ u \in InterTx
  BY PlaceFacts DEF SameGroup
<1> QED BY <1>1, <1>2, <1>3, <1>4

\* The group of a transaction is in its batch.
LEMMA GroupTransitive ==
  ASSUME TypeOK, EpochInv, PlaceInv, NEW c \in Shard, NEW d \in Shard, NEW t, NEW u, NEW v,
         SameGroup(c, d, t, u), SameGroup(c, d, u, v)
  PROVE  SameGroup(c, d, t, v)
<1>1. PICK e, i, j \in Nat : PlacedAt(c, d, e, i, t) /\ PlacedAt(c, d, e, j, u)
  BY DEF SameGroup
<1>2. PICK f, k, l \in Nat : PlacedAt(c, d, f, k, u) /\ PlacedAt(c, d, f, l, v)
  BY DEF SameGroup
<1>3. e = f
  <2>1. u \in InterTx
    BY <1>1, PlaceFacts
  <2> QED BY <1>1, <1>2, <2>1 DEF PlaceInv, PlacedOnce
<1> QED BY <1>1, <1>2, <1>3 DEF SameGroup

\* A group has one head.
LEMMA OneHead ==
  ASSUME TypeOK, EpochInv, PlaceInv, NEW c \in Shard, NEW d \in Shard, NEW t, NEW u,
         SameGroup(c, d, t, u), IsHead(c, d, t), IsHead(c, d, u)
  PROVE  t = u
BY GroupFacts DEF IsHead

\* A head is one for all participants.
LEMMA HeadEverywhere ==
  ASSUME TypeOK, EpochInv, PlaceInv, NEW c \in Shard, NEW d1 \in Shard, NEW d2 \in Shard,
         NEW t \in InterTx, IsHead(c, d1, t), d1 \in Range(Participants[t]),
         d2 \in Range(Participants[t])
  PROVE  IsHead(c, d2, t)
<1> SUFFICES ASSUME NEW u \in InterTx, InFront(c, d2, u, t) PROVE FALSE
  BY DEF IsHead
<1>1. EarlierInBatch(c, d2, t, u) /\ Participants[u] = Participants[t]
  BY DEF InFront
<1>2. EarlierInBatch(c, d1, t, u)
  BY <1>1 DEF PlaceInv, Parallel
<1> QED BY <1>1, <1>2 DEF IsHead, InFront

\* What has a place in a batch that d has started keeps its group.
LEMMA GroupKept ==
  ASSUME TypeOK, EpochInv, PlaceInv, PlaceInv', TypeOK', EpochInv', [Next]_vars,
         NEW c \in Shard, NEW d \in Shard, NEW t \in InterTx, Started(c, d, t)
  PROVE  /\ \A u : /\ SameGroup(c, d, t, u)' <=> SameGroup(c, d, t, u)
                   /\ InFront(c, d, t, u)' <=> InFront(c, d, t, u)
                   /\ InFront(c, d, u, t)' <=> InFront(c, d, u, t)
         /\ IsHead(c, d, t)' <=> IsHead(c, d, t)
         /\ IsLast(c, d, t)' <=> IsLast(c, d, t)
<1>1. PICK e, i \in Nat : PlacedAt(c, d, e, i, t) /\ e <= precessedEpochIds[d][c]
  BY DEF Started
<1>2. e # epochIds[c][d]
  <2>1. /\ precessedEpochIds[d][c] \in Nat /\ epochIds[c][d] \in Nat
        /\ precessedEpochIds[d][c] < epochIds[c][d]
    BY DEF TypeOK, EpochType, CoordType, EpochInv, InEpochOrder
  <2> QED BY <1>1, <2>1
<1>3. \A j, u : PlacedAt(c, d, e, j, u)' <=> PlacedAt(c, d, e, j, u)
  BY <1>2, PlacesKept
<1>4. \A f, j \in Nat : PlacedAt(c, d, f, j, t) => f = e /\ j = i
  BY <1>1 DEF PlaceInv, PlacedOnce
<1>5. \A f, j \in Nat : PlacedAt(c, d, f, j, t)' => f = e /\ j = i
  BY <1>1, <1>3 DEF PlaceInv, PlacedOnce
<1>6. ASSUME NEW u PROVE SameGroup(c, d, t, u)' <=> SameGroup(c, d, t, u)
  BY <1>1, <1>3, <1>4, <1>5 DEF SameGroup
<1>7. ASSUME NEW u
      PROVE  /\ EarlierInBatch(c, d, t, u)' <=> EarlierInBatch(c, d, t, u)
             /\ EarlierInBatch(c, d, u, t)' <=> EarlierInBatch(c, d, u, t)
  BY <1>1, <1>3, <1>4, <1>5 DEF EarlierInBatch
<1>8. ASSUME NEW u
      PROVE  /\ InFront(c, d, t, u)' <=> InFront(c, d, t, u)
             /\ InFront(c, d, u, t)' <=> InFront(c, d, u, t)
  BY <1>7 DEF InFront
<1>9. (IsHead(c, d, t)' <=> IsHead(c, d, t)) /\ (IsLast(c, d, t)' <=> IsLast(c, d, t))
  BY <1>8, ZenonT(30) DEF IsHead, IsLast
<1> QED BY <1>6, <1>8, <1>9

-----------------------------------------------------------------------------
(* The invariant behind ReadSetBeforeExecute.                               *)

\* Entry E of the queues of c at d carries what its place in the sorted batch asks for.
Entered(d, c, E) == E.inter /\ (E \in Range(txQueues[d][c]) \/ E \in Range(blockingTxQueues[d][c]))
EntryFits(c, d, E) ==
  /\ E.recv = RemoteKeys(d, E.tx)
  /\ E.lastTxInBatch <=> IsLast(c, d, E.tx)
  /\ E.send = IF IsHead(c, d, E.tx) THEN {LocalKey(d, E.tx)} ELSE {}
EntriesFit == \A d, c \in Shard : \A E : Entered(d, c, E) => EntryFits(c, d, E)

\* The read sets for state k that d gets in the end, have on the way, or has used up: each
\* is known by the head of the group that it was sent for.
Sent(d, k) == {h \in InterTx : d \in Range(Participants[h]) /\
                 \E p \in Range(Participants[h]) \ {d} : LocalKey(p, h) = k /\ h \in sendedrwsetTx[p]}
OnWay(d, k) == {m \in rwsetMsgs : m.dest = d /\ k \in m.keys}
Used(d, k) == {h \in InterTx : /\ Started(Coordinator[h], d, h) /\ IsHead(Coordinator[h], d, h)
                               /\ k \in RemoteKeys(d, h)
                               /\ \A u : SameGroup(Coordinator[h], d, h, u) => u \in Range(executed[d])}

\* Only the head of a group sends, when it is first in its queue; it is executed after that.
Known(p, h) == /\ p \in Range(Participants[h])
               /\ Started(Coordinator[h], p, h) /\ IsHead(Coordinator[h], p, h)
               /\ h \in Range(executed[p]) \/ InLine(p, Coordinator[h], 1, 1, h)
SentKnown == \A p \in Shard : \A h \in sendedrwsetTx[p] : Known(p, h)
HeadsSent == \A p \in Shard : \A t \in InterTx :
  t \in Range(executed[p]) /\ IsHead(Coordinator[t], p, t) => t \in sendedrwsetTx[p]
\* The property, with the head as the streams have it.
GroupHeadsSent == \A d \in Shard : \A t, h \in InterTx : \A p \in Range(Participants[t]) \ {d} :
  t \in Range(executed[d]) /\ SameGroup(Coordinator[t], d, t, h) /\ IsHead(Coordinator[t], d, h) =>
    h \in sendedrwsetTx[p]
MessagesSent == \A m \in rwsetMsgs :
  /\ m.first \in sendedrwsetTx[m.source] /\ m.source # m.dest
  /\ m.source \in Range(Participants[m.first]) /\ m.dest \in Range(Participants[m.first])
  /\ m.keys = {LocalKey(m.source, m.first)}
\* receivedTxRWset counts exactly the read sets that have come and were not used up.
ReadBalance(d, k) == /\ IsFiniteSet(Sent(d, k)) /\ IsFiniteSet(OnWay(d, k)) /\ IsFiniteSet(Used(d, k))
                     /\ receivedTxRWset[d][k] + Cardinality(OnWay(d, k)) + Cardinality(Used(d, k))
                          = Cardinality(Sent(d, k))
ReadsBalanced == \A d \in Shard : \A k \in Key : ReadBalance(d, k)
\* A batch that was started could be sorted.
Sortable == \A c, d \in Shard : \A e \in 1..precessedEpochIds[d][c] : Reorderings(flushed[c][d][e]) # {}
ReadInv == /\ EntriesFit /\ SentKnown /\ HeadsSent /\ GroupHeadsSent /\ MessagesSent
           /\ ReadsBalanced /\ Sortable

-----------------------------------------------------------------------------
(* A sorted batch.                                                          *)

\* Transactions with the same participants come in the sorted batch as InFront says.
LEMMA SortedGroup ==
  ASSUME TypeOK, EpochInv, NEW c \in Shard, NEW d \in Shard, NEW e \in DOMAIN flushed[c][d],
         NEW r \in Reorderings(flushed[c][d][e]), NEW k \in DOMAIN r, NEW l \in DOMAIN r,
         Participants[r[k]] = Participants[r[l]]
  PROVE  /\ r[k] \in InterTx /\ SameGroup(c, d, r[k], r[l])
         /\ k < l => InFront(c, d, r[k], r[l])
<1> DEFINE b == flushed[c][d][e]
<1>1. b \in Batch /\ flushed[c][d] \in Seq(Batch)
  BY DEF TypeOK, CoordType
<1>2. PICK p \in [DOMAIN b -> DOMAIN b] :
        /\ r = [i \in DOMAIN b |-> b[p[i]]]
        /\ \A i, j \in DOMAIN b : i < j => Before(b, p[i], p[j])
        /\ \A i \in DOMAIN b : \E j \in DOMAIN b : p[j] = i
  BY <1>1, ReorderingOnto
<1>3. /\ k \in DOMAIN b /\ l \in DOMAIN b /\ p[k] \in DOMAIN b /\ p[l] \in DOMAIN b
      /\ r[k] = b[p[k]] /\ r[l] = b[p[l]]
  BY <1>2
<1>4. e \in Nat /\ DOMAIN b \subseteq Nat /\ \A i \in DOMAIN b : b[i] \in InterTx
  BY <1>1 DEF Batch
<1>5. PlacedAt(c, d, e, p[k], r[k]) /\ PlacedAt(c, d, e, p[l], r[l]) /\ p[k] \in Nat /\ p[l] \in Nat
  BY <1>3, <1>4 DEF PlacedAt
<1>6. SameGroup(c, d, r[k], r[l])
  BY <1>4, <1>5 DEF SameGroup
<1>7. ASSUME k < l PROVE InFront(c, d, r[k], r[l])
  <2> DEFINE q == Participants[r[k]]
  <2>1. Before(b, p[k], p[l])
    BY <1>2, <1>3, <1>7
  <2>2. IdsLess(q, q) \/ p[k] > p[l]
    BY <1>3, <2>1 DEF Before
  <2>3. q \in Seq(Shard)
    BY <1>3, <1>4, TxAssumption
  <2> HIDE DEF q
  <2>4. ~IdsLess(q, q)
    BY <2>3, IdsLessAsymmetric
  <2>5. p[l] < p[k]
    BY <1>5, <2>2, <2>4
  <2> QED BY <1>4, <1>5, <2>5, ZenonT(30) DEF InFront, EarlierInBatch
<1> QED BY <1>3, <1>4, <1>6, <1>7

\* The sorted batch holds the whole group of each of its transactions.
LEMMA SortedWhole ==
  ASSUME TypeOK, EpochInv, PlaceInv, NEW c \in Shard, NEW d \in Shard,
         NEW e \in DOMAIN flushed[c][d], NEW r \in Reorderings(flushed[c][d][e]),
         NEW k \in DOMAIN r, NEW u, SameGroup(c, d, r[k], u)
  PROVE  \E l \in SameBatch(r, k) : r[l] = u
<1> DEFINE b == flushed[c][d][e]
<1>1. b \in Batch /\ flushed[c][d] \in Seq(Batch) /\ epochIds[c][d] = Len(flushed[c][d]) + 1
  BY SMTT(30) DEF TypeOK, CoordType, EpochInv, EpochCounters
<1>2. PICK p \in [DOMAIN b -> DOMAIN b] :
        /\ r = [x \in DOMAIN b |-> b[p[x]]]
        /\ \A x, y \in DOMAIN b : x < y => Before(b, p[x], p[y])
        /\ \A x \in DOMAIN b : \E y \in DOMAIN b : p[y] = x
  BY <1>1, ReorderingOnto
<1>3. k \in DOMAIN b /\ p[k] \in DOMAIN b /\ r[k] = b[p[k]] /\ e \in Nat /\ p[k] \in Nat
  <2>1. DOMAIN b \subseteq Nat /\ e \in Nat
    BY <1>1, SMTT(30) DEF Batch
  <2>2. k \in DOMAIN b /\ p[k] \in DOMAIN b /\ r[k] = b[p[k]]
    BY <1>2
  <2> QED BY <2>1, <2>2
<1>4. PlacedAt(c, d, e, p[k], r[k]) /\ r[k] \in InterTx
  BY <1>1, <1>3, SMTT(30) DEF PlacedAt, Batch
<1>5. PICK f, x, y \in Nat : PlacedAt(c, d, f, x, r[k]) /\ PlacedAt(c, d, f, y, u)
  BY DEF SameGroup
<1>6. f = e
  BY <1>3, <1>4, <1>5 DEF PlaceInv, PlacedOnce
<1>7. e # epochIds[c][d]
  BY <1>1
<1>8. y \in DOMAIN b /\ b[y] = u
  BY <1>5, <1>6, <1>7 DEF PlacedAt
<1>9. PICK l \in DOMAIN b : p[l] = y
  BY <1>2, <1>8
<1>10. l \in DOMAIN r /\ r[l] = u
  BY <1>2, <1>8, <1>9
<1> QED BY <1>10 DEF SameBatch, SameGroup

\* The first and the last one of a group, as the sorted batch and as the streams have it.
LEMMA SortedEnds ==
  ASSUME TypeOK, EpochInv, PlaceInv, NEW c \in Shard, NEW d \in Shard,
         NEW e \in DOMAIN flushed[c][d], NEW r \in Reorderings(flushed[c][d][e]), NEW k \in DOMAIN r
  PROVE  /\ (\A j \in SameBatch(r, k) : k <= j) <=> IsHead(c, d, r[k])
         /\ (\A j \in SameBatch(r, k) : j <= k) <=> IsLast(c, d, r[k])
<1>1. DOMAIN r \subseteq Nat
  <2>1. flushed[c][d][e] \in Batch
    BY DEF TypeOK, CoordType
  <2> QED BY <2>1, ReorderingType DEF Batch
<1>2. ASSUME NEW j \in SameBatch(r, k)
      PROVE  /\ j \in Nat /\ k \in Nat /\ r[j] \in InterTx
             /\ j < k => InFront(c, d, r[j], r[k])
             /\ k < j => InFront(c, d, r[k], r[j])
  BY <1>1, SortedGroup DEF SameBatch
<1>3. ASSUME NEW u, InFront(c, d, u, r[k]) PROVE \E j \in SameBatch(r, k) : j < k
  <2>1. SameGroup(c, d, r[k], u) /\ Ahead(c, d, u, r[k])
    BY <1>3, GroupFacts
  <2>2. PICK j \in SameBatch(r, k) : r[j] = u
    BY <2>1, SortedWhole
  <2>3. ~Ahead(c, d, r[k], u)
    BY <2>1, AheadAsymmetric
  <2>4. ~(k < j)
    BY <1>2, <2>2, <2>3, GroupFacts
  <2>5. k # j
    BY <2>1, <2>2, <2>3
  <2> QED BY <1>2, <2>4, <2>5
<1>4. ASSUME NEW u, InFront(c, d, r[k], u) PROVE \E j \in SameBatch(r, k) : k < j
  <2>1. SameGroup(c, d, r[k], u) /\ Ahead(c, d, r[k], u)
    BY <1>4, GroupFacts
  <2>2. PICK j \in SameBatch(r, k) : r[j] = u
    BY <2>1, SortedWhole
  <2>3. ~Ahead(c, d, u, r[k])
    BY <2>1, AheadAsymmetric
  <2>4. ~(j < k)
    BY <1>2, <2>2, <2>3, GroupFacts
  <2>5. k # j
    BY <2>1, <2>2, <2>3
  <2> QED BY <1>2, <2>4, <2>5
<1>5. (\A j \in SameBatch(r, k) : k <= j) <=> IsHead(c, d, r[k])
  BY <1>2, <1>3 DEF IsHead
<1>6. (\A j \in SameBatch(r, k) : j <= k) <=> IsLast(c, d, r[k])
  BY <1>2, <1>4 DEF IsLast
<1> QED BY <1>5, <1>6

\* What processReorderedTxs puts into the queue carries what it should.
LEMMA SortedFits ==
  ASSUME GroupSharesStates, TypeOK, EpochInv, PlaceInv, NEW c \in Shard, NEW d \in Shard,
         NEW e \in DOMAIN flushed[c][d], NEW r \in Reorderings(flushed[c][d][e]), NEW k \in DOMAIN r
  PROVE  EntryFits(c, d, InterEntry(d, r, k))
<1> DEFINE E == InterEntry(d, r, k)
<1>1. ASSUME NEW j \in SameBatch(r, k) PROVE LocalKey(d, r[j]) = LocalKey(d, r[k])
  <2>1. SameGroup(c, d, r[k], r[j])
    BY <1>1, SortedGroup DEF SameBatch
  <2>2. /\ r[k] \in InterTx /\ r[j] \in InterTx /\ Coordinator[r[k]] = c /\ Coordinator[r[j]] = c
        /\ Participants[r[k]] = Participants[r[j]]
    BY <2>1, PlaceFacts DEF SameGroup
  <2>3. RwKeys[r[k]] = RwKeys[r[j]]
    BY <2>2 DEF GroupSharesStates
  <2> QED BY <2>2, <2>3 DEF LocalKey, IndexOf
<1>2. k \in SameBatch(r, k)
  BY DEF SameBatch
<1>3. {LocalKey(d, r[j]) : j \in SameBatch(r, k)} = {LocalKey(d, r[k])}
  BY <1>1, <1>2
<1>4. E.tx = r[k] /\ E.recv = RemoteKeys(d, E.tx)
  BY DEF InterEntry
<1>5. E.lastTxInBatch <=> \A j \in SameBatch(r, k) : j <= k
  BY DEF InterEntry
<1>6. E.send = IF \A j \in SameBatch(r, k) : k <= j THEN {LocalKey(d, r[j]) : j \in SameBatch(r, k)} ELSE {}
  BY DEF InterEntry
<1> HIDE DEF E
<1>7. EntryFits(c, d, E)
  BY <1>3, <1>4, <1>5, <1>6, SortedEnds DEF EntryFits
<1> QED BY <1>7 DEF E

-----------------------------------------------------------------------------
(* Before a transaction is executed.                                        *)

\* A group has a head.
LEMMA HeadExists ==
  ASSUME TypeOK, EpochInv, PlaceInv, NEW c \in Shard, NEW d \in Shard, NEW t, Started(c, d, t)
  PROVE  \E h \in InterTx : SameGroup(c, d, t, h) /\ IsHead(c, d, h)
<1> DEFINE less == OpToRel(<, Nat)
<1>1. PICK e \in Nat, i0 \in Nat : PlacedAt(c, d, e, i0, t) /\ e <= precessedEpochIds[d][c]
  BY DEF Started
<1>2. /\ flushed[c][d] \in Seq(Batch) /\ epochIds[c][d] = Len(flushed[c][d]) + 1
      /\ precessedEpochIds[d][c] \in Nat /\ precessedEpochIds[d][c] < epochIds[c][d]
  BY DEF TypeOK, CoordType, EpochType, EpochInv, EpochCounters, InEpochOrder
<1>3. e # epochIds[c][d]
  BY <1>1, <1>2
<1>4. e \in DOMAIN flushed[c][d] /\ i0 \in DOMAIN flushed[c][d][e]
  BY <1>1, <1>3 DEF PlacedAt
<1> DEFINE b == flushed[c][d][e]
           n == Len(b)
           I == {i \in DOMAIN b : Participants[b[i]] = Participants[t]}
           D == {n - i : i \in I}
<1>5. b \in Seq(InterTx) /\ n \in Nat /\ DOMAIN b = 1..n
  BY <1>2, <1>4 DEF Batch
<1>6. i0 \in I
  BY <1>1, <1>3 DEF PlacedAt
<1>7. I \subseteq 1..n
  BY <1>5
<1> HIDE DEF I, n
<1>8. D \subseteq Nat /\ D # {}
  BY <1>5, <1>6, <1>7
<1>9. PICK m \in D : \A x \in D : ~(<<x, m>> \in less)
  <2> HIDE DEF less, D
  <2> QED BY <1>8, NatLessThanWellFounded, WFMin DEF less
<1>10. PICK i \in I : m = n - i
  BY <1>9
<1>11. ASSUME NEW j \in I PROVE ~(i < j)
  <2>0. n - j \in D
    OBVIOUS
  <2>1. n - j \in D /\ n - j \in Nat /\ m \in Nat /\ j \in Nat /\ i \in Nat
    <3>1. i \in 1..n /\ j \in 1..n
      BY <1>7
    <3> HIDE DEF D
    <3> QED BY <1>5, <1>8, <2>0, <3>1
  <2>2. ~(<<n - j, m>> \in less)
    BY <1>9, <2>1
  <2>3. <<n - j, m>> \in less <=> n - j < m
    BY <2>1 DEF OpToRel
  <2> HIDE DEF less, D
  <2> QED BY <1>5, <1>10, <2>1, <2>2, <2>3
<1>12. /\ i \in DOMAIN b /\ i \in Nat /\ b[i] \in InterTx /\ Participants[b[i]] = Participants[t]
       /\ PlacedAt(c, d, e, i, b[i])
  BY <1>4, <1>5, <1>7 DEF I, PlacedAt
<1>13. SameGroup(c, d, t, b[i])
  BY <1>1, <1>12 DEF SameGroup
<1>14. IsHead(c, d, b[i])
  <2> SUFFICES ASSUME NEW u \in InterTx, InFront(c, d, u, b[i]) PROVE FALSE
    BY DEF IsHead
  <2>1. PICK f \in Nat, x \in Nat, y \in Nat :
          /\ PlacedAt(c, d, f, x, b[i]) /\ PlacedAt(c, d, f, y, u) /\ x < y
          /\ Participants[u] = Participants[b[i]]
    BY DEF InFront, EarlierInBatch
  <2>2. f = e /\ x = i
    BY <1>1, <1>12, <2>1 DEF PlaceInv, PlacedOnce
  <2>3. y \in DOMAIN b /\ b[y] = u
    BY <1>3, <2>1, <2>2 DEF PlacedAt
  <2>4. y \in I
    BY <1>12, <2>1, <2>3 DEF I
  <2> QED BY <1>11, <2>1, <2>2, <2>4
<1> QED BY <1>12, <1>13, <1>14

\* What is ahead of a started transaction is started.
LEMMA AheadStarted ==
  ASSUME TypeOK, EpochInv, PlaceInv, NEW c \in Shard, NEW d \in Shard, NEW t, NEW u,
         Ahead(c, d, t, u), Started(c, d, u)
  PROVE  Started(c, d, t)
<1>1. PICK f, j \in Nat : PlacedAt(c, d, f, j, u) /\ f <= precessedEpochIds[d][c]
  BY DEF Started
<1>2. PICK e, i, g, h \in Nat : PlacedAt(c, d, e, i, t) /\ PlacedAt(c, d, g, h, u) /\ e <= g
  BY DEF Ahead, EarlierBatch, SameBatchAhead
<1>3. f = g
  BY <1>1, <1>2, PlaceFacts DEF PlaceInv, PlacedOnce
<1>4. precessedEpochIds[d][c] \in Nat
  BY DEF TypeOK, EpochType
<1> QED BY <1>1, <1>2, <1>3, <1>4 DEF Started

\* A group is started at once.
LEMMA GroupStarted ==
  ASSUME TypeOK, EpochInv, PlaceInv, NEW c \in Shard, NEW d \in Shard, NEW t, NEW u,
         Started(c, d, t), SameGroup(c, d, t, u)
  PROVE  Started(c, d, u)
<1>1. PICK f, j \in Nat : PlacedAt(c, d, f, j, t) /\ f <= precessedEpochIds[d][c]
  BY DEF Started
<1>2. PICK e, i, k \in Nat : PlacedAt(c, d, e, i, t) /\ PlacedAt(c, d, e, k, u)
  BY DEF SameGroup
<1>3. f = e
  BY <1>1, <1>2, PlaceFacts DEF PlaceInv, PlacedOnce
<1> QED BY <1>1, <1>2, <1>3 DEF Started

\* What is ahead of the first transaction of the queue that is worked on was executed.
LEMMA AheadOfFirst ==
  ASSUME OrderInv, NEW c \in Shard, NEW d \in Shard, NEW t, NEW u,
         InLine(d, c, 1, 1, t), Ahead(c, d, u, t)
  PROVE  u \in Range(executed[d])
<1>0. TypeOK /\ EpochInv /\ PlaceInv /\ LineInv
  BY DEF OrderInv, IInv
<1>1. t \in InterTx /\ u \in InterTx
  BY <1>0, InLineType, PlaceFacts DEF Ahead, EarlierBatch, SameBatchAhead
<1>2. Started(c, d, t)
  BY <1>0, <1>1 DEF LineInv, OnlyStarted
<1>3. Started(c, d, u)
  BY <1>0, <1>2, AheadStarted
<1>4. PICK r \in 0..2, i \in Nat : InLine(d, c, r, i, u)
  BY <1>0, <1>1, <1>3 DEF LineInv, AllStarted
<1>5. ~Ahead(c, d, t, u)
  BY <1>0, AheadAsymmetric
<1>6. ~(1 < r \/ (1 = r /\ 1 < i))
  BY <1>0, <1>1, <1>4, <1>5 DEF LineInv, LineOrdered
<1>7. i >= 1
  BY <1>0, <1>4, InLineType
<1>8. CASE r = 1 /\ i = 1
  <2>1. t = u
    BY <1>4, <1>8 DEF InLine
  <2> QED BY <1>5, <2>1
<1>9. CASE r = 0
  BY <1>4, <1>9 DEF InLine, Range
<1> QED BY <1>4, <1>6, <1>7, <1>8, <1>9

\* A whole group is ahead of a transaction of another one if its head is.
LEMMA GroupAhead ==
  ASSUME TypeOK, EpochInv, PlaceInv, NEW c \in Shard, NEW d \in Shard,
         NEW g, NEW h, NEW t, NEW u, Ahead(c, d, g, h), IsHead(c, d, h),
         SameGroup(c, d, g, u), SameGroup(c, d, h, t)
  PROVE  Ahead(c, d, u, t)
<1>1. PICK e, i, j \in Nat : PlacedAt(c, d, e, i, g) /\ PlacedAt(c, d, e, j, u)
  BY DEF SameGroup
<1>2. PICK f, k, l \in Nat : PlacedAt(c, d, f, k, h) /\ PlacedAt(c, d, f, l, t)
  BY DEF SameGroup
<1>3. /\ Participants[g] = Participants[u] /\ Participants[h] = Participants[t]
      /\ g \in InterTx /\ h \in InterTx
  BY GroupFacts DEF SameGroup
<1>4. CASE EarlierBatch(c, d, g, h)
  <2>1. e < f
    BY <1>1, <1>2, <1>3, <1>4 DEF EarlierBatch, PlaceInv, PlacedOnce
  <2> QED BY <1>1, <1>2, <2>1 DEF Ahead, EarlierBatch
<1>5. CASE SameBatchAhead(c, d, g, h)
  <2>1. PICK x, y, z \in Nat :
          /\ PlacedAt(c, d, x, y, g) /\ PlacedAt(c, d, x, z, h)
          /\ IdsLess(Participants[g], Participants[h]) \/ (Participants[g] = Participants[h] /\ y > z)
    BY <1>5 DEF SameBatchAhead
  <2>2. e = x /\ f = x
    BY <1>1, <1>2, <1>3, <2>1 DEF PlaceInv, PlacedOnce
  <2>3. ~(Participants[g] = Participants[h] /\ y > z)
    <3> SUFFICES ASSUME Participants[g] = Participants[h], z < y PROVE FALSE
      BY <2>1
    <3>1. InFront(c, d, g, h)
      BY <2>1 DEF InFront, EarlierInBatch
    <3> QED BY <1>3, <3>1 DEF IsHead
  <2>4. IdsLess(Participants[u], Participants[t])
    BY <1>3, <2>1, <2>3
  <2> QED BY <1>1, <1>2, <2>2, <2>4 DEF Ahead, SameBatchAhead
<1> QED BY <1>4, <1>5 DEF Ahead

\* Which read sets wait at d for t: with the one state of a participant p that t waits for
\* come those of transactions of its coordinator only, and they come from p only.
LEMMA SameSender ==
  ASSUME ReadSetsMatch, TypeOK, NEW d \in Shard, NEW t \in InterTx,
         NEW p \in Range(Participants[t]), p # d, NEW g \in Sent(d, LocalKey(p, t))
  PROVE  /\ g \in InterTx /\ p \in Range(Participants[g]) /\ d \in Range(Participants[g])
         /\ Coordinator[g] = Coordinator[t] /\ g \in sendedrwsetTx[p]
         /\ LocalKey(p, t) \in RemoteKeys(d, g)
<1>1. /\ g \in InterTx /\ d \in Range(Participants[g])
      /\ \E q \in Range(Participants[g]) \ {d} : LocalKey(q, g) = LocalKey(p, t) /\ g \in sendedrwsetTx[q]
  BY DEF Sent
<1>2. PICK q \in Range(Participants[g]) \ {d} : LocalKey(q, g) = LocalKey(p, t) /\ g \in sendedrwsetTx[q]
  BY <1>1
<1>3. ASSUME NEW x \in InterTx, NEW y \in Range(Participants[x])
      PROVE  /\ IndexOf(y, x) \in DOMAIN Participants[x] /\ Participants[x][IndexOf(y, x)] = y
             /\ LocalKey(y, x) = RwKeys[x][IndexOf(y, x)]
  <2>1. PICK i \in DOMAIN Participants[x] : Participants[x][i] = y
    BY DEF Range
  <2> QED BY <2>1 DEF IndexOf, LocalKey
<1>4. q = p
  <2>1. RwKeys[g][IndexOf(q, g)] = RwKeys[t][IndexOf(p, t)]
    BY <1>1, <1>2, <1>3
  <2>2. Participants[g][IndexOf(q, g)] = Participants[t][IndexOf(p, t)]
    BY <1>1, <1>2, <1>3, <2>1 DEF ReadSetsMatch, OneOwnerPerState
  <2> QED BY <1>1, <1>2, <1>3, <2>2
<1>5. Coordinator[g] = Coordinator[t]
  BY <1>1, <1>2, <1>4 DEF ReadSetsMatch, OneCoordinatorPerState
<1>6. LocalKey(p, t) \in RemoteKeys(d, g)
  <2>1. /\ IndexOf(p, g) \in DOMAIN Participants[g] /\ Participants[g][IndexOf(p, g)] # d
        /\ LocalKey(p, t) = RwKeys[g][IndexOf(p, g)]
    BY <1>1, <1>2, <1>3, <1>4
  <2> QED BY <2>1 DEF RemoteKeys
<1> QED BY <1>1, <1>2, <1>4, <1>5, <1>6

\* The head of a group was sent before every head behind it that is not sent yet: sending is
\* in the order of the queues.
LEMMA SentInOrder ==
  ASSUME OrderInv, SentKnown, HeadsSent, NEW c \in Shard, NEW p \in Shard,
         NEW g \in InterTx, NEW h \in InterTx, Coordinator[g] = c, Coordinator[h] = c,
         g \in sendedrwsetTx[p], h \notin sendedrwsetTx[p], IsHead(c, p, h),
         \E e, i \in Nat : PlacedAt(c, p, e, i, h)
  PROVE  Ahead(c, p, g, h)
<1>0. TypeOK /\ EpochInv /\ PlaceInv /\ LineInv
  BY DEF OrderInv, IInv
<1>1. Started(c, p, g) /\ (g \in Range(executed[p]) \/ InLine(p, c, 1, 1, g))
  BY DEF SentKnown, Known
<1>2. h \notin Range(executed[p])
  BY DEF HeadsSent
<1>3. PICK r \in 0..1, i \in Nat : InLine(p, c, r, i, g) /\ (r = 0 \/ i = 1)
  <2>1. CASE g \in Range(executed[p])
    <3>1. PICK k \in DOMAIN executed[p] : executed[p][k] = g
      BY <2>1 DEF Range
    <3>2. k \in Nat
      BY <1>0, <3>1 DEF TypeOK
    <3>3. InLine(p, c, 0, k, g)
      BY <3>1 DEF InLine
    <3> QED BY <3>2, <3>3
  <2> QED BY <1>1, <2>1
<1>4. CASE Started(c, p, h)
  <2>1. PICK q \in 0..2, j \in Nat : InLine(p, c, q, j, h)
    BY <1>0, <1>4 DEF LineInv, AllStarted
  <2>2. q # 0
    <3> SUFFICES ASSUME q = 0 PROVE FALSE
      OBVIOUS
    <3> QED BY <1>2, <2>1 DEF InLine, Range
  <2>3. g # h
    OBVIOUS
  <2>4. ~(q = 1 /\ r = 1 /\ j = 1)
    <3> SUFFICES ASSUME InLine(p, c, 1, 1, h), InLine(p, c, 1, 1, g) PROVE FALSE
      BY <1>3, <2>1
    <3> QED BY <2>3 DEF InLine
  <2>5. j >= 1
    BY <1>0, <2>1, InLineType
  <2>6. r < q \/ (r = q /\ i < j)
    BY <1>3, <2>1, <2>2, <2>4, <2>5
  <2> QED BY <1>0, <1>3, <2>1, <2>6 DEF LineInv, LineOrdered
<1>5. CASE ~Started(c, p, h)
  <2>1. PICK e \in Nat, k \in Nat : PlacedAt(c, p, e, k, h)
    OBVIOUS
  <2>2. PICK f \in Nat, l \in Nat : PlacedAt(c, p, f, l, g) /\ f <= precessedEpochIds[p][c]
    BY <1>1 DEF Started
  <2>3. ~(e <= precessedEpochIds[p][c])
    BY <1>5, <2>1 DEF Started
  <2>4. precessedEpochIds[p][c] \in Nat
    BY <1>0 DEF TypeOK, EpochType
  <2>5. f < e
    BY <2>2, <2>3, <2>4
  <2> QED BY <2>1, <2>2, <2>5 DEF Ahead, EarlierBatch
<1> QED BY <1>4, <1>5

\* checkReadWriteKeyReady lets no transaction through whose group's read sets have not been
\* sent: if one was not, all that was sent for its state was used up, since it was sent
\* for groups ahead of it.
LEMMA ReadyMeansSent ==
  ASSUME ReadSetsMatch, OrderInv, SentKnown, HeadsSent, ReadsBalanced,
         NEW c \in Shard, NEW d \in Shard, NEW t, InLine(d, c, 1, 1, t), Coordinator[t] = c,
         \A k \in RemoteKeys(d, t) : receivedTxRWset[d][k] # 0,
         NEW p \in Range(Participants[t]), p # d,
         NEW h \in InterTx, SameGroup(c, d, t, h), IsHead(c, d, h)
  PROVE  h \in sendedrwsetTx[p]
<1>0. TypeOK /\ EpochInv /\ PlaceInv /\ LineInv
  BY DEF OrderInv, IInv
<1> DEFINE k == LocalKey(p, t)
<1> SUFFICES ASSUME h \notin sendedrwsetTx[p] PROVE FALSE
  OBVIOUS
<1>1. t \in InterTx /\ Participants[h] = Participants[t] /\ SameGroup(c, d, h, t)
  BY <1>0, GroupFacts DEF SameGroup
<1>2. PICK e, i \in Nat : PlacedAt(c, d, e, i, h)
  BY DEF SameGroup
<1>3. Coordinator[h] = c /\ d \in Range(Participants[h]) /\ p \in Range(Participants[h])
  BY <1>0, <1>1, <1>2, PlaceFacts
<1>4. p \in Shard
  BY <1>1, TxAssumption DEF Range
<1>5. \E f, j \in Nat : PlacedAt(c, p, f, j, h)
  BY <1>0, <1>2, <1>3, <1>4 DEF PlaceInv, PlacedEverywhere
<1>6. IsHead(c, p, h)
  BY <1>0, <1>3, <1>4, HeadEverywhere
<1>7. Sent(d, k) \subseteq Used(d, k)
  <2> SUFFICES ASSUME NEW g \in Sent(d, k) PROVE g \in Used(d, k)
    OBVIOUS
  <2>1. /\ g \in InterTx /\ p \in Range(Participants[g]) /\ d \in Range(Participants[g])
        /\ Coordinator[g] = c /\ g \in sendedrwsetTx[p] /\ k \in RemoteKeys(d, g)
    BY <1>0, <1>1, SameSender
  <2>2. Ahead(c, p, g, h)
    BY <1>3, <1>4, <1>5, <1>6, <2>1, SentInOrder
  <2>3. Ahead(c, d, g, h)
    BY <1>0, <1>3, <1>4, <2>1, <2>2, AheadEverywhere
  <2>4. IsHead(c, d, g)
    <3>1. IsHead(c, p, g)
      BY <1>4, <2>1 DEF SentKnown, Known
    <3> QED BY <1>0, <1>4, <2>1, <3>1, HeadEverywhere
  <2>5. Started(c, d, g)
    <3>1. Started(c, d, t)
      BY <1>0, <1>1 DEF LineInv, OnlyStarted
    <3>2. Started(c, d, h)
      BY <1>0, <3>1, GroupStarted
    <3> QED BY <1>0, <2>3, <3>2, AheadStarted
  <2>6. ASSUME NEW u, SameGroup(c, d, g, u) PROVE u \in Range(executed[d])
    <3>1. Ahead(c, d, u, t)
      BY <1>0, <1>1, <2>3, <2>6, GroupAhead
    <3> QED BY <3>1, AheadOfFirst
  <2> QED BY <2>1, <2>4, <2>5, <2>6 DEF Used
<1>8. k \in RemoteKeys(d, t)
  <2>1. PICK x \in DOMAIN Participants[t] : Participants[t][x] = p
    BY DEF Range
  <2>2. IndexOf(p, t) \in DOMAIN Participants[t] /\ Participants[t][IndexOf(p, t)] = p
    BY <2>1 DEF IndexOf
  <2> QED BY <2>2 DEF RemoteKeys, LocalKey
<1>9. k \in Key
  BY <1>1, <1>8, RemoteKeysType
<1>10. ReadBalance(d, k)
  BY <1>9 DEF ReadsBalanced
<1>11. receivedTxRWset[d][k] \in Nat /\ receivedTxRWset[d][k] # 0
  BY <1>0, <1>8, <1>9 DEF TypeOK, RwsetType
<1> HIDE DEF k
<1>12. Cardinality(Sent(d, k)) <= Cardinality(Used(d, k))
  BY <1>7, <1>10, FS_Subset DEF ReadBalance
<1>13. /\ Cardinality(Sent(d, k)) \in Nat /\ Cardinality(Used(d, k)) \in Nat
       /\ Cardinality(OnWay(d, k)) \in Nat
  BY <1>10, FS_CardinalityType DEF ReadBalance
<1> QED BY <1>10, <1>11, <1>12, <1>13 DEF ReadBalance

-----------------------------------------------------------------------------
(* The invariant, action by action.                                         *)

\* What a step does not change about the groups that a shard has started.
GroupsKept == \A c, d \in Shard : \A t \in InterTx : Started(c, d, t) =>
  /\ Started(c, d, t)'
  /\ \A u : SameGroup(c, d, t, u)' <=> SameGroup(c, d, t, u)
  /\ IsHead(c, d, t)' <=> IsHead(c, d, t)
  /\ IsLast(c, d, t)' <=> IsLast(c, d, t)
ExecutedKept == \A d \in Shard : \A t \in InterTx :
  t \in Range(executed'[d]) <=> t \in Range(executed[d])
\* Entries that join a queue carry what they should; the others were there.
EntriesKept == \A d, c \in Shard : \A E :
  Entered(d, c, E)' => Entered(d, c, E) \/ EntryFits(c, d, E)'
FirstKept == \A d, c \in Shard : \A t : InLine(d, c, 1, 1, t) => InLine(d, c, 1, 1, t)'

\* Every step keeps the groups of the batches that were started.
LEMMA StepGroups ==
  ASSUME TypeOK, EpochInv, PlaceInv, [Next]_vars, TypeOK', EpochInv', PlaceInv'
  PROVE  GroupsKept
<1> SUFFICES ASSUME NEW c \in Shard, NEW d \in Shard, NEW t \in InterTx, Started(c, d, t)
             PROVE  /\ Started(c, d, t)'
                    /\ \A u : SameGroup(c, d, t, u)' <=> SameGroup(c, d, t, u)
                    /\ IsHead(c, d, t)' <=> IsHead(c, d, t)
                    /\ IsLast(c, d, t)' <=> IsLast(c, d, t)
  BY DEF GroupsKept
<1>1. Started(c, d, t)'
  BY StartedKept
<1>2. /\ \A u : SameGroup(c, d, t, u)' <=> SameGroup(c, d, t, u)
      /\ IsHead(c, d, t)' <=> IsHead(c, d, t)
      /\ IsLast(c, d, t)' <=> IsLast(c, d, t)
  BY GroupKept
<1> QED BY <1>1, <1>2

\* What stands in a queue or was executed is started.
LEMMA EnteredStarted ==
  ASSUME TypeOK, LineInv, NEW c \in Shard, NEW d \in Shard, NEW E, Entered(d, c, E)
  PROVE  E.tx \in InterTx /\ Started(c, d, E.tx)
<1>1. PICK r, i : InLine(d, c, r, i, E.tx)
  <2>1. CASE E \in Range(txQueues[d][c])
    <3>1. PICK i \in DOMAIN txQueues[d][c] : txQueues[d][c][i] = E
      BY <2>1 DEF Range
    <3>2. InLine(d, c, 1, i, E.tx)
      BY <3>1 DEF InLine, Entered
    <3> QED BY <3>2
  <2>2. CASE E \in Range(blockingTxQueues[d][c])
    <3>1. PICK i \in DOMAIN blockingTxQueues[d][c] : blockingTxQueues[d][c][i] = E
      BY <2>2 DEF Range
    <3>2. InLine(d, c, 2, i, E.tx)
      BY <3>1 DEF InLine, Entered
    <3> QED BY <3>2
  <2> QED BY <2>1, <2>2 DEF Entered
<1>2. r \in 0..2 /\ i \in Nat /\ E.tx \in InterTx
  BY <1>1, InLineType
<1> QED BY <1>1, <1>2 DEF LineInv, OnlyStarted

\* An executed transaction is one of a batch that was started.
LEMMA ExecutedStarted ==
  ASSUME TypeOK, LineInv, NEW d \in Shard, NEW t \in InterTx, t \in Range(executed[d])
  PROVE  Coordinator[t] \in Shard /\ Started(Coordinator[t], d, t)
<1>1. PICK i \in DOMAIN executed[d] : executed[d][i] = t
  BY DEF Range
<1>2. i \in Nat /\ Coordinator[t] \in Shard
  BY <1>1, TxAssumption DEF TypeOK
<1>3. InLine(d, Coordinator[t], 0, i, t)
  BY <1>1 DEF InLine
<1> QED BY <1>2, <1>3 DEF LineInv, OnlyStarted

\* Who has been started is in its own group.
LEMMA InOwnGroup ==
  ASSUME NEW c, NEW d, NEW t, Started(c, d, t) PROVE SameGroup(c, d, t, t)
BY DEF Started, SameGroup

\* Read sets are used up by executions only.
LEMMA UsedKept ==
  ASSUME TypeOK, LineInv, GroupsKept, ExecutedKept, NEW d \in Shard, NEW k,
         \A c \in Shard : \A t, u : SameGroup(c, d, t, u) => u \in InterTx
  PROVE  Used(d, k)' = Used(d, k)
<1> SUFFICES ASSUME NEW h \in InterTx PROVE h \in Used(d, k)' <=> h \in Used(d, k)
  BY DEF Used
<1> DEFINE c == Coordinator[h]
<1>1. c \in Shard
  BY TxAssumption
<1>2. CASE Started(c, d, h)
  <2>1. /\ Started(c, d, h)'
        /\ IsHead(c, d, h)' <=> IsHead(c, d, h)
        /\ \A u : SameGroup(c, d, h, u)' <=> SameGroup(c, d, h, u)
    BY <1>1, <1>2 DEF GroupsKept
  <2>2. \A u : SameGroup(c, d, h, u) => (u \in Range(executed'[d]) <=> u \in Range(executed[d]))
    BY <1>1 DEF ExecutedKept
  <2>3. h \in Used(d, k)' <=> /\ Started(c, d, h)' /\ IsHead(c, d, h)' /\ k \in RemoteKeys(d, h)
                              /\ \A u : SameGroup(c, d, h, u)' => u \in Range(executed'[d])
    BY DEF Used
  <2>4. h \in Used(d, k) <=> /\ Started(c, d, h) /\ IsHead(c, d, h) /\ k \in RemoteKeys(d, h)
                             /\ \A u : SameGroup(c, d, h, u) => u \in Range(executed[d])
    BY DEF Used
  <2> HIDE DEF c
  <2> QED BY <1>2, <2>1, <2>2, <2>3, <2>4
<1>3. CASE ~Started(c, d, h)
  <2>1. h \notin Used(d, k)
    BY <1>3 DEF Used
  <2>2. h \notin Range(executed[d])
    BY <1>3, ExecutedStarted
  <2>3. h \notin Range(executed'[d])
    BY <2>2 DEF ExecutedKept
  <2>4. Started(c, d, h)' => SameGroup(c, d, h, h)'
    BY DEF Started, SameGroup
  <2>5. h \in Used(d, k)' => /\ Started(c, d, h)'
                             /\ \A u : SameGroup(c, d, h, u)' => u \in Range(executed'[d])
    BY DEF Used
  <2> QED BY <2>1, <2>3, <2>4, <2>5
<1> QED BY <1>2, <1>3

\* Entries keep what they carry.
LEMMA FitsKept ==
  ASSUME OrderInv, EntriesFit, GroupsKept, EntriesKept PROVE EntriesFit'
<1> SUFFICES ASSUME NEW d \in Shard, NEW c \in Shard, NEW E, Entered(d, c, E)
             PROVE  EntryFits(c, d, E)'
  BY DEF EntriesFit, EntriesKept
<1>1. EntryFits(c, d, E)
  BY DEF EntriesFit
<1>2. E.tx \in InterTx /\ Started(c, d, E.tx)
  BY EnteredStarted DEF OrderInv, IInv
<1>3. /\ IsHead(c, d, E.tx)' <=> IsHead(c, d, E.tx)
      /\ IsLast(c, d, E.tx)' <=> IsLast(c, d, E.tx)
  BY <1>2 DEF GroupsKept
<1> QED BY <1>1, <1>3 DEF EntryFits

\* A head that was sent stays known, if it is executed when it leaves the front of its queue.
LEMMA KnownKept ==
  ASSUME OrderInv, GroupsKept, NEW p \in Shard, NEW h \in InterTx, Known(p, h),
         \A t \in InterTx : t \in Range(executed[p]) => t \in Range(executed'[p]),
         \A c \in Shard : \A t :
           InLine(p, c, 1, 1, t) => InLine(p, c, 1, 1, t)' \/ t \in Range(executed'[p])
  PROVE  Known(p, h)'
<1>1. Coordinator[h] \in Shard
  BY TxAssumption
<1>2. Started(Coordinator[h], p, h)' /\ IsHead(Coordinator[h], p, h)'
  BY <1>1 DEF Known, GroupsKept
<1>3. h \in Range(executed'[p]) \/ InLine(p, Coordinator[h], 1, 1, h)'
  BY <1>1 DEF Known
<1> QED BY <1>2, <1>3 DEF Known

\* What was sent before an execution stays sent.
LEMMA HeadsKept ==
  ASSUME OrderInv, HeadsSent, GroupHeadsSent, GroupsKept,
         NEW d \in Shard, NEW t \in InterTx, t \in Range(executed[d]),
         \A p \in Shard : sendedrwsetTx[p] \subseteq sendedrwsetTx'[p]
  PROVE  /\ IsHead(Coordinator[t], d, t)' => t \in sendedrwsetTx'[d]
         /\ \A h \in InterTx : \A p \in Range(Participants[t]) \ {d} :
              SameGroup(Coordinator[t], d, t, h)' /\ IsHead(Coordinator[t], d, h)' =>
                h \in sendedrwsetTx'[p]
<1>0. TypeOK /\ EpochInv /\ PlaceInv /\ LineInv
  BY DEF OrderInv, IInv
<1>1. Coordinator[t] \in Shard /\ Started(Coordinator[t], d, t)
  BY <1>0, ExecutedStarted
<1>2. IsHead(Coordinator[t], d, t)' => t \in sendedrwsetTx'[d]
  BY <1>1 DEF GroupsKept, HeadsSent
<1>3. ASSUME NEW h \in InterTx, NEW p \in Range(Participants[t]) \ {d},
             SameGroup(Coordinator[t], d, t, h)', IsHead(Coordinator[t], d, h)'
      PROVE  h \in sendedrwsetTx'[p]
  <2>1. SameGroup(Coordinator[t], d, t, h)
    BY <1>1, <1>3 DEF GroupsKept
  <2>2. Started(Coordinator[t], d, h)
    BY <1>0, <1>1, <2>1, GroupStarted
  <2>3. IsHead(Coordinator[t], d, h)
    BY <1>1, <1>3, <2>2 DEF GroupsKept
  <2>4. h \in sendedrwsetTx[p]
    BY <2>1, <2>3 DEF GroupHeadsSent
  <2>5. p \in Shard
    BY TxAssumption DEF Range
  <2> QED BY <2>4, <2>5
<1> QED BY <1>2, <1>3

\* A step that sends, receives and executes nothing.
LEMMA ReadKept ==
  ASSUME OrderInv, ReadInv, GroupsKept, ExecutedKept, EntriesKept, FirstKept,
         UNCHANGED rwsetVars, Sortable'
  PROVE  ReadInv'
<1>0. TypeOK /\ EpochInv /\ PlaceInv /\ LineInv
  BY DEF OrderInv, IInv
<1>1. /\ UNCHANGED <<sendedrwsetTx, rwsetMsgs, receivedTxRWset>>
      /\ \A p \in Shard : sendedrwsetTx[p] \subseteq InterTx
  BY <1>0 DEF rwsetVars, TypeOK, RwsetType
<1>2. EntriesFit'
  BY FitsKept DEF ReadInv
<1>3. SentKnown'
  <2> SUFFICES ASSUME NEW p \in Shard, NEW h \in sendedrwsetTx[p] PROVE Known(p, h)'
    BY <1>1 DEF SentKnown
  <2>1. Known(p, h) /\ h \in InterTx
    BY <1>1 DEF ReadInv, SentKnown
  <2>2. \A t \in InterTx : t \in Range(executed[p]) => t \in Range(executed'[p])
    BY DEF ExecutedKept
  <2>3. \A c \in Shard : \A t :
          InLine(p, c, 1, 1, t) => InLine(p, c, 1, 1, t)' \/ t \in Range(executed'[p])
    BY DEF FirstKept
  <2> QED BY <2>1, <2>2, <2>3, KnownKept
<1>4. HeadsSent' /\ GroupHeadsSent'
  <2>1. ASSUME NEW d \in Shard, NEW t \in InterTx, t \in Range(executed'[d])
        PROVE  /\ IsHead(Coordinator[t], d, t)' => t \in sendedrwsetTx'[d]
               /\ \A h \in InterTx : \A p \in Range(Participants[t]) \ {d} :
                    SameGroup(Coordinator[t], d, t, h)' /\ IsHead(Coordinator[t], d, h)' =>
                      h \in sendedrwsetTx'[p]
    BY <1>1, <2>1, HeadsKept DEF ExecutedKept, ReadInv
  <2> QED BY <2>1 DEF HeadsSent, GroupHeadsSent
<1>6. MessagesSent'
  BY <1>1 DEF ReadInv, MessagesSent
<1>7. ReadsBalanced'
  <2> SUFFICES ASSUME NEW d \in Shard, NEW k \in Key PROVE ReadBalance(d, k)'
    BY DEF ReadsBalanced
  <2>1. Used(d, k)' = Used(d, k)
    BY <1>0, GroupFacts, UsedKept
  <2>2. Sent(d, k)' = Sent(d, k) /\ OnWay(d, k)' = OnWay(d, k)
    BY <1>1 DEF Sent, OnWay
  <2> QED BY <1>1, <2>1, <2>2 DEF ReadInv, ReadsBalanced, ReadBalance
<1> QED BY <1>2, <1>3, <1>4, <1>6, <1>7 DEF ReadInv

\* Started batches stay sortable when no batch is started.
LEMMA SortableKept ==
  ASSUME TypeOK, EpochInv, Sortable, [Next]_vars,
         \A c, d \in Shard : \A e \in 1..precessedEpochIds'[d][c] :
           e \in 1..precessedEpochIds[d][c]
             \/ (e \in DOMAIN flushed[c][d] /\ Reorderings(flushed[c][d][e]) # {})
  PROVE  Sortable'
<1> SUFFICES ASSUME NEW c \in Shard, NEW d \in Shard, NEW e \in 1..precessedEpochIds'[d][c]
             PROVE  Reorderings(flushed'[c][d][e]) # {}
  BY DEF Sortable
<1>1. e \in DOMAIN flushed[c][d] /\ Reorderings(flushed[c][d][e]) # {}
  <2>1. CASE e \in 1..precessedEpochIds[d][c]
    <3>1. /\ flushed[c][d] \in Seq(Batch) /\ precessedEpochIds[d][c] \in Nat
          /\ precessedEpochIds[d][c] < epochIds[c][d] /\ epochIds[c][d] = Len(flushed[c][d]) + 1
      BY DEF TypeOK, CoordType, EpochType, EpochInv, EpochCounters, InEpochOrder
    <3> QED BY <2>1, <3>1 DEF Sortable
  <2> QED BY <2>1
<1>2. flushed'[c][d][e] = flushed[c][d][e]
  <2>1. CASE UNCHANGED <<subTxs, epochIds, flushed>>
    BY <2>1
  <2>2. ASSUME NEW s \in Shard, EndOfBlock(s) PROVE flushed'[c][d][e] = flushed[c][d][e]
    <3>1. CASE CheckSubTxsContainers(s)
      BY <1>1, <3>1, FlushGrows
    <3> QED BY <2>2, <3>1 DEF EndOfBlock
  <2>3. ASSUME NEW s \in Shard, NEW x \in InterTx, ProcessInterShardTx(s, x)
        PROVE  flushed'[c][d][e] = flushed[c][d][e]
    BY <2>3 DEF ProcessInterShardTx
  <2> QED BY <2>1, <2>2, <2>3, StreamSteps
<1> QED BY <1>1, <1>2

\* The head of a queue stands first in its line.
LEMMA FirstInLine ==
  ASSUME OrderInv, NEW d \in Shard, NEW c \in Shard, txQueues[d][c] # <<>>, Head(txQueues[d][c]).inter
  PROVE  LET E == Head(txQueues[d][c])
         IN /\ Entered(d, c, E) /\ InLine(d, c, 1, 1, E.tx) /\ E.tx \in InterTx
            /\ Coordinator[E.tx] = c /\ d \in Range(Participants[E.tx]) /\ Started(c, d, E.tx)
<1> DEFINE E == Head(txQueues[d][c])
<1>0. TypeOK /\ EpochInv /\ PlaceInv /\ LineInv
  BY DEF OrderInv, IInv
<1>1. 1 \in DOMAIN txQueues[d][c] /\ txQueues[d][c][1] = E
  BY <1>0 DEF TypeOK, QueueType
<1>2. Entered(d, c, E) /\ InLine(d, c, 1, 1, E.tx)
  BY <1>1 DEF Entered, InLine, Range
<1>3. E.tx \in InterTx /\ Started(c, d, E.tx)
  BY <1>0, <1>2, EnteredStarted
<1>4. Coordinator[E.tx] = c /\ d \in Range(Participants[E.tx])
  BY <1>0, <1>3, PlaceFacts DEF Started
<1> QED BY <1>2, <1>3, <1>4

\* Sending the read set of a group: every other participant has one more to come.
LEMMA ReadSend ==
  ASSUME ReadSetsMatch, OrderInv, ReadInv, GroupsKept, Sortable',
         NEW d \in Shard, NEW c \in Shard, SendReadWriteSet(d, c)
  PROVE  ReadInv'
<1> DEFINE E == Head(txQueues[d][c])
           Msg(p) == [dest |-> p, source |-> d, keys |-> E.send, first |-> E.tx]
<1>0. TypeOK /\ EpochInv /\ PlaceInv /\ LineInv
  BY DEF OrderInv, IInv
<1>1. /\ txQueues[d][c] # <<>> /\ E.inter /\ E.send # {} /\ E.tx \notin sendedrwsetTx[d]
      /\ sendedrwsetTx' = [sendedrwsetTx EXCEPT ![d] = @ \cup {E.tx}]
      /\ rwsetMsgs' = rwsetMsgs \cup {Msg(p) : p \in Range(Participants[E.tx]) \ {d}}
      /\ UNCHANGED <<receivedTxRWset, executed, txQueues, blockingTxQueues>>
  BY DEF SendReadWriteSet, MustSend, queueVars
<1>2. /\ Entered(d, c, E) /\ InLine(d, c, 1, 1, E.tx) /\ E.tx \in InterTx
      /\ Coordinator[E.tx] = c /\ d \in Range(Participants[E.tx]) /\ Started(c, d, E.tx)
  BY <1>1, FirstInLine
<1>3. IsHead(c, d, E.tx) /\ E.send = {LocalKey(d, E.tx)}
  <2>1. EntryFits(c, d, E)
    BY <1>2, SMTT(30) DEF ReadInv, EntriesFit
  <2> QED BY <1>1, <2>1 DEF EntryFits
<1> DEFINE t == E.tx
           key == LocalKey(d, t)
<1>4. /\ t \in InterTx /\ t \notin sendedrwsetTx[d] /\ d \in Range(Participants[t])
      /\ \A p \in Shard : sendedrwsetTx[p] \subseteq InterTx
      /\ \A p \in Shard : sendedrwsetTx'[p] = sendedrwsetTx[p] \cup (IF p = d THEN {t} ELSE {})
      /\ rwsetMsgs' = rwsetMsgs \cup {Msg(p) : p \in Range(Participants[t]) \ {d}}
      /\ Range(Participants[t]) \subseteq Shard
      /\ \A p : /\ Msg(p).dest = p /\ Msg(p).source = d /\ Msg(p).keys = {key}
                /\ Msg(p).first = t
  <2>1. /\ sendedrwsetTx \in [Shard -> SUBSET InterTx] /\ Participants[t] \in Seq(Shard)
    BY <1>0, <1>2, TxAssumption DEF TypeOK, RwsetType
  <2>2. Range(Participants[t]) \subseteq Shard
    BY <2>1 DEF Range
  <2>3. \A p \in Shard : sendedrwsetTx'[p] = sendedrwsetTx[p] \cup (IF p = d THEN {t} ELSE {})
    BY <1>1, <2>1
  <2> QED BY <1>1, <1>2, <1>3, <2>1, <2>2, <2>3
<1>5. Known(d, t)
  BY <1>2, <1>3 DEF Known
<1>6. EntriesKept /\ ExecutedKept
  BY <1>1 DEF EntriesKept, ExecutedKept, Entered
<1>7. \A x, y, u : InLine(x, y, 1, 1, u)' <=> InLine(x, y, 1, 1, u)
  BY <1>1 DEF InLine
<1> HIDE DEF t, Msg, key, E
<1>14. \A x, k, h : h \in Sent(x, k)' <=>
          /\ h \in InterTx /\ x \in Range(Participants[h])
          /\ \E p \in Range(Participants[h]) \ {x} :
               LocalKey(p, h) = k /\ (h \in sendedrwsetTx[p] \/ (p = d /\ h = t))
  <2>1. ASSUME NEW h \in InterTx, NEW p \in Range(Participants[h])
        PROVE  h \in sendedrwsetTx'[p] <=> h \in sendedrwsetTx[p] \/ (p = d /\ h = t)
    <3>1. p \in Shard
      BY <2>1, TxAssumption DEF Range
    <3> QED BY <1>4, <3>1
  <2> QED BY <2>1 DEF Sent
<1>8. EntriesFit'
  BY <1>6, FitsKept DEF ReadInv
<1>9. SentKnown'
  <2> SUFFICES ASSUME NEW p \in Shard, NEW h \in sendedrwsetTx'[p] PROVE Known(p, h)'
    BY DEF SentKnown
  <2>1. h \in InterTx /\ Known(p, h)
    BY <1>4, <1>5 DEF ReadInv, SentKnown
  <2>2. \A u \in InterTx : u \in Range(executed[p]) => u \in Range(executed'[p])
    BY <1>6 DEF ExecutedKept
  <2>3. \A y \in Shard : \A u :
          InLine(p, y, 1, 1, u) => InLine(p, y, 1, 1, u)' \/ u \in Range(executed'[p])
    BY <1>7
  <2> QED BY <2>1, <2>2, <2>3, KnownKept
<1>10. HeadsSent' /\ GroupHeadsSent'
  <2>0. \A p \in Shard : sendedrwsetTx[p] \subseteq sendedrwsetTx'[p]
    BY <1>4
  <2>1. ASSUME NEW x \in Shard, NEW u \in InterTx, u \in Range(executed'[x])
        PROVE  /\ IsHead(Coordinator[u], x, u)' => u \in sendedrwsetTx'[x]
               /\ \A h \in InterTx : \A p \in Range(Participants[u]) \ {x} :
                    SameGroup(Coordinator[u], x, u, h)' /\ IsHead(Coordinator[u], x, h)' =>
                      h \in sendedrwsetTx'[p]
    BY <1>6, <2>0, <2>1, HeadsKept DEF ExecutedKept, ReadInv
  <2> QED BY <2>1 DEF HeadsSent, GroupHeadsSent
<1>11. MessagesSent'
  <2> SUFFICES ASSUME NEW m \in rwsetMsgs'
               PROVE  /\ m.first \in sendedrwsetTx'[m.source] /\ m.source # m.dest
                      /\ m.source \in Range(Participants[m.first]) /\ m.dest \in Range(Participants[m.first])
                      /\ m.keys = {LocalKey(m.source, m.first)}
    BY DEF MessagesSent
  <2>1. CASE m \in rwsetMsgs
    <3>1. m.source \in Shard
      BY <1>0, <2>1 DEF TypeOK, RwsetType, RwsetMsg
    <3> QED BY <1>4, <2>1, <3>1 DEF ReadInv, MessagesSent
  <2>2. ASSUME NEW p \in Range(Participants[t]) \ {d}, m = Msg(p)
        PROVE  /\ m.first \in sendedrwsetTx'[m.source] /\ m.source # m.dest
               /\ m.source \in Range(Participants[m.first]) /\ m.dest \in Range(Participants[m.first])
               /\ m.keys = {LocalKey(m.source, m.first)}
    BY <1>4, <2>2 DEF key
  <2> QED BY <1>4, <2>1, <2>2
<1>12. ASSUME NEW x \in Shard, NEW k \in Key PROVE ReadBalance(x, k)'
  <2>0. ReadBalance(x, k) /\ receivedTxRWset[x][k] \in Nat
    BY <1>0 DEF ReadInv, ReadsBalanced, TypeOK, RwsetType
  <2>1. Used(x, k)' = Used(x, k)
    BY <1>0, <1>6, GroupFacts, UsedKept
  <2>2. CASE x \in Range(Participants[t]) \ {d} /\ k = key
    <3>1. Sent(x, k)' = Sent(x, k) \cup {t}
      <4>1. \A h : h \in Sent(x, k)' <=> h \in Sent(x, k) \/ h = t
        BY <1>4, <1>14, <2>2 DEF Sent, key
      <4> QED BY <4>1
    <3>2. t \notin Sent(x, k)
      BY <1>0, <1>4, <2>2, SameSender DEF key
    <3>3. OnWay(x, k)' = OnWay(x, k) \cup {Msg(x)}
      <4>1. \A m : m \in OnWay(x, k)' <=> m \in OnWay(x, k) \/ m = Msg(x)
        BY <1>4, <2>2 DEF OnWay
      <4> QED BY <4>1
    <3>4. Msg(x) \notin OnWay(x, k)
      BY <1>4 DEF OnWay, ReadInv, MessagesSent
    <3>5. /\ IsFiniteSet(Sent(x, k)') /\ Cardinality(Sent(x, k)') = Cardinality(Sent(x, k)) + 1
          /\ IsFiniteSet(OnWay(x, k)') /\ Cardinality(OnWay(x, k)') = Cardinality(OnWay(x, k)) + 1
      BY <2>0, <3>1, <3>2, <3>3, <3>4, FS_AddElement DEF ReadBalance
    <3>6. /\ Cardinality(Sent(x, k)) \in Nat /\ Cardinality(Used(x, k)) \in Nat
          /\ Cardinality(OnWay(x, k)) \in Nat
      BY <2>0, FS_CardinalityType DEF ReadBalance
    <3> QED BY <1>1, <2>0, <2>1, <3>5, <3>6, SMTT(30) DEF ReadBalance
  <2>3. CASE ~(x \in Range(Participants[t]) \ {d} /\ k = key)
    <3>1. Sent(x, k)' = Sent(x, k)
      <4>1. ASSUME NEW h, h \in Sent(x, k)' PROVE h \in Sent(x, k)
        <5>1. /\ h \in InterTx /\ x \in Range(Participants[h])
              /\ \E p \in Range(Participants[h]) \ {x} :
                   LocalKey(p, h) = k /\ (h \in sendedrwsetTx[p] \/ (p = d /\ h = t))
          BY <1>14, <4>1
        <5>2. PICK p \in Range(Participants[h]) \ {x} :
                LocalKey(p, h) = k /\ (h \in sendedrwsetTx[p] \/ (p = d /\ h = t))
          BY <5>1
        <5>3. ~(p = d /\ h = t)
          BY <2>3, <5>1, <5>2 DEF key
        <5> QED BY <5>1, <5>2, <5>3 DEF Sent
      <4>2. ASSUME NEW h, h \in Sent(x, k) PROVE h \in Sent(x, k)'
        BY <1>14, <4>2 DEF Sent
      <4> QED BY <4>1, <4>2
    <3>2. OnWay(x, k)' = OnWay(x, k)
      <4>1. \A m : m \in OnWay(x, k)' <=> m \in OnWay(x, k)
        BY <1>4, <2>3 DEF OnWay
      <4> QED BY <4>1
    <3> QED BY <1>1, <2>0, <2>1, <3>1, <3>2 DEF ReadBalance
  <2> QED BY <2>2, <2>3
<1>13. ReadsBalanced'
  BY <1>12 DEF ReadsBalanced
<1> QED BY <1>8, <1>9, <1>10, <1>11, <1>13 DEF ReadInv

\* A read set comes: it is on the way no longer, and counted.
LEMMA ReadReceive ==
  ASSUME OrderInv, ReadInv, GroupsKept, Sortable', NEW m, ReceiveRwset(m)
  PROVE  ReadInv'
<1>0. TypeOK /\ EpochInv /\ PlaceInv /\ LineInv
  BY DEF OrderInv, IInv
<1>1. /\ m \in rwsetMsgs /\ rwsetMsgs' = rwsetMsgs \ {m}
      /\ receivedTxRWset' = [receivedTxRWset EXCEPT ![m.dest] = [k \in Key |->
           IF k \in m.keys THEN @[k] + 1 ELSE @[k]]]
      /\ UNCHANGED <<sendedrwsetTx, executed, txQueues, blockingTxQueues>>
  BY DEF ReceiveRwset, queueVars
<1>2. EntriesKept /\ ExecutedKept
  BY <1>1 DEF EntriesKept, ExecutedKept, Entered
<1>3. \A x, y, u : InLine(x, y, 1, 1, u)' <=> InLine(x, y, 1, 1, u)
  BY <1>1 DEF InLine
<1>4. EntriesFit'
  BY <1>2, FitsKept DEF ReadInv
<1>5. SentKnown'
  <2> SUFFICES ASSUME NEW p \in Shard, NEW h \in sendedrwsetTx[p] PROVE Known(p, h)'
    BY <1>1 DEF SentKnown
  <2>1. h \in InterTx /\ Known(p, h)
    BY <1>0 DEF ReadInv, SentKnown, TypeOK, RwsetType
  <2>2. \A u \in InterTx : u \in Range(executed[p]) => u \in Range(executed'[p])
    BY <1>2 DEF ExecutedKept
  <2>3. \A y \in Shard : \A u :
          InLine(p, y, 1, 1, u) => InLine(p, y, 1, 1, u)' \/ u \in Range(executed'[p])
    BY <1>3
  <2> QED BY <2>1, <2>2, <2>3, KnownKept
<1>6. HeadsSent' /\ GroupHeadsSent'
  <2>0. \A p \in Shard : sendedrwsetTx[p] \subseteq sendedrwsetTx'[p]
    BY <1>1
  <2>1. ASSUME NEW x \in Shard, NEW u \in InterTx, u \in Range(executed'[x])
        PROVE  /\ IsHead(Coordinator[u], x, u)' => u \in sendedrwsetTx'[x]
               /\ \A h \in InterTx : \A p \in Range(Participants[u]) \ {x} :
                    SameGroup(Coordinator[u], x, u, h)' /\ IsHead(Coordinator[u], x, h)' =>
                      h \in sendedrwsetTx'[p]
    BY <1>2, <2>0, <2>1, HeadsKept DEF ExecutedKept, ReadInv
  <2> QED BY <2>1 DEF HeadsSent, GroupHeadsSent
<1>7. MessagesSent'
  BY <1>1 DEF ReadInv, MessagesSent
<1>8. ASSUME NEW x \in Shard, NEW k \in Key PROVE ReadBalance(x, k)'
  <2>0. ReadBalance(x, k) /\ receivedTxRWset[x][k] \in Nat
    BY <1>0 DEF ReadInv, ReadsBalanced, TypeOK, RwsetType
  <2>1. Used(x, k)' = Used(x, k) /\ Sent(x, k)' = Sent(x, k)
    BY <1>0, <1>1, <1>2, GroupFacts, UsedKept DEF Sent
  <2>2. receivedTxRWset \in [Shard -> [Key -> Nat]]
    BY <1>0 DEF TypeOK, RwsetType
  <2>3. CASE x = m.dest /\ k \in m.keys
    <3>1. receivedTxRWset'[x][k] = receivedTxRWset[x][k] + 1
      BY <1>1, <2>2, <2>3
    <3>2. m \in OnWay(x, k) /\ OnWay(x, k)' = OnWay(x, k) \ {m}
      BY <1>1, <2>3 DEF OnWay
    <3>3. IsFiniteSet(OnWay(x, k)') /\ Cardinality(OnWay(x, k)') = Cardinality(OnWay(x, k)) - 1
      BY <2>0, <3>2, FS_RemoveElement DEF ReadBalance
    <3>4. /\ Cardinality(Sent(x, k)) \in Nat /\ Cardinality(Used(x, k)) \in Nat
          /\ Cardinality(OnWay(x, k)) \in Nat
      BY <2>0, FS_CardinalityType DEF ReadBalance
    <3> QED BY <2>0, <2>1, <3>1, <3>3, <3>4 DEF ReadBalance
  <2>4. CASE ~(x = m.dest /\ k \in m.keys)
    <3>1. receivedTxRWset'[x][k] = receivedTxRWset[x][k]
      BY <1>1, <2>2, <2>4
    <3>2. OnWay(x, k)' = OnWay(x, k)
      BY <1>1, <2>4 DEF OnWay
    <3> QED BY <2>0, <2>1, <3>1, <3>2 DEF ReadBalance
  <2> QED BY <2>3, <2>4
<1>9. ReadsBalanced'
  BY <1>8 DEF ReadsBalanced
<1> QED BY <1>4, <1>5, <1>6, <1>7, <1>9 DEF ReadInv

\* The elements of a sequence that grows.
LEMMA RangeAppend ==
  ASSUME NEW S, NEW A \in Seq(S), NEW x, x \in S
  PROVE  Range(Append(A, x)) = Range(A) \cup {x}
<1>1. /\ DOMAIN Append(A, x) = DOMAIN A \cup {Len(A) + 1} /\ Append(A, x)[Len(A) + 1] = x
      /\ \A i \in DOMAIN A : Append(A, x)[i] = A[i]
  OBVIOUS
<1> QED BY <1>1 DEF Range

\* Transactions of a group wait for the same states.
LEMMA GroupKeys ==
  ASSUME GroupSharesStates, TypeOK, EpochInv, NEW c \in Shard, NEW d \in Shard, NEW t, NEW u,
         SameGroup(c, d, t, u)
  PROVE  Coordinator[t] = c /\ Coordinator[u] = c /\ RemoteKeys(d, t) = RemoteKeys(d, u)
<1>1. /\ t \in InterTx /\ u \in InterTx /\ Coordinator[t] = c /\ Coordinator[u] = c
      /\ Participants[t] = Participants[u]
  BY PlaceFacts DEF SameGroup
<1>2. RwKeys[t] = RwKeys[u]
  BY <1>1 DEF GroupSharesStates
<1> QED BY <1>1, <1>2 DEF RemoteKeys

\* Executing t, which is first in its queue, uses up the read sets of its group if t is the
\* last one of it: then, and only then, the whole group was executed.
LEMMA UsedGrows ==
  ASSUME GroupSharesStates, OrderInv, GroupsKept,
         NEW c \in Shard, NEW d \in Shard, NEW t \in InterTx, InLine(d, c, 1, 1, t), Coordinator[t] = c,
         Started(c, d, t), t \notin Range(executed[d]),
         \A x \in Shard : \A u \in InterTx :
           u \in Range(executed'[x]) <=> u \in Range(executed[x]) \/ (x = d /\ u = t),
         NEW h0 \in InterTx, SameGroup(c, d, t, h0), IsHead(c, d, h0), NEW x \in Shard, NEW k
  PROVE  /\ x = d => h0 \notin Used(x, k)
         /\ x = d /\ k \in RemoteKeys(d, t) /\ IsLast(c, d, t) => Used(x, k)' = Used(x, k) \cup {h0}
         /\ ~(x = d /\ k \in RemoteKeys(d, t) /\ IsLast(c, d, t)) => Used(x, k)' = Used(x, k)
<1>0. TypeOK /\ EpochInv /\ PlaceInv /\ LineInv
  BY DEF OrderInv, IInv
<1>1. ASSUME NEW h
      PROVE  h \in Used(x, k)' <=>
               /\ h \in InterTx /\ Started(Coordinator[h], x, h) /\ IsHead(Coordinator[h], x, h)
               /\ k \in RemoteKeys(x, h)
               /\ \A u : SameGroup(Coordinator[h], x, h, u) => u \in Range(executed'[x])
  <2> DEFINE y == Coordinator[h]
  <2>1. h \in Used(x, k)' <=>
          /\ h \in InterTx /\ Started(y, x, h)' /\ IsHead(y, x, h)' /\ k \in RemoteKeys(x, h)
          /\ \A u : SameGroup(y, x, h, u)' => u \in Range(executed'[x])
    BY DEF Used
  <2>2. h \in InterTx => y \in Shard
    BY TxAssumption
  <2>3. ASSUME h \in InterTx, Started(y, x, h)
        PROVE  /\ Started(y, x, h)'
               /\ IsHead(y, x, h)' <=> IsHead(y, x, h)
               /\ \A u : SameGroup(y, x, h, u)' <=> SameGroup(y, x, h, u)
    BY <2>2, <2>3 DEF GroupsKept
  <2>4. ASSUME h \in Used(x, k)' PROVE Started(y, x, h)
    <3>1. SameGroup(y, x, h, h)'
      BY <2>1, <2>4 DEF Started, SameGroup
    <3>2. h \in Range(executed'[x]) /\ h \in InterTx
      BY <2>1, <2>4, <3>1
    <3>3. h \in Range(executed[x]) \/ (x = d /\ h = t)
      BY <3>2
    <3> QED BY <1>0, <3>2, <3>3, ExecutedStarted
  <2> HIDE DEF y
  <2>5. h \in Used(x, k)' <=>
          /\ h \in InterTx /\ Started(y, x, h) /\ IsHead(y, x, h) /\ k \in RemoteKeys(x, h)
          /\ \A u : SameGroup(y, x, h, u) => u \in Range(executed'[x])
    BY <2>1, <2>3, <2>4
  <2> QED BY <2>5 DEF y
<1>2. ASSUME NEW h, NEW u, h \in InterTx, SameGroup(Coordinator[h], x, h, u) PROVE u \in InterTx
  BY <1>0, <1>2, GroupFacts, TxAssumption
<1>3. Used(x, k) \subseteq Used(x, k)'
  <2> SUFFICES ASSUME NEW h \in Used(x, k) PROVE h \in Used(x, k)'
    OBVIOUS
  <2>1. \A u : SameGroup(Coordinator[h], x, h, u) => u \in Range(executed'[x])
    BY <1>2 DEF Used
  <2> QED BY <1>1, <2>1 DEF Used
<1>4. ASSUME NEW h \in Used(x, k)', h \notin Used(x, k)
      PROVE  x = d /\ k \in RemoteKeys(d, t) /\ IsLast(c, d, t) /\ h = h0
  <2>0. /\ h \in InterTx /\ Started(Coordinator[h], x, h) /\ IsHead(Coordinator[h], x, h)
        /\ k \in RemoteKeys(x, h) /\ Coordinator[h] \in Shard
        /\ \A u : SameGroup(Coordinator[h], x, h, u) => u \in Range(executed'[x])
    BY <1>1, TxAssumption
  <2>1. PICK u : SameGroup(Coordinator[h], x, h, u) /\ u \notin Range(executed[x])
    BY <1>4, <2>0 DEF Used
  <2>2. x = d /\ u = t
    BY <1>2, <2>0, <2>1
  <2>3. Coordinator[h] = c /\ RemoteKeys(d, h) = RemoteKeys(d, t)
    BY <1>0, <2>0, <2>1, <2>2, GroupKeys
  <2>4. SameGroup(c, d, h, t)
    BY <2>1, <2>2, <2>3
  <2>5. h = h0
    <3>1. SameGroup(c, d, h, h0)
      BY <1>0, <2>4, GroupTransitive
    <3> QED BY <1>0, <2>0, <2>2, <2>3, <3>1, OneHead
  <2>6. IsLast(c, d, t)
    <3> SUFFICES ASSUME NEW v \in InterTx, InFront(c, d, t, v) PROVE FALSE
      BY DEF IsLast
    <3>1. SameGroup(c, d, t, v) /\ Ahead(c, d, t, v)
      BY <1>0, GroupFacts
    <3>2. SameGroup(c, d, h, v)
      BY <1>0, <2>4, <3>1, GroupTransitive
    <3>3. v \in Range(executed'[d])
      BY <2>0, <2>2, <2>3, <3>2
    <3>4. ~Ahead(c, d, v, t)
      BY <1>0, <3>1, AheadAsymmetric
    <3>5. v \in Range(executed[d])
      BY <3>1, <3>3, <3>4
    <3>6. PICK i \in DOMAIN executed[d] : executed[d][i] = v
      BY <3>5 DEF Range
    <3>7. i \in Nat
      BY <1>0, <3>6 DEF TypeOK
    <3>8. Coordinator[v] = c
      BY <1>0, <3>1, PlaceFacts DEF SameGroup
    <3>9. InLine(d, c, 0, i, v)
      BY <3>6, <3>8 DEF InLine
    <3> QED BY <1>0, <3>4, <3>7, <3>9 DEF LineInv, LineOrdered
  <2> QED BY <2>0, <2>2, <2>3, <2>5, <2>6
<1>5. x = d => h0 \notin Used(x, k)
  <2>1. Coordinator[h0] = c /\ SameGroup(c, d, h0, t)
    BY <1>0, GroupFacts, GroupKeys
  <2> QED BY <2>1 DEF Used
<1>6. ASSUME x = d, k \in RemoteKeys(d, t), IsLast(c, d, t) PROVE h0 \in Used(x, k)'
  <2>1. /\ Coordinator[h0] = c /\ RemoteKeys(d, h0) = RemoteKeys(d, t) /\ SameGroup(c, d, h0, t)
        /\ Started(c, d, h0)
    BY <1>0, GroupFacts, GroupKeys, GroupStarted
  <2>2. ASSUME NEW u, SameGroup(c, d, h0, u) PROVE u \in Range(executed'[d])
    <3>1. SameGroup(c, d, t, u) /\ u \in InterTx
      BY <1>0, <2>2, GroupTransitive, GroupFacts
    <3>2. u = t \/ InFront(c, d, u, t)
      BY <1>0, <1>6, <3>1, GroupFacts DEF IsLast
    <3>3. InFront(c, d, u, t) => u \in Range(executed[d])
      BY <1>0, GroupFacts, AheadOfFirst
    <3> QED BY <3>1, <3>2, <3>3
  <2> QED BY <1>1, <1>6, <2>1, <2>2
<1>7. CASE x = d /\ k \in RemoteKeys(d, t) /\ IsLast(c, d, t)
  BY <1>3, <1>4, <1>5, <1>6, <1>7
<1>8. CASE ~(x = d /\ k \in RemoteKeys(d, t) /\ IsLast(c, d, t))
  BY <1>3, <1>4, <1>5, <1>8
<1> QED BY <1>7, <1>8, <1>5

\* Executing a cross-shard transaction: the read sets of its group had been sent.
LEMMA ReadExecuteInter ==
  ASSUME ReadSetsMatch, OrderInv, ReadInv, GroupsKept, Sortable',
         NEW d \in Shard, NEW c \in Shard, ExecuteInterShardTx(d, c)
  PROVE  ReadInv'
<1> DEFINE E == Head(txQueues[d][c])
<1>0. TypeOK /\ EpochInv /\ PlaceInv /\ LineInv
  BY DEF OrderInv, IInv
<1>16. txQueues[d][c] # <<>> /\ E.inter
  BY DEF ExecuteInterShardTx
<1>17. PICK t \in InterTx : t = E.tx
  BY <1>16, FirstInLine
<1>1. /\ txQueues[d][c] # <<>> /\ E.inter /\ (E.send = {} \/ t \in sendedrwsetTx[d])
      /\ \A k \in E.recv : receivedTxRWset[d][k] # 0
      /\ receivedTxRWset' = [receivedTxRWset EXCEPT ![d] = [k \in Key |->
           IF E.lastTxInBatch /\ k \in E.recv THEN @[k] - 1 ELSE @[k]]]
      /\ executed' = [executed EXCEPT ![d] = Append(@, t)]
      /\ txQueues' = [txQueues EXCEPT ![d][c] = Tail(@)]
      /\ UNCHANGED <<sendedrwsetTx, rwsetMsgs, blockingTxQueues>>
  BY <1>17 DEF ExecuteInterShardTx, MustSend, Ready, Consume, PopHead
<1>2. /\ Entered(d, c, E) /\ InLine(d, c, 1, 1, t) /\ t \in InterTx
      /\ Coordinator[t] = c /\ d \in Range(Participants[t]) /\ Started(c, d, t)
  BY <1>1, <1>17, FirstInLine
<1>3. /\ E.recv = RemoteKeys(d, t) /\ (E.lastTxInBatch <=> IsLast(c, d, t))
      /\ IsHead(c, d, t) => t \in sendedrwsetTx[d]
  <2>1. EntryFits(c, d, E)
    BY <1>2 DEF ReadInv, EntriesFit
  <2>2. E.recv = RemoteKeys(d, t) /\ (E.lastTxInBatch <=> IsLast(c, d, t))
    BY <1>17, <2>1 DEF EntryFits
  <2>3. IsHead(c, d, t) => E.send = {LocalKey(d, t)}
    BY <1>17, <2>1 DEF EntryFits
  <2> QED BY <1>1, <2>2, <2>3
<1>4. t \notin Range(executed[d])
  BY <1>17, HeadIsNew
<1>5. /\ txQueues \in [Shard -> [Shard -> Seq(Entry)]] /\ executed \in [Shard -> Seq(Tx)]
      /\ receivedTxRWset \in [Shard -> [Key -> Nat]] /\ t \in Tx
  BY <1>0, <1>2 DEF TypeOK, QueueType, RwsetType, Tx
<1>6. PICK h0 \in InterTx : SameGroup(c, d, t, h0) /\ IsHead(c, d, h0)
  BY <1>0, <1>2, HeadExists
<1>7. EntriesKept
  <2> SUFFICES ASSUME NEW x \in Shard, NEW y \in Shard
               PROVE  Range(txQueues'[x][y]) \subseteq Range(txQueues[x][y])
    BY <1>1 DEF EntriesKept, Entered
  <2>1. CASE x = d /\ y = c
    <3> DEFINE S == txQueues[d][c]
    <3>1. txQueues'[d][c] = Tail(S) /\ S \in Seq(Entry) /\ S # <<>>
      BY <1>1, <1>5
    <3> HIDE DEF S
    <3>2. \A i \in DOMAIN Tail(S) : i + 1 \in DOMAIN S /\ Tail(S)[i] = S[i + 1]
      BY <3>1
    <3> QED BY <2>1, <3>1, <3>2 DEF Range, S
  <2>2. CASE ~(x = d /\ y = c)
    <3>1. txQueues'[x][y] = txQueues[x][y]
      BY <1>1, <1>5, <2>2
    <3> QED BY <3>1
  <2> QED BY <2>1, <2>2
<1>8. \A x \in Shard : \A y \in Shard : \A u :
        InLine(x, y, 1, 1, u) => InLine(x, y, 1, 1, u)' \/ (x = d /\ u = t)
  <2> SUFFICES ASSUME NEW x \in Shard, NEW y \in Shard, NEW u, InLine(x, y, 1, 1, u),
                      ~(x = d /\ u = t)
               PROVE  InLine(x, y, 1, 1, u)'
    OBVIOUS
  <2>1. ~(x = d /\ y = c)
    BY <1>1, <1>5, <1>17 DEF InLine
  <2>2. txQueues'[x][y] = txQueues[x][y]
    BY <1>1, <1>5, <2>1
  <2> QED BY <2>2 DEF InLine
<1> HIDE DEF E
<1>9. \A x \in Shard : \A u :
        u \in Range(executed'[x]) <=> u \in Range(executed[x]) \/ (x = d /\ u = t)
  <2>1. \A x \in Shard : x # d => executed'[x] = executed[x]
    BY <1>1, <1>5
  <2>2. Range(executed'[d]) = Range(executed[d]) \cup {t}
    <3>1. executed'[d] = Append(executed[d], t) /\ executed[d] \in Seq(Tx)
      BY <1>1, <1>5
    <3> QED BY <1>5, <3>1, RangeAppend
  <2> QED BY <2>1, <2>2
<1>10. EntriesFit'
  BY <1>7, FitsKept DEF ReadInv
<1>11. SentKnown'
  <2> SUFFICES ASSUME NEW p \in Shard, NEW h \in sendedrwsetTx[p] PROVE Known(p, h)'
    BY <1>1 DEF SentKnown
  <2>1. h \in InterTx /\ Known(p, h)
    BY <1>0 DEF ReadInv, SentKnown, TypeOK, RwsetType
  <2>2. \A u \in InterTx : u \in Range(executed[p]) => u \in Range(executed'[p])
    BY <1>9
  <2>3. \A y \in Shard : \A u :
          InLine(p, y, 1, 1, u) => InLine(p, y, 1, 1, u)' \/ u \in Range(executed'[p])
    BY <1>8, <1>9
  <2> QED BY <2>1, <2>2, <2>3, KnownKept
<1>12. HeadsSent' /\ GroupHeadsSent'
  <2>0. \A p \in Shard : sendedrwsetTx[p] \subseteq sendedrwsetTx'[p]
    BY <1>1
  <2>1. ASSUME NEW x \in Shard, NEW u \in InterTx, u \in Range(executed[x])
        PROVE  /\ IsHead(Coordinator[u], x, u)' => u \in sendedrwsetTx'[x]
               /\ \A h \in InterTx : \A p \in Range(Participants[u]) \ {x} :
                    SameGroup(Coordinator[u], x, u, h)' /\ IsHead(Coordinator[u], x, h)' =>
                      h \in sendedrwsetTx'[p]
    BY <2>0, <2>1, HeadsKept DEF ReadInv
  <2>2. IsHead(c, d, t)' => t \in sendedrwsetTx'[d]
    BY <1>1, <1>2, <1>3 DEF GroupsKept
  <2>3. ASSUME NEW h \in InterTx, NEW p \in Range(Participants[t]) \ {d},
               SameGroup(c, d, t, h)', IsHead(c, d, h)'
        PROVE  h \in sendedrwsetTx'[p]
    <3>1. SameGroup(c, d, t, h)
      BY <1>2, <2>3 DEF GroupsKept
    <3>2. Started(c, d, h)
      BY <1>0, <1>2, <3>1, GroupStarted
    <3>3. IsHead(c, d, h)
      BY <2>3, <3>2 DEF GroupsKept
    <3>4. \A k \in RemoteKeys(d, t) : receivedTxRWset[d][k] # 0
      BY <1>1, <1>3
    <3>5. h \in sendedrwsetTx[p]
      BY <1>2, <3>1, <3>3, <3>4, ReadyMeansSent DEF ReadInv
    <3> QED BY <1>1, <3>5
  <2>4. ASSUME NEW x \in Shard, NEW u \in InterTx, u \in Range(executed'[x])
        PROVE  /\ IsHead(Coordinator[u], x, u)' => u \in sendedrwsetTx'[x]
               /\ \A h \in InterTx : \A p \in Range(Participants[u]) \ {x} :
                    SameGroup(Coordinator[u], x, u, h)' /\ IsHead(Coordinator[u], x, h)' =>
                      h \in sendedrwsetTx'[p]
    <3>1. CASE u \in Range(executed[x])
      BY <2>1, <3>1
    <3>2. CASE x = d /\ u = t
      BY <1>2, <2>2, <2>3, <3>2
    <3> QED BY <1>9, <2>4, <3>1, <3>2
  <2> QED BY <2>4 DEF HeadsSent, GroupHeadsSent
<1>13. MessagesSent'
  BY <1>1 DEF ReadInv, MessagesSent
<1>14. ASSUME NEW x \in Shard, NEW k \in Key PROVE ReadBalance(x, k)'
  <2>0. ReadBalance(x, k) /\ receivedTxRWset[x][k] \in Nat
    BY <1>5 DEF ReadInv, ReadsBalanced
  <2>1. Sent(x, k)' = Sent(x, k) /\ OnWay(x, k)' = OnWay(x, k)
    BY <1>1 DEF Sent, OnWay
  <2>2. /\ x = d => h0 \notin Used(x, k)
        /\ x = d /\ k \in RemoteKeys(d, t) /\ IsLast(c, d, t) => Used(x, k)' = Used(x, k) \cup {h0}
        /\ ~(x = d /\ k \in RemoteKeys(d, t) /\ IsLast(c, d, t)) => Used(x, k)' = Used(x, k)
    <3>1. \A y \in Shard : \A u \in InterTx :
            u \in Range(executed'[y]) <=> u \in Range(executed[y]) \/ (y = d /\ u = t)
      BY <1>9
    <3>2. /\ GroupSharesStates /\ t \in InterTx /\ InLine(d, c, 1, 1, t) /\ Coordinator[t] = c
          /\ Started(c, d, t) /\ t \notin Range(executed[d])
          /\ h0 \in InterTx /\ SameGroup(c, d, t, h0) /\ IsHead(c, d, h0)
      BY <1>2, <1>4, <1>6 DEF ReadSetsMatch
    <3> HIDE DEF ReadInv
    <3> QED BY <3>1, <3>2, UsedGrows
  <2>3. CASE x = d /\ k \in RemoteKeys(d, t) /\ IsLast(c, d, t)
    <3>1. receivedTxRWset'[x][k] = receivedTxRWset[x][k] - 1 /\ receivedTxRWset[x][k] # 0
      BY <1>1, <1>3, <1>5, <2>3
    <3>2. IsFiniteSet(Used(x, k)') /\ Cardinality(Used(x, k)') = Cardinality(Used(x, k)) + 1
      BY <2>0, <2>2, <2>3, FS_AddElement DEF ReadBalance
    <3>3. /\ Cardinality(Sent(x, k)) \in Nat /\ Cardinality(Used(x, k)) \in Nat
          /\ Cardinality(OnWay(x, k)) \in Nat
      BY <2>0, FS_CardinalityType DEF ReadBalance
    <3> QED BY <2>0, <2>1, <3>1, <3>2, <3>3 DEF ReadBalance
  <2>4. CASE ~(x = d /\ k \in RemoteKeys(d, t) /\ IsLast(c, d, t))
    <3>1. receivedTxRWset'[x][k] = receivedTxRWset[x][k]
      BY <1>1, <1>3, <1>5, <2>4
    <3> QED BY <2>0, <2>1, <2>2, <2>4, <3>1 DEF ReadBalance
  <2> QED BY <2>3, <2>4
<1>15. ReadsBalanced'
  BY <1>14 DEF ReadsBalanced
<1> QED BY <1>10, <1>11, <1>12, <1>13, <1>15 DEF ReadInv

\* Intra-shard transactions send, wait for and use up no read sets.
LEMMA ReadIntra ==
  ASSUME OrderInv, ReadInv, GroupsKept, Sortable', NEW d \in Shard,
         \/ \E x \in IntraTx : ProcessSingleIntraShardTx(d, x)
         \/ \E c \in Shard : ExecuteBlockedIntraShardTx(d, c)
  PROVE  ReadInv'
<1>0. TypeOK /\ EpochInv /\ PlaceInv /\ LineInv
  BY DEF OrderInv, IInv
<1>1. /\ executed \in [Shard -> Seq(Tx)] /\ txQueues \in [Shard -> [Shard -> Seq(Entry)]]
      /\ blockingTxQueues \in [Shard -> [Shard -> Seq(Entry)]]
  BY <1>0 DEF TypeOK, QueueType
<1>2. ASSUME NEW x \in IntraTx,
             executed' = [executed EXCEPT ![d] = Append(@, x)] \/ executed' = executed
      PROVE  ExecutedKept
  <2>1. CASE executed' = executed
    BY <2>1 DEF ExecutedKept
  <2>2. CASE executed' = [executed EXCEPT ![d] = Append(@, x)]
    <3>1. x \in Tx /\ x \notin InterTx
      BY ShardAssumption DEF Tx
    <3>2. executed'[d] = Append(executed[d], x) /\ \A y \in Shard : y # d => executed'[y] = executed[y]
      BY <1>1, <2>2
    <3>3. Range(executed'[d]) = Range(executed[d]) \cup {x}
      BY <1>1, <3>1, <3>2, RangeAppend
    <3> QED BY <3>1, <3>2, <3>3 DEF ExecutedKept
  <2> QED BY <1>2, <2>1, <2>2
<1>3. ASSUME NEW x \in IntraTx, ProcessSingleIntraShardTx(d, x) PROVE ReadInv'
  <2> DEFINE Q == BlockingQueueKeys(d, x)
             z == FirstQueue(d, Q)
             entry == IntraEntry(x, Q)
  <2>1. UNCHANGED <<txQueues, rwsetVars>>
    BY <1>3 DEF ProcessSingleIntraShardTx
  <2>2. \/ executed' = [executed EXCEPT ![d] = Append(@, x)] /\ UNCHANGED blockingTxQueues
        \/ /\ blockingTxQueues' = [blockingTxQueues EXCEPT ![d][z] = Append(@, entry)]
           /\ UNCHANGED executed
    BY <1>3 DEF ProcessSingleIntraShardTx
  <2>3. ExecutedKept
    BY <1>2, <2>2
  <2>4. FirstKept
    BY <2>1 DEF FirstKept, InLine
  <2>5. ~entry.inter
    BY DEF IntraEntry
  <2> HIDE DEF z, entry
  <2>6. EntriesKept
    <3> SUFFICES ASSUME NEW e \in Shard, NEW y \in Shard, NEW E, Entered(e, y, E)'
                 PROVE  Entered(e, y, E)
      BY DEF EntriesKept
    <3>1. CASE blockingTxQueues'[e][y] = blockingTxQueues[e][y]
      BY <2>1, <3>1 DEF Entered
    <3>2. CASE /\ blockingTxQueues' = [blockingTxQueues EXCEPT ![d][z] = Append(@, entry)]
               /\ e = d /\ y = z
      <4> DEFINE B == blockingTxQueues[e][y]
      <4>1. blockingTxQueues'[e][y] = Append(B, entry) /\ B \in Seq(Entry)
        BY <1>1, <3>2
      <4> HIDE DEF B
      <4>2. /\ DOMAIN Append(B, entry) = DOMAIN B \cup {Len(B) + 1}
            /\ Append(B, entry)[Len(B) + 1] = entry /\ \A i \in DOMAIN B : Append(B, entry)[i] = B[i]
        BY <4>1
      <4>3. E # entry /\ (E \in Range(txQueues[e][y]) \/ E \in Range(Append(B, entry))) /\ E.inter
        BY <2>1, <2>5, <4>1 DEF Entered
      <4>4. E \in Range(Append(B, entry)) => E \in Range(B)
        BY <4>2, <4>3 DEF Range
      <4> QED BY <4>3, <4>4 DEF Entered, B
    <3>3. CASE /\ blockingTxQueues' = [blockingTxQueues EXCEPT ![d][z] = Append(@, entry)]
               /\ ~(e = d /\ y = z)
      <4>1. blockingTxQueues'[e][y] = blockingTxQueues[e][y]
        BY <1>1, <3>3
      <4> QED BY <3>1, <4>1
    <3> QED BY <2>2, <3>1, <3>2, <3>3
  <2> QED BY <2>1, <2>3, <2>4, <2>6, ReadKept
<1>4. ASSUME NEW c \in Shard, ExecuteBlockedIntraShardTx(d, c) PROVE ReadInv'
  <2> DEFINE E == Head(txQueues[d][c])
  <2>1. /\ txQueues[d][c] # <<>> /\ ~E.inter
        /\ executed' = [executed EXCEPT ![d] = Append(@, E.tx)] \/ executed' = executed
        /\ txQueues' = [txQueues EXCEPT ![d][c] = Tail(@)]
        /\ UNCHANGED <<blockingTxQueues, rwsetVars>>
    BY <1>1, <1>4 DEF ExecuteBlockedIntraShardTx, PopHead
  <2>2. E.tx \in IntraTx
    <3>1. E \in Entry
      BY <1>0, <2>1, HeadType
    <3> QED BY <2>1, <3>1 DEF Entry, InterEntrySet, IntraEntrySet
  <2>3. ExecutedKept
    BY <1>2, <2>1, <2>2
  <2>4. ASSUME NEW x \in Shard, NEW y \in Shard
        PROVE  /\ Range(txQueues'[x][y]) \subseteq Range(txQueues[x][y])
               /\ \A u : InLine(x, y, 1, 1, u) => InLine(x, y, 1, 1, u)'
    <3>1. CASE x = d /\ y = c
      <4> DEFINE S == txQueues[d][c]
      <4>1. txQueues'[d][c] = Tail(S) /\ S \in Seq(Entry) /\ S # <<>> /\ ~S[1].inter
        BY <1>1, <2>1
      <4> HIDE DEF S
      <4>2. \A i \in DOMAIN Tail(S) : i + 1 \in DOMAIN S /\ Tail(S)[i] = S[i + 1]
        BY <4>1
      <4>3. \A u : ~InLine(d, c, 1, 1, u)
        BY <4>1 DEF InLine, S
      <4> QED BY <3>1, <4>1, <4>2, <4>3 DEF Range, S
    <3>2. CASE ~(x = d /\ y = c)
      <4>1. txQueues'[x][y] = txQueues[x][y]
        BY <1>1, <2>1, <3>2
      <4> QED BY <4>1 DEF InLine
    <3> QED BY <3>1, <3>2
  <2>5. EntriesKept
    BY <2>1, <2>4 DEF EntriesKept, Entered
  <2>6. FirstKept
    BY <2>4 DEF FirstKept
  <2>7. UNCHANGED rwsetVars
    BY <2>1
  <2> QED BY <2>3, <2>5, <2>6, <2>7, ReadKept
<1> QED BY <1>3, <1>4

\* batch_pop moves the entries as they are.
LEMMA ReadBatchPop ==
  ASSUME OrderInv, ReadInv, GroupsKept, Sortable', NEW d \in Shard, NEW c \in Shard, BatchPop(d, c)
  PROVE  ReadInv'
<1>1. /\ txQueues[d][c] = <<>> /\ UNCHANGED <<executed, rwsetVars>>
      /\ txQueues' = [txQueues EXCEPT ![d][c] = blockingTxQueues[d][c]]
      /\ blockingTxQueues' = [blockingTxQueues EXCEPT ![d][c] = <<>>]
  BY DEF BatchPop
<1>2. /\ blockingTxQueues \in [Shard -> [Shard -> Seq(Entry)]]
      /\ txQueues \in [Shard -> [Shard -> Seq(Entry)]]
  BY DEF OrderInv, IInv, TypeOK, QueueType
<1>3. ASSUME NEW x \in Shard, NEW y \in Shard
      PROVE  /\ Range(txQueues'[x][y]) \cup Range(blockingTxQueues'[x][y])
                  \subseteq Range(txQueues[x][y]) \cup Range(blockingTxQueues[x][y])
             /\ \A u : InLine(x, y, 1, 1, u) => InLine(x, y, 1, 1, u)'
  <2>1. CASE x = d /\ y = c
    <3>1. txQueues'[d][c] = blockingTxQueues[d][c] /\ blockingTxQueues'[d][c] = <<>>
      BY <1>1, <1>2
    <3>2. Range(blockingTxQueues'[d][c]) = {}
      BY <3>1 DEF Range
    <3>3. \A u : ~InLine(d, c, 1, 1, u)
      BY <1>1 DEF InLine
    <3> QED BY <2>1, <3>1, <3>2, <3>3
  <2>2. CASE ~(x = d /\ y = c)
    <3>1. txQueues'[x][y] = txQueues[x][y] /\ blockingTxQueues'[x][y] = blockingTxQueues[x][y]
      BY <1>1, <1>2, <2>2
    <3> QED BY <3>1 DEF InLine
  <2> QED BY <2>1, <2>2
<1>4. EntriesKept
  BY <1>3 DEF EntriesKept, Entered
<1>5. FirstKept
  BY <1>3 DEF FirstKept
<1>6. ExecutedKept /\ UNCHANGED rwsetVars
  BY <1>1 DEF ExecutedKept
<1> QED BY <1>4, <1>5, <1>6, ReadKept

\* Starting a batch: its entries carry what their places ask for.
LEMMA ReadProcessBatch ==
  ASSUME ReadSetsMatch, OrderInv, ReadInv, GroupsKept, [Next]_vars,
         NEW d \in Shard, NEW c \in Shard, NEW b \in Batch,
         NEW e, e = precessedEpochIds[d][c] + 1, Produced(c, d, e, b),
         ProcessBatchSubInterShardTxs(d, c, b),
         precessedEpochIds' = [precessedEpochIds EXCEPT ![d][c] = e],
         UNCHANGED <<subTxs, epochIds, flushed, executed, rwsetVars>>
  PROVE  ReadInv'
<1>0. TypeOK /\ EpochInv /\ PlaceInv /\ LineInv
  BY DEF OrderInv, IInv
<1>1. PICK r \in Reorderings(b) :
        /\ blockingTxQueues' = [blockingTxQueues EXCEPT ![d][c] = @ \o InterEntries(d, r)]
        /\ UNCHANGED txQueues
  BY DEF ProcessBatchSubInterShardTxs
<1>2. /\ e \in DOMAIN flushed[c][d] /\ b = flushed[c][d][e]
      /\ blockingTxQueues \in [Shard -> [Shard -> Seq(Entry)]]
      /\ precessedEpochIds \in [Shard -> [Shard -> Nat]]
  BY <1>0 DEF Produced, TypeOK, QueueType, EpochType
<1>3. \A k \in DOMAIN r : EntryFits(c, d, InterEntry(d, r, k))
  BY <1>0, <1>2, SortedFits DEF ReadSetsMatch
<1>4. InterEntries(d, r) \in Seq(Entry)
  <2>1. IsBatchFor(c, d, b)
    BY <1>0, <1>2 DEF EpochInv, Addressed
  <2>2. r \in Batch /\ \A k \in DOMAIN r : \E i \in DOMAIN b : r[k] = b[i]
    BY ReorderingType
  <2>3. \A k \in DOMAIN r : d \in Range(Participants[r[k]])
    BY <2>1, <2>2 DEF IsBatchFor
  <2> QED BY <2>2, <2>3, InterEntriesType
<1>5. \A y, x, E : EntryFits(y, x, E) => EntryFits(y, x, E)'
  <2>1. \A y, x, f, i, t : PlacedAt(y, x, f, i, t)' <=> PlacedAt(y, x, f, i, t)
    BY DEF PlacedAt
  <2>2. \A y, x, t, u : InFront(y, x, t, u)' <=> InFront(y, x, t, u)
    BY <2>1 DEF InFront, EarlierInBatch
  <2>3. \A y, x, t : /\ IsHead(y, x, t)' <=> IsHead(y, x, t)
                     /\ IsLast(y, x, t)' <=> IsLast(y, x, t)
    BY <2>2 DEF IsHead, IsLast
  <2> QED BY <2>3 DEF EntryFits
<1>6. EntriesKept
  <2> SUFFICES ASSUME NEW x \in Shard, NEW y \in Shard, NEW E, Entered(x, y, E)'
               PROVE  Entered(x, y, E) \/ EntryFits(y, x, E)
    BY <1>5 DEF EntriesKept
  <2>1. CASE x = d /\ y = c
    <3> DEFINE B == blockingTxQueues[d][c]
               I == InterEntries(d, r)
    <3>1. blockingTxQueues'[d][c] = B \o I /\ B \in Seq(Entry) /\ I \in Seq(Entry)
      BY <1>1, <1>2, <1>4
    <3>2. \A k \in DOMAIN I : k \in DOMAIN r /\ I[k] = InterEntry(d, r, k)
      BY DEF InterEntries
    <3> HIDE DEF B, I
    <3>3. Range(B \o I) \subseteq Range(B) \cup Range(I)
      <4>1. /\ \A i : i \in DOMAIN (B \o I) <=> i \in DOMAIN B \/ \E k \in DOMAIN I : i = Len(B) + k
            /\ \A k \in DOMAIN B : (B \o I)[k] = B[k]
            /\ \A k \in DOMAIN I : (B \o I)[Len(B) + k] = I[k]
        BY <3>1, ConcatElements
      <4> QED BY <4>1 DEF Range
    <3>4. E \in Range(I) => EntryFits(c, d, E)
      BY <1>3, <3>2 DEF Range
    <3>5. E.inter /\ (E \in Range(txQueues[d][c]) \/ E \in Range(B \o I))
      BY <1>1, <2>1, <3>1 DEF Entered
    <3> QED BY <2>1, <3>3, <3>4, <3>5 DEF Entered, B
  <2>2. CASE ~(x = d /\ y = c)
    <3>1. blockingTxQueues'[x][y] = blockingTxQueues[x][y]
      BY <1>1, <1>2, <2>2
    <3> QED BY <1>1, <3>1 DEF Entered
  <2> QED BY <2>1, <2>2
<1>7. FirstKept /\ ExecutedKept
  BY <1>1 DEF FirstKept, InLine, ExecutedKept
<1>8. Sortable'
  <2>1. ASSUME NEW y \in Shard, NEW x \in Shard, NEW f \in 1..precessedEpochIds'[x][y]
        PROVE  f \in 1..precessedEpochIds[x][y]
                 \/ (f \in DOMAIN flushed[y][x] /\ Reorderings(flushed[y][x][f]) # {})
    <3>1. CASE x = d /\ y = c
      <4>1. precessedEpochIds'[d][c] = precessedEpochIds[d][c] + 1 /\ precessedEpochIds[d][c] \in Nat
        BY <1>2
      <4>2. f \in 1..precessedEpochIds[x][y] \/ f = e
        BY <2>1, <3>1, <4>1
      <4> QED BY <1>1, <1>2, <3>1, <4>2
    <3>2. CASE ~(x = d /\ y = c)
      <4>1. precessedEpochIds'[x][y] = precessedEpochIds[x][y]
        BY <1>2, <3>2
      <4> QED BY <2>1, <4>1
    <3> QED BY <3>1, <3>2
  <2> QED BY <1>0, <2>1, SortableKept DEF ReadInv
<1>9. UNCHANGED rwsetVars
  OBVIOUS
<1> QED BY <1>6, <1>7, <1>8, <1>9, ReadKept

\* Every step of every thread keeps the invariant.
LEMMA ReadNext ==
  ASSUME ReadSetsMatch, OrderInv, ReadInv, [Next]_vars, OrderInv' PROVE ReadInv'
<1>0. TypeOK /\ EpochInv /\ PlaceInv /\ LineInv /\ TypeOK' /\ EpochInv' /\ PlaceInv'
  BY DEF OrderInv, IInv
<1>1. GroupsKept
  BY <1>0, StepGroups
<1>2. ASSUME UNCHANGED precessedEpochIds PROVE Sortable'
  BY <1>0, <1>2, SortableKept DEF ReadInv
<1>3. ASSUME UNCHANGED <<precessedEpochIds, executed, txQueues, blockingTxQueues, rwsetVars>>
      PROVE  ReadInv'
  <2>1. EntriesKept /\ FirstKept /\ ExecutedKept
    BY <1>3 DEF EntriesKept, Entered, FirstKept, InLine, ExecutedKept
  <2> QED BY <1>1, <1>2, <1>3, <2>1, ReadKept
<1>4. CASE UNCHANGED vars
  BY <1>3, <1>4 DEF vars, epochVars, queueVars
<1>5. ASSUME NEW s \in Shard, ConsensusThread(s) PROVE ReadInv'
  <2>1. ASSUME NEW t \in InterTx, ProcessInterShardTx(s, t) PROVE ReadInv'
    BY <1>3, <2>1 DEF ProcessInterShardTx, epochVars, queueVars
  <2>2. ASSUME NEW x \in IntraTx, ProcessSingleIntraShardTx(s, x) PROVE ReadInv'
    <3>1. UNCHANGED precessedEpochIds
      BY <2>2 DEF ProcessSingleIntraShardTx, epochVars
    <3> QED BY <1>1, <1>2, <2>2, <3>1, ReadIntra
  <2>3. ASSUME NEW item \in pool[s], ProcessOrderedBatchedSubInterShardTxs(s, item) PROVE ReadInv'
    <3>1. item.kind = "BatchedSubInterShard" /\ item \in BatchItem
      BY <1>0, <2>3 DEF ProcessOrderedBatchedSubInterShardTxs, TypeOK, PoolType, InterItem, IntraItem
    <3>2. item.coord \in Shard /\ item.txs \in Batch
      BY <3>1 DEF BatchItem
    <3>3. UNCHANGED <<subTxs, epochIds, flushed, executed, rwsetVars>>
      BY <2>3 DEF ProcessOrderedBatchedSubInterShardTxs
    <3>4. Produced(item.coord, s, item.epoch, item.txs)
      BY <1>0, <3>1 DEF EpochInv, InTransitProduced
    <3>5. CASE ProcessNextEpoch(s, item)
      <4>1. /\ item.epoch = precessedEpochIds[s][item.coord] + 1
            /\ ProcessBatchSubInterShardTxs(s, item.coord, item.txs)
            /\ precessedEpochIds' = [precessedEpochIds EXCEPT ![s][item.coord] = item.epoch]
        BY <3>5 DEF ProcessNextEpoch
      <4> QED BY <1>1, <3>2, <3>3, <3>4, <4>1, ReadProcessBatch
    <3>6. CASE CacheBatch(s, item)
      BY <1>3, <3>3, <3>6 DEF CacheBatch, queueVars
    <3> QED BY <2>3, <3>5, <3>6 DEF ProcessOrderedBatchedSubInterShardTxs
  <2>4. CASE DrainCachedBatch(s)
    <3> DEFINE c == draining[s]
               e == precessedEpochIds[s][c] + 1
               b == cachedBatchTxs[s][c][e]
    <3>1. c \in Shard
      BY <1>0, <2>4 DEF DrainCachedBatch, TypeOK, EpochType
    <3>2. e \in DOMAIN cachedBatchTxs[s][c]
      BY <1>0, <2>4 DEF DrainCachedBatch, EpochInv, EpochCounters
    <3>3. b \in Batch
      BY <1>0, <3>1, <3>2 DEF TypeOK, EpochType, CacheType
    <3>4. Produced(c, s, e, b)
      BY <1>0, <3>1, <3>2 DEF EpochInv, InTransitProduced
    <3>5. /\ ProcessBatchSubInterShardTxs(s, c, b)
          /\ UNCHANGED <<subTxs, epochIds, flushed, executed, rwsetVars>>
          /\ precessedEpochIds' = [precessedEpochIds EXCEPT ![s][c] = e]
          /\ e = precessedEpochIds[s][c] + 1
      BY <2>4 DEF DrainCachedBatch, coordVars
    <3> HIDE DEF b, e, c
    <3> QED BY <1>1, <3>1, <3>3, <3>4, <3>5, ReadProcessBatch
  <2>5. CASE EndOfBlock(s)
    BY <1>3, <2>5 DEF EndOfBlock, epochVars, queueVars
  <2> QED BY <1>5, <2>1, <2>2, <2>3, <2>4, <2>5 DEF ConsensusThread
<1>6. ASSUME NEW s \in Shard, MessageThread(s) \/ CommitThread(s) PROVE ReadInv'
  <2>1. ASSUME NEW m, ReceiveRwset(m) PROVE ReadInv'
    <3>1. UNCHANGED precessedEpochIds
      BY <2>1 DEF ReceiveRwset, epochVars
    <3> QED BY <1>1, <1>2, <2>1, <3>1, ReadReceive
  <2>2. ASSUME NEW m, ReceiveBatchDistributedTxMsg(m) \/ ReceiveCommit(m) PROVE ReadInv'
    BY <1>3, <2>2 DEF ReceiveBatchDistributedTxMsg, ReceiveCommit, epochVars, queueVars
  <2> QED BY <1>6, <2>1, <2>2 DEF MessageThread, CommitThread
<1>7. ASSUME NEW d \in Shard, NEW c \in Shard, BlockingThread(d, c) PROVE ReadInv'
  <2>1. UNCHANGED precessedEpochIds
    BY <1>7 DEF BlockingThread, BatchPop, SendReadWriteSet, ExecuteInterShardTx,
                ExecuteBlockedIntraShardTx, epochVars
  <2>2. Sortable'
    BY <1>2, <2>1
  <2> QED BY <1>1, <1>7, <2>2, ReadBatchPop, ReadSend, ReadExecuteInter, ReadIntra DEF BlockingThread
<1> QED BY <1>4, <1>5, <1>6, <1>7 DEF Next, Idle

\* Initially nothing was sent and nothing is executed.
LEMMA ReadInit == Init => ReadInv
<1> SUFFICES ASSUME Init PROVE ReadInv
  OBVIOUS
<1>1. /\ \A p \in Shard : sendedrwsetTx[p] = {} /\ executed[p] = <<>>
      /\ rwsetMsgs = {} /\ \A c, d \in Shard : precessedEpochIds[d][c] = 0
      /\ \A d, c \in Shard : txQueues[d][c] = <<>> /\ blockingTxQueues[d][c] = <<>>
      /\ \A d \in Shard, k \in Key : receivedTxRWset[d][k] = 0
  BY DEF Init
<1>2. \A p \in Shard : Range(executed[p]) = {}
  BY <1>1 DEF Range
<1>3. EntriesFit /\ SentKnown /\ HeadsSent /\ GroupHeadsSent /\ MessagesSent
  BY <1>1, <1>2 DEF EntriesFit, Entered, Range, SentKnown, HeadsSent, GroupHeadsSent, MessagesSent
<1>4. Sortable
  BY <1>1 DEF Sortable
<1>5. ASSUME NEW d \in Shard, NEW k \in Key PROVE ReadBalance(d, k)
  <2>1. Sent(d, k) = {}
    BY <1>1, TxAssumption DEF Sent, Range
  <2>2. OnWay(d, k) = {}
    BY <1>1 DEF OnWay
  <2>3. Used(d, k) = {}
    <3> SUFFICES ASSUME NEW h \in Used(d, k) PROVE FALSE
      OBVIOUS
    <3>1. Started(Coordinator[h], d, h) /\ \A u : SameGroup(Coordinator[h], d, h, u) => u \in Range(executed[d])
      BY DEF Used
    <3>2. SameGroup(Coordinator[h], d, h, h)
      BY <3>1, InOwnGroup
    <3> QED BY <1>2, <3>1, <3>2
  <2> QED BY <1>1, <2>1, <2>2, <2>3, FS_EmptySet DEF ReadBalance
<1>6. ReadsBalanced
  BY <1>5 DEF ReadsBalanced
<1> QED BY <1>3, <1>4, <1>6 DEF ReadInv

\* The head that the property names is the one that the streams have.
LEMMA BatchHeadIs ==
  ASSUME TypeOK, EpochInv, PlaceInv, Sortable, NEW c \in Shard, NEW d \in Shard,
         NEW t \in InterTx, Started(c, d, t)
  PROVE  SameGroup(c, d, t, BatchHead(c, d, t)) /\ IsHead(c, d, BatchHead(c, d, t))
<1>1. PICK e0, i0 \in Nat : PlacedAt(c, d, e0, i0, t) /\ e0 <= precessedEpochIds[d][c]
  BY DEF Started
<1>2. /\ flushed[c][d] \in Seq(Batch) /\ epochIds[c][d] = Len(flushed[c][d]) + 1
      /\ precessedEpochIds[d][c] \in Nat /\ precessedEpochIds[d][c] < epochIds[c][d]
  BY DEF TypeOK, CoordType, EpochType, EpochInv, EpochCounters, InEpochOrder
<1>3. /\ e0 \in DOMAIN flushed[c][d] /\ i0 \in DOMAIN flushed[c][d][e0]
      /\ flushed[c][d][e0][i0] = t /\ e0 \in 1..precessedEpochIds[d][c]
  BY <1>1, <1>2 DEF PlacedAt
<1> DEFINE e == CHOOSE i \in DOMAIN flushed[c][d] : t \in Range(flushed[c][d][i])
<1>4. e \in DOMAIN flushed[c][d] /\ t \in Range(flushed[c][d][e])
  BY <1>3 DEF Range
<1>5. e = e0
  <2>1. PICK i \in DOMAIN flushed[c][d][e] : flushed[c][d][e][i] = t
    BY <1>4 DEF Range
  <2>2. e \in Nat /\ i \in Nat
    <3> HIDE DEF e
    <3>1. flushed[c][d][e] \in Batch
      BY <1>2, <1>4
    <3> QED BY <1>2, <1>4, <2>1, <3>1 DEF Batch
  <2>3. PlacedAt(c, d, e, i, t)
    BY <1>4, <2>1 DEF PlacedAt
  <2> QED BY <1>1, <2>2, <2>3 DEF PlaceInv, PlacedOnce
<1> DEFINE b == flushed[c][d][e]
           r == CHOOSE r \in Reorderings(b) : TRUE
<1>6. r \in Reorderings(b)
  BY <1>3, <1>5 DEF Sortable
<1>7. BatchHead(c, d, t) = LET k == CHOOSE k \in DOMAIN r : /\ Participants[r[k]] = Participants[t]
                                                            /\ \A j \in SameBatch(r, k) : k <= j
                           IN r[k]
  BY DEF BatchHead
<1> HIDE DEF r, e, b
<1>8. b = flushed[c][d][e] /\ b \in Batch
  BY <1>2, <1>4 DEF b
<1>9. PICK h \in InterTx : SameGroup(c, d, t, h) /\ IsHead(c, d, h)
  BY HeadExists
<1>10. PICK k0 \in DOMAIN r : r[k0] = t
  BY <1>3, <1>5, <1>6, <1>8, ReorderingOnto
<1>11. PICK k1 \in SameBatch(r, k0) : r[k1] = h
  BY <1>4, <1>6, <1>8, <1>9, <1>10, SortedWhole
<1>12. k1 \in DOMAIN r /\ Participants[r[k1]] = Participants[t]
  BY <1>10, <1>11 DEF SameBatch
<1>13. \A j \in SameBatch(r, k1) : k1 <= j
  BY <1>4, <1>6, <1>8, <1>9, <1>11, <1>12, SortedEnds
<1> DEFINE k == CHOOSE k \in DOMAIN r : /\ Participants[r[k]] = Participants[t]
                                        /\ \A j \in SameBatch(r, k) : k <= j
<1>14. /\ k \in DOMAIN r /\ Participants[r[k]] = Participants[t]
       /\ \A j \in SameBatch(r, k) : k <= j
  BY <1>12, <1>13
<1>15. BatchHead(c, d, t) = r[k]
  BY <1>7
<1> HIDE DEF k
<1>16. IsHead(c, d, r[k])
  BY <1>4, <1>6, <1>8, <1>14, SortedEnds
<1>17. SameGroup(c, d, t, r[k])
  BY <1>4, <1>6, <1>8, <1>10, <1>14, SortedGroup
<1> QED BY <1>15, <1>16, <1>17

\* A shard executes a cross-shard transaction only after every other participant has sent
\* the read set of the group the transaction belongs to (checkReadWriteKeyReady), as long as
\* a state belongs to one shard, the transactions on a state of a shard have one
\* coordinator, and those that are sent for at once access the same states.  The counters
\* per state (receivedTxRWset) do not say whose read set has come: they need not, because
\* the shards send in the order in which the others use up.
THEOREM ReadSetBeforeExecuteCorrect ==
  ASSUME ReadSetsMatch
  PROVE  SafeSpec => []ReadSetBeforeExecute
<1> DEFINE Inv == OrderInv /\ ReadInv
<1>1. Init => Inv
  BY IInvInit, OrderInit, ReadInit DEF OrderInv
<1>2. Inv /\ [Next]_vars => Inv'
  <2> SUFFICES ASSUME OrderInv, ReadInv, [Next]_vars PROVE Inv'
    OBVIOUS
  <2>1. OrderInv'
    BY IInvNext, OrderNext DEF OrderInv, IInv
  <2>2. ReadInv'
    BY <2>1, ReadNext
  <2> QED BY <2>1, <2>2
<1>3. Inv => ReadSetBeforeExecute
  <2> SUFFICES ASSUME OrderInv, ReadInv, NEW d \in Shard, NEW i \in DOMAIN executed[d],
                      executed[d][i] \in InterTx, NEW p \in Range(Participants[executed[d][i]]) \ {d}
               PROVE  BatchHead(Coordinator[executed[d][i]], d, executed[d][i]) \in sendedrwsetTx[p]
    BY DEF ReadSetBeforeExecute
  <2>0. TypeOK /\ EpochInv /\ PlaceInv /\ LineInv
    BY DEF OrderInv, IInv
  <2> DEFINE t == executed[d][i]
             c == Coordinator[t]
             h == BatchHead(c, d, t)
  <2>1. t \in InterTx /\ t \in Range(executed[d])
    BY DEF Range
  <2>2. c \in Shard /\ Started(c, d, t)
    BY <2>0, <2>1, ExecutedStarted
  <2>3. SameGroup(c, d, t, h) /\ IsHead(c, d, h)
    BY <2>0, <2>1, <2>2, BatchHeadIs DEF ReadInv
  <2>4. h \in InterTx
    BY <2>0, <2>2, <2>3, GroupFacts
  <2>5. h \in sendedrwsetTx[p]
    <3> HIDE DEF h
    <3> QED BY <2>1, <2>3, <2>4 DEF ReadInv, GroupHeadsSent
  <2> QED BY <2>5
<1> QED BY <1>1, <1>2, <1>3, PTL DEF SafeSpec
====
