----------------------------- MODULE BlockSync -----------------------------
(***************************************************************************)
(* The download of blocks by one node of a group (libsync): it learns the  *)
(* heights of its peers from their status messages, asks those with the    *)
(* highest one for the blocks it misses, in shards, queues what arrives and *)
(* executes and commits it in the order of the numbers.  Three things run  *)
(* at once: the download thread (one task of doWork at a time), the thread  *)
(* of the network, which fills the buffer, and the consensus of the node,  *)
(* which commits to the same chain.                                        *)
(*                                                                         *)
(* A peer serves the ranges asked of it from a queue of its own; requests  *)
(* may be lost or answered after the node has given up waiting, and a      *)
(* faulty peer may send a block nobody signed.                             *)
(***************************************************************************)
EXTENDS Naturals, Sequences, FiniteSets, Bags, SequencesExt, FiniteSetsExt

CONSTANTS
  Peers,             \* the other members of the group
  MaxNumber,         \* bound: the blocks the peers commit
  RequestSizes,      \* what m_maxRequestBlocks may be: it follows the free memory
  MaxRequestShards,  \* c_maxRequestShards
  QueueLimit,        \* c_maxDownloadingBlockQueueSize
  BufferLimit,       \* c_maxDownloadingBlockQueueBufferSize
  PacketSize,        \* the most blocks that fit in one packet
  MaxFaults,         \* bound: requests lost, late answers, unsigned blocks, failed executions
  MaxProposals       \* bound: proposals the node works on

ASSUME LimitsAssumption ==
  /\ BufferLimit \in Nat /\ PacketSize \in Nat \ {0} /\ RequestSizes \subseteq Nat \ {0}
  /\ MaxRequestShards \in Nat \ {0} /\ MaxNumber \in Nat

NoBlock == [number |-> 0, signed |-> FALSE]
Signed(n) == [number |-> n, signed |-> TRUE]
Blocks == [number : 1..MaxNumber, signed : BOOLEAN]

VARIABLES
  chain,        \* the node's blocks, without the genesis block
  height,       \* the height of each peer's chain
  peerNumber,   \* SyncPeerStatus.number of each peer, as the node knows it
  syncing,      \* m_syncStatus->state is Downloading
  knownHighest, \* m_syncStatus->knownHighestNumber
  sealing,      \* m_currentSealingNumber
  due,          \* the last request was answered or has timed out
  maxRequest,   \* m_maxRequestNumber
  buffer,       \* DownloadingBlockQueue.m_buffer: packets not yet decoded
  queue,        \* DownloadingBlockQueue.m_blocks: a bag, since it may hold a block twice
  worker,       \* where the download thread is in its task
  current,      \* the block it executes
  reqQueue,     \* at each peer, the ranges this node asked for
  faults,       \* how often something went wrong
  proposals     \* the proposals the node worked on

chainVars == <<chain, height>>
statusVars == <<peerNumber, knownHighest, sealing>>
turnVars == <<syncing, due, maxRequest>>
queueVars == <<buffer, queue>>
vars == <<chainVars, statusVars, turnVars, queueVars, worker, current, reqQueue, faults, proposals>>

Number == Len(chain)
Top == Min({b.number : b \in BagToSet(queue)})   \* of a queue that is not empty

Init ==
  /\ chain = << >> /\ height = [p \in Peers |-> 0]
  /\ peerNumber = [p \in Peers |-> 0] /\ knownHighest = 0 /\ sealing = 0
  /\ syncing = FALSE /\ due = TRUE /\ maxRequest = 0
  /\ buffer = << >> /\ queue = EmptyBag
  /\ worker = "buffer" /\ current = NoBlock
  /\ reqQueue = [p \in Peers |-> {}]
  /\ faults = 0 /\ proposals = 0

-----------------------------------------------------------------------------
(* The group and the consensus of the node                                 *)

PeerCommits(p) ==
  /\ height[p] < MaxNumber
  /\ height' = [height EXCEPT ![p] = @ + 1]
  /\ UNCHANGED <<chain, statusVars, turnVars, queueVars, worker, current, reqQueue, faults, proposals>>

(* A peer's status, sent for a new block and every c_maintainBlocksTimeout. *)
PeerStatus(p) ==
  /\ peerNumber[p] # height[p]
  /\ peerNumber' = [peerNumber EXCEPT ![p] = height[p]]
  /\ UNCHANGED <<chainVars, knownHighest, sealing, turnVars, queueVars, worker, current, reqQueue, faults, proposals>>

noteSealingBlockNumber(n) ==
  /\ sealing' = n
  /\ UNCHANGED <<chainVars, peerNumber, knownHighest, turnVars, queueVars, worker, current, reqQueue, faults>>

(* The node executes a proposal for its next height. *)
WorkOnProposal ==
  /\ proposals < MaxProposals /\ Number < MaxNumber /\ sealing # Number + 1
  /\ proposals' = proposals + 1
  /\ noteSealingBlockNumber(Number + 1)

(* A view change gives the proposal up. *)
ViewChange ==
  /\ sealing # Number
  /\ noteSealingBlockNumber(Number)
  /\ UNCHANGED proposals

CommittedUnchecked(b) == Append(chain, b)
(* commitBlock re-checks the number under the commit mutex. *)
Committed(b) == IF b.number = Number + 1 THEN Append(chain, b) ELSE chain

(* The consensus commits the block of the node's proposal, on its own thread. *)
ConsensusCommits ==
  /\ sealing \in 1..MaxNumber
  /\ chain' = Committed(Signed(sealing)) /\ chain' # chain
  /\ UNCHANGED <<height, statusVars, turnVars, queueVars, worker, current, reqQueue, faults, proposals>>

-----------------------------------------------------------------------------
(* A peer answers the ranges asked of it: maintainBlockRequest             *)

Span(from, to) == [from |-> from, to |-> to]
Covered(reqs) == UNION {r.from..r.to : r \in reqs}

(* The requests a call of topAndPop merges: those the range starting at the *)
(* lowest number reaches, each at the latest where the ones before it end. *)
Merged(reqs) ==
  LET from == Min({r.from : r \in reqs})
      Reach(k) == \A n \in from..k : n \in Covered(reqs)
  IN  {r \in reqs : Reach(r.from - 1)}

topAndPop(reqs) ==
  Span(Min({r.from : r \in Merged(reqs)}), Max({r.to : r \in Merged(reqs)}))

(* batchAndSend: the blocks from..to in packets of at most PacketSize. *)
Packets(from, to) ==
  [i \in 1..((to - from + PacketSize) \div PacketSize) |->
     {Signed(n) : n \in {m \in from..to : (m - from) \div PacketSize = i - 1}}]

(* onPeerBlocks: packets that find the buffer full are dropped. *)
Buffered(packets) ==
  buffer \o SubSeq(packets, 1, Min({Len(packets), BufferLimit - Len(buffer)}))

ServeForgetsRest(p) ==
  /\ reqQueue[p] # {}
  /\ LET req == topAndPop(reqQueue[p])
     IN \E last \in req.from..Min({req.to, height[p]}) : buffer' = Buffered(Packets(req.from, last))
  /\ reqQueue' = [reqQueue EXCEPT ![p] = @ \ Merged(@)]
  /\ UNCHANGED <<chainVars, statusVars, turnVars, queue, worker, current, faults, proposals>>

(* Sending stops early when the time or the bandwidth is used up, and at a  *)
(* block the peer does not have; the rest of the range goes back.          *)
ServeRequest(p) ==
  /\ reqQueue[p] # {}
  /\ LET req == topAndPop(reqQueue[p])
         rest == reqQueue[p] \ Merged(reqQueue[p])
     IN \E last \in req.from..Min({req.to, height[p]}) :
          /\ buffer' = Buffered(Packets(req.from, last))
          /\ reqQueue' = [reqQueue EXCEPT ![p] =
               IF last < req.to THEN rest \cup {Span(last + 1, req.to)} ELSE rest]
  /\ UNCHANGED <<chainVars, statusVars, turnVars, queue, worker, current, faults, proposals>>

(* A request is lost on its way, or with the peer's connection. *)
LoseRequest(p) ==
  /\ faults < MaxFaults
  /\ \E r \in reqQueue[p] : reqQueue' = [reqQueue EXCEPT ![p] = @ \ {r}]
  /\ faults' = faults + 1
  /\ UNCHANGED <<chainVars, statusVars, turnVars, queueVars, worker, current, proposals>>

(* A faulty peer sends a block without the sealers' signatures. *)
ForgedBlock(n) ==
  /\ faults < MaxFaults /\ Len(buffer) < BufferLimit
  /\ buffer' = Append(buffer, {[number |-> n, signed |-> FALSE]})
  /\ faults' = faults + 1
  /\ UNCHANGED <<chainVars, statusVars, turnVars, queue, worker, current, reqQueue, proposals>>

-----------------------------------------------------------------------------
(* The download thread: one task of doWork, again and again                *)

NeverCleared == queue
(* clearFullQueueIfNotHas *)
ClearedIfFull ==
  IF BagCardinality(queue) = QueueLimit /\ Top > Number + 1 THEN EmptyBag ELSE queue

(* maintainDownloadingQueueBuffer *)
MaintainBuffer ==
  /\ worker = "buffer"
  /\ \/ syncing /\ queue' = ClearedIfFull /\ worker' = "flush" /\ UNCHANGED buffer
     \/ ~syncing /\ queue' = EmptyBag /\ buffer' = << >> /\ worker' = "status"
  /\ UNCHANGED <<chainVars, statusVars, turnVars, current, reqQueue, faults, proposals>>

(* flushOneShard: a packet taken from the buffer is decoded into the queue, *)
(* but when the queue is full the packet is gone and the flush ends.       *)
isNewerBlock(b) == b.number > Number
FlushShard ==
  /\ worker = "flush"
  /\ \/ /\ buffer # << >> /\ BagCardinality(queue) < QueueLimit
        /\ queue' = queue (+) SetToBag({b \in Head(buffer) : isNewerBlock(b)})
        /\ buffer' = Tail(buffer)
        /\ UNCHANGED worker
     \/ /\ buffer # << >> /\ BagCardinality(queue) >= QueueLimit
        /\ buffer' = Tail(buffer) /\ worker' = "enter"
        /\ UNCHANGED queue
  /\ UNCHANGED <<chainVars, statusVars, turnVars, current, reqQueue, faults, proposals>>

(* maintainDownloadingQueue, before its loop: nothing left to download *)
EnterQueue ==
  /\ worker = "enter" \/ (worker = "flush" /\ buffer = << >>)
  /\ IF Number >= knownHighest
     THEN syncing' = FALSE /\ queue' = EmptyBag /\ buffer' = << >> /\ worker' = "status"
     ELSE worker' = "loop" /\ UNCHANGED <<syncing, queueVars>>
  /\ UNCHANGED <<chainVars, statusVars, due, maxRequest, current, reqQueue, faults, proposals>>

Tops == {b \in BagToSet(queue) : b.number = Top /\ Top <= Number + 1}
Pop(b) == queue (-) SetToBag({b})
(* The parent hash of a signed block is that of the chain's last block. *)
isNextBlock(b) == b.number = Number + 1 /\ b.signed

(* The block at the top is the next one and its execution succeeds. *)
ExecuteTop ==
  /\ worker = "loop"
  /\ \E b \in Tops : isNextBlock(b) /\ current' = b
  /\ worker' = "commit"
  /\ UNCHANGED <<chainVars, statusVars, turnVars, queueVars, reqQueue, faults, proposals>>

(* The block at the top is not the next one, or its execution fails. *)
SkipTop ==
  /\ worker = "loop"
  /\ \E b \in Tops :
       /\ queue' = Pop(b)
       /\ \/ ~isNextBlock(b) /\ UNCHANGED faults
          \/ isNextBlock(b) /\ faults < MaxFaults /\ faults' = faults + 1
  /\ UNCHANGED <<chainVars, statusVars, turnVars, buffer, worker, current, reqQueue, proposals>>

(* commitBlock; whatever it returns, the block leaves the queue. *)
CommitTop ==
  /\ worker = "commit"
  /\ \/ chain' = Committed(current) /\ UNCHANGED faults
     \/ faults < MaxFaults /\ faults' = faults + 1 /\ UNCHANGED chain
  /\ queue' = Pop(current) /\ current' = NoBlock /\ worker' = "loop"
  /\ UNCHANGED <<height, statusVars, turnVars, buffer, reqQueue, proposals>>

(* After the loop: ask again at once when all that was requested is here,   *)
(* stop when the known height is reached.                                  *)
LeaveQueue ==
  /\ worker = "loop" /\ Tops = {}
  /\ due' = (due \/ Number >= maxRequest)
  /\ syncing' = (Number < knownHighest)
  /\ worker' = "status"
  /\ UNCHANGED <<chainVars, statusVars, maxRequest, queueVars, current, reqQueue, faults, proposals>>

(* The shards of a request turn go to the peers with the highest number, in *)
(* random order and again from the start when there are more shards.       *)
Assignments(shards, peers) ==
  {a \in [0..(shards - 1) -> peers] :
     \A i, j \in 0..(shards - 1) :
       i < j /\ i \div Cardinality(peers) = j \div Cardinality(peers) => a[i] # a[j]}

Shard(i, size, upto) == Span(Number + 1 + i * size, Min({Number + (i + 1) * size, upto}))

RequestBlocks(upto, best) ==
  \E size \in RequestSizes :
    LET shards == Min({(upto - Number + size - 1) \div size, MaxRequestShards})
        peers  == {p \in Peers : peerNumber[p] = best}
    IN \E a \in Assignments(shards, peers) :
         /\ reqQueue' = [p \in Peers |->
              reqQueue[p] \cup {Shard(i, size, upto) : i \in {j \in 0..(shards - 1) : a[j] = p}}]
         /\ maxRequest' = Shard(shards - 1, size, upto).to

(* maintainPeersStatus *)
MaintainPeersStatus ==
  /\ worker = "status" /\ worker' = "buffer"
  /\ LET best == Max({peerNumber[p] : p \in Peers} \cup {0})
         upto == IF queue = EmptyBag THEN best ELSE Min({best, Top - 1})
     IN \/ syncing /\ ~due /\ UNCHANGED <<knownHighest, turnVars, reqQueue>>
        \/ /\ ~syncing \/ due
           /\ knownHighest' = Max({best, Number})
           /\ IF best <= Number \/ best <= sealing
              THEN UNCHANGED <<turnVars, reqQueue>>
              ELSE /\ syncing' = TRUE /\ due' = FALSE
                   /\ IF Number >= upto
                      THEN UNCHANGED <<maxRequest, reqQueue>>
                      ELSE RequestBlocks(upto, best)
  /\ UNCHANGED <<chainVars, peerNumber, sealing, queueVars, current, faults, proposals>>

(* The wait for the answers is over: at the latest when nothing is left to  *)
(* arrive; ending sooner, because an answer is late, counts as a fault.    *)
Timeout ==
  /\ syncing /\ ~due /\ due' = TRUE
  /\ \/ buffer = << >> /\ (\A p \in Peers : reqQueue[p] = {}) /\ UNCHANGED faults
     \/ faults < MaxFaults /\ faults' = faults + 1
  /\ UNCHANGED <<chainVars, statusVars, syncing, maxRequest, queueVars, worker, current, reqQueue, proposals>>

Worker ==
  \/ MaintainBuffer \/ FlushShard \/ EnterQueue \/ ExecuteTop \/ SkipTop \/ CommitTop
  \/ LeaveQueue \/ MaintainPeersStatus

Next ==
  \/ Worker \/ Timeout \/ WorkOnProposal \/ ViewChange \/ ConsensusCommits
  \/ \E p \in Peers : PeerCommits(p) \/ PeerStatus(p) \/ ServeRequest(p) \/ LoseRequest(p)
  \/ \E n \in 1..MaxNumber : ForgedBlock(n)

Spec == Init /\ [][Next]_vars

(* The worker of doWork and that of maintainBlockRequest run again and again, *)
(* a status is sent every five seconds, a wait ends, and so does a view.   *)
Fairness ==
  /\ WF_vars(Worker) /\ WF_vars(Timeout) /\ WF_vars(ViewChange)
  /\ \A p \in Peers : WF_vars(PeerStatus(p)) /\ WF_vars(ServeRequest(p))

FairSpec == Spec /\ Fairness

-----------------------------------------------------------------------------
TypeOK ==
  /\ chain \in Seq(Blocks) /\ height \in [Peers -> 0..MaxNumber]
  /\ peerNumber \in [Peers -> 0..MaxNumber]
  /\ knownHighest \in 0..MaxNumber /\ sealing \in 0..MaxNumber /\ maxRequest \in 0..MaxNumber
  /\ syncing \in BOOLEAN /\ due \in BOOLEAN
  /\ buffer \in Seq(SUBSET Blocks) /\ IsABag(queue) /\ BagToSet(queue) \subseteq Blocks
  /\ worker \in {"buffer", "flush", "enter", "loop", "commit", "status"}
  /\ current \in Blocks \cup {NoBlock}
  /\ reqQueue \in [Peers -> SUBSET [from : 1..MaxNumber, to : 1..MaxNumber]]

(* The chain is the group's: the block of each number once, in order and    *)
(* signed, although the download and the consensus of the node commit to it *)
(* from two threads and faulty peers answer too (isNextBlock, commitBlock). *)
ChainIsCanonical == \A i \in 1..Len(chain) : chain[i] = Signed(i)

(* Every block asked of a peer is sent or still owed: merging the requests  *)
(* of a queue and cutting an answer short forgets no number in between     *)
(* (topAndPop, maintainBlockRequest); packets dropped by a full buffer aside. *)
SentNow == UNION {buffer'[i] : i \in (Len(buffer) + 1)..Len(buffer')}
NothingForgotten ==
  [][\A p \in Peers :
       faults' = faults /\ Len(buffer') < BufferLimit =>
         \A n \in Covered(reqQueue[p]) : n \in Covered(reqQueue'[p]) \/ Signed(n) \in SentNow]_vars

(* A node that is behind catches up: each block a peer has will be on the   *)
(* node's chain, whatever requests are lost or late, blocks rejected, queues *)
(* overrun and proposals given up on the way (SyncMaster::doWork).         *)
CatchesUp == \A n \in 1..MaxNumber : (\E p \in Peers : height[p] >= n) ~> (Number >= n)
=============================================================================
