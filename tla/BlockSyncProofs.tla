--------------------------- MODULE BlockSyncProofs ---------------------------
(***************************************************************************)
(* TypeOK, ChainIsCanonical and NothingForgotten for every group, every     *)
(* bound and every limit.  The types are inductive once the chain is no     *)
(* longer than what the peers may have.  The chain is canonical because the *)
(* download thread only brings a signed block to its commit.  That nothing  *)
(* asked for is forgotten is a matter of the ranges: those a peer takes     *)
(* together leave no gap, and the packets it makes of them leave none.      *)
(***************************************************************************)
EXTENDS BlockSync, WellFoundedInduction, TLAPS

USE LimitsAssumption DEF Number
USE DEF chainVars, statusVars, turnVars, queueVars

-----------------------------------------------------------------------------
(* The least and the greatest of a set of numbers, and of two              *)

(* The least element of a set of naturals, and of two integers. *)
LEMMA LeastOfNaturals ==
  ASSUME NEW S \in SUBSET Nat, S # {}
  PROVE  \E m \in S : \A n \in S : m <= n
  <1> DEFINE less == OpToRel(<, Nat)
  <1>1. \A m, n \in Nat : <<m, n>> \in less <=> m < n
    BY DEF OpToRel
  <1>2. PICK m \in S : \A n \in S : ~(<<n, m>> \in less)
    <2> HIDE DEF less
    <2> QED BY NatLessThanWellFounded, WFMin DEF less
  <1>3. \A n \in S : ~(n < m)
    BY <1>1, <1>2
  <1> QED BY <1>3

LEMMA MinOfNaturals ==
  ASSUME NEW S \in SUBSET Nat, S # {}
  PROVE  Min(S) \in S
  BY LeastOfNaturals DEF Min

LEMMA MinOfTwo ==
  ASSUME NEW a \in Int, NEW b \in Int
  PROVE  Min({a, b}) \in {a, b} /\ Min({a, b}) <= a
  <1>1. \E m \in {a, b} : \A n \in {a, b} : m <= n
    OBVIOUS
  <1> QED BY <1>1 DEF Min

LEMMA MaxOfBounded ==
  ASSUME NEW S \in SUBSET (0..MaxNumber), S # {}
  PROVE  Max(S) \in S /\ \A n \in S : n <= Max(S)
  <1> DEFINE T == {MaxNumber - n : n \in S}
  <1>1. T \in SUBSET Nat /\ T # {}
    <2>1. \A n \in S : MaxNumber - n \in Nat
      BY SMT
    <2> QED BY <2>1
  <1>2. PICK t \in T : \A u \in T : t <= u
    BY <1>1, LeastOfNaturals
  <1>3. PICK m \in S : t = MaxNumber - m
    BY <1>2
  <1>4. \A n \in S : m >= n
    <2> SUFFICES ASSUME NEW n \in S PROVE m >= n
      OBVIOUS
    <2>1. MaxNumber - n \in T /\ m \in Nat /\ n \in Nat
      OBVIOUS
    <2> HIDE DEF T
    <2> QED BY <1>2, <1>3, <2>1
  <1>5. Max(S) \in S /\ \A n \in S : Max(S) >= n
    BY <1>4 DEF Max
  <1> QED BY <1>5

-----------------------------------------------------------------------------
(* The ranges asked for and the blocks sent                                *)

Ranges == [from : 1..MaxNumber, to : 1..MaxNumber]

(* The shards of a request turn begin and end within the range asked for. *)
LEMMA ShardCount ==
  ASSUME NEW d \in Nat \ {0}, NEW size \in Nat \ {0}
  PROVE  LET k == (d + size - 1) \div size
         IN  k \in Nat \ {0} /\ \A i \in Nat : i < k => i * size < d
  <1> DEFINE a == d + size - 1
             k == a \div size
  <1>1. a \in Nat /\ a >= size
    OBVIOUS
  <1> HIDE DEF a
  <1>2. k \in Nat /\ k * size <= a /\ a < (k + 1) * size
    BY <1>1
  <1>3. k # 0
    BY <1>1, <1>2
  <1> HIDE DEF k
  <1>4. ASSUME NEW i \in Nat, i < k PROVE i * size < d
    <2>1. PICK j \in Nat : k = i + 1 + j
      <3>1. k - i - 1 \in Nat /\ k = i + 1 + (k - i - 1)
        BY <1>2, <1>4
      <3> QED BY <3>1
    <2>2. k * size = i * size + size + j * size
      BY <2>1
    <2>3. j * size \in Nat /\ i * size \in Nat
      OBVIOUS
    <2>4. i * size + size <= a
      <3> DEFINE x == i * size  y == j * size  z == k * size
      <3>1. x \in Nat /\ y \in Nat /\ z = x + size + y /\ z <= a
        BY <1>2, <2>2, <2>3
      <3> HIDE DEF x, y, z
      <3>2. x + size <= a
        BY <1>1, <3>1
      <3> QED BY <3>2 DEF x
    <2> QED BY <2>3, <2>4 DEF a
  <1> QED BY <1>2, <1>3, <1>4 DEF k, a

LEMMA ShardRanges ==
  ASSUME Number \in Nat, NEW upto \in 0..MaxNumber, Number < upto, NEW size \in Nat \ {0},
         NEW i \in Nat, i * size < upto - Number
  PROVE  Shard(i, size, upto) \in Ranges
  <1> DEFINE x == i * size
             end == Number + (i + 1) * size
  <1>1. x \in Nat /\ end = Number + x + size
    OBVIOUS
  <1>2. end \in Nat \ {0} /\ Number + 1 + x \in 1..MaxNumber
    <2> HIDE DEF x, end
    <2> QED BY <1>1 DEF x
  <1>3. upto \in 1..MaxNumber /\ upto \in Int
    OBVIOUS
  <1>4. Min({end, upto}) \in {end, upto} /\ Min({upto, end}) <= upto
    <2> HIDE DEF end
    <2> QED BY <1>2, <1>3, MinOfTwo
  <1>5. {end, upto} = {upto, end}
    OBVIOUS
  <1>6. Min({end, upto}) \in 1..MaxNumber
    <2> DEFINE m == Min({end, upto})
    <2>1. m \in {end, upto} /\ m <= upto
      BY <1>4, <1>5
    <2> HIDE DEF end, m
    <2>2. m \in 1..MaxNumber
      BY <1>2, <1>3, <2>1
    <2> QED BY <2>2 DEF m
  <1> QED BY <1>2, <1>6 DEF Shard, Span, Ranges

(* Bags of blocks. *)
IsQueue(Q) == IsABag(Q) /\ BagToSet(Q) \subseteq Blocks

LEMMA QueueTypes ==
  ASSUME NEW Q, IsQueue(Q)
  PROVE  /\ IsQueue(EmptyBag)
         /\ \A S \in SUBSET Blocks : IsQueue(Q (+) SetToBag(S))
         /\ \A b : IsQueue(Q (-) SetToBag({b}))
  <1>1. IsQueue(EmptyBag)
    BY DEF IsQueue, EmptyBag, SetToBag, IsABag, BagToSet
  <1>2. ASSUME NEW S \in SUBSET Blocks PROVE IsQueue(Q (+) SetToBag(S))
    BY <1>2 DEF IsQueue, SetToBag, IsABag, BagToSet, (+)
  <1>3. ASSUME NEW b PROVE IsQueue(Q (-) SetToBag({b}))
    BY <1>3 DEF IsQueue, SetToBag, IsABag, BagToSet, (-)
  <1> QED BY <1>1, <1>2, <1>3

(* The ranges a peer takes together: at least the one that starts first,    *)
(* and no number beyond those asked for.                                   *)
LEMMA MergedRanges ==
  ASSUME NEW reqs \in SUBSET Ranges, reqs # {}
  PROVE  /\ Merged(reqs) \subseteq reqs
         /\ topAndPop(reqs) \in Ranges
         /\ topAndPop(reqs).from = Min({r.from : r \in reqs})
         /\ \A r \in Merged(reqs) : topAndPop(reqs).from <= r.from /\ r.to <= topAndPop(reqs).to
  <1> DEFINE from == Min({r.from : r \in reqs})
  <1>1. from \in 1..MaxNumber /\ (\E r \in reqs : r.from = from) /\ \A r \in reqs : from <= r.from
    <2> DEFINE F == {r.from : r \in reqs}
    <2>1. F \in SUBSET (1..MaxNumber) /\ F # {}
      BY DEF Ranges
    <2>2. F \in SUBSET Nat
      BY <2>1
    <2>3. Min(F) \in F /\ \A n \in F : Min(F) <= n
      <3> HIDE DEF F
      <3> QED BY <2>1, <2>2, LeastOfNaturals DEF Min
    <2> QED BY <2>1, <2>3
  <1>2. Merged(reqs) \subseteq reqs
    BY DEF Merged
  <1>3. PICK r \in reqs : r.from = from
    BY <1>1
  <1>4. r \in Merged(reqs)
    <2>1. from..(r.from - 1) = {}
      <3> HIDE DEF from
      <3> QED BY <1>1, <1>3
    <2> QED BY <2>1 DEF Merged
  <1>5. Min({q.from : q \in Merged(reqs)}) = from
    <2> DEFINE F == {q.from : q \in Merged(reqs)}
    <2>1. from \in F /\ \A n \in F : n \in 1..MaxNumber /\ from <= n
      BY <1>1, <1>2, <1>3, <1>4 DEF Ranges
    <2> HIDE DEF F, from
    <2>2. F \in SUBSET Nat /\ F # {}
      BY <2>1
    <2>3. Min(F) \in F /\ \A n \in F : Min(F) <= n
      BY <2>2, LeastOfNaturals DEF Min
    <2> DEFINE m == Min(F)
    <2>4. m \in F /\ m <= from
      BY <2>1, <2>3
    <2> HIDE DEF m
    <2>5. m = from
      BY <1>1, <2>1, <2>4
    <2> QED BY <2>5 DEF F, m
  <1>6. /\ Max({q.to : q \in Merged(reqs)}) \in 1..MaxNumber
        /\ \A q \in Merged(reqs) : q.to <= Max({w.to : w \in Merged(reqs)})
    <2> DEFINE T == {q.to : q \in Merged(reqs)}
    <2>1. T \in SUBSET (1..MaxNumber) /\ T # {}
      BY <1>2, <1>4 DEF Ranges
    <2>2. Max(T) \in T /\ \A n \in T : n <= Max(T)
      <3>1. T \in SUBSET (0..MaxNumber)
        BY <2>1
      <3> HIDE DEF T
      <3> QED BY <2>1, <3>1, MaxOfBounded
    <2> QED BY <2>1, <2>2
  <1> QED BY <1>1, <1>2, <1>5, <1>6 DEF topAndPop, Span, Ranges

(* What a peer sends is blocks, and the buffer takes no more than fits. *)
LEMMA SentBlocks ==
  ASSUME buffer \in Seq(SUBSET Blocks), NEW from \in 1..MaxNumber, NEW last \in 1..MaxNumber
  PROVE  Buffered(Packets(from, last)) \in Seq(SUBSET Blocks)
  <1> DEFINE pk == Packets(from, last)
             k == (last - from + PacketSize) \div PacketSize
             n == Min({Len(pk), BufferLimit - Len(buffer)})
  <1>1. k \in Int
    OBVIOUS
  <1>2. pk = [i \in 1..k |-> {Signed(m) : m \in {x \in from..last : (x - from) \div PacketSize = i - 1}}]
    BY DEF Packets
  <1>3. pk \in Seq(SUBSET Blocks)
    <2>1. ASSUME NEW i \in 1..k PROVE pk[i] \in SUBSET Blocks
      <3>1. pk[i] = {Signed(m) : m \in {x \in from..last : (x - from) \div PacketSize = i - 1}}
        BY <1>2
      <3>2. \A m \in from..last : Signed(m) \in Blocks
        BY DEF Signed, Blocks
      <3> QED BY <3>1, <3>2
    <2>2. CASE k < 0
      <3>1. pk = << >>
        BY <1>1, <1>2, <2>2
      <3> QED BY <3>1
    <2>3. CASE k >= 0
      <3>1. k \in Nat /\ pk \in [1..k -> SUBSET Blocks]
        BY <1>1, <1>2, <2>1, <2>3
      <3> QED BY <3>1
    <2> QED BY <1>1, <2>2, <2>3
  <1>4. Len(pk) \in Nat /\ Len(buffer) \in Nat
    BY <1>3
  <1>5. n \in Int /\ n <= Len(pk)
    <2>1. Len(pk) \in Int /\ BufferLimit - Len(buffer) \in Int
      BY <1>4
    <2> QED BY <2>1, MinOfTwo
  <1> HIDE DEF pk, n
  <1>6. SubSeq(pk, 1, n) \in Seq(SUBSET Blocks)
    BY <1>3, <1>5
  <1>7. Buffered(pk) = buffer \o SubSeq(pk, 1, n)
    BY DEF Buffered, n
  <1> QED BY <1>6, <1>7 DEF pk

-----------------------------------------------------------------------------
(* Types                                                                   *)

TypeInv == TypeOK /\ Number <= MaxNumber

LEMMA InitiallyTyped == Init => TypeInv
  <1>1. IsABag(EmptyBag) /\ BagToSet(EmptyBag) = {}
    BY DEF EmptyBag, SetToBag, IsABag, BagToSet
  <1> SUFFICES ASSUME Init PROVE TypeInv
    OBVIOUS
  <1>2. chain \in Seq(Blocks) /\ Len(chain) = 0 /\ buffer \in Seq(SUBSET Blocks)
    BY DEF Init
  <1>3. height \in [Peers -> 0..MaxNumber] /\ peerNumber \in [Peers -> 0..MaxNumber]
    BY DEF Init
  <1>4. reqQueue \in [Peers -> SUBSET [from : 1..MaxNumber, to : 1..MaxNumber]]
    BY DEF Init
  <1>5. IsABag(queue) /\ BagToSet(queue) \subseteq Blocks
    BY <1>1 DEF Init
  <1>6. /\ knownHighest \in 0..MaxNumber /\ sealing \in 0..MaxNumber /\ maxRequest \in 0..MaxNumber
        /\ syncing \in BOOLEAN /\ due \in BOOLEAN
        /\ worker = "buffer" /\ current = NoBlock
    <2>1. 0 \in 0..MaxNumber
      OBVIOUS
    <2> QED BY <2>1, Zenon DEF Init
  <1> QED BY <1>2, <1>3, <1>4, <1>5, <1>6 DEF TypeInv, TypeOK

LEMMA NumberInChain ==
  ASSUME TypeInv
  PROVE  Number \in 0..MaxNumber /\ Number \in Nat
  BY DEF TypeInv, TypeOK

(* A committed block is one more, and no more than the peers may have. *)
LEMMA CommittedTypes ==
  ASSUME TypeInv, NEW b \in Blocks \cup {NoBlock}
  PROVE  Committed(b) \in Seq(Blocks) /\ Len(Committed(b)) <= MaxNumber
  <1>1. chain \in Seq(Blocks) /\ Len(chain) \in 0..MaxNumber
    BY NumberInChain DEF TypeInv, TypeOK
  <1>2. CASE b.number = Number + 1
    <2>1. b \in Blocks
      BY <1>1, <1>2 DEF NoBlock
    <2>2. Number + 1 <= MaxNumber
      BY <1>2, <2>1 DEF Blocks
    <2>3. Append(chain, b) \in Seq(Blocks) /\ Len(Append(chain, b)) = Len(chain) + 1
      BY <1>1, <2>1
    <2> QED BY <1>2, <2>2, <2>3 DEF Committed
  <1>3. CASE b.number # Number + 1
    BY <1>1, <1>3 DEF Committed
  <1> QED BY <1>2, <1>3

(* The peers, the timing and the proposals. *)
LEMMA TypesOfGroup ==
  ASSUME TypeInv,
         \/ Timeout \/ WorkOnProposal \/ ViewChange \/ ConsensusCommits
         \/ \E p \in Peers : PeerCommits(p) \/ PeerStatus(p) \/ LoseRequest(p)
         \/ UNCHANGED vars
  PROVE  TypeInv'
  <1> USE DEF TypeInv, TypeOK
  <1>1. CASE Timeout
    BY <1>1 DEF Timeout
  <1>2. CASE WorkOnProposal
    BY <1>2, NumberInChain DEF WorkOnProposal, noteSealingBlockNumber
  <1>3. CASE ViewChange
    BY <1>3, NumberInChain DEF ViewChange, noteSealingBlockNumber
  <1>4. CASE ConsensusCommits
    <2>1. Signed(sealing) \in Blocks \cup {NoBlock}
      BY <1>4 DEF ConsensusCommits, Signed, Blocks
    <2>2. chain' \in Seq(Blocks) /\ Len(chain') <= MaxNumber
      BY <1>4, <2>1, CommittedTypes DEF ConsensusCommits
    <2> QED BY <1>4, <2>2 DEF ConsensusCommits
  <1>5. ASSUME NEW p \in Peers, PeerCommits(p) PROVE TypeInv'
    <2>1. height[p] + 1 \in 0..MaxNumber
      BY <1>5 DEF PeerCommits
    <2> QED BY <1>5, <2>1 DEF PeerCommits
  <1>6. ASSUME NEW p \in Peers, PeerStatus(p) PROVE TypeInv'
    BY <1>6 DEF PeerStatus
  <1>7. ASSUME NEW p \in Peers, LoseRequest(p) PROVE TypeInv'
    BY <1>7 DEF LoseRequest
  <1>8. CASE UNCHANGED vars
    BY <1>8 DEF vars
  <1> QED BY <1>1, <1>2, <1>3, <1>4, <1>5, <1>6, <1>7, <1>8

(* What a peer sends, and a faulty one. *)
LEMMA TypesOfAnswers ==
  ASSUME TypeInv, (\E p \in Peers : ServeRequest(p)) \/ (\E n \in 1..MaxNumber : ForgedBlock(n))
  PROVE  TypeInv'
  <1>1. ASSUME NEW p \in Peers, ServeRequest(p) PROVE TypeInv'
    <2> DEFINE req == topAndPop(reqQueue[p])
               rest == reqQueue[p] \ Merged(reqQueue[p])
    <2>1. req \in Ranges /\ rest \subseteq Ranges /\ height[p] \in 0..MaxNumber
      <3>1. reqQueue[p] \in SUBSET Ranges /\ reqQueue[p] # {}
        BY <1>1 DEF ServeRequest, TypeInv, TypeOK, Ranges
      <3>2. req \in Ranges
        BY <3>1, MergedRanges
      <3> QED BY <3>1, <3>2 DEF TypeInv, TypeOK
    <2>2. PICK last \in req.from..Min({req.to, height[p]}) :
            /\ buffer' = Buffered(Packets(req.from, last))
            /\ reqQueue' = [reqQueue EXCEPT ![p] =
                 IF last < req.to THEN rest \cup {Span(last + 1, req.to)} ELSE rest]
      BY <1>1 DEF ServeRequest
    <2> HIDE DEF req, rest
    <2>3. last \in 1..MaxNumber /\ last <= req.to
      <3> DEFINE to == Min({req.to, height[p]})
      <3>1. req.from \in 1..MaxNumber /\ req.to \in 1..MaxNumber
        BY <2>1 DEF Ranges
      <3>2. to \in {req.to, height[p]} /\ to <= req.to
        BY <2>1, <3>1, MinOfTwo
      <3>3. last \in req.from..to
        BY <2>2
      <3> HIDE DEF to
      <3> QED BY <2>1, <3>1, <3>2, <3>3
    <2>4. buffer' \in Seq(SUBSET Blocks)
      BY <2>1, <2>2, <2>3, SentBlocks DEF TypeInv, TypeOK, Ranges
    <2>5. last < req.to => Span(last + 1, req.to) \in Ranges
      BY <2>1, <2>3 DEF Span, Ranges
    <2>6. reqQueue' \in [Peers -> SUBSET Ranges]
      BY <2>1, <2>2, <2>5 DEF TypeInv, TypeOK, Ranges
    <2> QED BY <1>1, <2>4, <2>6 DEF ServeRequest, TypeInv, TypeOK, Ranges
  <1>2. ASSUME NEW n \in 1..MaxNumber, ForgedBlock(n) PROVE TypeInv'
    <2>1. {[number |-> n, signed |-> FALSE]} \in SUBSET Blocks
      BY DEF Blocks
    <2>2. buffer' \in Seq(SUBSET Blocks)
      BY <1>2, <2>1 DEF ForgedBlock, TypeInv, TypeOK
    <2> QED BY <1>2, <2>2 DEF ForgedBlock, TypeInv, TypeOK
  <1> QED BY <1>1, <1>2

(* The download thread in its queue. *)
LEMMA TypesOfQueue ==
  ASSUME TypeInv, MaintainBuffer \/ FlushShard \/ EnterQueue \/ SkipTop
  PROVE  TypeInv'
  <1>1. << >> \in Seq(SUBSET Blocks) /\ IsQueue(EmptyBag) /\ IsQueue(queue)
    BY QueueTypes DEF TypeInv, TypeOK, IsQueue
  <1>2. buffer' \in Seq(SUBSET Blocks) /\ IsQueue(queue')
    <2>1. CASE MaintainBuffer
      BY <1>1, <2>1 DEF MaintainBuffer, ClearedIfFull, TypeInv, TypeOK
    <2>2. CASE FlushShard
      <3>1. buffer # << >> /\ buffer' = Tail(buffer)
        BY <2>2 DEF FlushShard
      <3>2. Head(buffer) \in SUBSET Blocks /\ Tail(buffer) \in Seq(SUBSET Blocks)
        BY <3>1 DEF TypeInv, TypeOK
      <3>3. {b \in Head(buffer) : isNewerBlock(b)} \in SUBSET Blocks
        BY <3>2
      <3> QED BY <1>1, <2>2, <3>1, <3>2, <3>3, QueueTypes DEF FlushShard
    <2>3. CASE EnterQueue
      BY <1>1, <2>3 DEF EnterQueue, TypeInv, TypeOK
    <2>4. CASE SkipTop
      <3>1. PICK b \in Tops : queue' = Pop(b)
        BY <2>4 DEF SkipTop
      <3>2. IsQueue(queue') /\ UNCHANGED buffer
        BY <1>1, <2>4, <3>1, QueueTypes DEF SkipTop, Pop
      <3> QED BY <3>2 DEF TypeInv, TypeOK
    <2> QED BY <2>1, <2>2, <2>3, <2>4
  <1>3. /\ UNCHANGED <<chainVars, statusVars, due, maxRequest, current, reqQueue>>
        /\ syncing' \in BOOLEAN /\ worker' \in {"flush", "status", "enter", "loop"}
    BY DEF MaintainBuffer, FlushShard, EnterQueue, SkipTop, TypeInv, TypeOK
  <1> QED BY <1>2, <1>3 DEF TypeInv, TypeOK, IsQueue

LEMMA TypesOfDownload ==
  ASSUME TypeInv, ExecuteTop \/ CommitTop \/ LeaveQueue
  PROVE  TypeInv'
  <1>1. CASE ExecuteTop
    BY <1>1 DEF ExecuteTop, Tops, TypeInv, TypeOK
  <1>2. CASE CommitTop
    <2>1. chain' \in Seq(Blocks) /\ Len(chain') <= MaxNumber
      BY <1>2, CommittedTypes DEF CommitTop, TypeInv, TypeOK
    <2>2. IsQueue(queue')
      BY <1>2, QueueTypes DEF CommitTop, Pop, TypeInv, TypeOK, IsQueue
    <2> QED BY <1>2, <2>1, <2>2 DEF CommitTop, TypeInv, TypeOK, IsQueue
  <1>3. CASE LeaveQueue
    BY <1>3 DEF LeaveQueue, TypeInv, TypeOK
  <1> QED BY <1>1, <1>2, <1>3

(* The highest number of the peers, and the lowest in a queue. *)
LEMMA BestNumber ==
  ASSUME TypeInv
  PROVE  Max({peerNumber[p] : p \in Peers} \cup {0}) \in 0..MaxNumber
  <1> DEFINE S == {peerNumber[p] : p \in Peers} \cup {0}
  <1>1. S \in SUBSET (0..MaxNumber) /\ S # {}
    BY DEF TypeInv, TypeOK
  <1> HIDE DEF S
  <1>2. Max(S) \in 0..MaxNumber
    BY <1>1, MaxOfBounded
  <1> QED BY <1>2 DEF S

LEMMA TopNumber ==
  ASSUME TypeInv, queue # EmptyBag
  PROVE  Top \in 1..MaxNumber
  <1> DEFINE S == {b.number : b \in BagToSet(queue)}
  <1>1. BagToSet(queue) # {}
    BY DEF TypeInv, TypeOK, EmptyBag, SetToBag, IsABag, BagToSet
  <1>2. S \in SUBSET (1..MaxNumber) /\ S # {}
    BY <1>1 DEF TypeInv, TypeOK, Blocks
  <1> HIDE DEF S
  <1>3. S \in SUBSET Nat
    BY <1>2
  <1>4. Min(S) \in 1..MaxNumber
    BY <1>2, <1>3, MinOfNaturals
  <1> QED BY <1>4 DEF Top, S

(* A request turn asks for ranges after the node's chain, up to what the   *)
(* peers have.                                                             *)
LEMMA TypesOfRequests ==
  ASSUME TypeInv, NEW upto \in 0..MaxNumber, Number < upto, NEW best, RequestBlocks(upto, best)
  PROVE  maxRequest' \in 0..MaxNumber /\ reqQueue' \in [Peers -> SUBSET Ranges]
  <1>1. PICK size \in RequestSizes :
          LET shards == Min({(upto - Number + size - 1) \div size, MaxRequestShards})
              peers  == {p \in Peers : peerNumber[p] = best}
          IN \E a \in Assignments(shards, peers) :
               /\ reqQueue' = [p \in Peers |->
                    reqQueue[p] \cup {Shard(i, size, upto) : i \in {j \in 0..(shards - 1) : a[j] = p}}]
               /\ maxRequest' = Shard(shards - 1, size, upto).to
    BY DEF RequestBlocks
  <1> DEFINE d == upto - Number
             k == (d + size - 1) \div size
             shards == Min({k, MaxRequestShards})
  <1>2. PICK a : reqQueue' = [p \in Peers |->
                    reqQueue[p] \cup {Shard(i, size, upto) : i \in {j \in 0..(shards - 1) : a[j] = p}}]
    BY <1>1
  <1>3. maxRequest' = Shard(shards - 1, size, upto).to
    BY <1>1
  <1>4. d \in Nat \ {0} /\ size \in Nat \ {0}
    BY NumberInChain
  <1>5. k \in Nat \ {0} /\ \A i \in Nat : i < k => i * size < d
    <2> HIDE DEF d
    <2> QED BY <1>4, ShardCount
  <1> HIDE DEF k, d
  <1>6. shards \in Nat \ {0} /\ shards <= k
    <2>1. shards \in {k, MaxRequestShards} /\ shards <= k
      <3>1. k \in Int /\ MaxRequestShards \in Int
        BY <1>5
      <3> QED BY <3>1, MinOfTwo
    <2> HIDE DEF shards
    <2> QED BY <1>5, <2>1
  <1> HIDE DEF shards
  <1>7. ASSUME NEW i \in 0..(shards - 1) PROVE Shard(i, size, upto) \in Ranges
    <2>1. i \in Nat /\ i < k
      BY <1>5, <1>6
    <2>2. i * size < upto - Number
      BY <1>5, <2>1 DEF d
    <2> QED BY <1>4, <2>1, <2>2, NumberInChain, ShardRanges
  <1>8. shards - 1 \in 0..(shards - 1)
    BY <1>6
  <1>9. maxRequest' \in 0..MaxNumber
    BY <1>3, <1>7, <1>8 DEF Ranges
  <1>10. reqQueue' \in [Peers -> SUBSET Ranges]
    BY <1>2, <1>7 DEF TypeInv, TypeOK, Ranges
  <1> QED BY <1>9, <1>10

LEMMA TypesOfStatus ==
  ASSUME TypeInv, MaintainPeersStatus
  PROVE  TypeInv'
  <1> DEFINE best == Max({peerNumber[p] : p \in Peers} \cup {0})
             upto == IF queue = EmptyBag THEN best ELSE Min({best, Top - 1})
  <1>1. best \in 0..MaxNumber
    BY BestNumber
  <1>2. /\ worker' = "buffer"
        /\ \/ UNCHANGED <<knownHighest, turnVars, reqQueue>>
           \/ /\ knownHighest' = Max({best, Number})
              /\ \/ UNCHANGED <<turnVars, reqQueue>>
                 \/ /\ syncing' = TRUE /\ due' = FALSE
                    /\ \/ UNCHANGED <<maxRequest, reqQueue>>
                       \/ ~(Number >= upto) /\ RequestBlocks(upto, best)
        /\ UNCHANGED <<chainVars, peerNumber, sealing, queueVars, current, faults, proposals>>
    BY DEF MaintainPeersStatus
  <1> HIDE DEF best
  <1>3. Max({best, Number}) \in 0..MaxNumber
    <2>1. {best, Number} \in SUBSET (0..MaxNumber) /\ {best, Number} # {}
      BY <1>1, NumberInChain
    <2> QED BY <2>1, MaxOfBounded
  <1>4. upto \in Int /\ upto <= MaxNumber
    <2>1. CASE queue = EmptyBag
      BY <1>1, <2>1
    <2>2. CASE queue # EmptyBag
      <3>1. Top \in 1..MaxNumber
        BY <2>2, TopNumber
      <3>2. Top - 1 \in Int /\ Top - 1 <= MaxNumber /\ best \in Int /\ best <= MaxNumber
        BY <1>1, <3>1
      <3> DEFINE t == Top - 1  m == Min({best, t})
      <3>3. m \in {best, t}
        <4> HIDE DEF t
        <4> QED BY <3>2, MinOfTwo DEF t
      <3>4. m \in Int /\ m <= MaxNumber
        <4> HIDE DEF m
        <4> QED BY <3>2, <3>3
      <3> QED BY <2>2, <3>4
    <2> QED BY <2>1, <2>2
  <1> HIDE DEF upto
  <1>5. /\ knownHighest' \in 0..MaxNumber /\ maxRequest' \in 0..MaxNumber
        /\ syncing' \in BOOLEAN /\ due' \in BOOLEAN
        /\ reqQueue' \in [Peers -> SUBSET Ranges]
    <2>1. CASE UNCHANGED <<maxRequest, reqQueue>>
      BY <1>2, <1>3, <2>1 DEF TypeInv, TypeOK, Ranges
    <2>2. CASE ~(Number >= upto) /\ RequestBlocks(upto, best) /\ syncing' = TRUE /\ due' = FALSE
               /\ knownHighest' = Max({best, Number})
      <3>1. upto \in 0..MaxNumber /\ Number < upto
        BY <1>4, <2>2, NumberInChain
      <3> QED BY <1>3, <2>2, <3>1, TypesOfRequests
    <2> QED BY <1>2, <2>1, <2>2
  <1> QED BY <1>2, <1>5 DEF TypeInv, TypeOK, Ranges

LEMMA TypesInductive == TypeInv /\ [Next]_vars => TypeInv'
  BY TypesOfGroup, TypesOfAnswers, TypesOfQueue, TypesOfDownload, TypesOfStatus DEF Next, Worker

(* The node's view of its peers, its queues and its requests stay in their *)
(* types: no number beyond what the peers may have is known, asked for,    *)
(* buffered or committed (SyncMaster, DownloadingBlockQueue).              *)
THEOREM SyncTypeCorrect == Spec => []TypeOK
  <1>1. TypeInv => TypeOK
    BY DEF TypeInv
  <1> QED BY <1>1, InitiallyTyped, TypesInductive, PTL DEF Spec

-----------------------------------------------------------------------------
(* The chain                                                               *)

CommitsSigned == worker = "commit" => current \in Blocks /\ current.signed

IInv == TypeInv /\ CommitsSigned /\ ChainIsCanonical

(* commitBlock keeps the chain canonical for any signed block. *)
LEMMA CommitKeepsCanonical ==
  ASSUME TypeInv, ChainIsCanonical, NEW b \in Blocks, b.signed
  PROVE  \A i \in 1..Len(Committed(b)) : Committed(b)[i] = Signed(i)
  <1>1. chain \in Seq(Blocks)
    BY DEF TypeInv, TypeOK
  <1>2. CASE b.number # Number + 1
    BY <1>2 DEF Committed, ChainIsCanonical
  <1>3. CASE b.number = Number + 1
    <2>1. b = Signed(Len(chain) + 1)
      BY <1>3 DEF Blocks, Signed
    <2>2. Committed(b) = Append(chain, b) /\ Len(Append(chain, b)) = Len(chain) + 1
      BY <1>1, <1>3 DEF Committed
    <2>3. ASSUME NEW i \in 1..(Len(chain) + 1) PROVE Append(chain, b)[i] = Signed(i)
      BY <1>1, <2>1 DEF ChainIsCanonical
    <2> QED BY <2>2, <2>3
  <1> QED BY <1>2, <1>3

LEMMA Initially == Init => IInv
  BY InitiallyTyped DEF Init, IInv, CommitsSigned, ChainIsCanonical

LEMMA Inductive == IInv /\ [Next]_vars => IInv'
  <1> SUFFICES ASSUME IInv, [Next]_vars PROVE CommitsSigned' /\ ChainIsCanonical'
    BY TypesInductive DEF IInv
  <1> USE DEF IInv, CommitsSigned, ChainIsCanonical
  <1>1. CASE ConsensusCommits
    <2>1. Signed(sealing) \in Blocks /\ Signed(sealing).signed
      BY <1>1 DEF ConsensusCommits, Signed, Blocks
    <2> QED BY <1>1, <2>1, CommitKeepsCanonical DEF ConsensusCommits
  <1>2. CASE CommitTop
    <2>1. CASE chain' = Committed(current)
      <3>1. ChainIsCanonical'
        BY <1>2, <2>1, CommitKeepsCanonical DEF CommitTop
      <3> QED BY <1>2, <3>1 DEF CommitTop
    <2> QED BY <1>2, <2>1 DEF CommitTop
  <1>3. CASE ExecuteTop
    <2>1. PICK b \in Tops : isNextBlock(b) /\ current' = b
      BY <1>3 DEF ExecuteTop
    <2>2. b \in Blocks /\ b.signed
      BY <2>1 DEF Tops, isNextBlock, TypeInv, TypeOK
    <2> QED BY <1>3, <2>1, <2>2 DEF ExecuteTop
  <1>4. CASE \/ Timeout \/ WorkOnProposal \/ ViewChange \/ UNCHANGED vars
             \/ \E p \in Peers : PeerCommits(p) \/ PeerStatus(p) \/ ServeRequest(p) \/ LoseRequest(p)
             \/ \E n \in 1..MaxNumber : ForgedBlock(n)
    <2>1. UNCHANGED <<chain, worker, current>>
      BY <1>4 DEF Timeout, WorkOnProposal, ViewChange, noteSealingBlockNumber, vars, PeerCommits,
         PeerStatus, ServeRequest, LoseRequest, ForgedBlock
    <2> QED BY <2>1
  <1>5. CASE MaintainBuffer \/ FlushShard \/ EnterQueue \/ SkipTop \/ LeaveQueue \/ MaintainPeersStatus
    <2>1. UNCHANGED chain /\ worker' # "commit"
      BY <1>5 DEF MaintainBuffer, FlushShard, EnterQueue, SkipTop, LeaveQueue, MaintainPeersStatus
    <2> QED BY <2>1
  <1> QED BY <1>1, <1>2, <1>3, <1>4, <1>5 DEF Next, Worker

(* The node's chain holds the group's block of each number once, in order, *)
(* whatever its peers send and however its two committers interleave       *)
(* (SyncMaster::isNextBlock, BlockChainImp::commitBlock).                  *)
THEOREM SyncKeepsChainCanonical == Spec => []ChainIsCanonical
  <1>1. IInv => ChainIsCanonical
    BY DEF IInv
  <1> QED BY <1>1, Initially, Inductive, PTL DEF Spec

-----------------------------------------------------------------------------
(* The requests                                                            *)

LEMMA CoveredGrows ==
  ASSUME NEW R, NEW Q, R \subseteq Q
  PROVE  Covered(R) \subseteq Covered(Q)
  BY DEF Covered

(* The packet that holds the x-th block of a span is among its packets. *)
LEMMA PacketOf ==
  ASSUME NEW x \in Nat, NEW y \in Nat, x <= y
  PROVE  /\ x \div PacketSize \in Nat
         /\ x \div PacketSize + 1 <= (y + PacketSize) \div PacketSize
  <1> DEFINE P == PacketSize
             q == x \div P
             k == (y + P) \div P
  <1>1. q \in Nat /\ q * P <= x
    BY SMT
  <1>2. k \in Nat /\ y + P < (k + 1) * P
    BY SMT
  <1> HIDE DEF q, k
  <1>3. ASSUME ~(q + 1 <= k) PROVE FALSE
    <2>1. PICK j \in Nat : q = k + j
      <3>1. q - k \in Nat /\ q = k + (q - k)
        BY <1>1, <1>2, <1>3
      <3> QED BY <3>1
    <2>2. q * P = k * P + j * P /\ (k + 1) * P = k * P + P
      BY <1>2, <2>1
    <2>3. j * P \in Nat /\ k * P \in Nat
      BY <1>2, <2>1
    <2> DEFINE a == j * P  b == k * P  c == q * P  d == (k + 1) * P
    <2>4. a \in Nat /\ b \in Nat /\ c = b + a /\ d = b + P /\ c <= x /\ y + P < d
      BY <1>1, <1>2, <2>2, <2>3
    <2> HIDE DEF a, b, c, d
    <2> QED BY <2>4
  <1> QED BY <1>1, <1>3, <1>2 DEF q, k

(* Unless the buffer is full afterwards, every packet of an answer is in it. *)
LEMMA AnswerBuffered ==
  ASSUME TypeInv, NEW from \in 1..MaxNumber, NEW last \in 1..MaxNumber, NEW n \in from..last,
         buffer' = Buffered(Packets(from, last)), Len(buffer') < BufferLimit
  PROVE  Signed(n) \in SentNow
  <1> DEFINE pk == Packets(from, last)
             k == (last - from + PacketSize) \div PacketSize
             i == (n - from) \div PacketSize + 1
             m == Min({Len(pk), BufferLimit - Len(buffer)})
  <1>1. i \in 1..k /\ k \in Nat
    <2> DEFINE x == n - from  y == last - from
    <2>1. x \in Nat /\ y \in Nat /\ x <= y
      OBVIOUS
    <2> HIDE DEF x, y
    <2>2. (y + PacketSize) \div PacketSize \in Nat
      BY <2>1
    <2>3. x \div PacketSize \in Nat /\ x \div PacketSize + 1 <= (y + PacketSize) \div PacketSize
      BY <2>1, PacketOf
    <2>4. x \div PacketSize + 1 \in 1..((y + PacketSize) \div PacketSize)
      BY <2>2, <2>3
    <2> QED BY <2>2, <2>4 DEF x, y
  <1>2. pk = [j \in 1..k |-> {Signed(a) : a \in {b \in from..last : (b - from) \div PacketSize = j - 1}}]
    BY DEF Packets
  <1>3. Signed(n) \in pk[i]
    <2>1. n \in {b \in from..last : (b - from) \div PacketSize = i - 1}
      <3>1. (n - from) \div PacketSize = i - 1
        <4>1. (n - from) \div PacketSize \in Int
          OBVIOUS
        <4> QED BY <4>1
      <3> QED BY <3>1
    <2> QED BY <1>1, <1>2, <2>1
  <1>4. pk \in Seq(SUBSET Blocks) /\ Len(pk) = k
    <2>1. ASSUME NEW j \in 1..k PROVE pk[j] \in SUBSET Blocks
      <3>1. pk[j] = {Signed(a) : a \in {b \in from..last : (b - from) \div PacketSize = j - 1}}
        BY <1>2
      <3>2. \A a \in from..last : Signed(a) \in Blocks
        BY DEF Signed, Blocks
      <3> QED BY <3>1, <3>2
    <2>2. pk \in [1..k -> SUBSET Blocks]
      BY <1>2, <2>1
    <2> HIDE DEF pk, k
    <2> QED BY <1>1, <2>2
  <1> HIDE DEF pk, i, k
  <1>5. buffer \in Seq(SUBSET Blocks) /\ buffer' = buffer \o SubSeq(pk, 1, m)
    BY DEF Buffered, pk, TypeInv, TypeOK
  <1>6. m \in {Len(pk), BufferLimit - Len(buffer)} /\ m <= Len(pk) /\ m \in Int
    <2>1. Len(pk) \in Int /\ BufferLimit - Len(buffer) \in Int
      BY <1>1, <1>4, <1>5
    <2>2. m \in {Len(pk), BufferLimit - Len(buffer)} /\ m <= Len(pk)
      BY <2>1, MinOfTwo
    <2> HIDE DEF m
    <2> QED BY <2>1, <2>2
  <1> HIDE DEF m
  <1>7. m = Len(pk)
    <2>1. CASE m = BufferLimit - Len(buffer) /\ m >= 0
      <3>1. Len(SubSeq(pk, 1, m)) = m /\ SubSeq(pk, 1, m) \in Seq(SUBSET Blocks)
        BY <1>4, <1>6, <2>1
      <3>2. Len(buffer') = BufferLimit
        BY <1>5, <2>1, <3>1
      <3> QED BY <3>2
    <2>2. CASE m = BufferLimit - Len(buffer) /\ m < 0
      <3>1. Len(SubSeq(pk, 1, m)) = 0 /\ SubSeq(pk, 1, m) \in Seq(SUBSET Blocks)
        BY <1>4, <1>6, <2>2
      <3>2. Len(buffer') = Len(buffer)
        BY <1>5, <3>1
      <3> QED BY <1>5, <2>2, <3>2
    <2> QED BY <1>6, <2>1, <2>2
  <1>8. buffer' = buffer \o pk
    <2>1. SubSeq(pk, 1, Len(pk)) = pk
      BY <1>4
    <2> QED BY <1>5, <1>7, <2>1
  <1>9. Len(buffer) + i \in (Len(buffer) + 1)..Len(buffer') /\ buffer'[Len(buffer) + i] = pk[i]
    <2>1. buffer \in Seq(SUBSET Blocks) /\ pk \in Seq(SUBSET Blocks) /\ i \in 1..Len(pk)
      BY <1>1, <1>4, <1>5
    <2>2. Len(buffer \o pk) = Len(buffer) + Len(pk)
      BY <2>1
    <2>3. (buffer \o pk)[Len(buffer) + i] = pk[i]
      BY <2>1
    <2>4. Len(buffer) + i \in (Len(buffer) + 1)..(Len(buffer) + Len(pk))
      BY <2>1
    <2> QED BY <1>8, <2>2, <2>3, <2>4
  <1> QED BY <1>3, <1>9 DEF SentNow

(* What an answer does not bring goes back to the queue of the peer. *)
LEMMA AnswerForgetsNothing ==
  ASSUME TypeInv, NEW p \in Peers, ServeRequest(p), Len(buffer') < BufferLimit,
         NEW q \in Peers, NEW n \in Covered(reqQueue[q])
  PROVE  n \in Covered(reqQueue'[q]) \/ Signed(n) \in SentNow
  <1> DEFINE req == topAndPop(reqQueue[p])
             rest == reqQueue[p] \ Merged(reqQueue[p])
  <1>1. PICK last \in req.from..Min({req.to, height[p]}) :
          /\ buffer' = Buffered(Packets(req.from, last))
          /\ reqQueue' = [reqQueue EXCEPT ![p] =
               IF last < req.to THEN rest \cup {Span(last + 1, req.to)} ELSE rest]
    BY DEF ServeRequest
  <1>2. CASE q # p
    BY <1>1, <1>2 DEF TypeInv, TypeOK
  <1>3. CASE q = p
    <2>1. reqQueue[p] \in SUBSET Ranges /\ reqQueue[p] # {}
      BY DEF ServeRequest, TypeInv, TypeOK, Ranges
    <2>2. req \in Ranges /\ \A r \in Merged(reqQueue[p]) : req.from <= r.from /\ r.to <= req.to
      BY <2>1, MergedRanges
    <2>3. PICK r \in reqQueue[p] : n \in r.from..r.to
      BY <1>3 DEF Covered
    <2>4. reqQueue'[p] = IF last < req.to THEN rest \cup {Span(last + 1, req.to)} ELSE rest
      <3>1. p \in DOMAIN reqQueue
        BY DEF TypeInv, TypeOK
      <3> HIDE DEF req, rest
      <3> QED BY <1>1, <3>1
    <2>5. CASE r \notin Merged(reqQueue[p])
      <3>1. r \in reqQueue'[p]
        BY <2>4, <2>5
      <3> QED BY <1>3, <2>3, <3>1 DEF Covered
    <2>6. CASE r \in Merged(reqQueue[p])
      <3>1. /\ req.from \in 1..MaxNumber /\ req.to \in 1..MaxNumber /\ height[p] \in 0..MaxNumber
            /\ r.from \in 1..MaxNumber /\ r.to \in 1..MaxNumber
        BY <2>1, <2>2 DEF Ranges, TypeInv, TypeOK
      <3>2. req.from <= r.from /\ r.to <= req.to
        BY <2>2, <2>6
      <3> HIDE DEF req, rest
      <3>3. n \in req.from..req.to
        BY <2>3, <3>1, <3>2
      <3>4. last \in 1..MaxNumber
        <4> DEFINE to == Min({req.to, height[p]})
        <4>1. to \in {req.to, height[p]} /\ to <= req.to
          <5>1. req.to \in Int /\ height[p] \in Int
            BY <3>1
          <5> QED BY <5>1, MinOfTwo
        <4>2. last \in req.from..to
          BY <1>1
        <4> HIDE DEF to
        <4> QED BY <3>1, <4>1, <4>2
      <3>5. CASE n <= last
        <4>1. n \in req.from..last
          BY <3>1, <3>3, <3>4, <3>5
        <4> QED BY <1>1, <3>1, <3>4, <4>1, AnswerBuffered
      <3>6. CASE n > last
        <4>1. last < req.to /\ n \in (last + 1)..req.to
          BY <3>1, <3>3, <3>4, <3>6
        <4>2. Span(last + 1, req.to) \in reqQueue'[p]
          BY <2>4, <4>1
        <4> QED BY <1>3, <4>1, <4>2 DEF Covered, Span
      <3> QED BY <3>1, <3>3, <3>4, <3>5, <3>6
    <2> QED BY <2>5, <2>6
  <1> QED BY <1>2, <1>3

(* A turn of requests only adds to the queues of the peers. *)
LEMMA RequestsAdd ==
  ASSUME TypeInv, MaintainPeersStatus, NEW p \in Peers
  PROVE  reqQueue[p] \subseteq reqQueue'[p]
  <1>1. ASSUME NEW upto, NEW best, RequestBlocks(upto, best) PROVE reqQueue[p] \subseteq reqQueue'[p]
    <2> DEFINE shards(size) == Min({(upto - Number + size - 1) \div size, MaxRequestShards})
    <2>1. PICK size \in RequestSizes : \E a :
            reqQueue' = [q \in Peers |->
              reqQueue[q] \cup {Shard(i, size, upto) : i \in {j \in 0..(shards(size) - 1) : a[j] = q}}]
      BY <1>1, ZenonT(30) DEF RequestBlocks
    <2>2. PICK more : reqQueue' = [q \in Peers |-> reqQueue[q] \cup more[q]]
      <3>1. PICK a :
              reqQueue' = [q \in Peers |->
                reqQueue[q] \cup {Shard(i, size, upto) : i \in {j \in 0..(shards(size) - 1) : a[j] = q}}]
        BY <2>1
      <3> HIDE DEF shards
      <3> WITNESS [q \in Peers |-> {Shard(i, size, upto) : i \in {j \in 0..(shards(size) - 1) : a[j] = q}}]
      <3> QED BY <3>1, Zenon
    <2> QED BY <2>2
  <1> QED BY <1>1 DEF MaintainPeersStatus

LEMMA NothingForgottenStep ==
  ASSUME TypeInv, [Next]_vars, faults' = faults, Len(buffer') < BufferLimit,
         NEW p \in Peers, NEW n \in Covered(reqQueue[p])
  PROVE  n \in Covered(reqQueue'[p]) \/ Signed(n) \in SentNow
  <1>1. CASE \E q \in Peers : ServeRequest(q)
    BY <1>1, AnswerForgetsNothing
  <1>2. CASE MaintainPeersStatus
    BY <1>2, RequestsAdd, CoveredGrows
  <1>3. CASE \E q \in Peers : LoseRequest(q)
    <2>1. faults' = faults + 1 /\ faults' # faults
      BY <1>3 DEF LoseRequest
    <2> QED BY <2>1
  <1>4. CASE UNCHANGED reqQueue
    BY <1>4
  <1> QED BY <1>1, <1>2, <1>3, <1>4
      DEF Next, Worker, vars, Timeout, WorkOnProposal, ViewChange, noteSealingBlockNumber, ConsensusCommits,
          PeerCommits, PeerStatus, ForgedBlock, MaintainBuffer, FlushShard, EnterQueue, ExecuteTop,
          SkipTop, CommitTop, LeaveQueue

(* Every block asked of a peer is sent or still owed: the ranges a peer     *)
(* takes together and the packets it makes of them leave no number out, and *)
(* what it has not sent it asks of itself again (topAndPop, batchAndSend,  *)
(* maintainBlockRequest).                                                  *)
THEOREM RequestsKept == Spec => NothingForgotten
  <1> DEFINE A == \A p \in Peers :
       faults' = faults /\ Len(buffer') < BufferLimit =>
         \A n \in Covered(reqQueue[p]) : n \in Covered(reqQueue'[p]) \/ Signed(n) \in SentNow
  <1>1. TypeInv /\ [Next]_vars => [A]_vars
    BY NothingForgottenStep
  <1> QED BY <1>1, InitiallyTyped, TypesInductive, PTL DEF Spec, NothingForgotten
=============================================================================
