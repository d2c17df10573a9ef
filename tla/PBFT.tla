-------------------------------- MODULE PBFT --------------------------------
(***************************************************************************)
(* The PBFT engine of a group (libconsensus/pbft): the sealer thread that  *)
(* proposes blocks, the message handlers, the request caches, the timeout  *)
(* and view change, the committed-prepare lock with its backup on disk,    *)
(* and the crash and restart of a node.                                    *)
(*                                                                         *)
(* A message handler holds m_mutex from its first check to its last        *)
(* effect, so each handler is one action.  The network keeps every message *)
(* ever sent; a delivery that never happens is a lost message, one that    *)
(* happens late or twice is a reordered or forwarded one.                  *)
(***************************************************************************)
EXTENDS Integers, Sequences, FiniteSets

CONSTANTS N,          \* m_nodeNum, the number of sealers
          Up,         \* the sealers that run; the others are silent throughout
          Payload,    \* the transactions a non-empty block may carry
          NoTxs,      \* those of an empty block, which the engine omits
          MaxNumber,  \* bound: blocks sealed per chain
          MaxView,    \* bound: views per height
          MaxCrash,   \* bound: crashes, all nodes together
          Heard,      \* bound: the sealers whose signs, commits and view changes reach a node
          Events,     \* bound: which of the rare events below may happen
          LoseBackup  \* TRUE: a crash may come before the backup is on disk

ASSUME NAssumption == N \in Nat \ {0}
ASSUME PayloadAssumption == NoTxs \notin Payload
ASSUME UpAssumption == Up \subseteq 0..(N - 1)
ASSUME BoundAssumption == MaxNumber \in Nat /\ MaxView \in Nat /\ MaxCrash \in Nat
ASSUME HeardAssumption == Heard \in [Up -> SUBSET (0..(N - 1))]
ASSUME EventsAssumption == Events \subseteq {"empty", "disconnect", "garbage", "sync", "backup"}
ASSUME BackupAssumption == LoseBackup \in BOOLEAN

Idx == 0..(N - 1)

(* A block is known by its hash: here its number and what it carries. *)
Block == [number : 1..MaxNumber, txs : Payload \cup {NoTxs}]

m_f == (N - 1) \div 3
\* (a mutant: 2f + 1, which is less when N is not 3f + 1)
TwoFPlusOne == 2 * m_f + 1
minValidNodes == N - m_f

(* A PrepareReq; a cleared one has height -1 and matches no request. *)
PrepareReq == [idx : Idx, view : 0..MaxView, block : Block]
NoPrepare == [idx |-> -1, view |-> -1, block |-> [number |-> -1, txs |-> NoTxs]]

(* A SignReq or CommitReq in a cache; isFuture as checkReq marks it. *)
CachedReq == [idx : Idx, view : 0..MaxView, block : Block, isFuture : BOOLEAN]

(* A ViewChangeReq names the sender's highest block (its number and hash). *)
ViewChangeReq ==
  [idx : Idx, view : 0..MaxView, height : 0..MaxNumber, hash : Payload \cup {NoTxs}]
NoViewChange == [idx |-> -1, view |-> -1, height |-> -1, hash |-> NoTxs]

Msg == [type : {"prepare", "sign", "commit"}, idx : Idx, view : 0..MaxView, block : Block]

VARIABLES
  chain,           \* m_blockChain: the payloads of the committed blocks, on disk
  highest,         \* m_highestBlock.number(), what the engine knows of the chain
  view, toView,    \* m_view and m_toView
  leaderFailed,    \* m_leaderFailed
  raw,             \* m_rawPrepareCache
  prep,            \* m_prepareCache
  committed,       \* m_committedPrepareCache: the block this node is locked on
  backup,          \* the copy of it in the backup database
  signs, commits,  \* m_signCache, m_commitCache
  commitKey,       \* the hashes that have an entry, maybe empty, in m_commitCache
  recvViewChange,  \* m_recvViewChangeReq
  latestViewChange,\* m_latestViewChangeReqCache
  future,          \* m_futurePrepareCache
  sealing,         \* m_sealing of the sealer: the block's number and isSealed()
  msgs,            \* prepare, sign and commit requests sent so far
  viewMsgs,        \* view change requests sent so far
  crashes          \* how often a node has crashed

cacheVars == <<raw, prep, signs, commits, commitKey, future>>
viewVars == <<view, toView, leaderFailed, recvViewChange, latestViewChange>>
diskVars == <<chain, backup>>
vars == <<diskVars, highest, viewVars, cacheVars, committed, sealing, msgs, viewMsgs, crashes>>

-----------------------------------------------------------------------------
(* Who leads, and which requests are of the past or the future *)

consensusBlockNumber(n) == highest[n] + 1
HeadHash(n) == IF highest[n] = 0 THEN NoTxs ELSE chain[n][highest[n]]

(* getLeader fails once the node has given up on the leader. *)
Leader(n) == (view[n] + highest[n]) % N
IsLeader(n, i) == ~leaderFailed[n] /\ Leader(n) = i

hasConsensused(n, number, v) ==
  \/ number < consensusBlockNumber(n)
  \/ number = consensusBlockNumber(n) /\ v < view[n]

isFuturePrepare(n, p) ==
  \/ p.block.number > consensusBlockNumber(n)
  \/ p.block.number = consensusBlockNumber(n) /\ p.view > view[n]

isFutureBlock(n, m) == m.block.number >= consensusBlockNumber(n) \/ m.view > view[n]

\* (a mutant: the lock binds in the view it was taken in only)
LockOfSameView(n, p) ==
  p.block.number = committed[n].block.number /\ p.view = committed[n].view
    => p.block = committed[n].block

(* A node locked on a block of this height accepts no other one. *)
isHashSavedAfterCommit(n, p) ==
  p.block.number = committed[n].block.number => p.block = committed[n].block

isExistPrepare(n, p) == raw[n].block = p.block /\ raw[n].view >= p.view

-----------------------------------------------------------------------------
(* PBFTReqCache *)

(* The key of an entry is the signature of the hash: one per sealer and hash. *)
Cached(c, b, i) == \E e \in c : e.block = b /\ e.idx = i
AddReq(c, e) == IF Cached(c, e.block, e.idx) THEN c ELSE c \cup {e}
Entries(c, b) == {e \in c : e.block = b}
Signers(c, b) == {e.idx : e \in Entries(c, b)}

\* (a mutant: every sign is counted)
AllSigners(sg, b) == Cardinality(Signers(sg, b))

(* With 2f+1 entries or more, only 2f of those that came early are counted,
   so that the count goes through exactly minValidNodes. *)
getSigCacheSize(sg, b) ==
  LET early == {e \in Entries(sg, b) : e.isFuture}
      limit == minValidNodes - 1
      size  == Cardinality(Signers(sg, b))
  IN  IF size >= minValidNodes /\ Cardinality(early) > limit
      THEN size - (Cardinality(early) - limit)
      ELSE size

getCommitCacheSize(cm, b) == Cardinality(Signers(cm, b))

(* addPrepareReq drops what was cached for the block in another view. *)
RemoveInvalid(c, p) == {e \in c : e.block = p.block => e.view = p.view}
RemoveExpired(c, v) == {e \in c : e.view >= v}

(* Requests below the highest block, or for another block of its height. *)
Outdated(n, e) ==
  \/ e.block.number < highest[n]
  \/ e.block.number = highest[n] /\ e.block.txs # HeadHash(n)
OutdatedView(h, hash, e) == e.height < h \/ (e.height = h /\ e.hash # hash)

ViewChanges(rv, v) == {e.idx : e \in {x \in rv : x.view = v}}

-----------------------------------------------------------------------------
(* Committing: checkAndCommit and checkAndSave *)

(* The block is committed and its requests are dropped (delCache). *)
SaveBlock(n, p, sg, cm) ==
  /\ chain' = [chain EXCEPT ![n] = Append(@, p.block.txs)]
  /\ prep' = [prep EXCEPT ![n] = NoPrepare]
  /\ signs' = [signs EXCEPT ![n] = sg \ Entries(sg, p.block)]
  /\ commits' = [commits EXCEPT ![n] = cm \ Entries(cm, p.block)]
  /\ commitKey' = [commitKey EXCEPT ![n] = (@ \cup {e.block : e \in cm}) \ {p.block}]
  /\ future' = [future EXCEPT ![n] = {}]

KeepCaches(n, p, sg, cm, ft) ==
  /\ prep' = [prep EXCEPT ![n] = p]
  /\ signs' = [signs EXCEPT ![n] = sg]
  /\ commits' = [commits EXCEPT ![n] = cm]
  /\ commitKey' = [commitKey EXCEPT ![n] = @ \cup {e.block : e \in cm}]
  /\ future' = [future EXCEPT ![n] = ft]
  /\ UNCHANGED chain

\* (a mutant: one commit request too many is waited for)
CanSaveAbove(n, p, sg, cm) ==
  /\ p # NoPrepare
  /\ getSigCacheSize(sg, p.block) >= minValidNodes
  /\ getCommitCacheSize(cm, p.block) > minValidNodes
  /\ p.view = view[n]
  /\ p.block.number > highest[n]
  /\ p.block.number = Len(chain[n]) + 1

CanSave(n, p, sg, cm) ==
  /\ p # NoPrepare
  /\ getSigCacheSize(sg, p.block) >= minValidNodes
  /\ getCommitCacheSize(cm, p.block) >= minValidNodes
  /\ p.view = view[n]
  /\ p.block.number > highest[n]
  /\ p.block.number = Len(chain[n]) + 1        \* isBlockShouldCommit

checkAndSave(n, p, sg, cm, ft) ==
  IF CanSave(n, p, sg, cm) THEN SaveBlock(n, p, sg, cm)
                           ELSE KeepCaches(n, p, sg, cm, ft)

CanCommit(n, p, sg) ==
  /\ p # NoPrepare
  /\ getSigCacheSize(sg, p.block) = minValidNodes
  /\ p.view = view[n]

(* The lock is taken from the raw prepare, then the commit request goes out;
   broadcastMsg returns true whatever happens, so that it is always cached too. *)
checkAndCommit(n, r, p, sg, cm, ft, sent) ==
  IF CanCommit(n, p, sg)
  THEN /\ committed' = [committed EXCEPT ![n] = r]
       /\ msgs' = sent \cup
            {[type |-> "commit", idx |-> n, view |-> p.view, block |-> p.block]}
       /\ checkAndSave(n, p, sg,
            AddReq(cm, [idx |-> n, view |-> p.view, block |-> p.block, isFuture |-> FALSE]),
            ft)
  ELSE /\ msgs' = sent
       /\ KeepCaches(n, p, sg, cm, ft)
       /\ UNCHANGED committed

-----------------------------------------------------------------------------
(* Prepare requests *)

(* checkBlockValid throws for an old number and for one without a parent. *)
CanExecute(n, p) == p.block.number = Len(chain[n]) + 1

(* While it executes the leader's block, the next leader starts to seal. *)
notifySealing(n, p) ==
  sealing' = IF p.block.txs # NoTxs /\ CanExecute(n, p) /\ Leader(n) # n /\ (highest[n] + 1) % N = n
             THEN [sealing EXCEPT ![n] = [number |-> Len(chain[n]) + 2, sealed |-> FALSE]]
             ELSE sealing

(* addPrepareReq, broadcastSignReq and checkAndCommit after the execution. *)
SignPrepare(n, p, ft, sent) ==
  checkAndCommit(n, p, p,
    AddReq(RemoveInvalid(signs[n], p),
           [idx |-> n, view |-> p.view, block |-> p.block, isFuture |-> FALSE]),
    RemoveInvalid(commits[n], p), ft,
    sent \cup {[type |-> "sign", idx |-> n, view |-> p.view, block |-> p.block]})

\* (a mutant: an empty block is signed like any other)
SignEmptyToo(n, p, ft, sent) ==
  /\ raw' = [raw EXCEPT ![n] = p]
  /\ IF CanExecute(n, p)
     THEN SignPrepare(n, p, ft, sent)
     ELSE /\ KeepCaches(n, NoPrepare, signs[n], commits[n], ft)
          /\ msgs' = sent
          /\ UNCHANGED committed

(* An empty block is not signed (needOmit), one that fails to execute neither:
   the raw prepare stays, the prepare cache is left cleared. *)
execPrepareAndGenerateSignMsg(n, p, ft, sent) ==
  /\ raw' = [raw EXCEPT ![n] = p]
  /\ IF p.block.txs # NoTxs /\ CanExecute(n, p)
     THEN SignPrepare(n, p, ft, sent)
     ELSE /\ KeepCaches(n, NoPrepare, signs[n], commits[n], ft)
          /\ msgs' = sent
          /\ UNCHANGED committed

InvalidPrepare(n, p) ==
  \/ isExistPrepare(n, p)
  \/ hasConsensused(n, p.block.number, p.view)
  \/ p.block.txs # NoTxs /\ ~isHashSavedAfterCommit(n, p)
  \/ ~isFuturePrepare(n, p) /\ ~IsLeader(n, p.idx)

(* At most one future prepare is kept per height.  Nor is one kept beside 20
   others: it is as if it had not been delivered. *)
addFuturePrepareCache(n, p, ft) ==
  IF \E q \in ft : q.block.number = p.block.number THEN ft ELSE ft \cup {p}

(* ft: the future cache the handler leaves; sent: the messages sent before. *)
handlePrepareMsg(n, p, ft, sent) ==
  \/ /\ InvalidPrepare(n, p)
     /\ msgs' = sent
     /\ future' = [future EXCEPT ![n] = ft]
     /\ UNCHANGED <<chain, raw, prep, signs, commits, commitKey, committed>>
  \/ /\ ~InvalidPrepare(n, p) /\ isFuturePrepare(n, p)
     /\ msgs' = sent
     /\ future' = [future EXCEPT ![n] = addFuturePrepareCache(n, p, ft)]
     /\ UNCHANGED <<chain, raw, prep, signs, commits, commitKey, committed>>
  \/ /\ ~InvalidPrepare(n, p) /\ ~isFuturePrepare(n, p)
     /\ execPrepareAndGenerateSignMsg(n, p, ft, sent)

(* A prepare from the network; an invalid one changes nothing. *)
HandlePrepare(n, m) ==
  /\ m.type = "prepare" /\ m.idx # n
  /\ LET p == [idx |-> m.idx, view |-> m.view, block |-> m.block]
     IN  /\ ~InvalidPrepare(n, p)
         /\ handlePrepareMsg(n, p, future[n], msgs)
         /\ IF isFuturePrepare(n, p) THEN UNCHANGED sealing ELSE notifySealing(n, p)
  /\ UNCHANGED <<backup, highest, viewVars, viewMsgs, crashes>>

(* handleFutureBlock handles a kept prepare of this height and view. *)
HandleFuture(n) ==
  \E p \in future[n] :
    /\ p.block.number = consensusBlockNumber(n) /\ p.view = view[n]
    /\ handlePrepareMsg(n, p, future[n] \ {p}, msgs)
    /\ IF InvalidPrepare(n, p) THEN UNCHANGED sealing ELSE notifySealing(n, p)
    /\ UNCHANGED <<backup, highest, viewVars, viewMsgs, crashes>>

-----------------------------------------------------------------------------
(* Sign and commit requests *)

\* (a mutant: the view of a request is not compared)
ValidReqOfAnyView(n, m) == prep[n].block = m.block /\ m.idx # n

(* checkReq: a request for another block than the one prepared is kept for
   later; one for the prepared block must be of the prepared view.  What a node
   that synchronises higher blocks turns away counts as not delivered. *)
ValidReq(n, m) == prep[n].block = m.block /\ m.idx # n /\ prep[n].view = m.view
FutureReq(n, m) == prep[n].block # m.block /\ isFutureBlock(n, m)

HandleSign(n, m) ==
  /\ m.type = "sign" /\ m.idx \in Heard[n] \ {n}
  /\ ~Cached(signs[n], m.block, m.idx)
  /\ ~hasConsensused(n, m.block.number, m.view)
  /\ LET e == [idx |-> m.idx, view |-> m.view, block |-> m.block, isFuture |-> FutureReq(n, m)]
         sg == AddReq(signs[n], e)
     IN  \/ /\ ValidReq(n, m)
            /\ checkAndCommit(n, raw[n], prep[n], sg, commits[n], future[n], msgs)
            /\ UNCHANGED raw
         \/ /\ FutureReq(n, m)
            /\ signs' = [signs EXCEPT ![n] = sg]
            /\ UNCHANGED <<chain, raw, prep, commits, commitKey, future, committed, msgs>>
  /\ UNCHANGED <<backup, highest, viewVars, sealing, viewMsgs, crashes>>

HandleCommit(n, m) ==
  /\ m.type = "commit" /\ m.idx \in Heard[n] \ {n}
  /\ ~Cached(commits[n], m.block, m.idx)
  /\ ~hasConsensused(n, m.block.number, m.view)
  /\ LET e == [idx |-> m.idx, view |-> m.view, block |-> m.block, isFuture |-> FutureReq(n, m)]
         cm == AddReq(commits[n], e)
     IN  \/ /\ ValidReq(n, m)
            /\ checkAndSave(n, prep[n], signs[n], cm, future[n])
            /\ UNCHANGED raw
         \/ /\ FutureReq(n, m)
            /\ commits' = [commits EXCEPT ![n] = cm]
            /\ commitKey' = [commitKey EXCEPT ![n] = @ \cup {m.block}]
            /\ UNCHANGED <<chain, raw, prep, signs, future>>
  /\ UNCHANGED <<backup, highest, viewVars, committed, sealing, msgs, viewMsgs, crashes>>

-----------------------------------------------------------------------------
(* View change *)

(* Only the newest request of a sealer is taken, unless the one recorded for it
   is from below this node's chain: then that one is forgotten first. *)
checkViewChangeReq(n, lv, e) ==
  /\ e.height >= Len(chain[n])
  /\ \/ lv[e.idx].height < Len(chain[n])
     \/ e.height >= lv[e.idx].height /\ e.view >= lv[e.idx].view

addViewChangeReq(n, rv, lv, e) ==
  IF checkViewChangeReq(n, lv, e)
  THEN {x \in rv : /\ ~(x.idx = e.idx /\ x.view = e.view)
                   /\ ~(x = lv[e.idx] /\ x.height < Len(chain[n]))} \cup {e}
  ELSE rv

LatestAfter(n, lv, e) ==
  IF checkViewChangeReq(n, lv, e) THEN [lv EXCEPT ![e.idx] = e] ELSE lv

(* triggerViewChange: signs survive only for hashes the commit cache knows. *)
triggerViewChange(n, v, rv, lv) ==
  /\ raw' = [raw EXCEPT ![n] = NoPrepare]
  /\ prep' = [prep EXCEPT ![n] = NoPrepare]
  /\ commits' = [commits EXCEPT ![n] = RemoveExpired(@, v)]
  /\ signs' = [signs EXCEPT ![n] = {e \in RemoveExpired(@, v) : e.block \in commitKey[n]}]
  /\ future' = [future EXCEPT ![n] =
                  {p \in @ : p.block.number > Len(chain[n]) /\ p.view >= v}]
  /\ recvViewChange' = [recvViewChange EXCEPT ![n] = {e \in rv : e.view > v}]
  /\ latestViewChange' = [latestViewChange EXCEPT ![n] =
       [i \in Idx |-> IF lv[i].view <= v THEN NoViewChange ELSE lv[i]]]
  /\ UNCHANGED commitKey

CanChangeView(v, rv) == Cardinality(ViewChanges(rv, v)) >= minValidNodes

(* t, failed: m_toView and m_leaderFailed when the quorum is missed. *)
checkAndChangeView(n, v, rv, lv, t, failed) ==
  IF CanChangeView(v, rv)
  THEN /\ view' = [view EXCEPT ![n] = v]
       /\ toView' = [toView EXCEPT ![n] = v]
       /\ leaderFailed' = [leaderFailed EXCEPT ![n] = FALSE]
       /\ triggerViewChange(n, v, rv, lv)
  ELSE /\ toView' = [toView EXCEPT ![n] = t]
       /\ leaderFailed' = [leaderFailed EXCEPT ![n] = failed]
       /\ recvViewChange' = [recvViewChange EXCEPT ![n] = rv]
       /\ latestViewChange' = [latestViewChange EXCEPT ![n] = lv]
       /\ UNCHANGED <<view, cacheVars>>

(* resetBlockForViewChange keeps a sealed block the node may still propose. *)
ResetForViewChange(n) ==
  IF /\ sealing[n].sealed /\ sealing[n].number = Len(chain[n]) + 1
     /\ ~leaderFailed'[n] /\ (view'[n] + highest[n]) % N = n
  THEN sealing[n]
  ELSE [number |-> Len(chain[n]) + 1, sealed |-> FALSE]

(* checkTimeout: the node gives up on the leader and asks for the next view.
   Its early return is never taken: broadcastMsg cannot fail. *)
Timeout(n) ==
  LET t   == toView[n] + 1
      out == {x \in recvViewChange[n] : x.view = t /\ OutdatedView(highest[n], HeadHash(n), x)}
      rv0 == recvViewChange[n] \ out
      lv0 == IF \E x \in recvViewChange[n] : x.view = t
             THEN [i \in Idx |-> IF OutdatedView(highest[n], HeadHash(n), latestViewChange[n][i])
                                 THEN NoViewChange ELSE latestViewChange[n][i]]
             ELSE latestViewChange[n]
      e   == [idx |-> n, view |-> t, height |-> highest[n], hash |-> HeadHash(n)]
  IN  /\ t <= MaxView
      /\ viewMsgs' = viewMsgs \cup {e}
      /\ checkAndChangeView(n, t, addViewChangeReq(n, rv0, lv0, e), LatestAfter(n, lv0, e),
                            t, TRUE)
      /\ sealing' = [sealing EXCEPT ![n] = ResetForViewChange(n)]
      /\ UNCHANGED <<diskVars, highest, committed, msgs, crashes>>

(* catchupView answers a sealer that asks for a view long passed. *)
CatchUp(n, e, direct) == direct /\ e.view + 1 < toView[n]
CatchUpMsg(n) == [idx |-> n, view |-> toView[n], height |-> highest[n], hash |-> HeadHash(n)]

InvalidViewChange(n, e) ==
  \/ e.view <= view[n]
  \/ e.height = highest[n] /\ e.hash # HeadHash(n)
  \/ e.height > Len(chain[n])

(* The requests above toView that canTriggerViewChange counts. *)
Ahead(n, rv) == {x \in rv : x.view > toView[n] /\ x.height >= highest[n]}

(* The minView it may return: the map is unordered, and a request of a sealer
   seen in a higher view first is passed over. *)
MinViews(A) ==
  {v \in {x.view : x \in A} : \A x \in A : \E y \in A : y.idx = x.idx /\ y.view >= v}

canTriggerViewChange(n, A) ==
  /\ Cardinality({x.idx : x \in A}) > m_f
  /\ ~ /\ committed[n].block.number = consensusBlockNumber(n)
       /\ \A x \in A : x.height >= consensusBlockNumber(n)
       /\ \E x \in A : x.height = consensusBlockNumber(n)

(* direct: the request came from its sender and not through another sealer. *)
HandleViewChange(n, e, direct) ==
  /\ e.idx \in Heard[n] \ {n}
  /\ ~ \E x \in recvViewChange[n] : x.view = e.view /\ x.idx = e.idx
  /\ e.height >= highest[n]
  /\ viewMsgs' = IF CatchUp(n, e, direct) THEN viewMsgs \cup {CatchUpMsg(n)} ELSE viewMsgs
  /\ LET lv == IF CatchUp(n, e, direct)
               THEN [latestViewChange[n] EXCEPT ![e.idx] = NoViewChange]
               ELSE latestViewChange[n]
         rv == addViewChangeReq(n, recvViewChange[n], lv, e)
         A  == Ahead(n, rv)
     IN  \/ /\ InvalidViewChange(n, e) /\ CatchUp(n, e, direct)
            /\ latestViewChange' = [latestViewChange EXCEPT ![n] = lv]
            /\ UNCHANGED <<view, toView, leaderFailed, recvViewChange, cacheVars>>
         \/ /\ ~InvalidViewChange(n, e)
            /\ IF ~CanChangeView(e.view, rv) /\ e.view > toView[n] /\ canTriggerViewChange(n, A)
               THEN \E v \in MinViews(A) :
                      checkAndChangeView(n, e.view, rv, LatestAfter(n, lv, e),
                                         v - 1, leaderFailed[n])
               ELSE checkAndChangeView(n, e.view, rv, LatestAfter(n, lv, e),
                                       toView[n], leaderFailed[n])
  /\ UNCHANGED <<diskVars, highest, committed, sealing, msgs, crashes>>

(* The disconnect handler forgets the newest request of the lost peer. *)
Disconnect(n, i) ==
  /\ "disconnect" \in Events /\ i # n
  /\ latestViewChange[n][i] # NoViewChange
  /\ latestViewChange' = [latestViewChange EXCEPT ![n][i] = NoViewChange]
  /\ UNCHANGED <<diskVars, highest, view, toView, leaderFailed, recvViewChange, cacheVars,
                 committed, sealing, msgs, viewMsgs, crashes>>

-----------------------------------------------------------------------------
(* The sealer *)

PrepareMsg(p) == [type |-> "prepare", idx |-> p.idx, view |-> p.view, block |-> p.block]

(* The next leader may only load transactions: handleBlock is the leader's. *)
ShouldSeal(n) == ~sealing[n].sealed /\ IsLeader(n, n)

(* The leader seals a block with transactions and proposes it. *)
Seal(n, txs) ==
  /\ ShouldSeal(n)
  /\ committed[n].block.number # consensusBlockNumber(n)
  /\ sealing[n].number = Len(chain[n]) + 1
  /\ sealing[n].number <= MaxNumber
  /\ LET p == [idx |-> n, view |-> view[n],
               block |-> [number |-> Len(chain[n]) + 1, txs |-> txs]]
     IN  /\ handlePrepareMsg(n, p, future[n], msgs \cup {PrepareMsg(p)})
         /\ sealing' = [sealing EXCEPT ![n].sealed = TRUE]
  /\ UNCHANGED <<backup, highest, viewVars, viewMsgs, crashes>>

(* An empty block is broadcast, but the leader only gives its turn away. *)
SealEmpty(n) ==
  /\ "empty" \in Events
  /\ ShouldSeal(n)
  /\ committed[n].block.number # consensusBlockNumber(n)
  /\ sealing[n].number = Len(chain[n]) + 1
  /\ sealing[n].number <= MaxNumber
  /\ LET p == [idx |-> n, view |-> view[n],
               block |-> [number |-> Len(chain[n]) + 1, txs |-> NoTxs]]
     IN  msgs' = msgs \cup {PrepareMsg(p)}
  /\ leaderFailed' = [leaderFailed EXCEPT ![n] = TRUE]
  /\ sealing' = [sealing EXCEPT ![n] = [number |-> Len(chain[n]) + 1, sealed |-> FALSE]]
  /\ UNCHANGED <<diskVars, highest, view, toView, recvViewChange, latestViewChange, cacheVars,
                 committed, viewMsgs, crashes>>

(* A leader that is locked proposes the block it is locked on again. *)
RehandleCommittedPrepare(n) ==
  /\ ShouldSeal(n)
  /\ committed[n].block.number = consensusBlockNumber(n)
  /\ raw[n].block.number # consensusBlockNumber(n)
  /\ LET p == [idx |-> n, view |-> view[n], block |-> committed[n].block]
     IN  handlePrepareMsg(n, p, future[n], msgs \cup {PrepareMsg(p)})
  /\ UNCHANGED <<backup, highest, viewVars, sealing, viewMsgs, crashes>>

-----------------------------------------------------------------------------
(* The chain moves on: synchronisation, reportBlock *)

(* The sync module commits the next block of a peer; checkBlock has found
   minValidNodes signatures on it. *)
SyncBlock(n, m) ==
  /\ "sync" \in Events
  /\ Len(chain[n]) < Len(chain[m])
  /\ chain' = [chain EXCEPT ![n] = Append(@, chain[m][Len(chain[n]) + 1])]
  /\ UNCHANGED <<backup, highest, viewVars, cacheVars, committed, sealing, msgs, viewMsgs, crashes>>

\* (a mutant: the head it already knows is taken for a new one)
NewHeadOrSame(n) == Len(chain[n]) > 0 /\ highest[n] <= Len(chain[n])

(* The genesis block is reported once, by Sealer::start, and finds the caches empty. *)
NewHead(n) == highest[n] < Len(chain[n])

(* Sealer::reportNewBlock: the engine learns of the new head of the chain. *)
ReportBlock(n) ==
  LET h    == Len(chain[n])
      head == [number |-> h, txs |-> chain[n][h]]
      mine == h % N = n
      stale == sealing[n].sealed \/ sealing[n].number <= h
      handle == sealing[n].sealed /\ sealing[n].number = h + 1 /\ mine
  IN  /\ NewHead(n)
      /\ highest' = [highest EXCEPT ![n] = h]
      /\ view' = [view EXCEPT ![n] = 0]
      /\ toView' = [toView EXCEPT ![n] = 0]
      /\ leaderFailed' = [leaderFailed EXCEPT ![n] = FALSE]
      /\ recvViewChange' = [recvViewChange EXCEPT ![n] =
                              {e \in @ : ~OutdatedView(h, head.txs, e)}]
      /\ signs' = [signs EXCEPT ![n] = @ \ Entries(@, head)]
      /\ commits' = [commits EXCEPT ![n] = @ \ Entries(@, head)]
      /\ commitKey' = [commitKey EXCEPT ![n] = @ \ {head}]
      /\ prep' = IF prep[n].block = head THEN [prep EXCEPT ![n] = NoPrepare] ELSE prep
      /\ future' = [future EXCEPT ![n] = {}]
      /\ sealing' = IF stale /\ mine /\ ~handle
                    THEN [sealing EXCEPT ![n] = [number |-> h + 1, sealed |-> FALSE]]
                    ELSE sealing
      /\ UNCHANGED <<diskVars, latestViewChange, raw, committed, msgs, viewMsgs, crashes>>

(* collectGarbage of the caches, once a minute. *)
CollectGarbage(n) ==
  /\ "garbage" \in Events
  /\ signs' = [signs EXCEPT ![n] = {e \in @ : ~Outdated(n, e)}]
  /\ commits' = [commits EXCEPT ![n] = {e \in @ : ~Outdated(n, e)}]
  /\ commitKey' = [commitKey EXCEPT ![n] = {e.block : e \in commits'[n]}]
  /\ future' = [future EXCEPT ![n] = {p \in @ : p.block.number > highest[n]}]
  /\ recvViewChange' = [recvViewChange EXCEPT ![n] =
                          {e \in @ : ~OutdatedView(highest[n], HeadHash(n), e)}]
  /\ latestViewChange' = [latestViewChange EXCEPT ![n] =
       [i \in Idx |-> IF OutdatedView(highest[n], HeadHash(n), @[i])
                      THEN NoViewChange ELSE @[i]]]
  /\ UNCHANGED <<diskVars, highest, view, toView, leaderFailed, raw, prep, committed, sealing,
                 msgs, viewMsgs, crashes>>

-----------------------------------------------------------------------------
(* The backup, crash and restart *)

(* The task queued by checkAndCommit writes what the node is locked on. *)
BackupMsg(n) ==
  /\ "backup" \in Events
  /\ backup[n] # committed[n]
  /\ backup' = [backup EXCEPT ![n] = committed[n]]
  /\ UNCHANGED <<chain, highest, viewVars, cacheVars, committed, sealing, msgs, viewMsgs, crashes>>

(* initPBFTEnv and initBackupDB after a crash: the chain and the backup are
   all that is left. *)
CrashAndRestart(n) ==
  /\ crashes < MaxCrash
  /\ LoseBackup \/ backup[n] = committed[n]
  /\ crashes' = crashes + 1
  /\ highest' = [highest EXCEPT ![n] = Len(chain[n])]
  /\ view' = [view EXCEPT ![n] = 0]
  /\ toView' = [toView EXCEPT ![n] = 0]
  /\ leaderFailed' = [leaderFailed EXCEPT ![n] = FALSE]
  /\ raw' = [raw EXCEPT ![n] = NoPrepare]
  /\ prep' = [prep EXCEPT ![n] = NoPrepare]
  /\ committed' = [committed EXCEPT ![n] = backup[n]]
  /\ signs' = [signs EXCEPT ![n] = {}]
  /\ commits' = [commits EXCEPT ![n] = {}]
  /\ commitKey' = [commitKey EXCEPT ![n] = {}]
  /\ future' = [future EXCEPT ![n] = {}]
  /\ recvViewChange' = [recvViewChange EXCEPT ![n] = {}]
  /\ latestViewChange' = [latestViewChange EXCEPT ![n] = [i \in Idx |-> NoViewChange]]
  /\ sealing' = [sealing EXCEPT ![n] = [number |-> Len(chain[n]) + 1, sealed |-> FALSE]]
  /\ UNCHANGED <<diskVars, msgs, viewMsgs>>

-----------------------------------------------------------------------------
Init ==
  /\ chain = [n \in Up |-> << >>]
  /\ highest = [n \in Up |-> 0]
  /\ view = [n \in Up |-> 0]
  /\ toView = [n \in Up |-> 0]
  /\ leaderFailed = [n \in Up |-> FALSE]
  /\ raw = [n \in Up |-> NoPrepare]
  /\ prep = [n \in Up |-> NoPrepare]
  /\ committed = [n \in Up |-> NoPrepare]
  /\ backup = [n \in Up |-> NoPrepare]
  /\ signs = [n \in Up |-> {}]
  /\ commits = [n \in Up |-> {}]
  /\ commitKey = [n \in Up |-> {}]
  /\ recvViewChange = [n \in Up |-> {}]
  /\ latestViewChange = [n \in Up |-> [i \in Idx |-> NoViewChange]]
  /\ future = [n \in Up |-> {}]
  /\ sealing = [n \in Up |-> [number |-> 1, sealed |-> FALSE]]
  /\ msgs = {}
  /\ viewMsgs = {}
  /\ crashes = 0

Next ==
  \E n \in Up :
    \/ \E txs \in Payload : Seal(n, txs)
    \/ SealEmpty(n)
    \/ RehandleCommittedPrepare(n)
    \/ \E m \in msgs : HandlePrepare(n, m) \/ HandleSign(n, m) \/ HandleCommit(n, m)
    \/ HandleFuture(n)
    \/ Timeout(n)
    \/ \E e \in viewMsgs, direct \in BOOLEAN : HandleViewChange(n, e, direct)
    \/ \E i \in Idx : Disconnect(n, i)
    \/ \E m \in Up : SyncBlock(n, m)
    \/ ReportBlock(n)
    \/ CollectGarbage(n)
    \/ BackupMsg(n)
    \/ CrashAndRestart(n)

Spec == Init /\ [][Next]_vars

-----------------------------------------------------------------------------
(* Type correctness of what a node keeps and sends. *)
TypeOK ==
  /\ chain \in [Up -> Seq(Payload)]
  /\ highest \in [Up -> Nat]
  /\ view \in [Up -> 0..MaxView] /\ toView \in [Up -> 0..MaxView]
  /\ leaderFailed \in [Up -> BOOLEAN]
  /\ raw \in [Up -> PrepareReq \cup {NoPrepare}]
  /\ prep \in [Up -> {p \in PrepareReq : p.block.txs # NoTxs} \cup {NoPrepare}]
  /\ committed \in [Up -> PrepareReq \cup {NoPrepare}]
  /\ backup \in [Up -> PrepareReq \cup {NoPrepare}]
  /\ signs \in [Up -> SUBSET CachedReq] /\ commits \in [Up -> SUBSET CachedReq]
  /\ commitKey \in [Up -> SUBSET Block]
  /\ recvViewChange \in [Up -> SUBSET ViewChangeReq]
  /\ latestViewChange \in [Up -> [Idx -> ViewChangeReq \cup {NoViewChange}]]
  /\ future \in [Up -> SUBSET PrepareReq]
  /\ sealing \in [Up -> [number : Nat, sealed : BOOLEAN]]
  /\ msgs \subseteq Msg /\ viewMsgs \subseteq ViewChangeReq
  /\ crashes \in 0..MaxCrash

(* No two nodes ever commit different blocks at one height: the chains agree
   wherever both reach (checkAndSave and the lock of isHashSavedAfterCommit,
   across view changes, late messages and restarts). *)
Agreement ==
  \A n, m \in Up : \A h \in 1..Len(chain[n]) :
    h <= Len(chain[m]) => chain[n][h] = chain[m][h]

(* A node sends commit requests for one block per height only, whatever views
   it goes through: the lock set by checkAndCommit is never broken. *)
OneCommitPerHeight ==
  \A a, b \in {m \in msgs : m.type = "commit"} :
    a.idx = b.idx /\ a.block.number = b.block.number => a.block = b.block

(* The exact test sign_size == minValidNodes of checkAndCommit is not stepped
   over: a node with a quorum of signs for its prepared block is locked on it,
   however many signs came before the prepare.  It is when a prepare comes again
   after another one of its view, which takes a leader that has restarted, or one
   that has learned of its chain a round late. *)
SignQuorumNotMissed ==
  \A n \in Up :
    /\ prep[n] # NoPrepare /\ prep[n].view = view[n]
    /\ Cardinality(Signers(signs[n], prep[n].block)) >= minValidNodes
    => committed[n].block = prep[n].block

(* A leader proposes one block for a height in a view, an empty one included: what
   a crash takes away, with m_rawPrepareCache and the sealer's block. *)
OneProposalPerView ==
  \A p, q \in {m \in msgs : m.type = "prepare"} :
    p.idx = q.idx /\ p.view = q.view /\ p.block.number = q.block.number => p.block = q.block

(* A node learns of the blocks of its chain before it has grown by N of them, so
   that no leader is in a view of the last round with a block of the next. *)
ReportsInTime == \A n \in Up : Len(chain[n]) < highest[n] + N

(* The prepared block is the next of the chain and of this view: what is cached
   for it counts. *)
NextPrepared(n) ==
  /\ prep[n] # NoPrepare /\ prep[n].view = view[n]
  /\ prep[n].block.number = Len(chain[n]) + 1

(* A quorum of signs and no lock; quorums of signs and commits and no block. *)
SignsMissed(n) ==
  /\ NextPrepared(n) /\ committed[n].block # prep[n].block
  /\ Cardinality(Signers(signs[n], prep[n].block)) >= minValidNodes
CommitsMissed(n) ==
  /\ NextPrepared(n)
  /\ Cardinality(Signers(signs[n], prep[n].block)) >= minValidNodes
  /\ Cardinality(Signers(commits[n], prep[n].block)) >= minValidNodes

(* A prepare comes again that the node has signed in this view, and has left for
   another one of its leader since. *)
PreparedAgain(n) ==
  /\ prep'[n] # prep[n]
  /\ [idx |-> n, view |-> prep'[n].view, block |-> prep'[n].block, isFuture |-> FALSE]
       \in signs[n]

(* No order of arrival loses a quorum: a node locks at the last of the signs and
   commits at the last of the signs and commits, whether these come before the
   prepare, after it or in other views (checkAndCommit, checkAndSave).  The one
   step that loses a quorum is the repeated prepare of SignQuorumNotMissed. *)
CommitQuorumNotMissed ==
  [][\A n \in Up : /\ SignsMissed(n)' => SignsMissed(n) \/ PreparedAgain(n)
                   /\ CommitsMissed(n)' => CommitsMissed(n) \/ PreparedAgain(n)]_vars

(* What is counted as a quorum was all sent in the prepared view: requests
   kept from other views never complete one. *)
QuorumOfOneView ==
  \A n \in Up : \A e \in signs[n] \cup commits[n] :
    prep[n] # NoPrepare /\ e.block = prep[n].block => e.view = prep[n].view

(* Between two blocks a node's view only grows, except by a restart. *)
ViewGrows ==
  [][\A n \in Up : view'[n] < view[n] => highest'[n] > highest[n] \/ crashes' > crashes]_vars

(* The longest chain is the decided one; a node has learned what it holds. *)
LongestChain ==
  LET n == CHOOSE i \in Up : \A j \in Up : Len(chain[j]) <= Len(chain[i])
  IN  chain[n]

AC == INSTANCE AgreedChain WITH
        Node <- Up, Block <- Payload,
        decided <- LongestChain, learned <- [n \in Up |-> Len(chain[n])]

(* The engine implements the agreed chain: a commit extends the longest chain
   or repeats what another node has committed at that height. *)
ImplementsAgreedChain == AC!Spec
=============================================================================
