----------------------------- MODULE PBFTProofs -----------------------------
(***************************************************************************)
(* Theorems about PBFT, for every number of sealers, every set of running  *)
(* nodes and every bound: type correctness, one commit per height, and the *)
(* agreement of the chains when no crash loses a backup; one view per      *)
(* quorum, views that grow, and no quorum overlooked; one proposal of a    *)
(* leader in a view, and the lock at every quorum of signs it gives.       *)
(***************************************************************************)
EXTENDS PBFT, FiniteSetTheorems, TLAPS

AllAssumptions ==
  /\ N \in Nat \ {0} /\ NoTxs \notin Payload /\ Up \subseteq 0..(N - 1)
  /\ MaxNumber \in Nat /\ MaxView \in Nat /\ MaxCrash \in Nat
  /\ Heard \in [Up -> SUBSET (0..(N - 1))] /\ LoseBackup \in BOOLEAN

LEMMA Assumed == AllAssumptions
  BY NAssumption, PayloadAssumption, UpAssumption, BoundAssumption, HeardAssumption,
     BackupAssumption DEF AllAssumptions

-----------------------------------------------------------------------------
(* Type correctness *)

SignedReq == {p \in PrepareReq : p.block.txs # NoTxs}

(* The part of TypeOK that the message handlers change. *)
HandlerType ==
  /\ chain \in [Up -> Seq(Payload)]
  /\ raw \in [Up -> PrepareReq \cup {NoPrepare}]
  /\ prep \in [Up -> SignedReq \cup {NoPrepare}]
  /\ committed \in [Up -> PrepareReq \cup {NoPrepare}]
  /\ signs \in [Up -> SUBSET CachedReq] /\ commits \in [Up -> SUBSET CachedReq]
  /\ commitKey \in [Up -> SUBSET Block]
  /\ future \in [Up -> SUBSET PrepareReq]
  /\ msgs \subseteq Msg

ViewType ==
  /\ view \in [Up -> 0..MaxView] /\ toView \in [Up -> 0..MaxView]
  /\ leaderFailed \in [Up -> BOOLEAN]
  /\ recvViewChange \in [Up -> SUBSET ViewChangeReq]
  /\ latestViewChange \in [Up -> [Idx -> ViewChangeReq \cup {NoViewChange}]]
  /\ viewMsgs \subseteq ViewChangeReq

OtherType ==
  /\ highest \in [Up -> Nat]
  /\ backup \in [Up -> PrepareReq \cup {NoPrepare}]
  /\ sealing \in [Up -> [number : Nat, sealed : BOOLEAN]]
  /\ crashes \in 0..MaxCrash

LEMMA TypeParts == TypeOK <=> HandlerType /\ ViewType /\ OtherType
  BY DEF TypeOK, HandlerType, ViewType, OtherType, SignedReq

(* A request in a cache carries a block, a prepare carries a block. *)
LEMMA CacheTypes ==
  /\ \A c \in SUBSET CachedReq, e \in CachedReq : AddReq(c, e) \in SUBSET CachedReq
  /\ \A c \in SUBSET CachedReq :
       /\ \A p : RemoveInvalid(c, p) \in SUBSET CachedReq
       /\ \A v : RemoveExpired(c, v) \in SUBSET CachedReq
       /\ \A b : c \ Entries(c, b) \in SUBSET CachedReq
  /\ \A c \in SUBSET CachedReq : {e.block : e \in c} \in SUBSET Block
  /\ SignedReq \subseteq PrepareReq
  /\ \A p \in PrepareReq : p.block \in Block /\ p.view \in 0..MaxView /\ p.idx \in Idx
  BY DEF AddReq, RemoveInvalid, RemoveExpired, Entries, CachedReq, PrepareReq, SignedReq

(* Storing the caches keeps the types. *)
LEMMA KeepTypes ==
  ASSUME HandlerType, NEW n \in Up, NEW p \in SignedReq \cup {NoPrepare},
         NEW sg \in SUBSET CachedReq, NEW cm \in SUBSET CachedReq,
         NEW ft \in SUBSET PrepareReq, KeepCaches(n, p, sg, cm, ft)
  PROVE  /\ chain' \in [Up -> Seq(Payload)]
         /\ prep' \in [Up -> SignedReq \cup {NoPrepare}]
         /\ signs' \in [Up -> SUBSET CachedReq] /\ commits' \in [Up -> SUBSET CachedReq]
         /\ commitKey' \in [Up -> SUBSET Block]
         /\ future' \in [Up -> SUBSET PrepareReq]
  BY CacheTypes DEF KeepCaches, HandlerType

(* checkAndSave keeps the types, whatever the caches it is given. *)
LEMMA SaveTypes ==
  ASSUME HandlerType, NEW n \in Up, NEW p \in SignedReq \cup {NoPrepare},
         NEW sg \in SUBSET CachedReq, NEW cm \in SUBSET CachedReq,
         NEW ft \in SUBSET PrepareReq, checkAndSave(n, p, sg, cm, ft)
  PROVE  /\ chain' \in [Up -> Seq(Payload)]
         /\ prep' \in [Up -> SignedReq \cup {NoPrepare}]
         /\ signs' \in [Up -> SUBSET CachedReq] /\ commits' \in [Up -> SUBSET CachedReq]
         /\ commitKey' \in [Up -> SUBSET Block]
         /\ future' \in [Up -> SUBSET PrepareReq]
<1>1. CASE CanSave(n, p, sg, cm)
  <2>1. p \in SignedReq
    BY <1>1 DEF CanSave
  <2>2. p.block.txs \in Payload
    BY <2>1 DEF SignedReq, PrepareReq, Block
  <2>3. SaveBlock(n, p, sg, cm)
    BY <1>1 DEF checkAndSave
  <2>4. Append(chain[n], p.block.txs) \in Seq(Payload)
    BY <2>2 DEF HandlerType
  <2>5. chain' \in [Up -> Seq(Payload)]
    BY <2>3, <2>4 DEF SaveBlock, HandlerType
  <2>6. signs' \in [Up -> SUBSET CachedReq] /\ commits' \in [Up -> SUBSET CachedReq]
    BY <2>3, CacheTypes DEF SaveBlock, HandlerType
  <2>7. commitKey' \in [Up -> SUBSET Block]
    BY <2>3, CacheTypes DEF SaveBlock, HandlerType
  <2> QED
    BY <2>3, <2>5, <2>6, <2>7 DEF SaveBlock, HandlerType
<1>2. CASE ~CanSave(n, p, sg, cm)
  <2>1. KeepCaches(n, p, sg, cm, ft)
    BY <1>2 DEF checkAndSave
  <2> QED
    BY <2>1, KeepTypes
<1> QED
  BY <1>1, <1>2

(* checkAndCommit keeps the types and leaves every variable but raw settled. *)
LEMMA CommitTypes ==
  ASSUME HandlerType, NEW n \in Up, NEW r \in PrepareReq \cup {NoPrepare},
         NEW p \in SignedReq \cup {NoPrepare},
         NEW sg \in SUBSET CachedReq, NEW cm \in SUBSET CachedReq,
         NEW ft \in SUBSET PrepareReq, NEW sent \in SUBSET Msg,
         checkAndCommit(n, r, p, sg, cm, ft, sent),
         raw' \in [Up -> PrepareReq \cup {NoPrepare}]
  PROVE  HandlerType'
<1>1. CASE CanCommit(n, p, sg)
  <2>1. p \in PrepareReq
    BY <1>1 DEF CanCommit, SignedReq
  <2> DEFINE e == [idx |-> n, view |-> p.view, block |-> p.block, isFuture |-> FALSE]
             m == [type |-> "commit", idx |-> n, view |-> p.view, block |-> p.block]
  <2>2. e \in CachedReq /\ m \in Msg
    BY <2>1, UpAssumption DEF CachedReq, Msg, PrepareReq, Idx
  <2>3. AddReq(cm, e) \in SUBSET CachedReq
    BY <2>2, CacheTypes
  <2>4. /\ committed' = [committed EXCEPT ![n] = r] /\ msgs' = sent \cup {m}
        /\ checkAndSave(n, p, sg, AddReq(cm, e), ft)
    BY <1>1 DEF checkAndCommit
  <2>5. committed' \in [Up -> PrepareReq \cup {NoPrepare}] /\ msgs' \subseteq Msg
    BY <2>2, <2>4 DEF HandlerType
  <2> QED
    BY <2>3, <2>4, <2>5, SaveTypes DEF HandlerType
<1>2. CASE ~CanCommit(n, p, sg)
  BY <1>2, KeepTypes DEF checkAndCommit, HandlerType
<1> QED
  BY <1>1, <1>2

(* The handler of a prepare keeps the types. *)
LEMMA PrepareTypes ==
  ASSUME HandlerType, NEW n \in Up, NEW p \in PrepareReq, NEW ft \in SUBSET PrepareReq,
         NEW sent \in SUBSET Msg, handlePrepareMsg(n, p, ft, sent)
  PROVE  HandlerType'
<1>1. CASE ~InvalidPrepare(n, p) /\ ~isFuturePrepare(n, p)
  <2>1. execPrepareAndGenerateSignMsg(n, p, ft, sent)
    BY <1>1 DEF handlePrepareMsg
  <2>2. raw' \in [Up -> PrepareReq \cup {NoPrepare}]
    BY <2>1 DEF execPrepareAndGenerateSignMsg, HandlerType
  <2>3. CASE p.block.txs # NoTxs /\ CanExecute(n, p)
    <3> DEFINE e == [idx |-> n, view |-> p.view, block |-> p.block, isFuture |-> FALSE]
               m == [type |-> "sign", idx |-> n, view |-> p.view, block |-> p.block]
    <3>1. p \in SignedReq /\ e \in CachedReq /\ m \in Msg
      BY <2>3, UpAssumption DEF SignedReq, CachedReq, Msg, PrepareReq, Idx
    <3>2. /\ AddReq(RemoveInvalid(signs[n], p), e) \in SUBSET CachedReq
          /\ RemoveInvalid(commits[n], p) \in SUBSET CachedReq
      BY <3>1, CacheTypes DEF HandlerType
    <3>3. checkAndCommit(n, p, p, AddReq(RemoveInvalid(signs[n], p), e),
                         RemoveInvalid(commits[n], p), ft, sent \cup {m})
      BY <2>1, <2>3 DEF execPrepareAndGenerateSignMsg, SignPrepare
    <3>4. sent \cup {m} \in SUBSET Msg
      BY <3>1
    <3> HIDE DEF e, m
    <3> QED
      BY <2>2, <3>1, <3>2, <3>3, <3>4, CommitTypes
  <2>4. CASE ~(p.block.txs # NoTxs /\ CanExecute(n, p))
    <3>1. KeepCaches(n, NoPrepare, signs[n], commits[n], ft)
          /\ msgs' = sent /\ committed' = committed
      BY <2>1, <2>4 DEF execPrepareAndGenerateSignMsg
    <3> QED
      BY <2>2, <3>1, KeepTypes DEF HandlerType
  <2> QED
    BY <2>3, <2>4
<1>2. CASE InvalidPrepare(n, p) \/ isFuturePrepare(n, p)
  <2>1. addFuturePrepareCache(n, p, ft) \in SUBSET PrepareReq
    BY DEF addFuturePrepareCache
  <2>2. \E c \in SUBSET PrepareReq : future' = [future EXCEPT ![n] = c]
    BY <1>2, <2>1 DEF handlePrepareMsg
  <2>3. /\ msgs' = sent
        /\ UNCHANGED <<chain, raw, prep, signs, commits, commitKey, committed>>
    BY <1>2 DEF handlePrepareMsg
  <2> QED
    BY <2>2, <2>3 DEF HandlerType
<1> QED
  BY <1>1, <1>2

-----------------------------------------------------------------------------
(* What the engine knows of the chain never runs ahead of it. *)
Bounded == \A n \in Up : highest[n] <= Len(chain[n]) /\ Len(chain[n]) <= MaxNumber

TypeInv == TypeOK /\ Bounded

(* A handler commits at most one block, the one prepared. *)
ChainStep(n) ==
  \/ UNCHANGED chain
  \/ \E txs \in Payload : /\ chain' = [chain EXCEPT ![n] = Append(@, txs)]
                          /\ Len(chain[n]) + 1 <= MaxNumber

LEMMA SaveSteps ==
  ASSUME NEW n \in Up, NEW p \in SignedReq \cup {NoPrepare}, NEW sg, NEW cm, NEW ft,
         checkAndSave(n, p, sg, cm, ft)
  PROVE  ChainStep(n)
<1>1. CASE CanSave(n, p, sg, cm)
  <2>1. p \in SignedReq /\ p.block.number = Len(chain[n]) + 1
    BY <1>1 DEF CanSave
  <2>2. p.block.txs \in Payload /\ p.block.number \in 1..MaxNumber
    BY <2>1 DEF SignedReq, PrepareReq, Block
  <2> QED
    BY <1>1, <2>1, <2>2, Assumed DEF checkAndSave, SaveBlock, ChainStep, AllAssumptions
<1>2. CASE ~CanSave(n, p, sg, cm)
  BY <1>2 DEF checkAndSave, KeepCaches, ChainStep
<1> QED
  BY <1>1, <1>2

LEMMA CommitSteps ==
  ASSUME NEW n \in Up, NEW r, NEW p \in SignedReq \cup {NoPrepare}, NEW sg, NEW cm, NEW ft,
         NEW sent, checkAndCommit(n, r, p, sg, cm, ft, sent)
  PROVE  ChainStep(n)
<1>1. CASE CanCommit(n, p, sg)
  BY <1>1, SaveSteps DEF checkAndCommit
<1>2. CASE ~CanCommit(n, p, sg)
  BY <1>2 DEF checkAndCommit, KeepCaches, ChainStep
<1> QED
  BY <1>1, <1>2

LEMMA PrepareSteps ==
  ASSUME NEW n \in Up, NEW p \in PrepareReq, NEW ft, NEW sent, handlePrepareMsg(n, p, ft, sent)
  PROVE  ChainStep(n)
<1>1. CASE /\ ~InvalidPrepare(n, p) /\ ~isFuturePrepare(n, p)
           /\ p.block.txs # NoTxs /\ CanExecute(n, p)
  <2>1. SignPrepare(n, p, ft, sent) /\ p \in SignedReq
    BY <1>1 DEF handlePrepareMsg, execPrepareAndGenerateSignMsg, SignedReq
  <2> QED
    BY <2>1, CommitSteps DEF SignPrepare
<1>2. CASE ~ /\ ~InvalidPrepare(n, p) /\ ~isFuturePrepare(n, p)
             /\ p.block.txs # NoTxs /\ CanExecute(n, p)
  BY <1>2 DEF handlePrepareMsg, execPrepareAndGenerateSignMsg, KeepCaches, ChainStep
<1> QED
  BY <1>1, <1>2

(* A step of a handler that leaves m_highestBlock alone keeps the bound. *)
LEMMA StepBounded ==
  ASSUME TypeInv, NEW n \in Up, ChainStep(n), UNCHANGED highest
  PROVE  Bounded'
<1>1. chain \in [Up -> Seq(Payload)] /\ highest \in [Up -> Nat]
  BY DEF TypeInv, TypeOK
<1>2. CASE UNCHANGED chain
  BY <1>2 DEF TypeInv, Bounded
<1>3. ASSUME NEW txs \in Payload, chain' = [chain EXCEPT ![n] = Append(@, txs)],
             Len(chain[n]) + 1 <= MaxNumber
      PROVE  Bounded'
  <2>1. \A i \in Up : chain[i] \in Seq(Payload) /\ highest[i] \in Nat
    BY <1>1
  <2>2. Len(Append(chain[n], txs)) = Len(chain[n]) + 1
    BY <2>1
  <2>3. \A i \in Up : chain'[i] = IF i = n THEN Append(chain[n], txs) ELSE chain[i]
    BY <1>1, <1>3
  <2>4. \A i \in Up : Len(chain'[i]) = IF i = n THEN Len(chain[n]) + 1 ELSE Len(chain[i])
    BY <2>2, <2>3
  <2> HIDE <2>3, <1>3
  <2> QED
    BY <1>3, <2>1, <2>4 DEF TypeInv, Bounded
<1> QED
  BY <1>2, <1>3 DEF ChainStep

LEMMA HeadHashType ==
  ASSUME TypeInv, NEW n \in Up
  PROVE  /\ highest[n] \in 0..MaxNumber /\ Len(chain[n]) \in 0..MaxNumber
         /\ HeadHash(n) \in Payload \cup {NoTxs}
<1>1. /\ chain[n] \in Seq(Payload) /\ highest[n] \in Nat /\ MaxNumber \in Nat
      /\ highest[n] <= Len(chain[n]) /\ Len(chain[n]) <= MaxNumber
  BY Assumed DEF TypeInv, TypeOK, Bounded, AllAssumptions
<1>2. CASE highest[n] = 0
  BY <1>1, <1>2 DEF HeadHash
<1>3. CASE highest[n] # 0
  <2>1. highest[n] \in 1..Len(chain[n])
    BY <1>1, <1>3
  <2>2. chain[n][highest[n]] \in Payload
    BY <1>1, <2>1
  <2> QED
    BY <1>1, <1>3, <2>2 DEF HeadHash
<1> QED
  BY <1>2, <1>3

LEMMA ViewReqTypes ==
  ASSUME NEW n \in Up, NEW rv \in SUBSET ViewChangeReq,
         NEW lv \in [Idx -> ViewChangeReq \cup {NoViewChange}], NEW e \in ViewChangeReq
  PROVE  /\ addViewChangeReq(n, rv, lv, e) \in SUBSET ViewChangeReq
         /\ LatestAfter(n, lv, e) \in [Idx -> ViewChangeReq \cup {NoViewChange}]
  BY DEF addViewChangeReq, LatestAfter

(* The common part of the two handlers of a view change. *)
LEMMA ChangeViewTypes ==
  ASSUME TypeInv, NEW n \in Up, NEW v \in 0..MaxView, NEW rv \in SUBSET ViewChangeReq,
         NEW lv \in [Idx -> ViewChangeReq \cup {NoViewChange}],
         NEW t \in 0..MaxView, NEW failed \in BOOLEAN,
         checkAndChangeView(n, v, rv, lv, t, failed)
  PROVE  /\ view' \in [Up -> 0..MaxView] /\ toView' \in [Up -> 0..MaxView]
         /\ leaderFailed' \in [Up -> BOOLEAN]
         /\ recvViewChange' \in [Up -> SUBSET ViewChangeReq]
         /\ latestViewChange' \in [Up -> [Idx -> ViewChangeReq \cup {NoViewChange}]]
         /\ raw' \in [Up -> PrepareReq \cup {NoPrepare}]
         /\ prep' \in [Up -> SignedReq \cup {NoPrepare}]
         /\ signs' \in [Up -> SUBSET CachedReq] /\ commits' \in [Up -> SUBSET CachedReq]
         /\ commitKey' \in [Up -> SUBSET Block]
         /\ future' \in [Up -> SUBSET PrepareReq]
<1>0. HandlerType /\ ViewType
  BY TypeParts DEF TypeInv
<1>1. CASE CanChangeView(v, rv)
  <2>1. triggerViewChange(n, v, rv, lv)
    BY <1>1 DEF checkAndChangeView
  <2>2. /\ view' \in [Up -> 0..MaxView] /\ toView' \in [Up -> 0..MaxView]
        /\ leaderFailed' \in [Up -> BOOLEAN]
    BY <1>0, <1>1 DEF checkAndChangeView, ViewType
  <2>3. /\ recvViewChange' \in [Up -> SUBSET ViewChangeReq]
        /\ latestViewChange' \in [Up -> [Idx -> ViewChangeReq \cup {NoViewChange}]]
    <3> DEFINE kept == {e \in rv : e.view > v}
               last == [i \in Idx |-> IF lv[i].view <= v THEN NoViewChange ELSE lv[i]]
    <3>1. kept \in SUBSET ViewChangeReq
      OBVIOUS
    <3>2. last \in [Idx -> ViewChangeReq \cup {NoViewChange}]
      OBVIOUS
    <3>3. /\ recvViewChange' = [recvViewChange EXCEPT ![n] = kept]
          /\ latestViewChange' = [latestViewChange EXCEPT ![n] = last]
      BY <2>1 DEF triggerViewChange
    <3> HIDE DEF kept, last
    <3> QED
      BY <1>0, <3>1, <3>2, <3>3 DEF ViewType
  <2>4. signs' \in [Up -> SUBSET CachedReq] /\ commits' \in [Up -> SUBSET CachedReq]
    <3> DEFINE sg == {e \in RemoveExpired(signs[n], v) : e.block \in commitKey[n]}
               cm == RemoveExpired(commits[n], v)
    <3>1. sg \in SUBSET CachedReq /\ cm \in SUBSET CachedReq
      BY <1>0 DEF HandlerType, RemoveExpired
    <3>2. signs' = [signs EXCEPT ![n] = sg] /\ commits' = [commits EXCEPT ![n] = cm]
      BY <1>0, <2>1 DEF triggerViewChange, HandlerType
    <3> HIDE DEF sg, cm
    <3> QED
      BY <1>0, <3>1, <3>2 DEF HandlerType
  <2>5. future' \in [Up -> SUBSET PrepareReq]
    <3> DEFINE ft == {p \in future[n] : p.block.number > Len(chain[n]) /\ p.view >= v}
    <3>1. ft \in SUBSET PrepareReq
      BY <1>0 DEF HandlerType
    <3>2. future' = [future EXCEPT ![n] = ft]
      BY <2>1 DEF triggerViewChange
    <3> HIDE DEF ft
    <3> QED
      BY <1>0, <3>1, <3>2 DEF HandlerType
  <2>6. /\ raw' \in [Up -> PrepareReq \cup {NoPrepare}]
        /\ prep' \in [Up -> SignedReq \cup {NoPrepare}] /\ commitKey' \in [Up -> SUBSET Block]
    BY <1>0, <2>1 DEF triggerViewChange, HandlerType
  <2> QED
    BY <2>2, <2>3, <2>4, <2>5, <2>6
<1>2. CASE ~CanChangeView(v, rv)
  <2>1. /\ toView' = [toView EXCEPT ![n] = t] /\ leaderFailed' = [leaderFailed EXCEPT ![n] = failed]
        /\ recvViewChange' = [recvViewChange EXCEPT ![n] = rv]
        /\ latestViewChange' = [latestViewChange EXCEPT ![n] = lv]
        /\ UNCHANGED <<view, cacheVars>>
    BY <1>2 DEF checkAndChangeView
  <2> QED
    BY <1>0, <2>1 DEF HandlerType, ViewType, cacheVars
<1> QED
  BY <1>1, <1>2

LEMMA HandlerStepType ==
  ASSUME TypeInv, NEW n \in Up, ChainStep(n), HandlerType',
         UNCHANGED <<backup, highest, viewVars, viewMsgs, crashes>>,
         sealing' \in [Up -> [number : Nat, sealed : BOOLEAN]]
  PROVE  TypeInv'
<1>1. Bounded'
  BY StepBounded
<1>2. ViewType' /\ OtherType'
  <2>1. ViewType /\ OtherType
    BY TypeParts DEF TypeInv
  <2> QED
    BY <2>1 DEF ViewType, OtherType, viewVars
<1>3. TypeOK'
  BY <1>2 DEF TypeOK, HandlerType, ViewType, OtherType, SignedReq
<1> QED
  BY <1>1, <1>3 DEF TypeInv

LEMMA SealingTypes ==
  ASSUME TypeInv, NEW n \in Up
  PROVE  /\ \A p : notifySealing(n, p) => sealing' \in [Up -> [number : Nat, sealed : BOOLEAN]]
         /\ [sealing EXCEPT ![n].sealed = TRUE] \in [Up -> [number : Nat, sealed : BOOLEAN]]
<1>1. /\ sealing \in [Up -> [number : Nat, sealed : BOOLEAN]] /\ Len(chain[n]) \in Nat
  BY DEF TypeInv, TypeOK
<1> DEFINE new == [number |-> Len(chain[n]) + 2, sealed |-> FALSE]
<1>2. new \in [number : Nat, sealed : BOOLEAN]
  BY <1>1
<1>3. \A p : notifySealing(n, p) => \/ sealing' = [sealing EXCEPT ![n] = new]
                                   \/ sealing' = sealing
  BY DEF notifySealing
<1> HIDE DEF new
<1> QED
  BY <1>1, <1>2, <1>3

LEMMA MsgTypes ==
  ASSUME TypeInv, NEW n \in Up
  PROVE  /\ \A m \in msgs : [idx |-> m.idx, view |-> m.view, block |-> m.block] \in PrepareReq
         /\ \A m \in msgs, future1 \in BOOLEAN :
              [idx |-> m.idx, view |-> m.view, block |-> m.block, isFuture |-> future1]
                \in CachedReq
         /\ \A m \in msgs : FutureReq(n, m) \in BOOLEAN
         /\ \A p \in PrepareReq : PrepareMsg(p) \in Msg
         /\ msgs \subseteq Msg /\ future[n] \in SUBSET PrepareReq /\ n \in Idx
         /\ view[n] \in 0..MaxView
  BY UpAssumption DEF TypeInv, TypeOK, Msg, PrepareReq, CachedReq, PrepareMsg, FutureReq, Idx

LEMMA HandlePrepareType ==
  ASSUME TypeInv, NEW n \in Up, NEW m \in msgs, HandlePrepare(n, m)
  PROVE  TypeInv'
<1> DEFINE p == [idx |-> m.idx, view |-> m.view, block |-> m.block]
<1>1. p \in PrepareReq /\ future[n] \in SUBSET PrepareReq /\ msgs \in SUBSET Msg
  BY MsgTypes
<1>2. /\ handlePrepareMsg(n, p, future[n], msgs)
      /\ notifySealing(n, p) \/ UNCHANGED sealing
      /\ UNCHANGED <<backup, highest, viewVars, viewMsgs, crashes>>
  BY DEF HandlePrepare
<1> HIDE DEF p
<1>3. HandlerType
  BY TypeParts DEF TypeInv
<1>4. HandlerType' /\ ChainStep(n)
  BY <1>1, <1>2, <1>3, PrepareTypes, PrepareSteps
<1>5. sealing' \in [Up -> [number : Nat, sealed : BOOLEAN]]
  BY <1>2, SealingTypes DEF TypeInv, TypeOK
<1> QED
  BY <1>2, <1>4, <1>5, HandlerStepType

LEMMA HandleFutureType ==
  ASSUME TypeInv, NEW n \in Up, HandleFuture(n)
  PROVE  TypeInv'
<1>1. PICK p \in future[n] :
        /\ handlePrepareMsg(n, p, future[n] \ {p}, msgs)
        /\ notifySealing(n, p) \/ UNCHANGED sealing
        /\ UNCHANGED <<backup, highest, viewVars, viewMsgs, crashes>>
  BY DEF HandleFuture
<1>2. p \in PrepareReq /\ future[n] \ {p} \in SUBSET PrepareReq /\ msgs \in SUBSET Msg
  BY MsgTypes
<1>3. HandlerType
  BY TypeParts DEF TypeInv
<1>4. HandlerType' /\ ChainStep(n)
  BY <1>1, <1>2, <1>3, PrepareTypes, PrepareSteps
<1>5. sealing' \in [Up -> [number : Nat, sealed : BOOLEAN]]
  BY <1>1, SealingTypes DEF TypeInv, TypeOK
<1> QED
  BY <1>1, <1>4, <1>5, HandlerStepType

LEMMA HandleSignType ==
  ASSUME TypeInv, NEW n \in Up, NEW m \in msgs, HandleSign(n, m)
  PROVE  TypeInv'
<1> DEFINE e == [idx |-> m.idx, view |-> m.view, block |-> m.block, isFuture |-> FutureReq(n, m)]
           sg == AddReq(signs[n], e)
<1>1. HandlerType
  BY TypeParts DEF TypeInv
<1>2. sg \in SUBSET CachedReq
  <2>1. e \in CachedReq
    BY MsgTypes
  <2> HIDE DEF e
  <2> QED
    BY <1>1, <2>1, CacheTypes DEF HandlerType
<1>3. /\ \/ /\ checkAndCommit(n, raw[n], prep[n], sg, commits[n], future[n], msgs)
            /\ UNCHANGED raw
         \/ /\ signs' = [signs EXCEPT ![n] = sg]
            /\ UNCHANGED <<chain, raw, prep, commits, commitKey, future, committed, msgs>>
      /\ UNCHANGED <<backup, highest, viewVars, sealing, viewMsgs, crashes>>
  BY DEF HandleSign
<1> HIDE DEF sg
<1>4. CASE /\ checkAndCommit(n, raw[n], prep[n], sg, commits[n], future[n], msgs)
           /\ UNCHANGED raw
  <2>1. /\ raw[n] \in PrepareReq \cup {NoPrepare} /\ prep[n] \in SignedReq \cup {NoPrepare}
        /\ commits[n] \in SUBSET CachedReq /\ future[n] \in SUBSET PrepareReq
        /\ msgs \in SUBSET Msg /\ raw' \in [Up -> PrepareReq \cup {NoPrepare}]
    BY <1>1, <1>4 DEF HandlerType
  <2>2. HandlerType' /\ ChainStep(n)
    BY <1>1, <1>2, <1>4, <2>1, CommitTypes, CommitSteps
  <2> QED
    BY <1>3, <2>2, HandlerStepType DEF TypeInv, TypeOK
<1>5. CASE /\ signs' = [signs EXCEPT ![n] = sg]
           /\ UNCHANGED <<chain, raw, prep, commits, commitKey, future, committed, msgs>>
  <2>1. HandlerType'
    BY <1>1, <1>2, <1>5 DEF HandlerType
  <2> QED
    BY <1>3, <1>5, <2>1, HandlerStepType DEF ChainStep, TypeInv, TypeOK
<1> QED
  BY <1>3, <1>4, <1>5

LEMMA HandleCommitType ==
  ASSUME TypeInv, NEW n \in Up, NEW m \in msgs, HandleCommit(n, m)
  PROVE  TypeInv'
<1> DEFINE e == [idx |-> m.idx, view |-> m.view, block |-> m.block, isFuture |-> FutureReq(n, m)]
           cm == AddReq(commits[n], e)
<1>1. HandlerType
  BY TypeParts DEF TypeInv
<1>2. cm \in SUBSET CachedReq /\ m.block \in Block
  <2>1. e \in CachedReq /\ m.block \in Block
    BY MsgTypes DEF Msg
  <2> HIDE DEF e
  <2> QED
    BY <1>1, <2>1, CacheTypes DEF HandlerType
<1>3. /\ \/ /\ checkAndSave(n, prep[n], signs[n], cm, future[n])
            /\ UNCHANGED raw
         \/ /\ commits' = [commits EXCEPT ![n] = cm]
            /\ commitKey' = [commitKey EXCEPT ![n] = @ \cup {m.block}]
            /\ UNCHANGED <<chain, raw, prep, signs, future>>
      /\ UNCHANGED <<backup, highest, viewVars, committed, sealing, msgs, viewMsgs, crashes>>
  BY DEF HandleCommit
<1> HIDE DEF cm
<1>4. CASE /\ checkAndSave(n, prep[n], signs[n], cm, future[n])
           /\ UNCHANGED raw
  <2>1. /\ prep[n] \in SignedReq \cup {NoPrepare}
        /\ signs[n] \in SUBSET CachedReq /\ future[n] \in SUBSET PrepareReq
    BY <1>1 DEF HandlerType
  <2>2. ChainStep(n)
    BY <1>2, <1>4, <2>1, SaveSteps
  <2>3. HandlerType'
    BY <1>1, <1>2, <1>3, <1>4, <2>1, SaveTypes DEF HandlerType
  <2> QED
    BY <1>3, <2>2, <2>3, HandlerStepType DEF TypeInv, TypeOK
<1>5. CASE /\ commits' = [commits EXCEPT ![n] = cm]
           /\ commitKey' = [commitKey EXCEPT ![n] = @ \cup {m.block}]
           /\ UNCHANGED <<chain, raw, prep, signs, future>>
  <2>1. commitKey[n] \cup {m.block} \in SUBSET Block
    BY <1>1, <1>2 DEF HandlerType
  <2>2. HandlerType'
    BY <1>1, <1>2, <1>3, <1>5, <2>1 DEF HandlerType
  <2> QED
    BY <1>3, <1>5, <2>2, HandlerStepType DEF ChainStep, TypeInv, TypeOK
<1> QED
  BY <1>3, <1>4, <1>5

(* Steps that change neither the chain nor what the engine knows of it. *)
LEMMA QuietBounded ==
  ASSUME TypeInv, UNCHANGED <<chain, highest>>
  PROVE  Bounded'
  BY DEF TypeInv, Bounded

LEMMA ViewMsgTypes ==
  ASSUME TypeInv, NEW n \in Up, NEW v \in 0..MaxView
  PROVE  [idx |-> n, view |-> v, height |-> highest[n], hash |-> HeadHash(n)] \in ViewChangeReq
<1>1. highest[n] \in 0..MaxNumber /\ HeadHash(n) \in Payload \cup {NoTxs} /\ n \in Idx
  BY HeadHashType, MsgTypes
<1> QED
  BY <1>1 DEF ViewChangeReq

LEMMA TimeoutType ==
  ASSUME TypeInv, NEW n \in Up, Timeout(n)
  PROVE  TypeInv'
<1> DEFINE t == toView[n] + 1
           out == {x \in recvViewChange[n] :
                     x.view = t /\ OutdatedView(highest[n], HeadHash(n), x)}
           rv0 == recvViewChange[n] \ out
           lv0 == IF \E x \in recvViewChange[n] : x.view = t
                  THEN [i \in Idx |-> IF OutdatedView(highest[n], HeadHash(n),
                                                      latestViewChange[n][i])
                                      THEN NoViewChange ELSE latestViewChange[n][i]]
                  ELSE latestViewChange[n]
           e == [idx |-> n, view |-> t, height |-> highest[n], hash |-> HeadHash(n)]
<1>1. HandlerType /\ ViewType /\ OtherType
  BY TypeParts DEF TypeInv
<1>2. t \in 0..MaxView
  <2>1. toView[n] \in 0..MaxView
    BY <1>1 DEF ViewType
  <2>2. t <= MaxView
    BY DEF Timeout
  <2> QED
    BY <2>1, <2>2, Assumed DEF AllAssumptions
<1>3. e \in ViewChangeReq
  BY <1>2, ViewMsgTypes
<1>4. rv0 \in SUBSET ViewChangeReq
  BY <1>1 DEF ViewType
<1>5. lv0 \in [Idx -> ViewChangeReq \cup {NoViewChange}]
  <2>1. latestViewChange[n] \in [Idx -> ViewChangeReq \cup {NoViewChange}]
    BY <1>1 DEF ViewType
  <2> QED
    BY <2>1
<1>6. /\ checkAndChangeView(n, t, addViewChangeReq(n, rv0, lv0, e), LatestAfter(n, lv0, e),
                            t, TRUE)
      /\ viewMsgs' = viewMsgs \cup {e}
      /\ sealing' = [sealing EXCEPT ![n] = ResetForViewChange(n)]
      /\ UNCHANGED <<diskVars, highest, committed, msgs, crashes>>
  BY DEF Timeout
<1> HIDE DEF t, out, rv0, lv0, e
<1>7. /\ addViewChangeReq(n, rv0, lv0, e) \in SUBSET ViewChangeReq
      /\ LatestAfter(n, lv0, e) \in [Idx -> ViewChangeReq \cup {NoViewChange}]
  BY <1>3, <1>4, <1>5, ViewReqTypes
<1>8. HandlerType' /\ ViewType'
  <2>1. viewMsgs' \subseteq ViewChangeReq /\ chain' \in [Up -> Seq(Payload)]
        /\ committed' \in [Up -> PrepareReq \cup {NoPrepare}] /\ msgs' \subseteq Msg
    BY <1>1, <1>3, <1>6 DEF ViewType, HandlerType, diskVars
  <2> QED
    BY <1>2, <1>6, <1>7, <2>1, ChangeViewTypes DEF HandlerType, ViewType
<1>9. OtherType'
  <2>1. ResetForViewChange(n) \in [number : Nat, sealed : BOOLEAN]
    <3>1. sealing[n] \in [number : Nat, sealed : BOOLEAN] /\ Len(chain[n]) + 1 \in Nat
      BY <1>1, HeadHashType, Assumed DEF OtherType, AllAssumptions
    <3> QED
      BY <3>1 DEF ResetForViewChange
  <2> QED
    BY <1>1, <1>6, <2>1 DEF OtherType, diskVars
<1>10. Bounded'
  BY <1>6, QuietBounded DEF diskVars
<1> QED
  BY <1>8, <1>9, <1>10 DEF TypeOK, TypeInv, HandlerType, ViewType, OtherType, SignedReq

(* What a view change handler leaves alone keeps its type. *)
LEMMA ViewStepType ==
  ASSUME TypeInv, UNCHANGED <<diskVars, highest, committed, sealing, msgs, crashes>>,
         ViewType',
         raw' \in [Up -> PrepareReq \cup {NoPrepare}],
         prep' \in [Up -> SignedReq \cup {NoPrepare}],
         signs' \in [Up -> SUBSET CachedReq], commits' \in [Up -> SUBSET CachedReq],
         commitKey' \in [Up -> SUBSET Block],
         future' \in [Up -> SUBSET PrepareReq]
  PROVE  TypeInv'
<1>1. HandlerType /\ OtherType
  BY TypeParts DEF TypeInv
<1>2. HandlerType' /\ OtherType'
  BY <1>1 DEF HandlerType, OtherType, diskVars
<1>3. Bounded'
  BY QuietBounded DEF diskVars
<1> QED
  BY <1>2, <1>3 DEF TypeOK, TypeInv, HandlerType, ViewType, OtherType, SignedReq

LEMMA MinViewTypes ==
  ASSUME TypeInv, NEW n \in Up, NEW rv \in SUBSET ViewChangeReq,
         NEW v \in MinViews(Ahead(n, rv))
  PROVE  v - 1 \in 0..MaxView
<1>1. PICK x \in Ahead(n, rv) : v = x.view
  BY DEF MinViews
<1>2. x \in ViewChangeReq /\ x.view > toView[n] /\ toView[n] \in 0..MaxView
  BY DEF Ahead, TypeInv, TypeOK
<1> QED
  BY <1>1, <1>2, Assumed DEF ViewChangeReq, AllAssumptions

LEMMA HandleViewChangeType ==
  ASSUME TypeInv, NEW n \in Up, NEW e \in viewMsgs, NEW direct \in BOOLEAN,
         HandleViewChange(n, e, direct)
  PROVE  TypeInv'
<1> DEFINE lv == IF CatchUp(n, e, direct)
                 THEN [latestViewChange[n] EXCEPT ![e.idx] = NoViewChange]
                 ELSE latestViewChange[n]
           rv == addViewChangeReq(n, recvViewChange[n], lv, e)
           last == LatestAfter(n, lv, e)
<1>1. HandlerType /\ ViewType
  BY TypeParts DEF TypeInv
<1>2. e \in ViewChangeReq /\ e.view \in 0..MaxView
  BY <1>1 DEF ViewType, ViewChangeReq
<1>3. lv \in [Idx -> ViewChangeReq \cup {NoViewChange}]
  BY <1>1 DEF ViewType
<1>4. /\ rv \in SUBSET ViewChangeReq
      /\ last \in [Idx -> ViewChangeReq \cup {NoViewChange}]
  <2>1. recvViewChange[n] \in SUBSET ViewChangeReq
    BY <1>1 DEF ViewType
  <2> HIDE DEF lv
  <2> QED
    BY <1>2, <1>3, <2>1, ViewReqTypes
<1>5. viewMsgs' \subseteq ViewChangeReq
  <2>1. CatchUpMsg(n) \in ViewChangeReq
    BY <1>1, ViewMsgTypes DEF CatchUpMsg, ViewType
  <2> QED
    BY <1>1, <2>1 DEF HandleViewChange, ViewType
<1>6. /\ \/ /\ latestViewChange' = [latestViewChange EXCEPT ![n] = lv]
            /\ UNCHANGED <<view, toView, leaderFailed, recvViewChange, cacheVars>>
         \/ \E v \in MinViews(Ahead(n, rv)) :
              checkAndChangeView(n, e.view, rv, last, v - 1, leaderFailed[n])
         \/ checkAndChangeView(n, e.view, rv, last, toView[n], leaderFailed[n])
      /\ UNCHANGED <<diskVars, highest, committed, sealing, msgs, crashes>>
  BY DEF HandleViewChange
<1> HIDE DEF lv, rv, last
<1>7. toView[n] \in 0..MaxView
  BY <1>1 DEF ViewType
<1>f. PICK failed \in BOOLEAN : failed = leaderFailed[n]
  BY <1>1 DEF ViewType
<1>8. CASE /\ latestViewChange' = [latestViewChange EXCEPT ![n] = lv]
           /\ UNCHANGED <<view, toView, leaderFailed, recvViewChange, cacheVars>>
  <2>1. ViewType'
    BY <1>1, <1>3, <1>5, <1>8 DEF ViewType
  <2> QED
    BY <1>1, <1>6, <1>8, <2>1, ViewStepType DEF HandlerType, cacheVars
<1>9. ASSUME NEW s \in 0..MaxView,
             checkAndChangeView(n, e.view, rv, last, s, failed)
      PROVE  TypeInv'
  <2>1. /\ view' \in [Up -> 0..MaxView] /\ toView' \in [Up -> 0..MaxView]
        /\ leaderFailed' \in [Up -> BOOLEAN]
        /\ recvViewChange' \in [Up -> SUBSET ViewChangeReq]
        /\ latestViewChange' \in [Up -> [Idx -> ViewChangeReq \cup {NoViewChange}]]
        /\ raw' \in [Up -> PrepareReq \cup {NoPrepare}]
        /\ prep' \in [Up -> SignedReq \cup {NoPrepare}]
        /\ signs' \in [Up -> SUBSET CachedReq] /\ commits' \in [Up -> SUBSET CachedReq]
        /\ commitKey' \in [Up -> SUBSET Block]
        /\ future' \in [Up -> SUBSET PrepareReq]
    <3>1. CASE failed = TRUE
      <4>1. checkAndChangeView(n, e.view, rv, last, s, TRUE)
        BY <1>9, <3>1
      <4> QED
        BY <1>2, <1>4, <4>1, ChangeViewTypes
    <3>2. CASE failed = FALSE
      <4>1. checkAndChangeView(n, e.view, rv, last, s, FALSE)
        BY <1>9, <3>2
      <4> QED
        BY <1>2, <1>4, <4>1, ChangeViewTypes
    <3> QED
      BY <1>f, <3>1, <3>2
  <2>2. ViewType'
    BY <1>5, <2>1 DEF ViewType
  <2> QED
    BY <1>6, <2>1, <2>2, ViewStepType
<1>10. ASSUME NEW v \in MinViews(Ahead(n, rv)) PROVE v - 1 \in 0..MaxView
  BY <1>4, MinViewTypes
<1> QED
  BY <1>6, <1>7, <1>f, <1>8, <1>9, <1>10

LEMMA DisconnectType ==
  ASSUME TypeInv, NEW n \in Up, NEW i \in Idx, Disconnect(n, i)
  PROVE  TypeInv'
<1>1. /\ latestViewChange' = [latestViewChange EXCEPT ![n][i] = NoViewChange]
      /\ UNCHANGED <<diskVars, highest, view, toView, leaderFailed, recvViewChange, cacheVars,
                     committed, sealing, msgs, viewMsgs, crashes>>
  BY DEF Disconnect
<1>2. HandlerType /\ ViewType
  BY TypeParts DEF TypeInv
<1>3. latestViewChange' \in [Up -> [Idx -> ViewChangeReq \cup {NoViewChange}]]
  <2>1. [latestViewChange[n] EXCEPT ![i] = NoViewChange]
           \in [Idx -> ViewChangeReq \cup {NoViewChange}]
    BY <1>2 DEF ViewType
  <2> QED
    BY <1>1, <1>2, <2>1 DEF ViewType
<1>4. ViewType'
  BY <1>1, <1>2, <1>3 DEF ViewType
<1> QED
  BY <1>1, <1>2, <1>4, ViewStepType DEF HandlerType, cacheVars

LEMMA SealType ==
  ASSUME TypeInv, NEW n \in Up, NEW txs \in Payload, Seal(n, txs)
  PROVE  TypeInv'
<1> DEFINE p == [idx |-> n, view |-> view[n],
                 block |-> [number |-> Len(chain[n]) + 1, txs |-> txs]]
<1>1. HandlerType
  BY TypeParts DEF TypeInv
<1>2. p \in PrepareReq
  <2>1. Len(chain[n]) + 1 \in 1..MaxNumber
    BY HeadHashType, Assumed DEF Seal, AllAssumptions
  <2> QED
    BY <2>1, MsgTypes DEF PrepareReq, Block
<1>3. /\ handlePrepareMsg(n, p, future[n], msgs \cup {PrepareMsg(p)})
      /\ sealing' = [sealing EXCEPT ![n].sealed = TRUE]
      /\ UNCHANGED <<backup, highest, viewVars, viewMsgs, crashes>>
  BY DEF Seal
<1> HIDE DEF p
<1>4. msgs \cup {PrepareMsg(p)} \in SUBSET Msg /\ future[n] \in SUBSET PrepareReq
  BY <1>2, MsgTypes
<1>5. HandlerType' /\ ChainStep(n)
  BY <1>1, <1>2, <1>3, <1>4, PrepareTypes, PrepareSteps
<1> QED
  BY <1>3, <1>5, SealingTypes, HandlerStepType

LEMMA SealEmptyType ==
  ASSUME TypeInv, NEW n \in Up, SealEmpty(n)
  PROVE  TypeInv'
<1> DEFINE p == [idx |-> n, view |-> view[n],
                 block |-> [number |-> Len(chain[n]) + 1, txs |-> NoTxs]]
           new == [number |-> Len(chain[n]) + 1, sealed |-> FALSE]
<1>1. HandlerType /\ ViewType /\ OtherType
  BY TypeParts DEF TypeInv
<1>2. Len(chain[n]) + 1 \in 1..MaxNumber
  BY HeadHashType, Assumed DEF SealEmpty, AllAssumptions
<1>3. PrepareMsg(p) \in Msg
  BY <1>2, MsgTypes DEF PrepareReq, Block
<1>4. new \in [number : Nat, sealed : BOOLEAN]
  BY <1>2
<1>5. /\ msgs' = msgs \cup {PrepareMsg(p)}
      /\ leaderFailed' = [leaderFailed EXCEPT ![n] = TRUE]
      /\ sealing' = [sealing EXCEPT ![n] = new]
      /\ UNCHANGED <<diskVars, highest, view, toView, recvViewChange, latestViewChange,
                     cacheVars, committed, viewMsgs, crashes>>
  BY DEF SealEmpty
<1> HIDE DEF p, new
<1>6. HandlerType' /\ ViewType' /\ OtherType'
  BY <1>1, <1>3, <1>4, <1>5 DEF HandlerType, ViewType, OtherType, diskVars, cacheVars
<1>7. Bounded'
  BY <1>5, QuietBounded DEF diskVars
<1> QED
  BY <1>6, <1>7 DEF TypeOK, TypeInv, HandlerType, ViewType, OtherType, SignedReq

LEMMA RehandleType ==
  ASSUME TypeInv, NEW n \in Up, RehandleCommittedPrepare(n)
  PROVE  TypeInv'
<1> DEFINE p == [idx |-> n, view |-> view[n], block |-> committed[n].block]
<1>1. HandlerType /\ OtherType
  BY TypeParts DEF TypeInv
<1>2. p \in PrepareReq
  <2>1. committed[n].block.number = highest[n] + 1 /\ highest[n] \in Nat
    BY <1>1 DEF RehandleCommittedPrepare, consensusBlockNumber, OtherType
  <2>2. committed[n] \in PrepareReq \cup {NoPrepare}
    BY <1>1 DEF HandlerType
  <2>3. committed[n] # NoPrepare
    BY <2>1 DEF NoPrepare
  <2> QED
    BY <2>2, <2>3, MsgTypes DEF PrepareReq
<1>3. /\ handlePrepareMsg(n, p, future[n], msgs \cup {PrepareMsg(p)})
      /\ UNCHANGED <<backup, highest, viewVars, sealing, viewMsgs, crashes>>
  BY DEF RehandleCommittedPrepare
<1> HIDE DEF p
<1>4. msgs \cup {PrepareMsg(p)} \in SUBSET Msg /\ future[n] \in SUBSET PrepareReq
  BY <1>2, MsgTypes
<1>5. HandlerType' /\ ChainStep(n)
  BY <1>1, <1>2, <1>3, <1>4, PrepareTypes, PrepareSteps
<1> QED
  BY <1>1, <1>3, <1>5, HandlerStepType DEF OtherType

LEMMA SyncBlockType ==
  ASSUME TypeInv, NEW n \in Up, NEW m \in Up, SyncBlock(n, m)
  PROVE  TypeInv' /\ ChainStep(n)
<1> DEFINE txs == chain[m][Len(chain[n]) + 1]
<1>1. HandlerType
  BY TypeParts DEF TypeInv
<1>2. /\ Len(chain[n]) < Len(chain[m])
      /\ chain' = [chain EXCEPT ![n] = Append(@, txs)]
      /\ UNCHANGED <<backup, highest, viewVars, cacheVars, committed, sealing, msgs, viewMsgs,
                     crashes>>
  BY DEF SyncBlock
<1>3. Len(chain[n]) + 1 \in 1..Len(chain[m]) /\ Len(chain[n]) + 1 <= MaxNumber
  BY <1>2, HeadHashType, Assumed DEF AllAssumptions
<1>4. txs \in Payload
  BY <1>1, <1>3 DEF HandlerType
<1> HIDE DEF txs
<1>5. ChainStep(n)
  BY <1>2, <1>3, <1>4 DEF ChainStep
<1>6. HandlerType'
  <2>1. Append(chain[n], txs) \in Seq(Payload)
    BY <1>1, <1>4 DEF HandlerType
  <2>2. chain' \in [Up -> Seq(Payload)]
    BY <1>1, <1>2, <2>1 DEF HandlerType
  <2> QED
    BY <1>1, <1>2, <2>2 DEF HandlerType, cacheVars
<1> QED
  BY <1>2, <1>5, <1>6, HandlerStepType DEF TypeInv, TypeOK

(* Caches are only thinned out. *)
LEMMA ReportBlockType ==
  ASSUME TypeInv, NEW n \in Up, ReportBlock(n)
  PROVE  TypeInv'
<1> DEFINE h == Len(chain[n])
           head == [number |-> h, txs |-> chain[n][h]]
           new == [number |-> h + 1, sealed |-> FALSE]
           rv == {e \in recvViewChange[n] : ~OutdatedView(h, head.txs, e)}
<1>1. HandlerType /\ ViewType /\ OtherType
  BY TypeParts DEF TypeInv
<1>2. /\ highest' = [highest EXCEPT ![n] = h]
      /\ view' = [view EXCEPT ![n] = 0]
      /\ toView' = [toView EXCEPT ![n] = 0]
      /\ leaderFailed' = [leaderFailed EXCEPT ![n] = FALSE]
      /\ recvViewChange' = [recvViewChange EXCEPT ![n] = rv]
      /\ signs' = [signs EXCEPT ![n] = @ \ Entries(@, head)]
      /\ commits' = [commits EXCEPT ![n] = @ \ Entries(@, head)]
      /\ commitKey' = [commitKey EXCEPT ![n] = @ \ {head}]
      /\ prep' = [prep EXCEPT ![n] = NoPrepare] \/ prep' = prep
      /\ future' = [future EXCEPT ![n] = {}]
      /\ sealing' = [sealing EXCEPT ![n] = new] \/ sealing' = sealing
      /\ UNCHANGED <<diskVars, latestViewChange, raw, committed, msgs, viewMsgs, crashes>>
  BY DEF ReportBlock
<1>3. h \in 0..MaxNumber /\ h \in Nat /\ 0 \in 0..MaxView
  BY HeadHashType, Assumed DEF AllAssumptions
<1>4. new \in [number : Nat, sealed : BOOLEAN] /\ rv \in SUBSET ViewChangeReq
  BY <1>1, <1>3 DEF ViewType
<1>5. Bounded'
  <2>1. \A i \in Up : highest'[i] = IF i = n THEN Len(chain[n]) ELSE highest[i]
    BY <1>1, <1>2 DEF OtherType
  <2>2. chain' = chain
    BY <1>2 DEF diskVars
  <2> QED
    BY <1>3, <2>1, <2>2 DEF TypeInv, Bounded
<1> HIDE DEF h, head, new, rv
<1>6. HandlerType'
  <2>1. /\ signs[n] \ Entries(signs[n], head) \in SUBSET CachedReq
        /\ commits[n] \ Entries(commits[n], head) \in SUBSET CachedReq
        /\ commitKey[n] \ {head} \in SUBSET Block
    BY <1>1 DEF HandlerType
  <2>2. signs' \in [Up -> SUBSET CachedReq] /\ commits' \in [Up -> SUBSET CachedReq]
        /\ commitKey' \in [Up -> SUBSET Block]
    BY <1>1, <1>2, <2>1 DEF HandlerType
  <2> QED
    BY <1>1, <1>2, <2>2 DEF HandlerType, diskVars
<1>7. ViewType'
  BY <1>1, <1>2, <1>3, <1>4 DEF ViewType
<1>8. OtherType'
  BY <1>1, <1>2, <1>3, <1>4 DEF OtherType, diskVars
<1> QED
  BY <1>5, <1>6, <1>7, <1>8 DEF TypeOK, TypeInv, HandlerType, ViewType, OtherType, SignedReq

LEMMA CollectGarbageType ==
  ASSUME TypeInv, NEW n \in Up, CollectGarbage(n)
  PROVE  TypeInv'
<1> DEFINE sg == {e \in signs[n] : ~Outdated(n, e)}
           cm == {e \in commits[n] : ~Outdated(n, e)}
           ft == {p \in future[n] : p.block.number > highest[n]}
           rv == {e \in recvViewChange[n] : ~OutdatedView(highest[n], HeadHash(n), e)}
           lv == [i \in Idx |-> IF OutdatedView(highest[n], HeadHash(n), latestViewChange[n][i])
                                THEN NoViewChange ELSE latestViewChange[n][i]]
           key == {e.block : e \in commits'[n]}
<1>1. HandlerType /\ ViewType /\ OtherType
  BY TypeParts DEF TypeInv
<1>2. /\ signs' = [signs EXCEPT ![n] = sg]
      /\ commits' = [commits EXCEPT ![n] = cm]
      /\ commitKey' = [commitKey EXCEPT ![n] = key]
      /\ future' = [future EXCEPT ![n] = ft]
      /\ recvViewChange' = [recvViewChange EXCEPT ![n] = rv]
      /\ latestViewChange' = [latestViewChange EXCEPT ![n] = lv]
      /\ UNCHANGED <<diskVars, highest, view, toView, leaderFailed, raw, prep, committed,
                     sealing, msgs, viewMsgs, crashes>>
  BY DEF CollectGarbage
<1>3. /\ sg \in SUBSET CachedReq /\ cm \in SUBSET CachedReq
      /\ ft \in SUBSET PrepareReq /\ rv \in SUBSET ViewChangeReq
  BY <1>1 DEF HandlerType, ViewType
<1>4. lv \in [Idx -> ViewChangeReq \cup {NoViewChange}]
  <2>1. latestViewChange[n] \in [Idx -> ViewChangeReq \cup {NoViewChange}]
    BY <1>1 DEF ViewType
  <2> QED
    BY <2>1
<1> HIDE DEF sg, cm, ft, rv, lv
<1>5. commits' \in [Up -> SUBSET CachedReq]
  BY <1>1, <1>2, <1>3 DEF HandlerType
<1>6. key \in SUBSET Block
  BY <1>5, CacheTypes
<1> HIDE DEF key
<1>7. HandlerType'
  BY <1>1, <1>2, <1>3, <1>5, <1>6 DEF HandlerType, diskVars
<1>8. ViewType'
  BY <1>1, <1>2, <1>3, <1>4 DEF ViewType
<1>9. OtherType'
  BY <1>1, <1>2 DEF OtherType, diskVars
<1>10. Bounded'
  BY <1>2, QuietBounded DEF diskVars
<1> QED
  BY <1>7, <1>8, <1>9, <1>10
     DEF TypeOK, TypeInv, HandlerType, ViewType, OtherType, SignedReq

LEMMA BackupMsgType ==
  ASSUME TypeInv, NEW n \in Up, BackupMsg(n)
  PROVE  TypeInv'
<1>1. /\ backup' = [backup EXCEPT ![n] = committed[n]]
      /\ UNCHANGED <<chain, highest, viewVars, cacheVars, committed, sealing, msgs, viewMsgs,
                     crashes>>
  BY DEF BackupMsg
<1>2. Bounded'
  BY <1>1, QuietBounded
<1> QED
  BY <1>1, <1>2 DEF TypeInv, TypeOK, viewVars, cacheVars

LEMMA CrashAndRestartType ==
  ASSUME TypeInv, NEW n \in Up, CrashAndRestart(n)
  PROVE  TypeInv'
<1> DEFINE new == [number |-> Len(chain[n]) + 1, sealed |-> FALSE]
           lv == [i \in Idx |-> NoViewChange]
<1>1. HandlerType /\ ViewType /\ OtherType
  BY TypeParts DEF TypeInv
<1>2. /\ crashes < MaxCrash /\ crashes' = crashes + 1
      /\ highest' = [highest EXCEPT ![n] = Len(chain[n])]
      /\ view' = [view EXCEPT ![n] = 0]
      /\ toView' = [toView EXCEPT ![n] = 0]
      /\ leaderFailed' = [leaderFailed EXCEPT ![n] = FALSE]
      /\ raw' = [raw EXCEPT ![n] = NoPrepare]
      /\ prep' = [prep EXCEPT ![n] = NoPrepare]
      /\ committed' = [committed EXCEPT ![n] = backup[n]]
      /\ signs' = [signs EXCEPT ![n] = {}]
      /\ commits' = [commits EXCEPT ![n] = {}]
      /\ commitKey' = [commitKey EXCEPT ![n] = {}]
      /\ future' = [future EXCEPT ![n] = {}]
      /\ recvViewChange' = [recvViewChange EXCEPT ![n] = {}]
      /\ latestViewChange' = [latestViewChange EXCEPT ![n] = lv]
      /\ sealing' = [sealing EXCEPT ![n] = new]
      /\ UNCHANGED <<diskVars, msgs, viewMsgs>>
  BY DEF CrashAndRestart
<1>3. /\ Len(chain[n]) \in Nat /\ Len(chain[n]) \in 0..MaxNumber /\ 0 \in 0..MaxView
      /\ crashes + 1 \in 0..MaxCrash
  BY <1>1, <1>2, HeadHashType, Assumed DEF AllAssumptions, OtherType
<1>4. new \in [number : Nat, sealed : BOOLEAN]
      /\ lv \in [Idx -> ViewChangeReq \cup {NoViewChange}]
  BY <1>3
<1>5. Bounded'
  <2>1. \A i \in Up : highest'[i] = IF i = n THEN Len(chain[n]) ELSE highest[i]
    BY <1>1, <1>2 DEF OtherType
  <2>2. chain' = chain
    BY <1>2 DEF diskVars
  <2> QED
    BY <1>3, <2>1, <2>2 DEF TypeInv, Bounded
<1> HIDE DEF new, lv
<1>6. HandlerType'
  BY <1>1, <1>2 DEF HandlerType, OtherType, diskVars
<1>7. ViewType'
  BY <1>1, <1>2, <1>3, <1>4 DEF ViewType
<1>8. OtherType'
  BY <1>1, <1>2, <1>3, <1>4 DEF OtherType, diskVars
<1> QED
  BY <1>5, <1>6, <1>7, <1>8 DEF TypeOK, TypeInv, HandlerType, ViewType, OtherType, SignedReq

LEMMA InitType == Init => TypeInv
<1> SUFFICES ASSUME Init PROVE TypeInv
  OBVIOUS
<1>1. 0 \in 0..MaxView /\ 0 \in 0..MaxCrash
  BY Assumed DEF AllAssumptions
<1>2. HandlerType /\ ViewType /\ OtherType
  BY <1>1 DEF Init, HandlerType, ViewType, OtherType
<1>3. Bounded
  BY Assumed DEF Init, Bounded, AllAssumptions
<1> QED
  BY <1>2, <1>3, TypeParts DEF TypeInv

LEMMA NextType == TypeInv /\ [Next]_vars => TypeInv'
<1> SUFFICES ASSUME TypeInv, [Next]_vars PROVE TypeInv'
  OBVIOUS
<1>1. CASE UNCHANGED vars
  BY <1>1 DEF TypeInv, TypeOK, Bounded, vars, diskVars, viewVars, cacheVars
<1>2. ASSUME NEW n \in Up,
             \/ \E txs \in Payload : Seal(n, txs)
             \/ SealEmpty(n)
             \/ RehandleCommittedPrepare(n)
             \/ \E m \in msgs : HandlePrepare(n, m) \/ HandleSign(n, m) \/ HandleCommit(n, m)
             \/ HandleFuture(n)
             \/ Timeout(n)
             \/ \E e \in viewMsgs, direct \in BOOLEAN : HandleViewChange(n, e, direct)
             \/ \E i \in Idx : Disconnect(n, i)
             \/ \E m \in Up : SyncBlock(n, m)
             \/ ReportBlock(n)
             \/ CollectGarbage(n)
             \/ BackupMsg(n)
             \/ CrashAndRestart(n)
      PROVE  TypeInv'
  BY <1>2, SealType, SealEmptyType, RehandleType, HandlePrepareType, HandleSignType,
     HandleCommitType, HandleFutureType, TimeoutType, HandleViewChangeType, DisconnectType,
     SyncBlockType, ReportBlockType, CollectGarbageType, BackupMsgType, CrashAndRestartType
<1> QED
  BY <1>1, <1>2 DEF Next

LEMMA TypeInvariant == Spec => []TypeInv
<1>1. Init => TypeInv
  BY InitType
<1>2. TypeInv /\ [Next]_vars => TypeInv'
  BY NextType
<1> QED
  BY <1>1, <1>2, PTL DEF Spec

(* Every value the engine of a node keeps or sends is of its type. *)
THEOREM TypeCorrect == Spec => []TypeOK
<1>1. TypeInv => TypeOK
  BY DEF TypeInv
<1> QED
  BY <1>1, TypeInvariant, PTL

-----------------------------------------------------------------------------
(* Agreement.  A node is locked, from the commit request it sends for a      *)
(* height on, on the block of that request; every block of a chain has a     *)
(* quorum of commit requests; two quorums have a sender in common.           *)

CommitMsgs == {m \in msgs : m.type = "commit"}

(* The raw prepare a node locks on is the one it has prepared. *)
RawIsPrepared == \A n \in Up : prep[n] # NoPrepare => raw[n] = prep[n]

(* A node prepares no block against its lock. *)
PreparedFitsLock ==
  \A n \in Up :
    prep[n] # NoPrepare /\ prep[n].block.number = committed[n].block.number
      => prep[n].block = committed[n].block

(* Nor one beyond the next height. *)
PreparedLow == \A n \in Up : prep[n] # NoPrepare => prep[n].block.number <= highest[n] + 1

(* Commit requests are for the next height at most, and those for the next
   height are for the block the sender is locked on. *)
CommitsLocked ==
  \A m \in CommitMsgs :
    /\ m.idx \in Up
    /\ m.block.number <= highest[m.idx] + 1
    /\ m.block.number = highest[m.idx] + 1 => committed[m.idx].block = m.block

(* What a node caches as a commit request was sent. *)
CommitsSent ==
  \A n \in Up : \A e \in commits[n] : \E m \in CommitMsgs : m.idx = e.idx /\ m.block = e.block

Certifies(Q, h, txs) ==
  /\ Q \in SUBSET Idx /\ Cardinality(Q) >= minValidNodes
  /\ \A i \in Q : \E m \in CommitMsgs : m.idx = i /\ m.block = [number |-> h, txs |-> txs]

(* Every block of a chain has a quorum of commit requests. *)
ChainsCertified ==
  \A n \in Up : \A h \in 1..Len(chain[n]) : \E Q : Certifies(Q, h, chain[n][h])

SafeInv ==
  /\ RawIsPrepared /\ PreparedFitsLock /\ PreparedLow /\ CommitsLocked /\ CommitsSent
  /\ ChainsCertified /\ OneCommitPerHeight

(* Two quorums share a sealer: more than half of N are in each. *)
LEMMA QuorumsMeet ==
  ASSUME NEW P \in SUBSET Idx, NEW Q \in SUBSET Idx,
         Cardinality(P) >= minValidNodes, Cardinality(Q) >= minValidNodes
  PROVE  P \cap Q # {}
<1>1. IsFiniteSet(Idx) /\ Cardinality(Idx) = N
  BY FS_Interval, Assumed DEF Idx, AllAssumptions
<1>2. IsFiniteSet(P) /\ IsFiniteSet(Q) /\ IsFiniteSet(P \cup Q)
      /\ Cardinality(P \cup Q) <= N
  BY <1>1, FS_Subset
<1>3. Cardinality(P \cup Q) = Cardinality(P) + Cardinality(Q) - Cardinality(P \cap Q)
  BY <1>2, FS_Union
<1>4. 2 * minValidNodes > N
  BY Assumed DEF minValidNodes, m_f, AllAssumptions
<1>5. Cardinality(P) \in Nat /\ Cardinality(Q) \in Nat /\ Cardinality({}) = 0
  BY <1>2, FS_CardinalityType, FS_EmptySet
<1> SUFFICES ASSUME P \cap Q = {} PROVE FALSE
  OBVIOUS
<1>6. minValidNodes \in Int /\ N \in Nat
  BY Assumed DEF minValidNodes, m_f, AllAssumptions
<1>7. Cardinality(P \cap Q) = 0
  BY <1>5
<1>8. Cardinality(P \cup Q) = Cardinality(P) + Cardinality(Q)
  BY <1>3, <1>5, <1>7
<1> QED
  BY <1>2, <1>4, <1>5, <1>6, <1>8

LEMMA SafeAgreement == TypeInv /\ SafeInv => Agreement
<1> SUFFICES ASSUME TypeInv, SafeInv, NEW n \in Up, NEW m \in Up,
                    NEW h \in 1..Len(chain[n]), h <= Len(chain[m])
             PROVE  chain[n][h] = chain[m][h]
  BY DEF Agreement
<1>1. h \in 1..Len(chain[m])
  BY HeadHashType
<1>2. PICK P : Certifies(P, h, chain[n][h])
  BY DEF SafeInv, ChainsCertified
<1>3. PICK Q : Certifies(Q, h, chain[m][h])
  BY <1>1 DEF SafeInv, ChainsCertified
<1>4. PICK i \in P \cap Q : TRUE
  BY <1>2, <1>3, QuorumsMeet DEF Certifies
<1>5. PICK a \in CommitMsgs : a.idx = i /\ a.block = [number |-> h, txs |-> chain[n][h]]
  BY <1>2, <1>4 DEF Certifies
<1>6. PICK b \in CommitMsgs : b.idx = i /\ b.block = [number |-> h, txs |-> chain[m][h]]
  BY <1>3, <1>4 DEF Certifies
<1>7. a.block = b.block
  BY <1>5, <1>6 DEF SafeInv, OneCommitPerHeight, CommitMsgs
<1> QED
  BY <1>5, <1>6, <1>7

LEMMA CertifiesGrows ==
  ASSUME CommitMsgs \subseteq CommitMsgs', NEW Q, NEW h, NEW txs, Certifies(Q, h, txs)
  PROVE  Certifies(Q, h, txs)'
  BY DEF Certifies

(* Chains that stay, or lose nothing, stay certified. *)
LEMMA CertifiedKept ==
  ASSUME ChainsCertified, UNCHANGED chain, CommitMsgs \subseteq CommitMsgs'
  PROVE  ChainsCertified'
<1> SUFFICES ASSUME NEW n \in Up, NEW h \in 1..Len(chain[n])
             PROVE  \E Q : Certifies(Q, h, chain[n][h])'
  BY DEF ChainsCertified
<1>1. PICK Q : Certifies(Q, h, chain[n][h])
  BY DEF ChainsCertified
<1>2. PICK txs : txs = chain[n][h]
  OBVIOUS
<1>3. Certifies(Q, h, txs)'
  BY <1>1, <1>2, CertifiesGrows
<1>4. chain'[n][h] = txs
  BY <1>2
<1> QED
  BY <1>3, <1>4 DEF Certifies

LEMMA CertifiedExtended ==
  ASSUME TypeInv, ChainsCertified, CommitMsgs \subseteq CommitMsgs', NEW n \in Up,
         NEW txs \in Payload, chain' = [chain EXCEPT ![n] = Append(@, txs)],
         NEW Q, NEW k, k = Len(chain[n]) + 1, Certifies(Q, k, txs)'
  PROVE  ChainsCertified'
<1> SUFFICES ASSUME NEW i \in Up, NEW h \in 1..Len(chain'[i])
             PROVE  \E R : Certifies(R, h, chain[i][h])'
  BY DEF ChainsCertified
<1>1. chain \in [Up -> Seq(Payload)] /\ chain[n] \in Seq(Payload) /\ chain[i] \in Seq(Payload)
  BY DEF TypeInv, TypeOK
<1>2. chain'[i] = IF i = n THEN Append(chain[n], txs) ELSE chain[i]
  BY <1>1
<1>3. CASE i = n /\ h = Len(chain[n]) + 1
  <2>1. chain'[i][h] = txs /\ h = k
    BY <1>1, <1>2, <1>3
  <2> QED
    BY <2>1 DEF Certifies
<1>4. CASE ~(i = n /\ h = Len(chain[n]) + 1)
  <2>1. h \in 1..Len(chain[i]) /\ chain'[i][h] = chain[i][h]
    BY <1>1, <1>2, <1>4
  <2>2. PICK R : Certifies(R, h, chain[i][h])
    BY <2>1 DEF ChainsCertified
  <2>3. PICK x : x = chain[i][h]
    OBVIOUS
  <2>4. Certifies(R, h, x)'
    BY <2>2, <2>3, CertifiesGrows
  <2> QED
    BY <2>1, <2>3, <2>4 DEF Certifies
<1> QED
  BY <1>3, <1>4

(* checkAndSave: the commit requests counted certify the block. *)
LEMMA SaveSafe ==
  ASSUME TypeInv, SafeInv, NEW n \in Up, NEW p \in SignedReq \cup {NoPrepare}, NEW sg,
         NEW cm \in SUBSET CachedReq, NEW ft, checkAndSave(n, p, sg, cm, ft),
         CommitMsgs \subseteq CommitMsgs',
         \A e \in cm : \E m \in CommitMsgs' : m.idx = e.idx /\ m.block = e.block
  PROVE  /\ ChainsCertified' /\ CommitsSent'
         /\ \/ prep' = [prep EXCEPT ![n] = p]
            \/ prep' = [prep EXCEPT ![n] = NoPrepare]
<1>0. commits \in [Up -> SUBSET CachedReq]
  BY DEF TypeInv, TypeOK
<1>1. ASSUME NEW c \in SUBSET cm, commits' = [commits EXCEPT ![n] = c]
      PROVE  CommitsSent'
  <2> SUFFICES ASSUME NEW i \in Up, NEW e \in commits'[i]
               PROVE  \E m \in CommitMsgs' : m.idx = e.idx /\ m.block = e.block
    BY DEF CommitsSent
  <2>1. CASE i = n
    BY <1>0, <1>1, <2>1
  <2>2. CASE i # n
    BY <1>0, <1>1, <2>2 DEF SafeInv, CommitsSent
  <2> QED
    BY <2>1, <2>2
<1>2. CASE CanSave(n, p, sg, cm)
  <2>1. SaveBlock(n, p, sg, cm)
    BY <1>2 DEF checkAndSave
  <2>2. /\ p \in SignedReq /\ p.block.number = Len(chain[n]) + 1
        /\ Cardinality(Signers(cm, p.block)) >= minValidNodes
    BY <1>2 DEF CanSave, getCommitCacheSize
  <2>3. p.block.txs \in Payload
        /\ p.block = [number |-> p.block.number, txs |-> p.block.txs]
    BY <2>2 DEF SignedReq, PrepareReq, Block
  <2> DEFINE Q == Signers(cm, p.block)
  <2>4. Q \in SUBSET Idx
    BY DEF Signers, Entries, CachedReq
  <2>5. \A i \in Q : \E m \in CommitMsgs' : m.idx = i /\ m.block = p.block
    BY DEF Signers, Entries
  <2>6. Certifies(Q, p.block.number, p.block.txs)'
    BY <2>2, <2>3, <2>4, <2>5 DEF Certifies
  <2>7. chain' = [chain EXCEPT ![n] = Append(@, p.block.txs)]
    BY <2>1 DEF SaveBlock
  <2> HIDE DEF Q
  <2>8. ChainsCertified'
    BY <2>2, <2>3, <2>6, <2>7, CertifiedExtended DEF SafeInv
  <2>9. cm \ Entries(cm, p.block) \in SUBSET cm
        /\ commits' = [commits EXCEPT ![n] = cm \ Entries(cm, p.block)]
    BY <2>1 DEF SaveBlock
  <2>10. CommitsSent'
    BY <1>1, <2>9
  <2> QED
    BY <2>1, <2>8, <2>10 DEF SaveBlock
<1>3. CASE ~CanSave(n, p, sg, cm)
  <2>1. KeepCaches(n, p, sg, cm, ft)
    BY <1>3 DEF checkAndSave
  <2>2. CommitsSent'
    BY <1>1, <2>1 DEF KeepCaches
  <2>3. ChainsCertified'
    BY <2>1, CertifiedKept DEF KeepCaches, SafeInv
  <2> QED
    BY <2>1, <2>2, <2>3 DEF KeepCaches
<1> QED
  BY <1>2, <1>3

(* Steps that commit nothing and only drop requests. *)
LEMMA QuietSafe ==
  ASSUME TypeInv, TypeInv', SafeInv, UNCHANGED <<chain, committed>>, CommitMsgs' = CommitMsgs,
         \A i \in Up : /\ highest'[i] >= highest[i]
                       /\ \/ prep'[i] = prep[i] /\ raw'[i] = raw[i]
                          \/ prep'[i] = NoPrepare
                       /\ commits'[i] \subseteq commits[i]
  PROVE  SafeInv'
<1>1. RawIsPrepared' /\ PreparedFitsLock'
  BY DEF SafeInv, RawIsPrepared, PreparedFitsLock
<1>p. PreparedLow'
  <2> SUFFICES ASSUME NEW i \in Up, prep'[i] # NoPrepare
               PROVE  prep'[i].block.number <= highest'[i] + 1
    BY DEF PreparedLow
  <2>1. prep'[i] = prep[i] /\ prep[i].block.number <= highest[i] + 1
    BY DEF SafeInv, PreparedLow
  <2>2. prep[i] \in PrepareReq /\ prep[i].block.number \in Nat
    BY <2>1 DEF TypeInv, TypeOK, PrepareReq, Block
  <2>3. highest[i] \in Nat /\ highest'[i] \in Nat /\ highest'[i] >= highest[i]
    BY DEF TypeInv, TypeOK
  <2> QED
    BY <2>1, <2>2, <2>3
<1>2. CommitsLocked'
  <2> SUFFICES ASSUME NEW m \in CommitMsgs
               PROVE  /\ m.idx \in Up /\ m.block.number <= highest'[m.idx] + 1
                      /\ m.block.number = highest'[m.idx] + 1
                           => committed'[m.idx].block = m.block
    BY DEF CommitsLocked
  <2>1. /\ m.idx \in Up /\ m.block.number <= highest[m.idx] + 1
        /\ m.block.number = highest[m.idx] + 1 => committed[m.idx].block = m.block
    BY DEF SafeInv, CommitsLocked
  <2>2. highest[m.idx] \in Nat /\ highest'[m.idx] \in Nat /\ m.block.number \in Nat
    BY <2>1 DEF TypeInv, TypeOK, CommitMsgs, Msg, Block
  <2> QED
    BY <2>1, <2>2
<1>3. CommitsSent'
  BY DEF SafeInv, CommitsSent
<1>4. ChainsCertified'
  BY CertifiedKept DEF SafeInv
<1>5. OneCommitPerHeight'
  BY DEF SafeInv, OneCommitPerHeight, CommitMsgs
<1> QED
  BY <1>1, <1>p, <1>2, <1>3, <1>4, <1>5 DEF SafeInv

(* checkAndCommit: the commit request that goes out fits the lock. *)
LEMMA CommitSafe ==
  ASSUME TypeInv, SafeInv, NEW n \in Up, NEW r, NEW p \in SignedReq \cup {NoPrepare}, NEW sg,
         NEW cm \in SUBSET CachedReq, NEW ft, NEW sent \in SUBSET Msg,
         checkAndCommit(n, r, p, sg, cm, ft, sent),
         raw' = [raw EXCEPT ![n] = r], UNCHANGED highest,
         p # NoPrepare => r = p,
         p # NoPrepare => p.block.number <= highest[n] + 1,
         CanCommit(n, p, sg) => p.block.number = highest[n] + 1,
         p # NoPrepare /\ p.block.number = committed[n].block.number
           => p.block = committed[n].block,
         CommitMsgs = {m \in sent : m.type = "commit"},
         \A e \in cm : \E m \in CommitMsgs : m.idx = e.idx /\ m.block = e.block
  PROVE  SafeInv'
<1>0. /\ prep \in [Up -> SignedReq \cup {NoPrepare}] /\ raw \in [Up -> PrepareReq \cup {NoPrepare}]
      /\ committed \in [Up -> PrepareReq \cup {NoPrepare}]
      /\ commits \in [Up -> SUBSET CachedReq] /\ highest \in [Up -> Nat] /\ msgs \subseteq Msg
  BY DEF TypeInv, TypeOK, SignedReq
<1>1. CASE CanCommit(n, p, sg)
  <2> DEFINE e == [idx |-> n, view |-> p.view, block |-> p.block, isFuture |-> FALSE]
             c == [type |-> "commit", idx |-> n, view |-> p.view, block |-> p.block]
  <2>1. p \in SignedReq /\ p # NoPrepare /\ r = p /\ p.block.number = highest[n] + 1
    BY <1>1 DEF CanCommit
  <2>2. /\ committed' = [committed EXCEPT ![n] = p] /\ msgs' = sent \cup {c}
        /\ checkAndSave(n, p, sg, AddReq(cm, e), ft)
    BY <1>1, <2>1 DEF checkAndCommit
  <2>3. CommitMsgs' = CommitMsgs \cup {c}
    BY <2>2 DEF CommitMsgs
  <2>4. e \in CachedReq /\ AddReq(cm, e) \in SUBSET CachedReq
    <3>1. e \in CachedReq
      BY <2>1, UpAssumption DEF CachedReq, SignedReq, PrepareReq, Idx
    <3> HIDE DEF e
    <3> QED
      BY <3>1, CacheTypes
  <2>5. \A x \in AddReq(cm, e) : \E m \in CommitMsgs' : m.idx = x.idx /\ m.block = x.block
    <3>1. AddReq(cm, e) \subseteq cm \cup {e}
      BY DEF AddReq
    <3>2. c \in CommitMsgs' /\ c.idx = e.idx /\ c.block = e.block
      BY <2>3
    <3>3. \A x \in cm : \E m \in CommitMsgs' : m.idx = x.idx /\ m.block = x.block
      BY <2>3
    <3> HIDE DEF e, c
    <3> QED
      BY <3>1, <3>2, <3>3
  <2>6. /\ ChainsCertified' /\ CommitsSent'
        /\ \/ prep' = [prep EXCEPT ![n] = p]
           \/ prep' = [prep EXCEPT ![n] = NoPrepare]
    <3> HIDE DEF e, c
    <3> QED
      BY <2>2, <2>3, <2>4, <2>5, SaveSafe
  <2>7. RawIsPrepared' /\ PreparedFitsLock' /\ PreparedLow'
    BY <1>0, <2>1, <2>2, <2>6 DEF SafeInv, RawIsPrepared, PreparedFitsLock, PreparedLow
  <2>8. CommitsLocked'
    <3> SUFFICES ASSUME NEW m \in CommitMsgs'
                 PROVE  /\ m.idx \in Up /\ m.block.number <= highest'[m.idx] + 1
                        /\ m.block.number = highest'[m.idx] + 1
                             => committed'[m.idx].block = m.block
      BY DEF CommitsLocked
    <3>1. CASE m = c
      BY <1>0, <2>1, <2>2, <3>1
    <3>2. CASE m \in CommitMsgs
      <4>1. /\ m.idx \in Up /\ m.block.number <= highest[m.idx] + 1
            /\ m.block.number = highest[m.idx] + 1 => committed[m.idx].block = m.block
        BY <3>2 DEF SafeInv, CommitsLocked
      <4>2. CASE m.idx = n
        BY <1>0, <2>1, <2>2, <4>1, <4>2
      <4>3. CASE m.idx # n
        BY <1>0, <2>2, <4>1, <4>3
      <4> QED
        BY <4>2, <4>3
    <3> QED
      BY <2>3, <3>1, <3>2
  <2>9. OneCommitPerHeight'
    <3>1. \A m \in CommitMsgs : m.idx = n /\ m.block.number = c.block.number
                                => m.block = c.block
      BY <2>1 DEF SafeInv, CommitsLocked
    <3>2. \A x, y \in CommitMsgs : x.idx = y.idx /\ x.block.number = y.block.number
                                   => x.block = y.block
      BY DEF SafeInv, OneCommitPerHeight, CommitMsgs
    <3>3. \A x, y \in CommitMsgs \cup {c} : x.idx = y.idx /\ x.block.number = y.block.number
                                            => x.block = y.block
      BY <3>1, <3>2
    <3> QED
      BY <2>3, <3>3 DEF OneCommitPerHeight, CommitMsgs
  <2> QED
    BY <2>6, <2>7, <2>8, <2>9 DEF SafeInv
<1>2. CASE ~CanCommit(n, p, sg)
  <2>1. KeepCaches(n, p, sg, cm, ft) /\ msgs' = sent /\ committed' = committed
    BY <1>2 DEF checkAndCommit
  <2>2. CommitMsgs' = CommitMsgs /\ chain' = chain
    BY <2>1 DEF CommitMsgs, KeepCaches
  <2>3. RawIsPrepared' /\ PreparedFitsLock' /\ PreparedLow'
    BY <1>0, <2>1 DEF SafeInv, RawIsPrepared, PreparedFitsLock, PreparedLow, KeepCaches
  <2>4. CommitsLocked'
    BY <2>1, <2>2 DEF SafeInv, CommitsLocked
  <2>5. CommitsSent'
    BY <1>0, <2>1, <2>2 DEF SafeInv, CommitsSent, KeepCaches
  <2>6. ChainsCertified'
    BY <2>2, CertifiedKept DEF SafeInv
  <2>7. OneCommitPerHeight'
    BY <2>2 DEF SafeInv, OneCommitPerHeight, CommitMsgs
  <2> QED
    BY <2>3, <2>4, <2>5, <2>6, <2>7 DEF SafeInv
<1> QED
  BY <1>1, <1>2

(* The handler of a prepare: the block is for the next height and fits the
   lock, else it is not signed. *)
LEMMA PrepareSafe ==
  ASSUME TypeInv, TypeInv', SafeInv, NEW n \in Up, NEW p \in PrepareReq,
         NEW ft \in SUBSET PrepareReq, NEW sent \in SUBSET Msg,
         handlePrepareMsg(n, p, ft, sent), UNCHANGED highest,
         CommitMsgs = {m \in sent : m.type = "commit"}
  PROVE  SafeInv'
<1>0. /\ prep \in [Up -> SignedReq \cup {NoPrepare}] /\ raw \in [Up -> PrepareReq \cup {NoPrepare}]
      /\ commits \in [Up -> SUBSET CachedReq] /\ highest \in [Up -> Nat]
  BY DEF TypeInv, TypeOK, SignedReq
<1>1. CASE /\ ~InvalidPrepare(n, p) /\ ~isFuturePrepare(n, p)
           /\ p.block.txs # NoTxs /\ CanExecute(n, p)
  <2> DEFINE e == [idx |-> n, view |-> p.view, block |-> p.block, isFuture |-> FALSE]
             s == [type |-> "sign", idx |-> n, view |-> p.view, block |-> p.block]
             sg == AddReq(RemoveInvalid(signs[n], p), e)
             cm == RemoveInvalid(commits[n], p)
  <2>1. /\ SignPrepare(n, p, ft, sent) /\ raw' = [raw EXCEPT ![n] = p]
        /\ p \in SignedReq
    BY <1>1 DEF handlePrepareMsg, execPrepareAndGenerateSignMsg, SignedReq
  <2>2. checkAndCommit(n, p, p, sg, cm, ft, sent \cup {s})
    BY <2>1 DEF SignPrepare
  <2>3. p.block.number = highest[n] + 1
    <3>1. p.block.number \in Nat
      BY <2>1 DEF SignedReq, PrepareReq, Block
    <3>2. ~ p.block.number < highest[n] + 1 /\ ~ p.block.number > highest[n] + 1
      BY <1>1 DEF InvalidPrepare, hasConsensused, isFuturePrepare, consensusBlockNumber
    <3> QED
      BY <1>0, <3>1, <3>2
  <2>4. p.block.number = committed[n].block.number => p.block = committed[n].block
    BY <1>1 DEF InvalidPrepare, isHashSavedAfterCommit
  <2>5. s \in Msg /\ sent \cup {s} \in SUBSET Msg
    BY <2>1, UpAssumption DEF Msg, SignedReq, PrepareReq, Idx
  <2>6. CommitMsgs = {m \in sent \cup {s} : m.type = "commit"}
    OBVIOUS
  <2>7. cm \in SUBSET CachedReq
        /\ \A x \in cm : \E m \in CommitMsgs : m.idx = x.idx /\ m.block = x.block
    BY <1>0 DEF RemoveInvalid, SafeInv, CommitsSent
  <2> HIDE DEF e, s, sg, cm
  <2>8. p.block.number <= highest[n] + 1
    BY <1>0, <2>3
  <2> QED
    BY <2>1, <2>2, <2>3, <2>4, <2>5, <2>6, <2>7, <2>8, CommitSafe
<1>2. CASE ~ /\ ~InvalidPrepare(n, p) /\ ~isFuturePrepare(n, p)
             /\ p.block.txs # NoTxs /\ CanExecute(n, p)
  <2>1. /\ UNCHANGED <<chain, committed>> /\ msgs' = sent
        /\ \/ UNCHANGED <<raw, prep, commits>>
           \/ /\ prep' = [prep EXCEPT ![n] = NoPrepare]
              /\ raw' = [raw EXCEPT ![n] = p] /\ commits' = [commits EXCEPT ![n] = @]
    BY <1>2 DEF handlePrepareMsg, execPrepareAndGenerateSignMsg, KeepCaches
  <2>2. CommitMsgs' = CommitMsgs
    BY <2>1 DEF CommitMsgs
  <2>3. \A i \in Up : /\ highest'[i] >= highest[i]
                      /\ \/ prep'[i] = prep[i] /\ raw'[i] = raw[i]
                         \/ prep'[i] = NoPrepare
                      /\ commits'[i] \subseteq commits[i]
    BY <1>0, <2>1
  <2> QED
    BY <2>1, <2>2, <2>3, QuietSafe
<1> QED
  BY <1>1, <1>2

LEMMA HandlePrepareSafe ==
  ASSUME TypeInv, TypeInv', SafeInv, NEW n \in Up, NEW m \in msgs, HandlePrepare(n, m)
  PROVE  SafeInv'
<1> DEFINE p == [idx |-> m.idx, view |-> m.view, block |-> m.block]
<1>1. p \in PrepareReq /\ future[n] \in SUBSET PrepareReq /\ msgs \in SUBSET Msg
  BY MsgTypes
<1>2. handlePrepareMsg(n, p, future[n], msgs) /\ UNCHANGED highest
  BY DEF HandlePrepare
<1> HIDE DEF p
<1> QED
  BY <1>1, <1>2, PrepareSafe DEF CommitMsgs

LEMMA HandleFutureSafe ==
  ASSUME TypeInv, TypeInv', SafeInv, NEW n \in Up, HandleFuture(n)
  PROVE  SafeInv'
<1>1. PICK p \in future[n] : /\ handlePrepareMsg(n, p, future[n] \ {p}, msgs)
                             /\ UNCHANGED highest
  BY DEF HandleFuture
<1>2. p \in PrepareReq /\ future[n] \ {p} \in SUBSET PrepareReq /\ msgs \in SUBSET Msg
  BY MsgTypes
<1> QED
  BY <1>1, <1>2, PrepareSafe DEF CommitMsgs

LEMMA SealSafe ==
  ASSUME TypeInv, TypeInv', SafeInv, NEW n \in Up, NEW txs \in Payload, Seal(n, txs)
  PROVE  SafeInv'
<1> DEFINE p == [idx |-> n, view |-> view[n],
                 block |-> [number |-> Len(chain[n]) + 1, txs |-> txs]]
<1>1. p \in PrepareReq
  <2>1. Len(chain[n]) + 1 \in 1..MaxNumber
    BY HeadHashType, Assumed DEF Seal, AllAssumptions
  <2> QED
    BY <2>1, MsgTypes DEF PrepareReq, Block
<1>2. handlePrepareMsg(n, p, future[n], msgs \cup {PrepareMsg(p)}) /\ UNCHANGED highest
  BY DEF Seal
<1> HIDE DEF p
<1>3. msgs \cup {PrepareMsg(p)} \in SUBSET Msg /\ future[n] \in SUBSET PrepareReq
  BY <1>1, MsgTypes
<1>4. CommitMsgs = {m \in msgs \cup {PrepareMsg(p)} : m.type = "commit"}
  BY DEF CommitMsgs, PrepareMsg
<1> QED
  BY <1>1, <1>2, <1>3, <1>4, PrepareSafe

LEMMA RehandleSafe ==
  ASSUME TypeInv, TypeInv', SafeInv, NEW n \in Up, RehandleCommittedPrepare(n)
  PROVE  SafeInv'
<1> DEFINE p == [idx |-> n, view |-> view[n], block |-> committed[n].block]
<1>1. p \in PrepareReq
  <2>1. committed[n].block.number = highest[n] + 1 /\ highest[n] \in Nat
    BY DEF RehandleCommittedPrepare, consensusBlockNumber, TypeInv, TypeOK
  <2>2. committed[n] \in PrepareReq \cup {NoPrepare}
    BY DEF TypeInv, TypeOK
  <2>3. committed[n] # NoPrepare
    BY <2>1 DEF NoPrepare
  <2> QED
    BY <2>2, <2>3, MsgTypes DEF PrepareReq
<1>2. handlePrepareMsg(n, p, future[n], msgs \cup {PrepareMsg(p)}) /\ UNCHANGED highest
  BY DEF RehandleCommittedPrepare
<1> HIDE DEF p
<1>3. msgs \cup {PrepareMsg(p)} \in SUBSET Msg /\ future[n] \in SUBSET PrepareReq
  BY <1>1, MsgTypes
<1>4. CommitMsgs = {m \in msgs \cup {PrepareMsg(p)} : m.type = "commit"}
  BY DEF CommitMsgs, PrepareMsg
<1> QED
  BY <1>1, <1>2, <1>3, <1>4, PrepareSafe

LEMMA HandleSignSafe ==
  ASSUME TypeInv, TypeInv', SafeInv, NEW n \in Up, NEW m \in msgs, HandleSign(n, m)
  PROVE  SafeInv'
<1> DEFINE e == [idx |-> m.idx, view |-> m.view, block |-> m.block, isFuture |-> FutureReq(n, m)]
           sg == AddReq(signs[n], e)
<1>0. /\ prep \in [Up -> SignedReq \cup {NoPrepare}] /\ raw \in [Up -> PrepareReq \cup {NoPrepare}]
      /\ commits \in [Up -> SUBSET CachedReq] /\ highest \in [Up -> Nat] /\ msgs \subseteq Msg
  BY DEF TypeInv, TypeOK, SignedReq
<1>1. /\ ~hasConsensused(n, m.block.number, m.view)
      /\ \/ /\ ValidReq(n, m)
            /\ checkAndCommit(n, raw[n], prep[n], sg, commits[n], future[n], msgs)
            /\ UNCHANGED raw
         \/ UNCHANGED <<chain, raw, prep, commits, committed, msgs>>
      /\ UNCHANGED highest
  BY DEF HandleSign
<1> HIDE DEF sg
<1>2. CASE /\ ValidReq(n, m)
           /\ checkAndCommit(n, raw[n], prep[n], sg, commits[n], future[n], msgs)
           /\ UNCHANGED raw
  <2>1. prep[n].block = m.block
    BY <1>2 DEF ValidReq
  <2>2. CanCommit(n, prep[n], sg) => prep[n].block.number = highest[n] + 1
    <3> SUFFICES ASSUME CanCommit(n, prep[n], sg) PROVE prep[n].block.number = highest[n] + 1
      OBVIOUS
    <3>1. m.block.number \in Nat /\ highest[n] \in Nat
      BY <1>0 DEF Msg, Block
    <3>2. m.block.number >= highest[n] + 1
      BY <1>1, <3>1 DEF hasConsensused, consensusBlockNumber
    <3>3. prep[n] # NoPrepare
      BY DEF CanCommit
    <3>4. prep[n].block.number <= highest[n] + 1
      BY <3>3 DEF SafeInv, PreparedLow
    <3> QED
      BY <2>1, <3>1, <3>2, <3>4
  <2>3. /\ raw' = [raw EXCEPT ![n] = raw[n]]
        /\ prep[n] # NoPrepare => raw[n] = prep[n]
        /\ prep[n] # NoPrepare => prep[n].block.number <= highest[n] + 1
        /\ prep[n] # NoPrepare /\ prep[n].block.number = committed[n].block.number
             => prep[n].block = committed[n].block
        /\ \A x \in commits[n] : \E y \in CommitMsgs : y.idx = x.idx /\ y.block = x.block
    BY <1>0, <1>2 DEF SafeInv, RawIsPrepared, PreparedFitsLock, PreparedLow, CommitsSent
  <2>4. /\ prep[n] \in SignedReq \cup {NoPrepare} /\ commits[n] \in SUBSET CachedReq
        /\ msgs \in SUBSET Msg
    BY <1>0
  <2>5. CommitMsgs = {y \in msgs : y.type = "commit"}
    BY DEF CommitMsgs
  <2> DEFINE r == raw[n]  p == prep[n]  cm == commits[n]
  <2>6. /\ checkAndCommit(n, r, p, sg, cm, future[n], msgs)
        /\ raw' = [raw EXCEPT ![n] = r]
        /\ p # NoPrepare => r = p
        /\ p # NoPrepare => p.block.number <= highest[n] + 1
        /\ p # NoPrepare /\ p.block.number = committed[n].block.number
             => p.block = committed[n].block
        /\ CanCommit(n, p, sg) => p.block.number = highest[n] + 1
        /\ p \in SignedReq \cup {NoPrepare} /\ cm \in SUBSET CachedReq
        /\ \A x \in cm : \E y \in CommitMsgs : y.idx = x.idx /\ y.block = x.block
    BY <1>2, <2>2, <2>3, <2>4
  <2> HIDE DEF r, p, cm
  <2> QED
    BY <1>1, <2>4, <2>5, <2>6, CommitSafe
<1>3. CASE UNCHANGED <<chain, raw, prep, commits, committed, msgs>>
  BY <1>0, <1>1, <1>3, QuietSafe DEF CommitMsgs
<1> QED
  BY <1>1, <1>2, <1>3

LEMMA HandleCommitSafe ==
  ASSUME TypeInv, TypeInv', SafeInv, NEW n \in Up, NEW m \in msgs, HandleCommit(n, m)
  PROVE  SafeInv'
<1> DEFINE e == [idx |-> m.idx, view |-> m.view, block |-> m.block, isFuture |-> FutureReq(n, m)]
           cm == AddReq(commits[n], e)
<1>0. /\ prep \in [Up -> SignedReq \cup {NoPrepare}]
      /\ commits \in [Up -> SUBSET CachedReq] /\ highest \in [Up -> Nat]
  BY DEF TypeInv, TypeOK, SignedReq
<1>1. /\ \/ checkAndSave(n, prep[n], signs[n], cm, future[n])
         \/ /\ commits' = [commits EXCEPT ![n] = cm]
            /\ UNCHANGED <<chain, prep>>
      /\ UNCHANGED <<raw, committed, highest, msgs>>
  BY DEF HandleCommit
<1>2. m \in CommitMsgs
  BY DEF HandleCommit, CommitMsgs
<1>3. cm \in SUBSET CachedReq
      /\ \A x \in cm : \E y \in CommitMsgs : y.idx = x.idx /\ y.block = x.block
  <2>1. e \in CachedReq /\ e.idx = m.idx /\ e.block = m.block
    BY MsgTypes
  <2>2. cm \subseteq commits[n] \cup {e}
    BY DEF AddReq
  <2>3. \A x \in commits[n] : \E y \in CommitMsgs : y.idx = x.idx /\ y.block = x.block
    BY DEF SafeInv, CommitsSent
  <2>4. commits[n] \in SUBSET CachedReq
    BY <1>0
  <2> HIDE DEF e, cm
  <2> QED
    BY <1>2, <2>1, <2>2, <2>3, <2>4
<1> HIDE DEF cm
<1>4. CommitMsgs' = CommitMsgs
  BY <1>1 DEF CommitMsgs
<1>5. /\ ChainsCertified' /\ CommitsSent'
      /\ \A i \in Up : prep'[i] = prep[i] \/ prep'[i] = NoPrepare
  <2>1. CASE checkAndSave(n, prep[n], signs[n], cm, future[n])
    <3>1. prep[n] \in SignedReq \cup {NoPrepare}
      BY <1>0
    <3>2. \A x \in cm : \E y \in CommitMsgs' : y.idx = x.idx /\ y.block = x.block
      BY <1>3, <1>4
    <3>3. /\ ChainsCertified' /\ CommitsSent'
          /\ \/ prep' = [prep EXCEPT ![n] = prep[n]]
             \/ prep' = [prep EXCEPT ![n] = NoPrepare]
      BY <1>3, <1>4, <2>1, <3>1, <3>2, SaveSafe
    <3> QED
      BY <1>0, <3>3
  <2>2. CASE commits' = [commits EXCEPT ![n] = cm] /\ UNCHANGED <<chain, prep>>
    <3>1. CommitsSent'
      BY <1>0, <1>3, <1>4, <2>2 DEF SafeInv, CommitsSent
    <3>2. ChainsCertified'
      BY <1>4, <2>2, CertifiedKept DEF SafeInv
    <3> QED
      BY <2>2, <3>1, <3>2
  <2> QED
    BY <1>1, <2>1, <2>2
<1>6. RawIsPrepared' /\ PreparedFitsLock' /\ PreparedLow'
  BY <1>1, <1>5 DEF SafeInv, RawIsPrepared, PreparedFitsLock, PreparedLow
<1>7. CommitsLocked' /\ OneCommitPerHeight'
  BY <1>1, <1>4 DEF SafeInv, CommitsLocked, OneCommitPerHeight
<1> QED
  BY <1>5, <1>6, <1>7 DEF SafeInv

LEMMA ChangeViewSafe ==
  ASSUME TypeInv, TypeInv', SafeInv, NEW n \in Up, NEW v, NEW rv, NEW lv, NEW t, NEW failed,
         checkAndChangeView(n, v, rv, lv, t, failed),
         UNCHANGED <<diskVars, highest, committed, msgs>>
  PROVE  SafeInv'
<1>0. /\ prep \in [Up -> SignedReq \cup {NoPrepare}] /\ highest \in [Up -> Nat]
      /\ commits \in [Up -> SUBSET CachedReq] /\ raw \in [Up -> PrepareReq \cup {NoPrepare}]
  BY DEF TypeInv, TypeOK, SignedReq
<1>1. \/ /\ raw' = [raw EXCEPT ![n] = NoPrepare] /\ prep' = [prep EXCEPT ![n] = NoPrepare]
         /\ commits' = [commits EXCEPT ![n] = RemoveExpired(commits[n], v)]
      \/ UNCHANGED <<raw, prep, commits>>
  BY <1>0 DEF checkAndChangeView, triggerViewChange, cacheVars
<1>2. \A i \in Up : /\ highest'[i] >= highest[i]
                    /\ \/ prep'[i] = prep[i] /\ raw'[i] = raw[i]
                       \/ prep'[i] = NoPrepare
                    /\ commits'[i] \subseteq commits[i]
  BY <1>0, <1>1 DEF RemoveExpired
<1> QED
  BY <1>2, QuietSafe DEF diskVars, CommitMsgs

(* The steps that commit nothing and send no commit request. *)
LEMMA QuietStepsSafe ==
  ASSUME TypeInv, TypeInv', SafeInv, NEW n \in Up,
         \/ Timeout(n) \/ SealEmpty(n) \/ ReportBlock(n) \/ CollectGarbage(n) \/ BackupMsg(n)
         \/ \E e \in viewMsgs, direct \in BOOLEAN : HandleViewChange(n, e, direct)
         \/ \E i \in Idx : Disconnect(n, i)
  PROVE  SafeInv'
<1>0. /\ prep \in [Up -> SignedReq \cup {NoPrepare}] /\ highest \in [Up -> Nat]
      /\ commits \in [Up -> SUBSET CachedReq] /\ raw \in [Up -> PrepareReq \cup {NoPrepare}]
  BY DEF TypeInv, TypeOK, SignedReq
<1>1. CASE Timeout(n)
  BY <1>1, ChangeViewSafe DEF Timeout
<1>2. ASSUME NEW e \in viewMsgs, NEW direct \in BOOLEAN, HandleViewChange(n, e, direct)
      PROVE  SafeInv'
  <2>1. UNCHANGED <<diskVars, highest, committed, msgs>>
    BY <1>2 DEF HandleViewChange
  <2>2. CASE \E v, rv, lv, t, failed : checkAndChangeView(n, v, rv, lv, t, failed)
    BY <2>1, <2>2, ChangeViewSafe
  <2>3. CASE UNCHANGED cacheVars
    BY <1>0, <2>1, <2>3, QuietSafe DEF cacheVars, diskVars, CommitMsgs
  <2> QED
    BY <1>2, <2>2, <2>3, Zenon DEF HandleViewChange
<1>3. CASE \E i \in Idx : Disconnect(n, i)
  BY <1>0, <1>3, QuietSafe DEF Disconnect, cacheVars, diskVars, CommitMsgs
<1>4. CASE SealEmpty(n)
  <2>1. CommitMsgs' = CommitMsgs
    BY <1>4 DEF SealEmpty, CommitMsgs, PrepareMsg
  <2> QED
    BY <1>0, <1>4, <2>1, QuietSafe DEF SealEmpty, cacheVars, diskVars
<1>5. CASE ReportBlock(n)
  <2> DEFINE head == [number |-> Len(chain[n]), txs |-> chain[n][Len(chain[n])]]
  <2>1. /\ highest[n] < Len(chain[n]) /\ highest' = [highest EXCEPT ![n] = Len(chain[n])]
        /\ commits' = [commits EXCEPT ![n] = @ \ Entries(@, head)]
        /\ prep' = [prep EXCEPT ![n] = NoPrepare] \/ prep' = prep
        /\ UNCHANGED <<diskVars, raw, committed, msgs>>
    BY <1>5 DEF ReportBlock, NewHead
  <2> HIDE DEF head
  <2>2. \A i \in Up : /\ highest'[i] >= highest[i]
                      /\ \/ prep'[i] = prep[i] /\ raw'[i] = raw[i]
                         \/ prep'[i] = NoPrepare
                      /\ commits'[i] \subseteq commits[i]
    BY <1>0, <2>1, HeadHashType
  <2> QED
    BY <2>1, <2>2, QuietSafe DEF diskVars, CommitMsgs
<1>6. CASE CollectGarbage(n)
  <2>1. \A i \in Up : commits'[i] \subseteq commits[i]
    BY <1>0, <1>6 DEF CollectGarbage
  <2> QED
    BY <1>0, <1>6, <2>1, QuietSafe DEF CollectGarbage, diskVars, CommitMsgs
<1>7. CASE BackupMsg(n)
  BY <1>0, <1>7, QuietSafe DEF BackupMsg, cacheVars, CommitMsgs
<1> QED
  BY <1>1, <1>2, <1>3, <1>4, <1>5, <1>6, <1>7

(* A block taken over from another node is certified by the same requests. *)
LEMMA SyncBlockSafe ==
  ASSUME TypeInv, TypeInv', SafeInv, NEW n \in Up, NEW m \in Up, SyncBlock(n, m)
  PROVE  SafeInv'
<1> DEFINE k == Len(chain[n]) + 1
<1>1. /\ chain' = [chain EXCEPT ![n] = Append(@, chain[m][k])]
      /\ Len(chain[n]) < Len(chain[m])
      /\ UNCHANGED <<highest, raw, prep, commits, committed, msgs>>
  BY DEF SyncBlock, cacheVars
<1>2. k \in 1..Len(chain[m]) /\ chain[m] \in Seq(Payload)
  BY <1>1, HeadHashType DEF TypeInv, TypeOK
<1>3. PICK txs \in Payload : txs = chain[m][k]
  BY <1>2
<1>4. PICK h : h = k
  OBVIOUS
<1>5. PICK Q : Certifies(Q, h, txs)
  BY <1>2, <1>3, <1>4 DEF SafeInv, ChainsCertified
<1>6. CommitMsgs' = CommitMsgs
  BY <1>1 DEF CommitMsgs
<1>7. Certifies(Q, h, txs)'
  BY <1>5, <1>6, CertifiesGrows
<1>8. ChainsCertified'
  BY <1>1, <1>3, <1>4, <1>6, <1>7, CertifiedExtended DEF SafeInv
<1> QED
  BY <1>1, <1>6, <1>8 DEF SafeInv, RawIsPrepared, PreparedFitsLock, PreparedLow, CommitsLocked,
     CommitsSent, OneCommitPerHeight

(* A node that restarts is still locked, if its backup was on disk. *)
LEMMA CrashAndRestartSafe ==
  ASSUME ~LoseBackup, TypeInv, TypeInv', SafeInv, NEW n \in Up, CrashAndRestart(n)
  PROVE  SafeInv'
<1>0. /\ prep \in [Up -> SignedReq \cup {NoPrepare}] /\ highest \in [Up -> Nat]
      /\ commits \in [Up -> SUBSET CachedReq]
      /\ committed \in [Up -> PrepareReq \cup {NoPrepare}]
  BY DEF TypeInv, TypeOK, SignedReq
<1>1. /\ highest' = [highest EXCEPT ![n] = Len(chain[n])]
      /\ prep' = [prep EXCEPT ![n] = NoPrepare]
      /\ raw' = [raw EXCEPT ![n] = NoPrepare]
      /\ commits' = [commits EXCEPT ![n] = {}]
      /\ committed' = [committed EXCEPT ![n] = committed[n]]
      /\ UNCHANGED <<diskVars, msgs>>
  BY DEF CrashAndRestart
<1>2. committed' = committed /\ CommitMsgs' = CommitMsgs
  BY <1>0, <1>1 DEF CommitMsgs
<1>3. raw \in [Up -> PrepareReq \cup {NoPrepare}] /\ highest[n] <= Len(chain[n])
  BY DEF TypeInv, TypeOK, Bounded
<1>4. \A i \in Up : /\ highest'[i] >= highest[i]
                    /\ \/ prep'[i] = prep[i] /\ raw'[i] = raw[i]
                       \/ prep'[i] = NoPrepare
                    /\ commits'[i] \subseteq commits[i]
  BY <1>0, <1>1, <1>3, HeadHashType
<1> QED
  BY <1>1, <1>2, <1>4, QuietSafe DEF diskVars

LEMMA NextSafe == ~LoseBackup /\ TypeInv /\ TypeInv' /\ SafeInv /\ [Next]_vars => SafeInv'
<1> SUFFICES ASSUME ~LoseBackup, TypeInv, TypeInv', SafeInv, [Next]_vars PROVE SafeInv'
  OBVIOUS
<1>1. CASE UNCHANGED vars
  <2>1. CommitMsgs' = CommitMsgs
    BY <1>1 DEF CommitMsgs, vars
  <2>2. highest \in [Up -> Nat]
    BY DEF TypeInv, TypeOK
  <2> QED
    BY <1>1, <2>1, <2>2, QuietSafe DEF vars, diskVars, cacheVars
<1>2. ASSUME NEW n \in Up,
             \/ \E txs \in Payload : Seal(n, txs)
             \/ SealEmpty(n)
             \/ RehandleCommittedPrepare(n)
             \/ \E m \in msgs : HandlePrepare(n, m) \/ HandleSign(n, m) \/ HandleCommit(n, m)
             \/ HandleFuture(n)
             \/ Timeout(n)
             \/ \E e \in viewMsgs, direct \in BOOLEAN : HandleViewChange(n, e, direct)
             \/ \E i \in Idx : Disconnect(n, i)
             \/ \E m \in Up : SyncBlock(n, m)
             \/ ReportBlock(n)
             \/ CollectGarbage(n)
             \/ BackupMsg(n)
             \/ CrashAndRestart(n)
      PROVE  SafeInv'
  BY <1>2, SealSafe, RehandleSafe, HandlePrepareSafe, HandleSignSafe, HandleCommitSafe,
     HandleFutureSafe, QuietStepsSafe, SyncBlockSafe, CrashAndRestartSafe
<1> QED
  BY <1>1, <1>2 DEF Next

LEMMA InitSafe == Init => SafeInv
  BY DEF Init, SafeInv, RawIsPrepared, PreparedFitsLock, PreparedLow, CommitsLocked,
     CommitsSent, ChainsCertified, OneCommitPerHeight, CommitMsgs

LEMMA SafeInvariant == ~LoseBackup => (Spec => []SafeInv)
<1> SUFFICES ASSUME ~LoseBackup PROVE Spec => []SafeInv
  OBVIOUS
<1>1. TypeInv /\ TypeInv' /\ SafeInv /\ [Next]_vars => SafeInv'
  BY NextSafe
<1> QED
  BY <1>1, InitSafe, TypeInvariant, PTL DEF Spec

(* No two nodes ever commit different blocks at one height, for every number
   of sealers, as long as no crash comes before the lock is on disk. *)
THEOREM AgreementCorrect == ~LoseBackup => (Spec => []Agreement)
<1>1. TypeInv /\ SafeInv => Agreement
  BY SafeAgreement
<1> QED
  BY <1>1, TypeInvariant, SafeInvariant, PTL

(* A node sends commit requests for one block per height, whatever the views. *)
THEOREM OneCommitCorrect == ~LoseBackup => (Spec => []OneCommitPerHeight)
<1>1. SafeInv => OneCommitPerHeight
  BY DEF SafeInv
<1> QED
  BY <1>1, SafeInvariant, PTL

-----------------------------------------------------------------------------
(* The requests for the prepared block in a cache are all of its view: a     *)
(* prepare that is taken up drops the others, and those that come later are  *)
(* compared with it.                                                         *)

OneView(p, c) == \A e \in c : p # NoPrepare /\ e.block = p.block => e.view = p.view

LEMMA OneViewParts ==
  QuorumOfOneView <=> \A n \in Up : OneView(prep[n], signs[n]) /\ OneView(prep[n], commits[n])
  BY DEF QuorumOfOneView, OneView

(* A step that prepares nothing new and adds no request. *)
LEMMA QuietOneView ==
  ASSUME QuorumOfOneView,
         \A n \in Up : /\ prep'[n] = prep[n] \/ prep'[n] = NoPrepare
                       /\ signs'[n] \subseteq signs[n] /\ commits'[n] \subseteq commits[n]
  PROVE  QuorumOfOneView'
  BY DEF QuorumOfOneView

LEMMA KeepOneView ==
  ASSUME HandlerType, QuorumOfOneView, NEW n \in Up, NEW p, NEW sg, NEW cm, NEW ft,
         OneView(p, sg), OneView(p, cm), KeepCaches(n, p, sg, cm, ft)
  PROVE  QuorumOfOneView'
<1>1. /\ prep'[n] = p /\ signs'[n] = sg /\ commits'[n] = cm
      /\ \A i \in Up \ {n} : prep'[i] = prep[i] /\ signs'[i] = signs[i] /\ commits'[i] = commits[i]
  BY DEF KeepCaches, HandlerType
<1> QED
  BY <1>1 DEF QuorumOfOneView, OneView

LEMMA SaveOneView ==
  ASSUME HandlerType, QuorumOfOneView, NEW n \in Up, NEW p, NEW sg, NEW cm, NEW ft,
         OneView(p, sg), OneView(p, cm), checkAndSave(n, p, sg, cm, ft)
  PROVE  QuorumOfOneView'
<1>1. CASE SaveBlock(n, p, sg, cm)
  <2>1. /\ prep'[n] = NoPrepare
        /\ \A i \in Up \ {n} : prep'[i] = prep[i] /\ signs'[i] = signs[i] /\ commits'[i] = commits[i]
    BY <1>1 DEF SaveBlock, HandlerType
  <2> QED
    BY <2>1 DEF QuorumOfOneView
<1> QED
  BY <1>1, KeepOneView DEF checkAndSave

LEMMA CommitOneView ==
  ASSUME HandlerType, QuorumOfOneView, NEW n \in Up, NEW r, NEW p, NEW sg, NEW cm, NEW ft, NEW sent,
         OneView(p, sg), OneView(p, cm), checkAndCommit(n, r, p, sg, cm, ft, sent)
  PROVE  QuorumOfOneView'
<1> DEFINE own == [idx |-> n, view |-> p.view, block |-> p.block, isFuture |-> FALSE]
           all == AddReq(cm, own)
<1>1. OneView(p, all)
  BY DEF AddReq, OneView
<1>2. CASE CanCommit(n, p, sg)
  <2>1. checkAndSave(n, p, sg, all, ft)
    BY <1>2 DEF checkAndCommit
  <2> HIDE DEF all
  <2> QED
    BY <1>1, <2>1, SaveOneView
<1>3. CASE ~CanCommit(n, p, sg)
  BY <1>3, KeepOneView DEF checkAndCommit
<1> QED
  BY <1>2, <1>3

LEMMA PrepareOneView ==
  ASSUME HandlerType, QuorumOfOneView, NEW n \in Up, NEW p, NEW ft, NEW sent,
         handlePrepareMsg(n, p, ft, sent)
  PROVE  QuorumOfOneView'
<1>1. CASE UNCHANGED <<prep, signs, commits>>
  BY <1>1, QuietOneView
<1>2. CASE KeepCaches(n, NoPrepare, signs[n], commits[n], ft)
  BY <1>2, KeepOneView DEF OneView
<1>3. CASE SignPrepare(n, p, ft, sent)
  <2> DEFINE own == [idx |-> n, view |-> p.view, block |-> p.block, isFuture |-> FALSE]
             sg == AddReq(RemoveInvalid(signs[n], p), own)
             cm == RemoveInvalid(commits[n], p)
  <2>1. OneView(p, sg) /\ OneView(p, cm)
    BY DEF AddReq, RemoveInvalid, OneView
  <2>2. PICK all : checkAndCommit(n, p, p, sg, cm, ft, all)
    BY <1>3 DEF SignPrepare
  <2> HIDE DEF sg, cm
  <2> QED
    BY <2>1, <2>2, CommitOneView
<1> QED
  BY <1>1, <1>2, <1>3 DEF handlePrepareMsg, execPrepareAndGenerateSignMsg

(* A request that is added is of the prepared view or for another block. *)
LEMMA RequestOneView ==
  ASSUME HandlerType, QuorumOfOneView, NEW n \in Up, NEW m \in msgs,
         HandleSign(n, m) \/ HandleCommit(n, m)
  PROVE  QuorumOfOneView'
<1> DEFINE e == [idx |-> m.idx, view |-> m.view, block |-> m.block, isFuture |-> FutureReq(n, m)]
<1>1. ASSUME NEW c, OneView(prep[n], c), ValidReq(n, m) \/ FutureReq(n, m)
      PROVE  OneView(prep[n], AddReq(c, e))
  BY <1>1 DEF OneView, AddReq, ValidReq, FutureReq
<1>2. OneView(prep[n], signs[n]) /\ OneView(prep[n], commits[n])
  BY OneViewParts
<1>3. CASE HandleSign(n, m)
  <2> DEFINE sg == AddReq(signs[n], e)
  <2>1. \/ ValidReq(n, m) /\ checkAndCommit(n, raw[n], prep[n], sg, commits[n], future[n], msgs)
        \/ FutureReq(n, m) /\ signs' = [signs EXCEPT ![n] = sg] /\ UNCHANGED <<prep, commits>>
    BY <1>3 DEF HandleSign
  <2>2. OneView(prep[n], sg)
    BY <1>1, <1>2, <2>1
  <2> HIDE DEF sg
  <2>3. CASE checkAndCommit(n, raw[n], prep[n], sg, commits[n], future[n], msgs)
    BY <1>2, <2>2, <2>3, CommitOneView
  <2>4. CASE signs' = [signs EXCEPT ![n] = sg] /\ UNCHANGED <<prep, commits>>
    BY <2>2, <2>4 DEF QuorumOfOneView, OneView, HandlerType
  <2> QED
    BY <2>1, <2>3, <2>4
<1>4. CASE HandleCommit(n, m)
  <2> DEFINE cm == AddReq(commits[n], e)
  <2>1. \/ ValidReq(n, m) /\ checkAndSave(n, prep[n], signs[n], cm, future[n])
        \/ FutureReq(n, m) /\ commits' = [commits EXCEPT ![n] = cm] /\ UNCHANGED <<prep, signs>>
    BY <1>4 DEF HandleCommit
  <2>2. OneView(prep[n], cm)
    BY <1>1, <1>2, <2>1
  <2> HIDE DEF cm
  <2>3. CASE checkAndSave(n, prep[n], signs[n], cm, future[n])
    BY <1>2, <2>2, <2>3, SaveOneView
  <2>4. CASE commits' = [commits EXCEPT ![n] = cm] /\ UNCHANGED <<prep, signs>>
    BY <2>2, <2>4 DEF QuorumOfOneView, OneView, HandlerType
  <2> QED
    BY <2>1, <2>3, <2>4
<1> QED
  BY <1>3, <1>4

LEMMA ChangeViewOneView ==
  ASSUME HandlerType, QuorumOfOneView, NEW n \in Up, NEW v, NEW rv, NEW lv, NEW t, NEW failed,
         checkAndChangeView(n, v, rv, lv, t, failed)
  PROVE  QuorumOfOneView'
<1>1. CASE triggerViewChange(n, v, rv, lv)
  <2>1. /\ prep'[n] = NoPrepare
        /\ \A i \in Up \ {n} : prep'[i] = prep[i] /\ signs'[i] = signs[i] /\ commits'[i] = commits[i]
    BY <1>1 DEF triggerViewChange, HandlerType
  <2> QED
    BY <2>1 DEF QuorumOfOneView
<1>2. CASE UNCHANGED cacheVars
  BY <1>2, QuietOneView DEF cacheVars
<1> QED
  BY <1>1, <1>2 DEF checkAndChangeView

LEMMA QuietStepsOneView ==
  ASSUME HandlerType, QuorumOfOneView, NEW n \in Up,
         \/ SealEmpty(n) \/ Timeout(n) \/ ReportBlock(n) \/ CollectGarbage(n)
         \/ BackupMsg(n) \/ CrashAndRestart(n)
         \/ \E e \in viewMsgs, direct \in BOOLEAN : HandleViewChange(n, e, direct)
         \/ \E i \in Idx : Disconnect(n, i)
         \/ \E m \in Up : SyncBlock(n, m)
  PROVE  QuorumOfOneView'
<1>1. CASE UNCHANGED <<prep, signs, commits>>
  BY <1>1, QuietOneView
<1>2. CASE \E v, rv, lv, t, failed : checkAndChangeView(n, v, rv, lv, t, failed)
  BY <1>2, ChangeViewOneView
<1>3. CASE ReportBlock(n)
  <2>1. PICK head : /\ signs' = [signs EXCEPT ![n] = @ \ Entries(@, head)]
                    /\ commits' = [commits EXCEPT ![n] = @ \ Entries(@, head)]
                    /\ prep' = [prep EXCEPT ![n] = NoPrepare] \/ prep' = prep
    BY <1>3 DEF ReportBlock
  <2>2. /\ signs'[n] \subseteq signs[n] /\ commits'[n] \subseteq commits[n]
        /\ prep'[n] = prep[n] \/ prep'[n] = NoPrepare
        /\ \A i \in Up \ {n} : prep'[i] = prep[i] /\ signs'[i] = signs[i] /\ commits'[i] = commits[i]
    BY <2>1 DEF HandlerType
  <2> QED
    BY <2>2, QuietOneView
<1>4. CASE CollectGarbage(n)
  <2>1. /\ signs' = [signs EXCEPT ![n] = {e \in @ : ~Outdated(n, e)}]
        /\ commits' = [commits EXCEPT ![n] = {e \in @ : ~Outdated(n, e)}]
        /\ UNCHANGED prep
    BY <1>4 DEF CollectGarbage
  <2>2. \A i \in Up : signs'[i] \subseteq signs[i] /\ commits'[i] \subseteq commits[i]
    BY <2>1 DEF HandlerType
  <2> QED
    BY <2>1, <2>2, QuietOneView
<1>5. CASE CrashAndRestart(n)
  <2>1. /\ prep'[n] = NoPrepare
        /\ \A i \in Up \ {n} : prep'[i] = prep[i] /\ signs'[i] = signs[i] /\ commits'[i] = commits[i]
    BY <1>5 DEF CrashAndRestart, HandlerType
  <2> QED
    BY <2>1 DEF QuorumOfOneView
<1>6. CASE Timeout(n)
  BY <1>2, <1>6 DEF Timeout
<1>7. ASSUME NEW e \in viewMsgs, NEW direct \in BOOLEAN, HandleViewChange(n, e, direct)
      PROVE  QuorumOfOneView'
  <2>1. CASE UNCHANGED cacheVars
    BY <1>1, <2>1 DEF cacheVars
  <2> QED
    BY <1>2, <1>7, <2>1, Zenon DEF HandleViewChange
<1>8. CASE \/ SealEmpty(n) \/ BackupMsg(n)
           \/ (\E i \in Idx : Disconnect(n, i)) \/ (\E m \in Up : SyncBlock(n, m))
  BY <1>1, <1>8 DEF SealEmpty, BackupMsg, Disconnect, SyncBlock, cacheVars
<1> QED
  BY <1>3, <1>4, <1>5, <1>6, <1>7, <1>8

(* What is counted as a quorum was all sent in the prepared view             *)
(* (addPrepareReq, checkReq).                                                *)
THEOREM OneViewCorrect == Spec => []QuorumOfOneView
<1>1. Init => QuorumOfOneView
  BY DEF Init, QuorumOfOneView
<1>2. TypeInv /\ QuorumOfOneView /\ [Next]_vars => QuorumOfOneView'
  <2> SUFFICES ASSUME TypeInv, QuorumOfOneView, [Next]_vars PROVE QuorumOfOneView'
    OBVIOUS
  <2>0. HandlerType
    BY TypeParts DEF TypeInv
  <2>1. CASE UNCHANGED vars
    BY <2>1, QuietOneView DEF vars, cacheVars
  <2>2. ASSUME NEW n \in Up,
               \/ \E txs \in Payload : Seal(n, txs)
               \/ RehandleCommittedPrepare(n) \/ HandleFuture(n)
               \/ \E m \in msgs : HandlePrepare(n, m)
        PROVE  QuorumOfOneView'
    <3>1. \E p, ft, sent : handlePrepareMsg(n, p, ft, sent)
      BY <2>2, Zenon DEF Seal, RehandleCommittedPrepare, HandleFuture, HandlePrepare
    <3> QED
      BY <2>0, <3>1, PrepareOneView
  <2> QED
    BY <2>0, <2>1, <2>2, RequestOneView, QuietStepsOneView DEF Next
<1> QED
  BY <1>1, <1>2, TypeInvariant, PTL DEF Spec

-----------------------------------------------------------------------------
(* A node is never in a view beyond the one it wants, so that neither a      *)
(* timeout nor the requests of others take it back.                          *)

ViewOrdered == \A n \in Up : view[n] <= toView[n]

ViewStep == \A n \in Up : view'[n] < view[n] => highest'[n] > highest[n] \/ crashes' > crashes

LEMMA ChangeViewGrows ==
  ASSUME ViewType, ViewOrdered, NEW n \in Up, NEW v \in Nat, NEW rv, NEW lv, NEW t \in Nat, NEW failed,
         v > view[n], t >= toView[n], checkAndChangeView(n, v, rv, lv, t, failed)
  PROVE  ViewOrdered' /\ ViewStep
<1>1. \A i \in Up : view[i] \in Nat /\ toView[i] \in Nat
  BY Assumed DEF ViewType, AllAssumptions
<1>2. /\ view'[n] \in Nat /\ view'[n] >= view[n] /\ view'[n] <= toView'[n]
      /\ \A i \in Up \ {n} : view'[i] = view[i] /\ toView'[i] = toView[i]
  <2>1. CASE CanChangeView(v, rv)
    BY <1>1, <2>1 DEF checkAndChangeView, ViewType
  <2>2. CASE ~CanChangeView(v, rv)
    BY <1>1, <2>2 DEF checkAndChangeView, ViewType, ViewOrdered
  <2> QED
    BY <2>1, <2>2
<1>3. \A i \in Up : ~(view'[i] < view[i]) /\ view'[i] <= toView'[i]
  BY <1>1, <1>2 DEF ViewOrdered
<1> QED
  BY <1>3 DEF ViewOrdered, ViewStep

LEMMA HandleViewChangeGrows ==
  ASSUME ViewType, ViewOrdered, NEW n \in Up, NEW e \in viewMsgs, NEW direct \in BOOLEAN,
         HandleViewChange(n, e, direct)
  PROVE  ViewOrdered' /\ ViewStep
<1>0. /\ \A i \in Up : view[i] \in Nat /\ toView[i] \in Nat
      /\ e.view \in Nat /\ viewMsgs \subseteq ViewChangeReq
  BY Assumed DEF ViewType, ViewChangeReq, AllAssumptions
<1>1. CASE UNCHANGED <<view, toView>>
  BY <1>0, <1>1 DEF ViewOrdered, ViewStep
<1>2. ASSUME NEW rv, NEW lv, NEW t \in Nat, NEW failed, ~InvalidViewChange(n, e), t >= toView[n],
             checkAndChangeView(n, e.view, rv, lv, t, failed)
      PROVE  ViewOrdered' /\ ViewStep
  <2>1. e.view > view[n]
    BY <1>0, <1>2 DEF InvalidViewChange
  <2> QED
    BY <1>0, <1>2, <2>1, ChangeViewGrows
<1> DEFINE lv == IF CatchUp(n, e, direct)
                 THEN [latestViewChange[n] EXCEPT ![e.idx] = NoViewChange]
                 ELSE latestViewChange[n]
           rv == addViewChangeReq(n, recvViewChange[n], lv, e)
           A  == Ahead(n, rv)
           la == LatestAfter(n, lv, e)
<1>3. rv \subseteq ViewChangeReq
  BY <1>0 DEF addViewChangeReq, ViewType
<1>4. \/ UNCHANGED <<view, toView>>
      \/ /\ ~InvalidViewChange(n, e)
         /\ \/ \E v \in MinViews(A) : checkAndChangeView(n, e.view, rv, la, v - 1, leaderFailed[n])
            \/ checkAndChangeView(n, e.view, rv, la, toView[n], leaderFailed[n])
  BY DEF HandleViewChange
<1> HIDE DEF lv, la
<1>5. ASSUME NEW v \in MinViews(A) PROVE v - 1 \in Nat /\ v - 1 >= toView[n]
  <2>1. PICK x \in A : x.view = v
    BY DEF MinViews
  <2>2. x \in ViewChangeReq /\ x.view > toView[n]
    BY <1>3, <2>1 DEF Ahead
  <2>3. x.view \in Nat
    BY <2>2, Assumed DEF ViewChangeReq, AllAssumptions
  <2> QED
    BY <1>0, <2>1, <2>2, <2>3
<1> HIDE DEF A, rv
<1>6. toView[n] >= toView[n]
  BY <1>0
<1> QED
  BY <1>0, <1>1, <1>2, <1>4, <1>5, <1>6

LEMMA NextGrows == TypeInv /\ ViewOrdered /\ [Next]_vars => ViewOrdered' /\ ViewStep
<1> SUFFICES ASSUME TypeInv, ViewOrdered, [Next]_vars PROVE ViewOrdered' /\ ViewStep
  OBVIOUS
<1>0. /\ ViewType /\ highest \in [Up -> Nat] /\ crashes \in Nat
      /\ \A i \in Up : view[i] \in Nat /\ toView[i] \in Nat /\ highest[i] \in Nat
  <2>1. ViewType /\ highest \in [Up -> Nat] /\ crashes \in Nat
    BY TypeParts, Assumed DEF TypeInv, OtherType, AllAssumptions
  <2> QED
    BY <2>1, Assumed DEF ViewType, AllAssumptions
<1>1. CASE UNCHANGED <<view, toView>>
  BY <1>0, <1>1 DEF ViewOrdered, ViewStep
<1>2. ASSUME NEW n \in Up, Timeout(n) PROVE ViewOrdered' /\ ViewStep
  <2>1. PICK t \in Nat : t = toView[n] + 1
    BY <1>0
  <2>2. \E rv, lv : checkAndChangeView(n, t, rv, lv, t, TRUE)
    BY <1>2, <2>1 DEF Timeout
  <2>3. t > view[n] /\ t >= toView[n]
    BY <1>0, <2>1 DEF ViewOrdered
  <2> QED
    BY <1>0, <2>2, <2>3, ChangeViewGrows
<1>3. ASSUME NEW n \in Up, ReportBlock(n) PROVE ViewOrdered' /\ ViewStep
  <2>1. /\ highest[n] < Len(chain[n]) /\ highest'[n] = Len(chain[n])
        /\ view'[n] = 0 /\ toView'[n] = 0
        /\ \A i \in Up \ {n} : view'[i] = view[i] /\ toView'[i] = toView[i]
    BY <1>0, <1>3 DEF ReportBlock, NewHead, ViewType
  <2>2. Len(chain[n]) \in Nat
    BY HeadHashType
  <2> QED
    BY <1>0, <2>1, <2>2 DEF ViewOrdered, ViewStep
<1>4. ASSUME NEW n \in Up, CrashAndRestart(n) PROVE ViewOrdered' /\ ViewStep
  <2>1. /\ crashes' = crashes + 1 /\ view'[n] = 0 /\ toView'[n] = 0
        /\ \A i \in Up \ {n} : view'[i] = view[i] /\ toView'[i] = toView[i]
    BY <1>0, <1>4 DEF CrashAndRestart, ViewType
  <2> QED
    BY <1>0, <2>1 DEF ViewOrdered, ViewStep
<1>5. CASE UNCHANGED vars
  BY <1>1, <1>5 DEF vars, viewVars
<1>6. ASSUME NEW n \in Up, NEW m,
             \/ \E txs \in Payload : Seal(n, txs)
             \/ SealEmpty(n) \/ RehandleCommittedPrepare(n) \/ HandleFuture(n)
             \/ HandlePrepare(n, m) \/ HandleSign(n, m) \/ HandleCommit(n, m)
             \/ \E i \in Idx : Disconnect(n, i)
             \/ SyncBlock(n, m) \/ CollectGarbage(n) \/ BackupMsg(n)
      PROVE  ViewOrdered' /\ ViewStep
  <2>1. UNCHANGED <<view, toView>>
    BY <1>6, Zenon DEF Seal, SealEmpty, RehandleCommittedPrepare, HandleFuture, HandlePrepare,
       HandleSign, HandleCommit, Disconnect, SyncBlock, CollectGarbage, BackupMsg, viewVars
  <2> QED
    BY <1>1, <2>1
<1> QED
  BY <1>0, <1>2, <1>3, <1>4, <1>5, <1>6, HandleViewChangeGrows DEF Next

(* Between two blocks a node's view only grows, except by a restart          *)
(* (checkTimeout, checkAndChangeView, reportBlockWithoutLock).               *)
THEOREM ViewGrowsCorrect == Spec => ViewGrows
<1>1. Init => ViewOrdered
  BY DEF Init, ViewOrdered
<1>2. TypeInv /\ ViewOrdered /\ [Next]_vars
        => [\A n \in Up : view'[n] < view[n] => highest'[n] > highest[n] \/ crashes' > crashes]_vars
  BY NextGrows DEF ViewStep
<1> QED
  BY <1>1, <1>2, NextGrows, TypeInvariant, PTL DEF Spec, ViewGrows

-----------------------------------------------------------------------------
(* Refinement: the chains of all nodes are prefixes of one, the longest.     *)

Longest(i) == i \in Up /\ \A j \in Up : Len(chain[j]) <= Len(chain[i])

HasLongest == \E i \in Up : Longest(i)

(* Every step extends at most one chain, by one block. *)
LEMMA NextChain ==
  ASSUME TypeInv, [Next]_vars
  PROVE  UNCHANGED chain \/ \E n \in Up : ChainStep(n)
<1>0. \A n \in Up : prep[n] \in SignedReq \cup {NoPrepare}
  BY DEF TypeInv, TypeOK, SignedReq
<1>1. CASE UNCHANGED vars
  BY <1>1 DEF vars, diskVars
<1>2. ASSUME NEW n \in Up, NEW txs \in Payload, Seal(n, txs) PROVE ChainStep(n)
  <2> DEFINE p == [idx |-> n, view |-> view[n],
                   block |-> [number |-> Len(chain[n]) + 1, txs |-> txs]]
  <2>1. Len(chain[n]) + 1 \in 1..MaxNumber
    BY <1>2, HeadHashType, Assumed DEF Seal, AllAssumptions
  <2>2. p \in PrepareReq
    BY <2>1, MsgTypes DEF PrepareReq, Block
  <2>3. handlePrepareMsg(n, p, future[n], msgs \cup {PrepareMsg(p)})
    BY <1>2 DEF Seal
  <2> HIDE DEF p
  <2> QED
    BY <2>2, <2>3, PrepareSteps
<1>3. ASSUME NEW n \in Up, RehandleCommittedPrepare(n) PROVE ChainStep(n)
  <2> DEFINE p == [idx |-> n, view |-> view[n], block |-> committed[n].block]
  <2>1. committed[n].block.number = highest[n] + 1 /\ highest[n] \in Nat
        /\ committed[n] \in PrepareReq \cup {NoPrepare}
    BY <1>3 DEF RehandleCommittedPrepare, consensusBlockNumber, TypeInv, TypeOK
  <2>2. committed[n] # NoPrepare
    BY <2>1 DEF NoPrepare
  <2>3. p \in PrepareReq
    BY <2>1, <2>2, MsgTypes DEF PrepareReq
  <2>4. handlePrepareMsg(n, p, future[n], msgs \cup {PrepareMsg(p)})
    BY <1>3 DEF RehandleCommittedPrepare
  <2> HIDE DEF p
  <2> QED
    BY <2>3, <2>4, PrepareSteps
<1>4. ASSUME NEW n \in Up, NEW m \in msgs, HandlePrepare(n, m) PROVE ChainStep(n)
  <2> DEFINE p == [idx |-> m.idx, view |-> m.view, block |-> m.block]
  <2>1. p \in PrepareReq /\ handlePrepareMsg(n, p, future[n], msgs)
    BY <1>4, MsgTypes DEF HandlePrepare
  <2> HIDE DEF p
  <2> QED
    BY <2>1, PrepareSteps
<1>5. ASSUME NEW n \in Up, HandleFuture(n) PROVE ChainStep(n)
  BY <1>5, MsgTypes, PrepareSteps DEF HandleFuture
<1>6. ASSUME NEW n \in Up, NEW m \in msgs, HandleSign(n, m) PROVE ChainStep(n)
  <2> DEFINE sg == AddReq(signs[n], [idx |-> m.idx, view |-> m.view, block |-> m.block,
                                     isFuture |-> FutureReq(n, m)])
  <2>1. \/ checkAndCommit(n, raw[n], prep[n], sg, commits[n], future[n], msgs)
        \/ UNCHANGED chain
    BY <1>6 DEF HandleSign
  <2> HIDE DEF sg
  <2> QED
    BY <1>0, <2>1, CommitSteps DEF ChainStep
<1>7. ASSUME NEW n \in Up, NEW m \in msgs, HandleCommit(n, m) PROVE ChainStep(n)
  <2> DEFINE cm == AddReq(commits[n], [idx |-> m.idx, view |-> m.view, block |-> m.block,
                                       isFuture |-> FutureReq(n, m)])
  <2>1. checkAndSave(n, prep[n], signs[n], cm, future[n]) \/ UNCHANGED chain
    BY <1>7 DEF HandleCommit
  <2> HIDE DEF cm
  <2> QED
    BY <1>0, <2>1, SaveSteps DEF ChainStep
<1>8. ASSUME NEW n \in Up, NEW m \in Up, SyncBlock(n, m) PROVE ChainStep(n)
  BY <1>8, SyncBlockType
<1>9. ASSUME NEW n \in Up,
             \/ SealEmpty(n) \/ Timeout(n) \/ ReportBlock(n) \/ CollectGarbage(n)
             \/ BackupMsg(n) \/ CrashAndRestart(n)
             \/ \E e \in viewMsgs, direct \in BOOLEAN : HandleViewChange(n, e, direct)
             \/ \E i \in Idx : Disconnect(n, i)
      PROVE  UNCHANGED chain
  BY <1>9 DEF SealEmpty, Timeout, ReportBlock, CollectGarbage, BackupMsg, CrashAndRestart,
     HandleViewChange, Disconnect, diskVars
<1> QED
  BY <1>1, <1>2, <1>3, <1>4, <1>5, <1>6, <1>7, <1>8, <1>9 DEF Next

LEMMA StepLengths ==
  ASSUME TypeInv, NEW n \in Up, NEW txs \in Payload,
         chain' = [chain EXCEPT ![n] = Append(@, txs)]
  PROVE  /\ \A i \in Up : Len(chain[i]) \in Nat
         /\ Len(chain'[n]) = Len(chain[n]) + 1 /\ chain'[n] = Append(chain[n], txs)
         /\ \A i \in Up \ {n} : chain'[i] = chain[i]
<1>1. chain \in [Up -> Seq(Payload)]
  BY DEF TypeInv, TypeOK
<1> QED
  BY <1>1

LEMMA NextLongest ==
  ASSUME TypeInv, HasLongest, [Next]_vars
  PROVE  HasLongest'
<1>1. CASE UNCHANGED chain
  BY <1>1 DEF HasLongest, Longest
<1>2. ASSUME NEW n \in Up, NEW txs \in Payload, chain' = [chain EXCEPT ![n] = Append(@, txs)]
      PROVE  HasLongest'
  <2>1. PICK i \in Up : \A j \in Up : Len(chain[j]) <= Len(chain[i])
    BY DEF HasLongest, Longest
  <2>2. /\ \A j \in Up : Len(chain[j]) \in Nat
        /\ Len(chain'[n]) = Len(chain[n]) + 1
        /\ \A j \in Up \ {n} : Len(chain'[j]) = Len(chain[j])
    BY <1>2, StepLengths
  <2>3. CASE Len(chain[n]) = Len(chain[i])
    <3>1. Longest(n)'
      BY <2>1, <2>2, <2>3 DEF Longest
    <3> QED
      BY <3>1 DEF HasLongest
  <2>4. CASE Len(chain[n]) < Len(chain[i])
    <3>1. Longest(i)'
      BY <2>1, <2>2, <2>4 DEF Longest
    <3> QED
      BY <3>1 DEF HasLongest
  <2> QED
    BY <2>1, <2>2, <2>3, <2>4
<1> QED
  BY <1>1, <1>2, NextChain DEF ChainStep

(* Longest chains are equal, and LongestChain is one of them. *)
LEMMA LongestIsUnique ==
  ASSUME TypeInv, Agreement, NEW i, Longest(i)
  PROVE  LongestChain = chain[i]
<1> DEFINE k == CHOOSE x \in Up : \A j \in Up : Len(chain[j]) <= Len(chain[x])
<1>1. k \in Up /\ \A j \in Up : Len(chain[j]) <= Len(chain[k])
  BY DEF Longest
<1>2. LongestChain = chain[k]
  BY DEF LongestChain
<1> HIDE DEF k
<1>3. chain[i] \in Seq(Payload) /\ chain[k] \in Seq(Payload)
  BY <1>1 DEF TypeInv, TypeOK, Longest
<1>4. Len(chain[i]) = Len(chain[k])
  BY <1>1, <1>3 DEF Longest
<1>5. \A h \in 1..Len(chain[i]) : chain[i][h] = chain[k][h]
  BY <1>1, <1>3, <1>4 DEF Agreement, Longest
<1> QED
  BY <1>2, <1>3, <1>4, <1>5

LEMMA NextRefines ==
  ASSUME TypeInv, TypeInv', Agreement, Agreement', HasLongest, HasLongest', [Next]_vars
  PROVE  [AC!Next]_AC!vars
<1>0. chain \in [Up -> Seq(Payload)] /\ chain' \in [Up -> Seq(Payload)]
  BY DEF TypeInv, TypeOK
<1> DEFINE learned == [n \in Up |-> Len(chain[n])]
<1>1. CASE UNCHANGED chain
  <2>1. UNCHANGED LongestChain /\ learned' = learned
    BY <1>1 DEF LongestChain
  <2> QED
    BY <2>1 DEF AC!vars
<1>2. ASSUME NEW n \in Up, NEW txs \in Payload, chain' = [chain EXCEPT ![n] = Append(@, txs)]
      PROVE  [AC!Next]_AC!vars
  <2>1. PICK i : Longest(i)
    BY DEF HasLongest
  <2>2. LongestChain = chain[i] /\ i \in Up
    BY <2>1, LongestIsUnique DEF Longest
  <2>3. PICK k : Longest(k)'
    BY DEF HasLongest
  <2>4. k \in Up /\ \A j \in Up : Len(chain'[j]) <= Len(chain'[k])
    BY <2>3 DEF Longest
  <2>5. \A j : Longest(j)' => LongestChain' = chain'[j]
    <3> TAKE j
    <3> SUFFICES ASSUME Longest(j)' PROVE LongestChain' = chain'[j]
      OBVIOUS
    <3> DEFINE c == CHOOSE x \in Up : \A y \in Up : Len(chain'[y]) <= Len(chain'[x])
    <3>1. c \in Up /\ \A y \in Up : Len(chain'[y]) <= Len(chain'[c])
      BY <2>4
    <3>2. LongestChain' = chain'[c]
      BY DEF LongestChain
    <3> HIDE DEF c
    <3>3. j \in Up /\ chain'[j] \in Seq(Payload) /\ chain'[c] \in Seq(Payload)
      BY <1>0, <3>1 DEF Longest
    <3>4. Len(chain'[j]) = Len(chain'[c])
      BY <3>1, <3>3 DEF Longest
    <3>5. \A h \in 1..Len(chain'[j]) : chain'[j][h] = chain'[c][h]
      BY <3>1, <3>3, <3>4 DEF Agreement
    <3> QED
      BY <3>2, <3>3, <3>4, <3>5
  <2>6. /\ \A j \in Up : Len(chain[j]) \in Nat
        /\ Len(chain'[n]) = Len(chain[n]) + 1 /\ chain'[n] = Append(chain[n], txs)
        /\ \A j \in Up \ {n} : chain'[j] = chain[j]
    BY <1>2, StepLengths
  <2>7. learned' = [learned EXCEPT ![n] = @ + 1]
    <3>1. learned' = [j \in Up |-> Len(chain'[j])]
      OBVIOUS
    <3>2. \A j \in Up : Len(chain'[j]) = IF j = n THEN learned[n] + 1 ELSE learned[j]
      BY <2>6
    <3> QED
      BY <3>1, <3>2
  <2>8. CASE Len(chain[n]) = Len(chain[i])
    <3>1. Longest(n)'
      BY <2>1, <2>6, <2>8 DEF Longest
    <3>2. Longest(n)
      BY <2>1, <2>8 DEF Longest
    <3>3. LongestChain = chain[n] /\ LongestChain' = Append(chain[n], txs)
      BY <2>5, <2>6, <3>1, <3>2, LongestIsUnique
    <3>4. AC!Decide(n, txs)
      BY <2>7, <3>3 DEF AC!Decide
    <3> QED
      BY <3>4 DEF AC!Next
  <2>9. CASE Len(chain[n]) < Len(chain[i])
    <3>1. Longest(i)' /\ n # i /\ chain'[i] = chain[i]
      BY <2>1, <2>2, <2>6, <2>9 DEF Longest
    <3>2. LongestChain' = LongestChain
      BY <2>2, <2>5, <3>1
    <3>3. AC!Learn(n)
      BY <2>2, <2>7, <2>9, <3>2 DEF AC!Learn
    <3> QED
      BY <3>3 DEF AC!Next
  <2> QED
    BY <2>1, <2>6, <2>8, <2>9 DEF Longest
<1> QED
  BY <1>1, <1>2, NextChain DEF ChainStep

(* The engine implements the agreed chain: the group has one chain, and every
   node holds a prefix of it that only grows, when no backup is lost. *)
THEOREM RefinesAgreedChain ==
  ASSUME ~LoseBackup, Up # {}
  PROVE  Spec => ImplementsAgreedChain
<1>1. Init => HasLongest /\ AC!Init
  <2> SUFFICES ASSUME Init PROVE HasLongest /\ AC!Init
    OBVIOUS
  <2>1. \A n \in Up : chain[n] = << >> /\ Len(chain[n]) = 0
    BY DEF Init
  <2>2. LongestChain = << >> /\ HasLongest
    BY <2>1 DEF LongestChain, HasLongest, Longest
  <2> QED
    BY <2>1, <2>2 DEF AC!Init
<1>2. TypeInv /\ HasLongest /\ [Next]_vars => HasLongest'
  BY NextLongest
<1>3. Spec => []HasLongest
  BY <1>1, <1>2, TypeInvariant, PTL DEF Spec
<1>4. Spec => []Agreement
  BY AgreementCorrect
<1>5. TypeInv /\ TypeInv' /\ Agreement /\ Agreement' /\ HasLongest /\ HasLongest' /\ [Next]_vars
      => [AC!Next]_AC!vars
  BY NextRefines
<1> QED
  BY <1>1, <1>3, <1>4, <1>5, TypeInvariant, PTL DEF Spec, AC!Spec, ImplementsAgreedChain

-----------------------------------------------------------------------------
(* The quorums a node has collected.  The count of signs is compared for     *)
(* equality; what makes it pass through the quorum is that the own sign is   *)
(* there and, when a block is prepared first, all others of the view came    *)
(* early.                                                                    *)

(* The sign request of a node itself, which the one it sends leaves in its cache. *)
OwnSign(n, b, v) == [idx |-> n, view |-> v, block |-> b, isFuture |-> FALSE]

(* One sign per sealer and block; a node's own one is never early; another one
   that is not early came while its block was prepared, after the own one. *)
SignsFit(n, sg) ==
  /\ \A e, f \in sg : e.block = f.block /\ e.idx = f.idx => e = f
  /\ \A e \in sg : e.idx = n => ~e.isFuture
  /\ \A e \in sg : ~e.isFuture => OwnSign(n, e.block, e.view) \in sg

(* What is prepared is the raw prepare; it is for the next height at most, and
   then of this view and signed. *)
PreparedFits(n, sg, p, r, h, v) ==
  p # NoPrepare =>
    /\ r = p
    /\ p.block.number <= h + 1
    /\ p.block.number = h + 1 => p.view = v /\ OwnSign(n, p.block, p.view) \in sg

NodeFits(n) ==
  /\ SignsFit(n, signs[n])
  /\ PreparedFits(n, signs[n], prep[n], raw[n], highest[n], view[n])

QuorumInv == \A n \in Up : NodeFits(n)

-----------------------------------------------------------------------------
(* The cache of signs. *)

(* Signs are dropped by block and view. *)
LEMMA DroppedFits ==
  ASSUME NEW n, NEW sg, NEW kept \in SUBSET sg, SignsFit(n, sg),
         \A e \in kept, f \in sg : e.block = f.block /\ e.view = f.view => f \in kept
  PROVE  SignsFit(n, kept)
<1>1. ASSUME NEW e \in kept, ~e.isFuture PROVE OwnSign(n, e.block, e.view) \in kept
  <2>1. PICK own \in sg : own = OwnSign(n, e.block, e.view)
    BY <1>1 DEF SignsFit
  <2>2. e.block = own.block /\ e.view = own.view
    BY <2>1 DEF OwnSign
  <2>3. own \in kept
    BY <1>1, <2>2
  <2> QED
    BY <2>1, <2>3
<1> QED
  BY <1>1 DEF SignsFit

LEMMA RemovedFits ==
  ASSUME NEW n, NEW sg, SignsFit(n, sg)
  PROVE  /\ \A p : SignsFit(n, RemoveInvalid(sg, p))
         /\ \A b : SignsFit(n, sg \ Entries(sg, b))
<1>1. ASSUME NEW p PROVE SignsFit(n, RemoveInvalid(sg, p))
  <2>1. RemoveInvalid(sg, p) \in SUBSET sg
    BY DEF RemoveInvalid
  <2>2. \A e \in RemoveInvalid(sg, p), f \in sg :
          e.block = f.block /\ e.view = f.view => f \in RemoveInvalid(sg, p)
    BY DEF RemoveInvalid
  <2> QED
    BY <2>1, <2>2, DroppedFits
<1>2. ASSUME NEW b PROVE SignsFit(n, sg \ Entries(sg, b))
  <2>1. \A e \in sg \ Entries(sg, b), f \in sg :
          e.block = f.block /\ e.view = f.view => f \in sg \ Entries(sg, b)
    BY DEF Entries
  <2> QED
    BY <2>1, DroppedFits
<1> QED
  BY <1>1, <1>2

(* A sign of another sealer, early or for the block that is prepared. *)
LEMMA AddedFits ==
  ASSUME NEW n, NEW sg, SignsFit(n, sg), NEW e, e.idx # n,
         e.isFuture \/ OwnSign(n, e.block, e.view) \in sg
  PROVE  SignsFit(n, AddReq(sg, e))
  BY DEF SignsFit, AddReq, Cached

(* The own sign, once those of other views are gone. *)
LEMMA OwnFits ==
  ASSUME NEW n \in Up, NEW sg \in SUBSET CachedReq, SignsFit(n, sg), NEW b, NEW v,
         \A e \in sg : e.block = b => e.view = v
  PROVE  /\ SignsFit(n, AddReq(sg, OwnSign(n, b, v)))
         /\ OwnSign(n, b, v) \in AddReq(sg, OwnSign(n, b, v))
<1> DEFINE own == OwnSign(n, b, v)
<1>1. own.block = b /\ own.idx = n /\ own.view = v /\ ~own.isFuture
  BY DEF OwnSign
<1>2. CASE Cached(sg, b, n)
  <2>1. PICK e \in sg : e.block = b /\ e.idx = n
    BY <1>2 DEF Cached
  <2>2. e.view = v /\ e.isFuture = FALSE
    BY <2>1 DEF SignsFit, CachedReq
  <2>3. e = own
    BY <2>1, <2>2 DEF OwnSign, CachedReq
  <2> QED
    BY <1>1, <1>2, <2>1, <2>3 DEF AddReq
<1>3. CASE ~Cached(sg, b, n)
  <2>1. AddReq(sg, own) = sg \cup {own}
    BY <1>1, <1>3 DEF AddReq
  <2>2. \A f \in sg : f.block = b => f.idx # n
    BY <1>3 DEF Cached
  <2>3. OwnSign(n, own.block, own.view) = own
    BY <1>1
  <2> HIDE DEF own
  <2> QED
    BY <1>1, <2>1, <2>2, <2>3 DEF SignsFit
<1> QED
  BY <1>2, <1>3

(* Of the signs for a block fewer are early than there are signers, when the
   own one is there; the own one alone is not early, when all others are. *)
LEMMA EarlySigns ==
  ASSUME NEW n \in Up, NEW sg \in SUBSET CachedReq, SignsFit(n, sg), NEW b, NEW v,
         OwnSign(n, b, v) \in sg
  PROVE  LET early == {e \in Entries(sg, b) : e.isFuture}
             size  == Cardinality(Signers(sg, b))
         IN  /\ size \in Nat /\ Cardinality(early) \in Nat
             /\ Cardinality(early) < size
             /\ (\A e \in Entries(sg, b) : e.idx # n => e.isFuture)
                  => Cardinality(early) = size - 1
<1> DEFINE early  == {e \in Entries(sg, b) : e.isFuture}
           others == Signers(sg, b) \ {n}
           key    == [e \in early |-> e.idx]
<1>1. IsFiniteSet(Idx)
  BY FS_Interval, Assumed DEF Idx, AllAssumptions
<1>2. IsFiniteSet(Signers(sg, b))
  <2>1. Signers(sg, b) \in SUBSET Idx
    BY DEF Signers, Entries, CachedReq
  <2> QED
    BY <1>1, <2>1, FS_Subset
<1>3. n \in Signers(sg, b)
  BY DEF Signers, Entries, OwnSign
<1>4. /\ IsFiniteSet(others) /\ Cardinality(others) = Cardinality(Signers(sg, b)) - 1
      /\ Cardinality(others) \in Nat /\ Cardinality(Signers(sg, b)) \in Nat
  BY <1>2, <1>3, FS_RemoveElement, FS_CardinalityType
<1>5. key \in Injection(early, others)
  <2>1. \A e \in early : e.idx \in others
    BY DEF SignsFit, Signers, Entries
  <2>2. key \in [early -> others]
    BY <2>1
  <2>3. \A e, f \in early : key[e] = key[f] => e = f
    BY DEF SignsFit, Entries
  <2> QED
    BY <2>2, <2>3 DEF Injection, IsInjective
<1>6. IsFiniteSet(early) /\ Cardinality(early) <= Cardinality(others)
  BY <1>4, <1>5, FS_Injection
<1>7. Cardinality(early) \in Nat
  BY <1>6, FS_CardinalityType
<1>8. ASSUME \A e \in Entries(sg, b) : e.idx # n => e.isFuture
      PROVE  Cardinality(early) = Cardinality(others)
  <2>1. \A i \in others : \E e \in early : key[e] = i
    BY <1>8 DEF Signers
  <2>2. key \in Surjection(early, others)
    BY <1>5, <2>1 DEF Surjection, Injection
  <2> QED
    BY <1>4, <1>5, <2>2, FS_Injection
<1> HIDE DEF early, others
<1>9. /\ Cardinality(early) < Cardinality(Signers(sg, b))
      /\ (\A e \in Entries(sg, b) : e.idx # n => e.isFuture)
           => Cardinality(early) = Cardinality(Signers(sg, b)) - 1
  BY <1>4, <1>6, <1>7, <1>8
<1> QED
  BY <1>4, <1>7, <1>9 DEF early

(* With the own sign in the cache the count passes a quorum when the signers
   are one; it is exact at the last sign, and when all others came early. *)
LEMMA SignCount ==
  ASSUME NEW n \in Up, NEW sg \in SUBSET CachedReq, SignsFit(n, sg), NEW b, NEW v,
         OwnSign(n, b, v) \in sg
  PROVE  /\ Cardinality(Signers(sg, b)) \in Nat /\ minValidNodes \in Int
         /\ Cardinality(Signers(sg, b)) >= minValidNodes
              <=> getSigCacheSize(sg, b) >= minValidNodes
         /\ Cardinality(Signers(sg, b)) = minValidNodes
              => getSigCacheSize(sg, b) = minValidNodes
         /\ /\ Cardinality(Signers(sg, b)) >= minValidNodes
            /\ \A e \in Entries(sg, b) : e.idx # n => e.isFuture
            => getSigCacheSize(sg, b) = minValidNodes
<1> DEFINE early == {e \in Entries(sg, b) : e.isFuture}
           q == minValidNodes
           size == Cardinality(Signers(sg, b))
           count == IF size >= q /\ Cardinality(early) > q - 1
                    THEN size - (Cardinality(early) - (q - 1)) ELSE size
<1>1. /\ size \in Nat /\ Cardinality(early) \in Nat /\ Cardinality(early) < size
      /\ (\A e \in Entries(sg, b) : e.idx # n => e.isFuture) => Cardinality(early) = size - 1
  BY EarlySigns
<1>2. getSigCacheSize(sg, b) = count
  BY DEF getSigCacheSize
<1>3. q \in Int
  BY Assumed DEF minValidNodes, m_f, AllAssumptions
<1> HIDE DEF early, q, size
<1>4. /\ size >= q <=> count >= q
      /\ size = q => count = q
      /\ size >= q /\ Cardinality(early) = size - 1 => count = q
  BY <1>1, <1>3
<1> HIDE DEF count
<1> QED
  BY <1>1, <1>2, <1>3, <1>4 DEF q, size

-----------------------------------------------------------------------------
(* The steps: what they leave prepared is counted rightly, and no quorum is   *)
(* overlooked but by a prepare that comes again.                              *)

CacheSame(i) ==
  /\ chain'[i] = chain[i] /\ prep'[i] = prep[i]
  /\ signs'[i] = signs[i] /\ commits'[i] = commits[i]
Same(i) ==
  /\ CacheSame(i) /\ raw'[i] = raw[i] /\ committed'[i] = committed[i]
  /\ highest'[i] = highest[i] /\ view'[i] = view[i]

NotMissed(i) ==
  /\ SignsMissed(i)' => SignsMissed(i) \/ PreparedAgain(i)
  /\ CommitsMissed(i)' => CommitsMissed(i) \/ PreparedAgain(i)

LEMMA SameKept ==
  ASSUME NEW i \in Up, Same(i), NodeFits(i)
  PROVE  NodeFits(i)' /\ NotMissed(i)
<1>1. NodeFits(i)'
  BY DEF Same, CacheSame, NodeFits
<1>2. NextPrepared(i)' <=> NextPrepared(i)
  BY DEF Same, CacheSame, NextPrepared
<1> QED
  BY <1>1, <1>2 DEF Same, CacheSame, NotMissed, SignsMissed, CommitsMissed

(* A node with nothing prepared misses nothing. *)
LEMMA ClearedKept ==
  ASSUME NEW n \in Up, prep'[n] = NoPrepare, SignsFit(n, signs'[n])
  PROVE  NodeFits(n)' /\ NotMissed(n)
  BY DEF NodeFits, PreparedFits, NotMissed, SignsMissed, CommitsMissed, NextPrepared

(* checkAndSave. *)
LEMMA SaveCounts ==
  ASSUME TypeInv, NEW n \in Up, NEW p \in SignedReq \cup {NoPrepare}, NEW r,
         NEW sg \in SUBSET CachedReq, NEW cm, NEW ft,
         SignsFit(n, sg), PreparedFits(n, sg, p, r, highest[n], view[n]),
         checkAndSave(n, p, sg, cm, ft), UNCHANGED view
  PROVE  /\ \A i \in Up \ {n} : CacheSame(i)
         /\ SignsFit(n, signs'[n]) /\ ~CommitsMissed(n)'
         /\ \/ prep'[n] = NoPrepare
            \/ prep'[n] = p /\ signs'[n] = sg /\ commits'[n] = cm /\ chain'[n] = chain[n]
<1>0. HandlerType
  BY TypeParts DEF TypeInv
<1>1. CASE CanSave(n, p, sg, cm)
  <2>1. /\ \A i \in Up \ {n} : CacheSame(i)
        /\ prep'[n] = NoPrepare /\ signs'[n] = sg \ Entries(sg, p.block)
    BY <1>0, <1>1 DEF checkAndSave, SaveBlock, HandlerType, CacheSame
  <2>2. SignsFit(n, signs'[n])
    BY <2>1, RemovedFits
  <2>3. ~CommitsMissed(n)'
    BY <2>1 DEF CommitsMissed, NextPrepared
  <2> QED
    BY <2>1, <2>2, <2>3
<1>2. CASE ~CanSave(n, p, sg, cm)
  <2>1. /\ \A i \in Up \ {n} : CacheSame(i)
        /\ prep'[n] = p /\ signs'[n] = sg /\ commits'[n] = cm /\ chain'[n] = chain[n]
    BY <1>0, <1>2 DEF checkAndSave, KeepCaches, HandlerType, CacheSame
  <2>2. ASSUME CommitsMissed(n)' PROVE FALSE
    <3>1. /\ p # NoPrepare /\ p.view = view[n] /\ p.block.number = Len(chain[n]) + 1
          /\ Cardinality(Signers(sg, p.block)) >= minValidNodes
          /\ Cardinality(Signers(cm, p.block)) >= minValidNodes
      BY <2>1, <2>2 DEF CommitsMissed, NextPrepared
    <3>2. /\ highest[n] \in Nat /\ Len(chain[n]) \in Nat /\ highest[n] <= Len(chain[n])
      BY HeadHashType DEF TypeInv, TypeOK, Bounded
    <3>3. OwnSign(n, p.block, p.view) \in sg /\ p.block.number > highest[n]
      BY <3>1, <3>2 DEF PreparedFits
    <3>4. getSigCacheSize(sg, p.block) >= minValidNodes
      BY <3>1, <3>3, SignCount
    <3> QED
      BY <1>2, <3>1, <3>3, <3>4 DEF CanSave, getCommitCacheSize
  <2> QED
    BY <2>1, <2>2
<1> QED
  BY <1>1, <1>2

(* checkAndCommit. *)
LEMMA CommitCounts ==
  ASSUME TypeInv, NEW n \in Up, NEW p \in SignedReq \cup {NoPrepare}, NEW r,
         NEW sg \in SUBSET CachedReq, NEW cm, NEW ft, NEW sent,
         SignsFit(n, sg), PreparedFits(n, sg, p, r, highest[n], view[n]),
         checkAndCommit(n, r, p, sg, cm, ft, sent), UNCHANGED view
  PROVE  /\ \A i \in Up \ {n} : CacheSame(i) /\ committed'[i] = committed[i]
         /\ SignsFit(n, signs'[n])
         /\ prep'[n] = NoPrepare \/ (prep'[n] = p /\ signs'[n] = sg)
         /\ \/ CanCommit(n, p, sg) /\ ~SignsMissed(n)' /\ ~CommitsMissed(n)'
            \/ /\ ~CanCommit(n, p, sg)
               /\ prep'[n] = p /\ signs'[n] = sg /\ commits'[n] = cm
               /\ chain'[n] = chain[n] /\ committed'[n] = committed[n]
<1>0. HandlerType
  BY TypeParts DEF TypeInv
<1>1. CASE CanCommit(n, p, sg)
  <2>1. PICK all : checkAndSave(n, p, sg, all, ft)
    BY <1>1 DEF checkAndCommit
  <2>2. /\ \A i \in Up \ {n} : CacheSame(i)
        /\ SignsFit(n, signs'[n]) /\ ~CommitsMissed(n)'
        /\ prep'[n] = NoPrepare \/ (prep'[n] = p /\ signs'[n] = sg)
    BY <2>1, SaveCounts
  <2>3. committed' = [committed EXCEPT ![n] = r] /\ p # NoPrepare
    BY <1>1 DEF checkAndCommit, CanCommit
  <2>4. committed'[n] = p /\ \A i \in Up \ {n} : committed'[i] = committed[i]
    BY <1>0, <2>3 DEF HandlerType, PreparedFits
  <2>5. ~SignsMissed(n)'
    BY <2>2, <2>4 DEF SignsMissed, NextPrepared
  <2> QED
    BY <1>1, <2>2, <2>4, <2>5
<1>2. CASE ~CanCommit(n, p, sg)
  BY <1>0, <1>2 DEF checkAndCommit, KeepCaches, HandlerType, CacheSame
<1> QED
  BY <1>1, <1>2

(* A prepare, from the network, kept for later or of the node itself. *)
LEMMA PrepareCounts ==
  ASSUME TypeInv, QuorumInv, NEW n \in Up, NEW p \in PrepareReq, NEW ft, NEW sent,
         handlePrepareMsg(n, p, ft, sent), UNCHANGED <<highest, view>>
  PROVE  \A i \in Up : NodeFits(i)' /\ NotMissed(i)
<1>0. HandlerType /\ NodeFits(n)
  BY TypeParts DEF TypeInv, QuorumInv
<1> SUFFICES /\ \A i \in Up \ {n} : Same(i)
             /\ NodeFits(n)' /\ NotMissed(n)
  BY SameKept DEF QuorumInv
<1>1. CASE UNCHANGED <<chain, raw, prep, signs, commits, committed>>
  BY <1>0, <1>1, SameKept DEF Same, CacheSame
<1>2. CASE raw' = [raw EXCEPT ![n] = p] /\ KeepCaches(n, NoPrepare, signs[n], commits[n], ft)
           /\ UNCHANGED committed
  <2>1. /\ \A i \in Up \ {n} : Same(i)
        /\ prep'[n] = NoPrepare /\ signs'[n] = signs[n]
    BY <1>0, <1>2 DEF KeepCaches, HandlerType, Same, CacheSame
  <2> QED
    BY <1>0, <2>1, ClearedKept DEF NodeFits
<1>3. CASE /\ ~InvalidPrepare(n, p) /\ ~isFuturePrepare(n, p) /\ p.block.txs # NoTxs
           /\ raw' = [raw EXCEPT ![n] = p] /\ SignPrepare(n, p, ft, sent)
  <2> DEFINE own == OwnSign(n, p.block, p.view)
             of == RemoveInvalid(signs[n], p)
             sg == AddReq(of, own)
             cm == RemoveInvalid(commits[n], p)
  <2>1. /\ p \in SignedReq /\ of \in SUBSET CachedReq /\ own \in CachedReq
        /\ sg \in SUBSET CachedReq
    <3>1. p \in SignedReq /\ own \in CachedReq
      BY <1>3, UpAssumption DEF SignedReq, CachedReq, PrepareReq, Idx, OwnSign
    <3>2. of \in SUBSET CachedReq
      BY <1>0, CacheTypes DEF HandlerType
    <3> HIDE DEF own, of
    <3> QED
      BY <3>1, <3>2, CacheTypes
  <2>2. PICK all : checkAndCommit(n, p, p, sg, cm, ft, all)
    BY <1>3 DEF SignPrepare, OwnSign
  <2>3. SignsFit(n, of) /\ \A e \in of : e.block = p.block => e.view = p.view
    BY <1>0, RemovedFits DEF NodeFits, RemoveInvalid
  <2>4. SignsFit(n, sg) /\ own \in sg
    <3> HIDE DEF of
    <3> QED
      BY <2>1, <2>3, OwnFits
  <2>5. p.block.number = highest[n] + 1 /\ p.view = view[n]
    <3>1. p.block.number \in Int /\ p.view \in Int /\ highest[n] \in Int /\ view[n] \in Int
      BY Assumed DEF PrepareReq, Block, TypeInv, TypeOK, AllAssumptions
    <3> QED
      BY <1>3, <3>1 DEF InvalidPrepare, hasConsensused, isFuturePrepare, consensusBlockNumber
  <2>6. PreparedFits(n, sg, p, p, highest[n], view[n])
    <3> HIDE DEF sg
    <3>1. highest[n] + 1 <= highest[n] + 1
      BY DEF TypeInv, TypeOK
    <3> QED
      BY <2>4, <2>5, <3>1 DEF PreparedFits
  <2>7. /\ \A i \in Up \ {n} : CacheSame(i) /\ committed'[i] = committed[i]
        /\ SignsFit(n, signs'[n])
        /\ prep'[n] = NoPrepare \/ (prep'[n] = p /\ signs'[n] = sg)
        /\ \/ CanCommit(n, p, sg) /\ ~SignsMissed(n)' /\ ~CommitsMissed(n)'
           \/ ~CanCommit(n, p, sg) /\ prep'[n] = p /\ signs'[n] = sg
    <3> HIDE DEF sg, cm
    <3>1. p \in SignedReq \cup {NoPrepare} /\ view' = view
      BY <2>1
    <3> QED
      BY <2>1, <2>2, <2>4, <2>6, <3>1, CommitCounts, SMTT(60)
  <2>8. raw'[n] = p /\ \A i \in Up \ {n} : raw'[i] = raw[i]
    BY <1>0, <1>3 DEF HandlerType
  <2>9. \A i \in Up \ {n} : Same(i)
    BY <2>7, <2>8 DEF Same
  <2>10. NodeFits(n)'
    <3> HIDE DEF sg
    <3>1. prep'[n] = NoPrepare => PreparedFits(n, signs'[n], prep'[n], raw'[n], highest'[n], view'[n])
      BY DEF PreparedFits
    <3>2. prep'[n] = p /\ signs'[n] = sg
            => PreparedFits(n, signs'[n], prep'[n], raw'[n], highest'[n], view'[n])
      BY <2>6, <2>8
    <3> QED
      BY <2>7, <3>1, <3>2 DEF NodeFits
  <2>11. ASSUME SignsMissed(n)' \/ CommitsMissed(n)' PROVE PreparedAgain(n)
    <3>1. /\ ~CanCommit(n, p, sg) /\ prep'[n] = p /\ signs'[n] = sg
      BY <2>7, <2>11
    <3>2. p # NoPrepare /\ Cardinality(Signers(sg, p.block)) >= minValidNodes
      BY <2>11, <3>1 DEF SignsMissed, CommitsMissed, NextPrepared
    <3>3. getSigCacheSize(sg, p.block) # minValidNodes
      BY <2>5, <3>1, <3>2 DEF CanCommit
    <3>4. own \in signs[n]
      <4> SUFFICES ASSUME own \notin signs[n] PROVE FALSE
        OBVIOUS
      <4>1. \A e \in of : e.block = p.block => e.isFuture
        <5> SUFFICES ASSUME NEW e \in of, e.block = p.block, ~e.isFuture PROVE FALSE
          OBVIOUS
        <5>1. OwnSign(n, e.block, e.view) \in of /\ e.view = p.view
          BY <2>3 DEF SignsFit
        <5> QED
          BY <5>1 DEF RemoveInvalid
      <4>2. \A e \in Entries(sg, p.block) : e.idx # n => e.isFuture
        BY <4>1 DEF Entries, AddReq, OwnSign
      <4> HIDE DEF sg
      <4> QED
        BY <2>1, <2>4, <3>2, <3>3, <4>2, SignCount
    <3>5. prep[n] # p
      <4> SUFFICES ASSUME prep[n] = p PROVE FALSE
        OBVIOUS
      <4>1. raw[n] = p
        BY <1>0, <3>2 DEF NodeFits, PreparedFits
      <4>2. p.view >= p.view
        BY Assumed DEF PrepareReq, AllAssumptions
      <4> QED
        BY <1>3, <4>1, <4>2 DEF InvalidPrepare, isExistPrepare
    <3> QED
      BY <3>1, <3>4, <3>5 DEF PreparedAgain, OwnSign
  <2> QED
    BY <2>9, <2>10, <2>11 DEF NotMissed
<1> QED
  BY <1>1, <1>2, <1>3 DEF handlePrepareMsg, execPrepareAndGenerateSignMsg

(* A sign request.  One for the prepared block comes after the own sign; one
   more signer than a quorum misses goes through the exact count. *)
LEMMA SignCounts ==
  ASSUME TypeInv, QuorumInv, NEW n \in Up, NEW m \in msgs, HandleSign(n, m)
  PROVE  \A i \in Up : NodeFits(i)' /\ NotMissed(i)
<1> DEFINE e  == [idx |-> m.idx, view |-> m.view, block |-> m.block, isFuture |-> FutureReq(n, m)]
           sg == AddReq(signs[n], e)
<1>0. /\ HandlerType /\ SignsFit(n, signs[n])
      /\ PreparedFits(n, signs[n], prep[n], raw[n], highest[n], view[n])
  BY TypeParts DEF TypeInv, QuorumInv, NodeFits
<1> SUFFICES /\ \A i \in Up \ {n} : Same(i)
             /\ NodeFits(n)' /\ NotMissed(n)
  BY SameKept DEF QuorumInv
<1>1. /\ e \in CachedReq /\ m.idx \in Idx /\ m.block \in Block /\ m.view \in 0..MaxView
      /\ m.idx # n /\ sg \in SUBSET CachedReq
  <2>1. e \in CachedReq /\ m.idx \in Idx /\ m.block \in Block /\ m.view \in 0..MaxView
        /\ m.idx # n
    BY MsgTypes DEF Msg, HandleSign
  <2> HIDE DEF e
  <2> QED
    BY <1>0, <2>1, CacheTypes DEF HandlerType
<1>2. /\ ~Cached(signs[n], m.block, m.idx) /\ ~hasConsensused(n, m.block.number, m.view)
      /\ UNCHANGED <<highest, view>>
      /\ \/ /\ ValidReq(n, m)
            /\ checkAndCommit(n, raw[n], prep[n], sg, commits[n], future[n], msgs)
            /\ UNCHANGED raw
         \/ /\ FutureReq(n, m)
            /\ signs' = [signs EXCEPT ![n] = sg]
            /\ UNCHANGED <<chain, raw, prep, commits, committed>>
  BY DEF HandleSign, viewVars
<1>3. sg = signs[n] \cup {e}
  BY <1>2 DEF AddReq
<1>4. PreparedFits(n, sg, prep[n], raw[n], highest[n], view[n])
  <2> HIDE DEF e, sg
  <2> QED
    BY <1>0, <1>3 DEF PreparedFits
<1>5. CASE /\ ValidReq(n, m) /\ UNCHANGED raw
           /\ checkAndCommit(n, raw[n], prep[n], sg, commits[n], future[n], msgs)
  <2> DEFINE p == prep[n]
  <2>1. /\ p \in SignedReq /\ p.block = m.block /\ p.view = m.view
    <3>1. p.block = m.block /\ p.view = m.view /\ p # NoPrepare
      BY <1>1, <1>5 DEF ValidReq, NoPrepare, Block
    <3> QED
      BY <1>0, <3>1 DEF HandlerType
  <2>2. p.view = view[n] /\ OwnSign(n, p.block, p.view) \in signs[n]
    <3>1. p.block.number \in Int /\ p.view \in Int /\ highest[n] \in Int /\ view[n] \in Int
      BY <1>1, <2>1, Assumed DEF Block, TypeInv, TypeOK, AllAssumptions
    <3>2. p.block.number <= highest[n] + 1 /\ p # NoPrepare
      BY <1>0, <1>1, <2>1 DEF PreparedFits, NoPrepare, Block
    <3>3. p.block.number = highest[n] + 1
      BY <1>2, <2>1, <3>1, <3>2 DEF hasConsensused, consensusBlockNumber
    <3> QED
      BY <1>0, <3>2, <3>3 DEF PreparedFits
  <2>3. SignsFit(n, sg)
    <3>1. e.idx # n /\ OwnSign(n, e.block, e.view) \in signs[n]
      BY <1>1, <2>1, <2>2
    <3> HIDE DEF e
    <3> QED
      BY <1>0, <3>1, AddedFits
  <2>4. OwnSign(n, p.block, p.view) \in sg
    <3> HIDE DEF e, p
    <3> QED
      BY <1>3, <2>2
  <2>5. /\ \A i \in Up \ {n} : CacheSame(i) /\ committed'[i] = committed[i]
        /\ SignsFit(n, signs'[n])
        /\ prep'[n] = NoPrepare \/ (prep'[n] = p /\ signs'[n] = sg)
        /\ \/ CanCommit(n, p, sg) /\ ~SignsMissed(n)' /\ ~CommitsMissed(n)'
           \/ /\ ~CanCommit(n, p, sg)
              /\ prep'[n] = p /\ signs'[n] = sg /\ commits'[n] = commits[n]
              /\ chain'[n] = chain[n] /\ committed'[n] = committed[n]
    <3>1. p \in SignedReq \cup {NoPrepare} /\ view' = view
      BY <1>2, <2>1
    <3> HIDE DEF sg, e, p
    <3> QED
      BY <1>1, <1>4, <1>5, <2>3, <3>1, CommitCounts, Zenon DEF p
  <2> HIDE DEF sg, e
  <2>6. \A i \in Up \ {n} : Same(i)
    BY <1>2, <1>5, <2>5 DEF Same
  <2>7. NodeFits(n)'
    <3>1. prep'[n] = NoPrepare => PreparedFits(n, signs'[n], prep'[n], raw'[n], highest'[n], view'[n])
      BY DEF PreparedFits
    <3>2. prep'[n] = p /\ signs'[n] = sg
            => PreparedFits(n, signs'[n], prep'[n], raw'[n], highest'[n], view'[n])
      BY <1>2, <1>4, <1>5
    <3> QED
      BY <2>5, <3>1, <3>2 DEF NodeFits
  <2>8. ASSUME ~CanCommit(n, p, sg), Cardinality(Signers(sg, p.block)) >= minValidNodes
        PROVE  Cardinality(Signers(signs[n], p.block)) >= minValidNodes
    <3> DEFINE old == Signers(signs[n], p.block)
               all == Signers(sg, p.block)
    <3>1. all = old \cup {m.idx}
      <4>1. e.block = p.block /\ e.idx = m.idx
        BY <2>1 DEF e
      <4> QED
        BY <1>3, <4>1 DEF Signers, Entries
    <3>2. IsFiniteSet(old)
      <4>1. old \in SUBSET Idx
        BY <1>0 DEF Signers, Entries, CachedReq, HandlerType
      <4>2. IsFiniteSet(Idx)
        BY FS_Interval, Assumed DEF Idx, AllAssumptions
      <4> QED
        BY <4>1, <4>2, FS_Subset
    <3>3. Cardinality(old) \in Nat /\ Cardinality(all) <= Cardinality(old) + 1
      <4> HIDE DEF old, all
      <4>1. Cardinality(old) \in Nat
        BY <3>2, FS_CardinalityType
      <4>2. Cardinality(all) = IF m.idx \in old THEN Cardinality(old) ELSE Cardinality(old) + 1
        BY <3>1, <3>2, FS_AddElement
      <4> QED
        BY <4>1, <4>2
    <3>4. getSigCacheSize(sg, p.block) # minValidNodes
      BY <2>1, <2>2, <2>8 DEF CanCommit, SignedReq, PrepareReq, Block, NoPrepare
    <3>5. /\ Cardinality(all) \in Nat /\ minValidNodes \in Int
          /\ Cardinality(all) # minValidNodes
      BY <1>1, <2>3, <2>4, <3>4, SignCount
    <3> HIDE DEF old, all
    <3>6. Cardinality(all) >= minValidNodes => Cardinality(old) >= minValidNodes
      BY <3>3, <3>5
    <3> QED
      BY <2>8, <3>6 DEF old, all
  <2>9. NotMissed(n)
    <3>1. CASE ~SignsMissed(n)' /\ ~CommitsMissed(n)'
      BY <3>1 DEF NotMissed
    <3>2. CASE /\ ~CanCommit(n, p, sg)
               /\ prep'[n] = p /\ signs'[n] = sg /\ commits'[n] = commits[n]
               /\ chain'[n] = chain[n] /\ committed'[n] = committed[n]
      <4>1. NextPrepared(n)' => NextPrepared(n)
        BY <1>2, <3>2 DEF NextPrepared
      <4> QED
        BY <2>8, <3>2, <4>1 DEF NotMissed, SignsMissed, CommitsMissed
    <3> QED
      BY <2>5, <3>1, <3>2
  <2> QED
    BY <2>6, <2>7, <2>9
<1>6. CASE /\ FutureReq(n, m) /\ signs' = [signs EXCEPT ![n] = sg]
           /\ UNCHANGED <<chain, raw, prep, commits, committed>>
  <2>1. e.isFuture /\ e.idx # n /\ e.block # prep[n].block
    BY <1>1, <1>6 DEF FutureReq
  <2> HIDE DEF e, sg
  <2>2. signs'[n] = sg /\ \A i \in Up \ {n} : Same(i)
    BY <1>0, <1>2, <1>6 DEF HandlerType, Same, CacheSame
  <2>3. SignsFit(n, sg)
    BY <1>0, <2>1, AddedFits DEF sg
  <2>4. NodeFits(n)'
    BY <1>2, <1>4, <1>6, <2>2, <2>3 DEF NodeFits
  <2>5. Signers(sg, prep[n].block) = Signers(signs[n], prep[n].block)
    BY <1>3, <2>1 DEF Signers, Entries
  <2>6. NextPrepared(n)' => NextPrepared(n)
    BY <1>2, <1>6 DEF NextPrepared
  <2>7. NotMissed(n)
    BY <1>6, <2>2, <2>5, <2>6 DEF NotMissed, SignsMissed, CommitsMissed
  <2> QED
    BY <2>2, <2>4, <2>7
<1> QED
  BY <1>2, <1>5, <1>6

(* A commit request. *)
LEMMA CommitReqCounts ==
  ASSUME TypeInv, QuorumInv, NEW n \in Up, NEW m \in msgs, HandleCommit(n, m)
  PROVE  \A i \in Up : NodeFits(i)' /\ NotMissed(i)
<1> DEFINE e  == [idx |-> m.idx, view |-> m.view, block |-> m.block, isFuture |-> FutureReq(n, m)]
           cm == AddReq(commits[n], e)
<1>0. /\ HandlerType /\ SignsFit(n, signs[n])
      /\ PreparedFits(n, signs[n], prep[n], raw[n], highest[n], view[n])
  BY TypeParts DEF TypeInv, QuorumInv, NodeFits
<1> SUFFICES /\ \A i \in Up \ {n} : Same(i)
             /\ NodeFits(n)' /\ NotMissed(n)
  BY SameKept DEF QuorumInv
<1>1. /\ UNCHANGED <<highest, view, raw, committed>>
      /\ \/ ValidReq(n, m) /\ checkAndSave(n, prep[n], signs[n], cm, future[n])
         \/ /\ FutureReq(n, m)
            /\ commits' = [commits EXCEPT ![n] = cm]
            /\ UNCHANGED <<chain, prep, signs>>
  BY DEF HandleCommit, viewVars
<1>2. CASE checkAndSave(n, prep[n], signs[n], cm, future[n])
  <2> HIDE DEF cm
  <2>1. prep[n] \in SignedReq \cup {NoPrepare} /\ signs[n] \in SUBSET CachedReq
    BY <1>0 DEF HandlerType
  <2>2. /\ \A i \in Up \ {n} : CacheSame(i)
        /\ SignsFit(n, signs'[n]) /\ ~CommitsMissed(n)'
        /\ \/ prep'[n] = NoPrepare
           \/ prep'[n] = prep[n] /\ signs'[n] = signs[n] /\ chain'[n] = chain[n]
    BY <1>0, <1>1, <1>2, <2>1, SaveCounts
  <2>3. \A i \in Up \ {n} : Same(i)
    BY <1>1, <2>2 DEF Same
  <2>4. CASE prep'[n] = NoPrepare
    BY <2>2, <2>3, <2>4, ClearedKept
  <2>5. CASE prep'[n] = prep[n] /\ signs'[n] = signs[n] /\ chain'[n] = chain[n]
    <3>1. NodeFits(n)'
      BY <1>0, <1>1, <2>5 DEF NodeFits
    <3>2. SignsMissed(n)' => SignsMissed(n)
      BY <1>1, <2>5 DEF SignsMissed, NextPrepared
    <3> QED
      BY <2>2, <2>3, <3>1, <3>2 DEF NotMissed
  <2> QED
    BY <2>2, <2>4, <2>5
<1>3. CASE /\ FutureReq(n, m) /\ commits' = [commits EXCEPT ![n] = cm]
           /\ UNCHANGED <<chain, prep, signs>>
  <2>1. e.block # prep[n].block
    BY <1>3 DEF FutureReq
  <2> HIDE DEF e
  <2>2. Signers(cm, prep[n].block) = Signers(commits[n], prep[n].block)
    BY <2>1 DEF Signers, Entries, AddReq
  <2> HIDE DEF cm
  <2>3. commits'[n] = cm /\ \A i \in Up \ {n} : Same(i)
    BY <1>0, <1>1, <1>3 DEF HandlerType, Same, CacheSame
  <2>4. NodeFits(n)'
    BY <1>0, <1>1, <1>3 DEF NodeFits
  <2>5. NotMissed(n)
    BY <1>1, <1>3, <2>2, <2>3 DEF NotMissed, SignsMissed, CommitsMissed, NextPrepared
  <2> QED
    BY <2>3, <2>4, <2>5
<1> QED
  BY <1>1, <1>2, <1>3

(* A change of the view clears what is prepared. *)
LEMMA ChangeViewCounts ==
  ASSUME TypeInv, QuorumInv, NEW n \in Up, NEW v, NEW rv, NEW lv, NEW t, NEW failed,
         checkAndChangeView(n, v, rv, lv, t, failed),
         UNCHANGED <<chain, highest, committed>>
  PROVE  \A i \in Up : NodeFits(i)' /\ NotMissed(i)
<1>0. /\ HandlerType /\ ViewType /\ SignsFit(n, signs[n])
  BY TypeParts DEF TypeInv, QuorumInv, NodeFits
<1>1. CASE CanChangeView(v, rv)
  <2> DEFINE kept == {e \in RemoveExpired(signs[n], v) : e.block \in commitKey[n]}
  <2>1. /\ prep'[n] = NoPrepare /\ signs'[n] = kept
        /\ \A i \in Up \ {n} : Same(i)
    BY <1>0, <1>1 DEF checkAndChangeView, triggerViewChange, HandlerType, ViewType, Same, CacheSame
  <2>2. SignsFit(n, kept)
    <3>1. kept \in SUBSET signs[n]
      BY DEF RemoveExpired
    <3>2. \A e \in kept, f \in signs[n] : e.block = f.block /\ e.view = f.view => f \in kept
      BY DEF RemoveExpired
    <3> HIDE DEF kept
    <3> QED
      BY <1>0, <3>1, <3>2, DroppedFits
  <2> HIDE DEF kept
  <2> QED
    BY <2>1, <2>2, ClearedKept, SameKept DEF QuorumInv
<1>2. CASE ~CanChangeView(v, rv)
  <2>1. \A i \in Up : Same(i)
    BY <1>2 DEF checkAndChangeView, cacheVars, Same, CacheSame
  <2> QED
    BY <2>1, SameKept DEF QuorumInv
<1> QED
  BY <1>1, <1>2

(* The new head is above what was prepared, unless that was for it. *)
LEMMA ReportCounts ==
  ASSUME TypeInv, QuorumInv, NEW n \in Up, ReportBlock(n)
  PROVE  \A i \in Up : NodeFits(i)' /\ NotMissed(i)
<1>0. /\ HandlerType /\ ViewType /\ OtherType /\ SignsFit(n, signs[n])
      /\ PreparedFits(n, signs[n], prep[n], raw[n], highest[n], view[n])
  BY TypeParts DEF TypeInv, QuorumInv, NodeFits
<1>1. PICK head : /\ signs' = [signs EXCEPT ![n] = @ \ Entries(@, head)]
                  /\ commits' = [commits EXCEPT ![n] = @ \ Entries(@, head)]
                  /\ prep' = [prep EXCEPT ![n] = NoPrepare] \/ prep' = prep
  BY DEF ReportBlock
<1>2. /\ highest' = [highest EXCEPT ![n] = Len(chain[n])] /\ view' = [view EXCEPT ![n] = 0]
      /\ UNCHANGED <<chain, raw, committed>> /\ highest[n] < Len(chain[n])
  BY DEF ReportBlock, diskVars, NewHead
<1>3. /\ signs'[n] = signs[n] \ Entries(signs[n], head)
      /\ prep'[n] = NoPrepare \/ prep'[n] = prep[n]
      /\ highest'[n] = Len(chain[n]) /\ raw'[n] = raw[n] /\ chain'[n] = chain[n]
      /\ \A i \in Up \ {n} : Same(i)
  BY <1>0, <1>1, <1>2 DEF HandlerType, ViewType, OtherType, Same, CacheSame
<1>4. SignsFit(n, signs'[n])
  BY <1>0, <1>3, RemovedFits
<1>5. ASSUME prep'[n] # NoPrepare
      PROVE  /\ raw'[n] = prep'[n] /\ prep'[n].block.number <= highest'[n]
             /\ prep'[n].block.number \in Int
  <2>1. /\ prep'[n] = prep[n] /\ prep[n] \in SignedReq /\ raw[n] = prep[n]
        /\ prep[n].block.number <= highest[n] + 1
    BY <1>0, <1>3, <1>5 DEF PreparedFits, HandlerType
  <2>2. /\ prep[n].block.number \in Int /\ highest[n] \in Nat /\ Len(chain[n]) \in Nat
    BY <1>0, <2>1, HeadHashType DEF OtherType, SignedReq, PrepareReq, Block
  <2> QED
    BY <1>2, <1>3, <2>1, <2>2
<1>6. Len(chain[n]) \in Nat
  BY HeadHashType
<1>7. NodeFits(n)'
  BY <1>3, <1>4, <1>5, <1>6 DEF NodeFits, PreparedFits
<1>8. ~NextPrepared(n)'
  BY <1>3, <1>5, <1>6 DEF NextPrepared
<1>9. NotMissed(n)
  BY <1>8 DEF NotMissed, SignsMissed, CommitsMissed
<1> QED
  BY <1>3, <1>7, <1>9, SameKept DEF QuorumInv

(* A block that comes by synchronisation is not below what is prepared. *)
LEMMA SyncCounts ==
  ASSUME TypeInv, QuorumInv, NEW n \in Up, NEW m \in Up, SyncBlock(n, m)
  PROVE  \A i \in Up : NodeFits(i)' /\ NotMissed(i)
<1>0. /\ HandlerType
      /\ PreparedFits(n, signs[n], prep[n], raw[n], highest[n], view[n])
  BY TypeParts DEF TypeInv, QuorumInv, NodeFits
<1>1. /\ chain' = [chain EXCEPT ![n] = Append(chain[n], chain[m][Len(chain[n]) + 1])]
      /\ UNCHANGED <<highest, view, raw, prep, signs, commits, committed>>
  BY DEF SyncBlock, viewVars, cacheVars
<1>2. \A i \in Up : NodeFits(i)'
  BY <1>1 DEF QuorumInv, NodeFits
<1>3. \A i \in Up \ {n} : Same(i)
  BY <1>0, <1>1 DEF HandlerType, Same, CacheSame
<1>4. Len(chain'[n]) = Len(chain[n]) + 1 /\ Len(chain[n]) \in Nat
  BY <1>0, <1>1, HeadHashType DEF HandlerType
<1>5. ~NextPrepared(n)'
  <2> SUFFICES ASSUME NextPrepared(n)' PROVE FALSE
    OBVIOUS
  <2>1. prep[n] # NoPrepare /\ prep[n].block.number = Len(chain[n]) + 2
    BY <1>1, <1>4 DEF NextPrepared
  <2>2. prep[n].block.number <= highest[n] + 1
    BY <1>0, <2>1 DEF PreparedFits
  <2>3. highest[n] \in Nat /\ highest[n] <= Len(chain[n])
    BY DEF TypeInv, TypeOK, Bounded
  <2> QED
    BY <1>4, <2>1, <2>2, <2>3
<1> QED
  BY <1>2, <1>3, <1>5, SameKept DEF QuorumInv, NotMissed, SignsMissed, CommitsMissed

(* What is collected is not for the prepared block of the next height. *)
LEMMA GarbageCounts ==
  ASSUME TypeInv, QuorumInv, NEW n \in Up, CollectGarbage(n)
  PROVE  \A i \in Up : NodeFits(i)' /\ NotMissed(i)
<1>0. /\ HandlerType /\ OtherType /\ SignsFit(n, signs[n])
      /\ PreparedFits(n, signs[n], prep[n], raw[n], highest[n], view[n])
  BY TypeParts DEF TypeInv, QuorumInv, NodeFits
<1> DEFINE kept(c) == {e \in c : ~Outdated(n, e)}
<1>1. /\ signs' = [signs EXCEPT ![n] = kept(signs[n])]
      /\ commits' = [commits EXCEPT ![n] = kept(commits[n])]
      /\ UNCHANGED <<chain, highest, view, raw, prep, committed>>
  BY DEF CollectGarbage, diskVars
<1> HIDE DEF kept
<1>2. /\ signs'[n] = kept(signs[n]) /\ commits'[n] = kept(commits[n])
      /\ \A i \in Up \ {n} : Same(i)
  BY <1>0, <1>1 DEF HandlerType, Same, CacheSame
<1> USE DEF kept
<1>3. SignsFit(n, signs'[n])
  <2>1. \A e \in kept(signs[n]), f \in signs[n] :
          e.block = f.block /\ e.view = f.view => f \in kept(signs[n])
    BY DEF Outdated
  <2> QED
    BY <1>0, <1>2, <2>1, DroppedFits
<1>4. PreparedFits(n, signs'[n], prep'[n], raw'[n], highest'[n], view'[n])
  <2> SUFFICES ASSUME prep[n] # NoPrepare, prep[n].block.number = highest[n] + 1
               PROVE  OwnSign(n, prep[n].block, prep[n].view) \in signs'[n]
    BY <1>0, <1>1 DEF PreparedFits
  <2>1. PICK own \in signs[n] : own = OwnSign(n, prep[n].block, prep[n].view)
    BY <1>0 DEF PreparedFits
  <2>2. own.block.number = highest[n] + 1 /\ highest[n] \in Nat
    BY <1>0, <2>1 DEF OwnSign, OtherType
  <2>3. ~Outdated(n, own)
    BY <2>2 DEF Outdated
  <2> QED
    BY <1>2, <2>1, <2>3
<1>5. ASSUME NEW c \in SUBSET CachedReq, NEW b,
             Cardinality(Signers(kept(c), b)) >= minValidNodes
      PROVE  Cardinality(Signers(c, b)) >= minValidNodes
  <2>1. Signers(kept(c), b) \in SUBSET Signers(c, b) /\ Signers(c, b) \in SUBSET Idx
    BY DEF Signers, Entries, CachedReq
  <2>2. IsFiniteSet(Idx)
    BY FS_Interval, Assumed DEF Idx, AllAssumptions
  <2>3. IsFiniteSet(Signers(c, b)) /\ IsFiniteSet(Signers(kept(c), b))
    BY <2>1, <2>2, FS_Subset
  <2>4. Cardinality(Signers(kept(c), b)) <= Cardinality(Signers(c, b))
    BY <2>1, <2>3, FS_Subset
  <2>5. Cardinality(Signers(kept(c), b)) \in Nat /\ Cardinality(Signers(c, b)) \in Nat
        /\ minValidNodes \in Int
    BY <2>3, FS_CardinalityType, Assumed DEF minValidNodes, m_f, AllAssumptions
  <2> QED
    BY <1>5, <2>4, <2>5
<1>6. NotMissed(n)
  <2>1. signs[n] \in SUBSET CachedReq /\ commits[n] \in SUBSET CachedReq
    BY <1>0 DEF HandlerType
  <2>2. NextPrepared(n)' => NextPrepared(n)
    BY <1>1 DEF NextPrepared
  <2> HIDE DEF kept
  <2> QED
    BY <1>1, <1>2, <1>5, <2>1, <2>2 DEF NotMissed, SignsMissed, CommitsMissed
<1>7. NodeFits(n)'
  BY <1>3, <1>4 DEF NodeFits
<1> QED
  BY <1>2, <1>6, <1>7, SameKept DEF QuorumInv

LEMMA CrashCounts ==
  ASSUME TypeInv, QuorumInv, NEW n \in Up, CrashAndRestart(n)
  PROVE  \A i \in Up : NodeFits(i)' /\ NotMissed(i)
<1>0. HandlerType /\ ViewType /\ OtherType
  BY TypeParts DEF TypeInv
<1>1. /\ prep'[n] = NoPrepare /\ signs'[n] = {}
      /\ \A i \in Up \ {n} : Same(i)
  BY <1>0 DEF CrashAndRestart, diskVars, HandlerType, ViewType, OtherType, Same, CacheSame
<1>2. SignsFit(n, signs'[n])
  BY <1>1 DEF SignsFit
<1> QED
  BY <1>1, <1>2, ClearedKept, SameKept DEF QuorumInv

LEMMA NextCounts ==
  TypeInv /\ QuorumInv /\ [Next]_vars => \A i \in Up : NodeFits(i)' /\ NotMissed(i)
<1> SUFFICES ASSUME TypeInv, QuorumInv, [Next]_vars
             PROVE  \A i \in Up : NodeFits(i)' /\ NotMissed(i)
  OBVIOUS
<1> DEFINE Goal == \A i \in Up : NodeFits(i)' /\ NotMissed(i)
<1>1. CASE UNCHANGED <<chain, highest, view, raw, prep, signs, commits, committed>>
  BY <1>1, SameKept DEF QuorumInv, Same, CacheSame
<1>2. CASE UNCHANGED vars
  BY <1>1, <1>2 DEF vars, diskVars, viewVars, cacheVars
<1>3. ASSUME NEW n \in Up,
             \/ \E txs \in Payload : Seal(n, txs)
             \/ RehandleCommittedPrepare(n) \/ HandleFuture(n)
             \/ \E m \in msgs : HandlePrepare(n, m)
      PROVE  Goal
  <2>1. \E p \in PrepareReq : \E ft, sent :
          handlePrepareMsg(n, p, ft, sent) /\ UNCHANGED <<highest, view>>
    <3>1. ASSUME NEW txs \in Payload, Seal(n, txs)
          PROVE  \E p \in PrepareReq : \E ft, sent :
                   handlePrepareMsg(n, p, ft, sent) /\ UNCHANGED <<highest, view>>
      <4> DEFINE p == [idx |-> n, view |-> view[n],
                       block |-> [number |-> Len(chain[n]) + 1, txs |-> txs]]
      <4>1. handlePrepareMsg(n, p, future[n], msgs \cup {PrepareMsg(p)})
            /\ UNCHANGED <<highest, view>>
        BY <3>1 DEF Seal, viewVars
      <4>2. p \in PrepareReq
        <5>1. Len(chain[n]) \in Nat /\ Len(chain[n]) + 1 <= MaxNumber
          BY <3>1, HeadHashType DEF Seal
        <5> QED
          BY <5>1, MsgTypes, Assumed DEF PrepareReq, Block, AllAssumptions
      <4> HIDE DEF p
      <4> QED
        BY <4>1, <4>2
    <3>2. ASSUME RehandleCommittedPrepare(n)
          PROVE  \E p \in PrepareReq : \E ft, sent :
                   handlePrepareMsg(n, p, ft, sent) /\ UNCHANGED <<highest, view>>
      <4> DEFINE p == [idx |-> n, view |-> view[n], block |-> committed[n].block]
      <4>1. handlePrepareMsg(n, p, future[n], msgs \cup {PrepareMsg(p)})
            /\ UNCHANGED <<highest, view>>
        BY <3>2 DEF RehandleCommittedPrepare, viewVars
      <4>2. p \in PrepareReq
        <5>1. committed[n] \in PrepareReq \cup {NoPrepare} /\ highest[n] \in Nat
          BY DEF TypeInv, TypeOK
        <5>2. committed[n].block.number = highest[n] + 1
          BY <3>2 DEF RehandleCommittedPrepare, consensusBlockNumber
        <5>3. committed[n].block \in Block
          BY <5>1, <5>2 DEF NoPrepare, PrepareReq
        <5> QED
          BY <5>3, MsgTypes DEF PrepareReq
      <4> HIDE DEF p
      <4> QED
        BY <4>1, <4>2
    <3>3. ASSUME HandleFuture(n)
          PROVE  \E p \in PrepareReq : \E ft, sent :
                   handlePrepareMsg(n, p, ft, sent) /\ UNCHANGED <<highest, view>>
      <4>1. PICK p \in future[n] :
              handlePrepareMsg(n, p, future[n] \ {p}, msgs) /\ UNCHANGED <<highest, view>>
        BY <3>3 DEF HandleFuture, viewVars
      <4>2. p \in PrepareReq
        BY MsgTypes
      <4> QED
        BY <4>1, <4>2
    <3>4. ASSUME NEW m \in msgs, HandlePrepare(n, m)
          PROVE  \E p \in PrepareReq : \E ft, sent :
                   handlePrepareMsg(n, p, ft, sent) /\ UNCHANGED <<highest, view>>
      <4> DEFINE p == [idx |-> m.idx, view |-> m.view, block |-> m.block]
      <4>1. handlePrepareMsg(n, p, future[n], msgs) /\ UNCHANGED <<highest, view>>
        BY <3>4 DEF HandlePrepare, viewVars
      <4>2. p \in PrepareReq
        BY MsgTypes
      <4> HIDE DEF p
      <4> QED
        BY <4>1, <4>2
    <3> QED
      BY <1>3, <3>1, <3>2, <3>3, <3>4
  <2> QED
    BY <2>1, PrepareCounts
<1>4. ASSUME NEW n \in Up, Timeout(n) PROVE Goal
  <2>1. /\ \E v, rv, lv, t, failed : checkAndChangeView(n, v, rv, lv, t, failed)
        /\ UNCHANGED <<chain, highest, committed>>
    BY <1>4 DEF Timeout, diskVars
  <2> QED
    BY <2>1, ChangeViewCounts
<1>5. ASSUME NEW n \in Up, NEW e \in viewMsgs, NEW direct \in BOOLEAN,
             HandleViewChange(n, e, direct)
      PROVE  Goal
  <2>1. UNCHANGED <<chain, highest, committed>>
    BY <1>5 DEF HandleViewChange, diskVars
  <2>2. CASE UNCHANGED <<view, cacheVars>>
    BY <1>1, <2>1, <2>2 DEF cacheVars
  <2>3. CASE \E v, rv, lv, t, failed : checkAndChangeView(n, v, rv, lv, t, failed)
    BY <2>1, <2>3, ChangeViewCounts
  <2> QED
    BY <1>5, <2>2, <2>3, Zenon DEF HandleViewChange
<1>6. ASSUME NEW n \in Up,
             SealEmpty(n) \/ BackupMsg(n) \/ \E i \in Idx : Disconnect(n, i)
      PROVE  Goal
  <2>1. UNCHANGED <<chain, highest, view, raw, prep, signs, commits, committed>>
    BY <1>6 DEF SealEmpty, BackupMsg, Disconnect, cacheVars, viewVars, diskVars
  <2> QED
    BY <1>1, <2>1
<1> HIDE DEF Goal
<1> QED
  BY <1>2, <1>3, <1>4, <1>5, <1>6, SignCounts, CommitReqCounts, ReportCounts, SyncCounts,
     GarbageCounts, CrashCounts DEF Next, Goal

(* No order of arrival loses a quorum of signs or of commits, for any number *)
(* of sealers, views, crashes and lost backups: only a prepare that comes    *)
(* again after another one of its view does (checkAndCommit, checkAndSave).  *)
THEOREM QuorumsKept == Spec => CommitQuorumNotMissed
<1>1. Init => QuorumInv
  BY DEF Init, QuorumInv, NodeFits, SignsFit, PreparedFits
<1>2. TypeInv /\ QuorumInv /\ [Next]_vars => QuorumInv'
  BY NextCounts DEF QuorumInv
<1>3. TypeInv /\ QuorumInv /\ [Next]_vars
        => [\A n \in Up : /\ SignsMissed(n)' => SignsMissed(n) \/ PreparedAgain(n)
                          /\ CommitsMissed(n)' => CommitsMissed(n) \/ PreparedAgain(n)]_vars
  BY NextCounts DEF NotMissed
<1> QED
  BY <1>1, <1>2, <1>3, TypeInvariant, PTL DEF Spec, CommitQuorumNotMissed

-----------------------------------------------------------------------------
(* No quorum of signs is overlooked when every leader proposes one block a    *)
(* view.  Then a node that has signed in a view has its leader's one proposal *)
(* as its raw prepare, takes no prepare of that view again, and the own sign  *)
(* comes after the others or before the last of them.                         *)

(* A prepare request that its leader has sent. *)
Proposed(p) == PrepareMsg(p) \in msgs /\ p.idx = (p.view + p.block.number - 1) % N

(* A node's own signs are for proposals it took: those of the next height for one
   a view, the one of this view for the raw prepare. *)
OwnSignsFit(n, sg, r, h, v) ==
  \A e \in sg : e.idx = n =>
    /\ e.block.number <= h + 1
    /\ e.block.number = h + 1 => e.view <= v
    /\ e.block.number = h + 1 /\ e.view = v => r.block = e.block /\ r.view = v

(* A quorum of signs for what is prepared has locked the node. *)
Locked(n) ==
  prep[n] # NoPrepare /\ Cardinality(Signers(signs[n], prep[n].block)) >= minValidNodes
    => committed[n].block = prep[n].block

ProposalFits(n) ==
  /\ raw[n] # NoPrepare => Proposed(raw[n])
  /\ \A p \in future[n] : PrepareMsg(p) \in msgs
  /\ OwnSignsFit(n, signs[n], raw[n], highest[n], view[n])
  /\ Locked(n)

ProposalInv == \A n \in Up : ProposalFits(n)

(* Fewer signs are a quorum only where more are. *)
LEMMA FewerSigners ==
  ASSUME NEW sg \in SUBSET CachedReq, NEW some \in SUBSET sg, NEW b,
         Cardinality(Signers(some, b)) >= minValidNodes
  PROVE  Cardinality(Signers(sg, b)) >= minValidNodes
<1>1. Signers(some, b) \in SUBSET Signers(sg, b) /\ Signers(sg, b) \in SUBSET Idx
  BY DEF Signers, Entries, CachedReq
<1>2. IsFiniteSet(Idx)
  BY FS_Interval, Assumed DEF Idx, AllAssumptions
<1>3. IsFiniteSet(Signers(sg, b)) /\ IsFiniteSet(Signers(some, b))
  BY <1>1, <1>2, FS_Subset
<1>4. Cardinality(Signers(some, b)) <= Cardinality(Signers(sg, b))
  BY <1>1, <1>3, FS_Subset
<1>5. /\ Cardinality(Signers(some, b)) \in Nat /\ Cardinality(Signers(sg, b)) \in Nat
      /\ minValidNodes \in Int
  BY <1>3, FS_CardinalityType, Assumed DEF minValidNodes, m_f, AllAssumptions
<1> QED
  BY <1>4, <1>5

(* A step that leaves the node what it has proposed, signed and prepared, or
   drops some of it; a new head may only be higher. *)
Keeps(i) ==
  /\ raw'[i] = raw[i] /\ future'[i] \subseteq future[i] /\ signs'[i] \subseteq signs[i]
  /\ prep'[i] = NoPrepare \/ (prep'[i] = prep[i] /\ committed'[i] = committed[i])
  /\ highest'[i] > highest[i] \/ (highest'[i] = highest[i] /\ view'[i] = view[i])

LEMMA KeptProposal ==
  ASSUME TypeInv, TypeInv', NEW i \in Up, Keeps(i), ProposalFits(i), msgs \subseteq msgs'
  PROVE  ProposalFits(i)'
<1>0. /\ signs[i] \in SUBSET CachedReq /\ highest[i] \in Nat /\ highest'[i] \in Nat
  BY DEF TypeInv, TypeOK
<1>1. /\ raw'[i] # NoPrepare => Proposed(raw[i])'
      /\ \A p \in future'[i] : PrepareMsg(p) \in msgs'
  BY DEF Keeps, ProposalFits, Proposed, PrepareMsg
<1>2. OwnSignsFit(i, signs'[i], raw'[i], highest'[i], view'[i])
  <2> SUFFICES ASSUME NEW e \in signs'[i], e.idx = i
               PROVE  /\ e.block.number <= highest'[i] + 1
                      /\ e.block.number = highest'[i] + 1 => e.view <= view'[i]
                      /\ e.block.number = highest'[i] + 1 /\ e.view = view'[i]
                           => raw'[i].block = e.block /\ raw'[i].view = view'[i]
    BY DEF OwnSignsFit
  <2>1. /\ e.block.number <= highest[i] + 1
        /\ e.block.number = highest[i] + 1 => e.view <= view[i]
        /\ e.block.number = highest[i] + 1 /\ e.view = view[i]
             => raw[i].block = e.block /\ raw[i].view = view[i]
    BY DEF Keeps, ProposalFits, OwnSignsFit
  <2>2. e.block.number \in Int
    BY <1>0 DEF Keeps, CachedReq, Block
  <2>3. CASE highest'[i] > highest[i]
    BY <1>0, <2>1, <2>2, <2>3
  <2>4. CASE highest'[i] = highest[i] /\ view'[i] = view[i]
    BY <2>1, <2>4 DEF Keeps
  <2> QED
    BY <2>3, <2>4 DEF Keeps
<1>3. Locked(i)'
  <2> SUFFICES ASSUME prep'[i] # NoPrepare,
                      Cardinality(Signers(signs'[i], prep'[i].block)) >= minValidNodes
               PROVE  committed'[i].block = prep'[i].block
    BY DEF Locked
  <2>1. prep'[i] = prep[i] /\ committed'[i] = committed[i] /\ signs'[i] \subseteq signs[i]
    BY DEF Keeps
  <2>2. Cardinality(Signers(signs[i], prep[i].block)) >= minValidNodes
    BY <1>0, <2>1, FewerSigners
  <2> QED
    BY <2>1, <2>2 DEF ProposalFits, Locked
<1> QED
  BY <1>1, <1>2, <1>3 DEF ProposalFits, Proposed

(* A node with nothing prepared, and no own sign of its height and view. *)
LEMMA ClearedProposal ==
  ASSUME NEW i \in Up, raw'[i] = NoPrepare, prep'[i] = NoPrepare,
         \A p \in future'[i] : PrepareMsg(p) \in msgs',
         \A e \in signs'[i] : e.idx = i => e.block.number <= highest'[i],
         \A e \in signs'[i] : e.block.number \in Int, highest'[i] \in Nat
  PROVE  ProposalFits(i)'
<1>1. OwnSignsFit(i, signs'[i], raw'[i], highest'[i], view'[i])
  <2> SUFFICES ASSUME NEW e \in signs'[i], e.idx = i
               PROVE  e.block.number <= highest'[i] + 1 /\ e.block.number # highest'[i] + 1
    BY DEF OwnSignsFit
  <2> QED
    OBVIOUS
<1> QED
  BY <1>1 DEF ProposalFits, Locked

(* Commits and saves: the other nodes keep all, the node is locked on what it
   has prepared or is as before. *)
LEMMA SaveKeeps ==
  ASSUME HandlerType, NEW n \in Up, NEW p, NEW sg, NEW cm, NEW ft,
         checkAndSave(n, p, sg, cm, ft)
  PROVE  /\ \A i \in Up \ {n} : prep'[i] = prep[i] /\ signs'[i] = signs[i] /\ future'[i] = future[i]
         /\ prep'[n] = NoPrepare \/ prep'[n] = p
         /\ signs'[n] \subseteq sg /\ future'[n] \subseteq ft
<1>1. CASE CanSave(n, p, sg, cm)
  BY <1>1 DEF checkAndSave, SaveBlock, HandlerType
<1>2. CASE ~CanSave(n, p, sg, cm)
  BY <1>2 DEF checkAndSave, KeepCaches, HandlerType
<1> QED
  BY <1>1, <1>2

LEMMA CommitKeeps ==
  ASSUME HandlerType, NEW n \in Up, NEW p, NEW r, NEW sg, NEW cm, NEW ft, NEW sent,
         checkAndCommit(n, r, p, sg, cm, ft, sent)
  PROVE  /\ \A i \in Up \ {n} : /\ prep'[i] = prep[i] /\ signs'[i] = signs[i]
                                /\ future'[i] = future[i] /\ committed'[i] = committed[i]
         /\ prep'[n] = NoPrepare \/ prep'[n] = p
         /\ signs'[n] \subseteq sg /\ future'[n] \subseteq ft /\ sent \subseteq msgs'
         /\ \/ CanCommit(n, p, sg) /\ committed'[n] = r
            \/ ~CanCommit(n, p, sg) /\ committed'[n] = committed[n]
<1>1. CASE CanCommit(n, p, sg)
  <2>1. /\ \E all : checkAndSave(n, p, sg, all, ft)
        /\ committed' = [committed EXCEPT ![n] = r] /\ sent \subseteq msgs'
    BY <1>1 DEF checkAndCommit
  <2> QED
    BY <1>1, <2>1, SaveKeeps DEF HandlerType
<1>2. CASE ~CanCommit(n, p, sg)
  BY <1>2 DEF checkAndCommit, KeepCaches, HandlerType
<1> QED
  BY <1>1, <1>2

(* A prepare that is taken is for the next height, in this view, of the leader. *)
LEMMA TakenPrepare ==
  ASSUME TypeInv, NEW n \in Up, NEW p \in PrepareReq,
         ~InvalidPrepare(n, p), ~isFuturePrepare(n, p)
  PROVE  /\ p.block.number = highest[n] + 1 /\ p.view = view[n]
         /\ p.idx = (p.view + p.block.number - 1) % N
         /\ ~isExistPrepare(n, p)
<1>1. p.block.number \in Int /\ p.view \in Int /\ highest[n] \in Int /\ view[n] \in Int
  BY Assumed DEF PrepareReq, Block, TypeInv, TypeOK, AllAssumptions
<1>2. p.block.number = highest[n] + 1 /\ p.view = view[n]
  BY <1>1 DEF InvalidPrepare, hasConsensused, isFuturePrepare, consensusBlockNumber
<1>3. p.idx = (view[n] + highest[n]) % N
  BY DEF InvalidPrepare, IsLeader, Leader
<1>4. view[n] + highest[n] = p.view + p.block.number - 1
  BY <1>1, <1>2
<1> QED
  BY <1>2, <1>3, <1>4 DEF InvalidPrepare

(* A node that has signed for a view takes no prepare of it: its leader's one
   proposal is the raw prepare, and there already. *)
LEMMA NotSigned ==
  ASSUME TypeInv, NEW n \in Up, NEW p \in PrepareReq, ProposalFits(n), OneProposalPerView',
         msgs \subseteq msgs', PrepareMsg(p) \in msgs',
         ~InvalidPrepare(n, p), ~isFuturePrepare(n, p)
  PROVE  \A e \in signs[n] : e.idx = n /\ e.block.number = highest[n] + 1 => e.view < view[n]
<1> SUFFICES ASSUME NEW e \in signs[n], e.idx = n, e.block.number = highest[n] + 1,
                    ~(e.view < view[n])
             PROVE  FALSE
  OBVIOUS
<1>1. e.view \in Int /\ view[n] \in Int /\ e.view <= view[n] /\ highest[n] \in Nat
  BY Assumed DEF TypeInv, TypeOK, CachedReq, AllAssumptions, ProposalFits, OwnSignsFit
<1>2. raw[n].block = e.block /\ raw[n].view = view[n]
  BY <1>1 DEF ProposalFits, OwnSignsFit
<1>3. raw[n] # NoPrepare
  BY <1>1, <1>2 DEF NoPrepare
<1>4. /\ PrepareMsg(raw[n]) \in msgs' /\ raw[n].idx = (raw[n].view + raw[n].block.number - 1) % N
  BY <1>3 DEF ProposalFits, Proposed
<1>5. /\ p.block.number = highest[n] + 1 /\ p.view = view[n]
      /\ p.idx = (p.view + p.block.number - 1) % N /\ ~isExistPrepare(n, p)
  BY TakenPrepare
<1>6. /\ raw[n].idx = p.idx /\ raw[n].view = p.view /\ raw[n].block.number = p.block.number
  BY <1>2, <1>4, <1>5
<1>7. raw[n].block = p.block
  BY <1>4, <1>6 DEF OneProposalPerView, PrepareMsg
<1> QED
  BY <1>1, <1>5, <1>6, <1>7 DEF isExistPrepare

(* The own sign that comes last of a quorum is counted exactly. *)
LEMMA OwnSignCounts ==
  ASSUME NEW n \in Up, NEW sg \in SUBSET CachedReq, SignsFit(n, sg), NEW p \in PrepareReq,
         OwnSign(n, p.block, p.view) \notin sg,
         Cardinality(Signers(AddReq(RemoveInvalid(sg, p), OwnSign(n, p.block, p.view)), p.block))
           >= minValidNodes
  PROVE  getSigCacheSize(AddReq(RemoveInvalid(sg, p), OwnSign(n, p.block, p.view)), p.block)
           = minValidNodes
<1> DEFINE own == OwnSign(n, p.block, p.view)
           of  == RemoveInvalid(sg, p)
           all == AddReq(of, own)
<1>1. own \in CachedReq
  BY UpAssumption DEF CachedReq, PrepareReq, Idx, OwnSign
<1>2. of \in SUBSET CachedReq /\ SignsFit(n, of) /\ \A e \in of : e.block = p.block => e.view = p.view
  BY RemovedFits DEF RemoveInvalid
<1>3. all \in SUBSET CachedReq
  <2> HIDE DEF own, of
  <2> QED
    BY <1>1, <1>2, CacheTypes
<1>4. SignsFit(n, all) /\ own \in all
  <2> HIDE DEF of
  <2> QED
    BY <1>2, OwnFits
<1>5. \A e \in of : e.block = p.block => e.isFuture
  <2> SUFFICES ASSUME NEW e \in of, e.block = p.block, ~e.isFuture PROVE FALSE
    OBVIOUS
  <2>1. OwnSign(n, e.block, e.view) \in of /\ e.view = p.view
    BY <1>2 DEF SignsFit
  <2> QED
    BY <2>1 DEF RemoveInvalid
<1>6. \A e \in Entries(all, p.block) : e.idx # n => e.isFuture
  BY <1>5 DEF Entries, AddReq, OwnSign
<1> HIDE DEF all
<1> QED
  BY <1>3, <1>4, <1>6, SignCount DEF all

(* A prepare request: kept for later, or taken, signed and counted. *)
LEMMA PrepareProposal ==
  ASSUME TypeInv, TypeInv', QuorumInv, ProposalInv, OneProposalPerView',
         NEW n \in Up, NEW p \in PrepareReq, NEW ft \in SUBSET future[n], NEW sent,
         handlePrepareMsg(n, p, ft, sent), msgs \subseteq sent, PrepareMsg(p) \in sent,
         UNCHANGED <<highest, view>>
  PROVE  ProposalInv'
<1>0. HandlerType /\ ProposalFits(n) /\ SignsFit(n, signs[n]) /\ p # NoPrepare
  BY TypeParts, Assumed DEF TypeInv, ProposalInv, QuorumInv, NodeFits, PrepareReq, NoPrepare, AllAssumptions
<1>1. CASE /\ msgs' = sent /\ future'[n] \subseteq ft \cup {p}
           /\ \A i \in Up \ {n} : future'[i] = future[i]
           /\ UNCHANGED <<raw, prep, signs, committed>>
  <2>1. \A i \in Up \ {n} : Keeps(i)
    BY <1>1 DEF Keeps
  <2>2. ProposalFits(n)'
    BY <1>0, <1>1 DEF ProposalFits, Proposed, PrepareMsg, Locked
  <2> QED
    BY <1>1, <2>1, <2>2, KeptProposal DEF ProposalInv
<1>2. ASSUME ~InvalidPrepare(n, p), ~isFuturePrepare(n, p), raw' = [raw EXCEPT ![n] = p],
             msgs \subseteq msgs', PrepareMsg(p) \in msgs',
             \A i \in Up \ {n} : /\ prep'[i] = prep[i] /\ signs'[i] = signs[i]
                                 /\ future'[i] = future[i] /\ committed'[i] = committed[i],
             future'[n] \subseteq ft,
             \A e \in signs'[n] : e \in signs[n] \/ e = OwnSign(n, p.block, p.view),
             Locked(n)'
      PROVE  ProposalInv'
  <2>1. \A i \in Up \ {n} : Keeps(i)
    BY <1>0, <1>2 DEF Keeps, HandlerType
  <2>2. /\ p.block.number = highest[n] + 1 /\ p.view = view[n]
        /\ p.idx = (p.view + p.block.number - 1) % N
    BY <1>2, TakenPrepare
  <2>3. raw'[n] = p /\ Proposed(p)'
    BY <1>0, <1>2, <2>2 DEF HandlerType, Proposed, PrepareMsg
  <2>4. OwnSignsFit(n, signs'[n], p, highest[n], view[n])
    <3> SUFFICES ASSUME NEW e \in signs'[n], e.idx = n
                 PROVE  /\ e.block.number <= highest[n] + 1
                        /\ e.block.number = highest[n] + 1 => e.view <= view[n]
                        /\ e.block.number = highest[n] + 1 /\ e.view = view[n]
                             => p.block = e.block /\ p.view = view[n]
      BY DEF OwnSignsFit
    <3>1. /\ highest[n] \in Nat /\ view[n] \in Int
      BY Assumed DEF TypeInv, TypeOK, AllAssumptions
    <3>2. CASE e = OwnSign(n, p.block, p.view)
      BY <2>2, <3>1, <3>2 DEF OwnSign
    <3>3. CASE e \in signs[n]
      <4>1. e.block.number = highest[n] + 1 => e.view < view[n]
        BY <1>0, <1>2, <3>3, NotSigned
      <4>2. e.view \in Int
        BY <1>0, <3>3, Assumed DEF HandlerType, CachedReq, AllAssumptions
      <4>3. /\ e.block.number <= highest[n] + 1
            /\ e.block.number = highest[n] + 1 => e.view <= view[n]
        BY <1>0, <3>3 DEF ProposalFits, OwnSignsFit
      <4> QED
        BY <3>1, <4>1, <4>2, <4>3
    <3> QED
      BY <1>2, <3>2, <3>3
  <2>5. \A q \in future'[n] : PrepareMsg(q) \in msgs'
    BY <1>0, <1>2 DEF ProposalFits
  <2>6. ProposalFits(n)'
    BY <1>2, <2>3, <2>4, <2>5 DEF ProposalFits, Proposed, PrepareMsg
  <2> QED
    BY <1>2, <2>1, <2>6, KeptProposal DEF ProposalInv
<1>3. CASE /\ ~InvalidPrepare(n, p) /\ ~isFuturePrepare(n, p)
           /\ raw' = [raw EXCEPT ![n] = p] /\ KeepCaches(n, NoPrepare, signs[n], commits[n], ft)
           /\ msgs' = sent /\ UNCHANGED committed
  <2>1. /\ \A i \in Up \ {n} : prep'[i] = prep[i] /\ signs'[i] = signs[i] /\ future'[i] = future[i]
        /\ prep'[n] = NoPrepare /\ signs'[n] = signs[n] /\ future'[n] = ft
    BY <1>0, <1>3 DEF KeepCaches, HandlerType
  <2> QED
    BY <1>2, <1>3, <2>1 DEF Locked
<1>4. CASE /\ ~InvalidPrepare(n, p) /\ ~isFuturePrepare(n, p) /\ p.block.txs # NoTxs
           /\ raw' = [raw EXCEPT ![n] = p] /\ SignPrepare(n, p, ft, sent)
  <2> DEFINE own == OwnSign(n, p.block, p.view)
             sg  == AddReq(RemoveInvalid(signs[n], p), own)
             cm  == RemoveInvalid(commits[n], p)
  <2>1. PICK all : checkAndCommit(n, p, p, sg, cm, ft, all) /\ sent \subseteq all
    BY <1>4 DEF SignPrepare, OwnSign
  <2>2. \A e \in sg : e \in signs[n] \/ e = own
    BY DEF AddReq, RemoveInvalid
  <2>3. own \notin signs[n]
    <3> SUFFICES ASSUME own \in signs[n] PROVE FALSE
      OBVIOUS
    <3>1. p.block.number = highest[n] + 1 /\ p.view = view[n]
      BY <1>4, TakenPrepare
    <3>2. own.idx = n /\ own.block = p.block /\ own.view = p.view
      BY DEF OwnSign
    <3>3. sent \subseteq msgs'
      BY <1>0, <2>1, CommitKeeps
    <3>4. own.view < view[n]
      <4> HIDE DEF own
      <4> QED
        BY <1>0, <1>4, <3>1, <3>2, <3>3, NotSigned
    <3>5. view[n] \in Int
      BY Assumed DEF TypeInv, TypeOK, AllAssumptions
    <3> QED
      BY <3>1, <3>2, <3>4, <3>5
  <2>4. Cardinality(Signers(sg, p.block)) >= minValidNodes => CanCommit(n, p, sg)
    <3>1. p.view = view[n]
      BY <1>4, TakenPrepare
    <3>2. signs[n] \in SUBSET CachedReq
      BY <1>0 DEF HandlerType
    <3>3. Cardinality(Signers(sg, p.block)) >= minValidNodes
            => getSigCacheSize(sg, p.block) = minValidNodes
      BY <1>0, <2>3, <3>2, OwnSignCounts
    <3> QED
      BY <1>0, <3>1, <3>3 DEF CanCommit
  <2> HIDE DEF sg, own, cm
  <2>5. /\ \A i \in Up \ {n} : /\ prep'[i] = prep[i] /\ signs'[i] = signs[i]
                                /\ future'[i] = future[i] /\ committed'[i] = committed[i]
        /\ prep'[n] = NoPrepare \/ prep'[n] = p
        /\ signs'[n] \subseteq sg /\ future'[n] \subseteq ft /\ all \subseteq msgs'
        /\ \/ CanCommit(n, p, sg) /\ committed'[n] = p
           \/ ~CanCommit(n, p, sg) /\ committed'[n] = committed[n]
    BY <1>0, <2>1, CommitKeeps
  <2>6. Locked(n)'
    <3> SUFFICES ASSUME prep'[n] = p, Cardinality(Signers(signs'[n], p.block)) >= minValidNodes
                 PROVE  committed'[n].block = p.block
      BY <2>5 DEF Locked
    <3>1. sg \in SUBSET CachedReq
      <4>1. RemoveInvalid(signs[n], p) \in SUBSET CachedReq /\ own \in CachedReq
        BY <1>0, CacheTypes, UpAssumption DEF HandlerType, CachedReq, PrepareReq, Idx, OwnSign, own
      <4> QED
        BY <4>1, CacheTypes DEF sg
    <3>2. Cardinality(Signers(sg, p.block)) >= minValidNodes
      BY <2>5, <3>1, FewerSigners
    <3> QED
      BY <2>4, <2>5, <3>2
  <2> QED
    BY <1>2, <1>4, <2>1, <2>2, <2>5, <2>6 DEF own
<1>5. CASE InvalidPrepare(n, p) \/ isFuturePrepare(n, p)
  <2>1. /\ msgs' = sent /\ UNCHANGED <<raw, prep, signs, committed>>
        /\ \E ft1 : future' = [future EXCEPT ![n] = ft1] /\ ft1 \subseteq ft \cup {p}
    BY <1>5 DEF handlePrepareMsg, addFuturePrepareCache
  <2>2. /\ future'[n] \subseteq ft \cup {p} /\ \A i \in Up \ {n} : future'[i] = future[i]
    BY <1>0, <2>1 DEF HandlerType
  <2> QED
    BY <1>1, <2>1, <2>2
<1> QED
  BY <1>3, <1>4, <1>5 DEF handlePrepareMsg, execPrepareAndGenerateSignMsg

(* A sign request for what is prepared is counted exactly when it completes the
   quorum; another one is not for what is prepared. *)
LEMMA SignProposal ==
  ASSUME TypeInv, TypeInv', QuorumInv, ProposalInv, NEW n \in Up, NEW m \in msgs, HandleSign(n, m)
  PROVE  ProposalInv'
<1> DEFINE e  == [idx |-> m.idx, view |-> m.view, block |-> m.block, isFuture |-> FutureReq(n, m)]
           sg == AddReq(signs[n], e)
           p  == prep[n]
<1>0. /\ HandlerType /\ SignsFit(n, signs[n]) /\ ProposalFits(n)
      /\ PreparedFits(n, signs[n], prep[n], raw[n], highest[n], view[n])
  BY TypeParts DEF TypeInv, QuorumInv, NodeFits, ProposalInv
<1>1. /\ e \in CachedReq /\ m.block \in Block /\ m.view \in 0..MaxView /\ m.idx # n
      /\ sg \in SUBSET CachedReq
  <2>1. e \in CachedReq /\ m.block \in Block /\ m.view \in 0..MaxView /\ m.idx # n
    BY MsgTypes DEF Msg, HandleSign
  <2> HIDE DEF e
  <2> QED
    BY <1>0, <2>1, CacheTypes DEF HandlerType
<1>2. /\ ~Cached(signs[n], m.block, m.idx) /\ ~hasConsensused(n, m.block.number, m.view)
      /\ UNCHANGED <<highest, view, raw>>
      /\ \/ /\ ValidReq(n, m)
            /\ checkAndCommit(n, raw[n], p, sg, commits[n], future[n], msgs)
         \/ /\ FutureReq(n, m) /\ signs' = [signs EXCEPT ![n] = sg]
            /\ UNCHANGED <<prep, future, committed, msgs>>
  BY DEF HandleSign, viewVars
<1>3. sg = signs[n] \cup {e}
  BY <1>2 DEF AddReq
<1>4. SUFFICES ASSUME /\ \A i \in Up \ {n} : /\ prep'[i] = prep[i] /\ signs'[i] = signs[i]
                                             /\ future'[i] = future[i] /\ committed'[i] = committed[i]
                      /\ signs'[n] \subseteq sg /\ future'[n] \subseteq future[n]
                      /\ msgs \subseteq msgs'
               PROVE  Locked(n)'
  <2>1. /\ \A i \in Up \ {n} : /\ prep'[i] = prep[i] /\ signs'[i] = signs[i]
                               /\ future'[i] = future[i] /\ committed'[i] = committed[i]
        /\ signs'[n] \subseteq sg /\ future'[n] \subseteq future[n] /\ msgs \subseteq msgs'
    <3> HIDE DEF sg
    <3>1. CASE checkAndCommit(n, raw[n], p, sg, commits[n], future[n], msgs)
      BY <1>0, <3>1, CommitKeeps
    <3>2. CASE signs' = [signs EXCEPT ![n] = sg] /\ UNCHANGED <<prep, future, committed, msgs>>
      BY <1>0, <3>2 DEF HandlerType
    <3> QED
      BY <1>2, <3>1, <3>2
  <2>2. Locked(n)'
    BY <1>4, <2>1
  <2>3. OwnSignsFit(n, signs'[n], raw[n], highest[n], view[n])
    <3>1. e.idx # n
      BY <1>1
    <3> HIDE DEF sg, e
    <3> QED
      BY <1>0, <1>3, <2>1, <3>1 DEF ProposalFits, OwnSignsFit
  <2>4. ProposalFits(n)'
    BY <1>0, <1>2, <2>1, <2>2, <2>3 DEF ProposalFits, Proposed, PrepareMsg
  <2>5. \A i \in Up \ {n} : ProposalFits(i)'
    BY <1>2, <2>1, KeptProposal DEF ProposalInv, Keeps
  <2> QED
    BY <2>4, <2>5 DEF ProposalInv
<1>5. CASE ValidReq(n, m) /\ checkAndCommit(n, raw[n], p, sg, commits[n], future[n], msgs)
  <2>1. /\ p \in SignedReq /\ p.block = m.block /\ p.view = m.view /\ p # NoPrepare
    <3>1. p.block = m.block /\ p.view = m.view /\ p # NoPrepare
      BY <1>1, <1>5 DEF ValidReq, NoPrepare, Block
    <3> QED
      BY <1>0, <3>1 DEF HandlerType
  <2>2. p.view = view[n] /\ OwnSign(n, p.block, p.view) \in signs[n] /\ raw[n] = p
    <3>1. p.block.number \in Int /\ p.view \in Int /\ highest[n] \in Int /\ view[n] \in Int
      <4>1. p \in PrepareReq
        BY <2>1 DEF SignedReq
      <4> HIDE DEF p
      <4> QED
        BY <4>1, Assumed DEF PrepareReq, Block, TypeInv, TypeOK, AllAssumptions
    <3>2. p.block.number <= highest[n] + 1 /\ raw[n] = p
      BY <1>0, <2>1 DEF PreparedFits
    <3>3. p.block.number = highest[n] + 1
      BY <1>2, <2>1, <3>1, <3>2 DEF hasConsensused, consensusBlockNumber
    <3> QED
      BY <1>0, <2>1, <3>2, <3>3 DEF PreparedFits
  <2>3. SignsFit(n, sg)
    <3>1. e.idx # n /\ OwnSign(n, e.block, e.view) \in signs[n]
      BY <1>1, <2>1, <2>2
    <3> HIDE DEF e
    <3> QED
      BY <1>0, <3>1, AddedFits
  <2>4. OwnSign(n, p.block, p.view) \in sg
    <3> HIDE DEF e, p
    <3> QED
      BY <1>3, <2>2
  <2>5. Signers(sg, p.block) = Signers(signs[n], p.block) \cup {m.idx}
    <3>1. e.block = p.block /\ e.idx = m.idx
      BY <2>1
    <3> HIDE DEF e, sg, p
    <3> QED
      BY <1>3, <3>1 DEF Signers, Entries
  <2> HIDE DEF sg, e
  <2>6. ASSUME ~CanCommit(n, p, sg), Cardinality(Signers(sg, p.block)) >= minValidNodes
        PROVE  Cardinality(Signers(signs[n], p.block)) >= minValidNodes
    <3> DEFINE old == Signers(signs[n], p.block)
               all == Signers(sg, p.block)
    <3>1. IsFiniteSet(old)
      <4>1. old \in SUBSET Idx
        BY <1>0 DEF Signers, Entries, CachedReq, HandlerType
      <4>2. IsFiniteSet(Idx)
        BY FS_Interval, Assumed DEF Idx, AllAssumptions
      <4> QED
        BY <4>1, <4>2, FS_Subset
    <3>2. getSigCacheSize(sg, p.block) # minValidNodes
      BY <2>1, <2>2, <2>6 DEF CanCommit
    <3>3. /\ Cardinality(all) \in Nat /\ minValidNodes \in Int /\ Cardinality(all) # minValidNodes
      BY <1>1, <2>3, <2>4, <3>2, SignCount
    <3> HIDE DEF old, all
    <3>4. Cardinality(old) \in Nat /\ Cardinality(all) <= Cardinality(old) + 1
      <4>1. Cardinality(old) \in Nat
        BY <3>1, FS_CardinalityType
      <4>2. Cardinality(all) = IF m.idx \in old THEN Cardinality(old) ELSE Cardinality(old) + 1
        BY <2>5, <3>1, FS_AddElement DEF old, all
      <4> QED
        BY <4>1, <4>2
    <3>5. Cardinality(all) >= minValidNodes => Cardinality(old) >= minValidNodes
      BY <3>3, <3>4
    <3> QED
      BY <2>6, <3>5 DEF old, all
  <2>7. /\ prep'[n] = NoPrepare \/ prep'[n] = p
        /\ signs'[n] \subseteq sg
        /\ \/ CanCommit(n, p, sg) /\ committed'[n] = raw[n]
           \/ ~CanCommit(n, p, sg) /\ committed'[n] = committed[n]
    BY <1>0, <1>5, CommitKeeps
  <2>8. ASSUME prep'[n] = p, Cardinality(Signers(signs'[n], p.block)) >= minValidNodes
        PROVE  committed'[n].block = p.block
    <3>1. Cardinality(Signers(sg, p.block)) >= minValidNodes
      BY <1>1, <2>7, <2>8, FewerSigners
    <3> QED
      BY <1>0, <2>1, <2>2, <2>6, <2>7, <3>1 DEF ProposalFits, Locked
  <2> QED
    BY <2>7, <2>8 DEF Locked
<1>6. CASE FutureReq(n, m) /\ signs' = [signs EXCEPT ![n] = sg] /\ UNCHANGED <<prep, committed>>
  <2>1. e.block # p.block
    BY <1>6 DEF FutureReq
  <2>2. Signers(sg, p.block) = Signers(signs[n], p.block)
    <3> HIDE DEF e, sg, p
    <3> QED
      BY <1>3, <2>1 DEF Signers, Entries
  <2>3. signs'[n] = sg
    BY <1>0, <1>6 DEF HandlerType
  <2> QED
    BY <1>0, <1>6, <2>2, <2>3 DEF ProposalFits, Locked
<1> QED
  BY <1>2, <1>5, <1>6

(* A change of the view clears what is prepared and the signs of views before. *)
LEMMA ChangeViewProposal ==
  ASSUME TypeInv, TypeInv', ProposalInv, NEW n \in Up, NEW v \in Nat, NEW rv, NEW lv, NEW t, NEW failed,
         v > view[n], checkAndChangeView(n, v, rv, lv, t, failed),
         UNCHANGED <<highest, committed, msgs>>
  PROVE  ProposalInv'
<1>0. HandlerType /\ ViewType /\ ProposalFits(n)
  BY TypeParts DEF TypeInv, ProposalInv
<1>1. CASE CanChangeView(v, rv)
  <2>1. /\ raw'[n] = NoPrepare /\ prep'[n] = NoPrepare
        /\ signs'[n] \subseteq {e \in signs[n] : e.view >= v} /\ future'[n] \subseteq future[n]
        /\ \A i \in Up \ {n} : Keeps(i)
    BY <1>0, <1>1 DEF checkAndChangeView, triggerViewChange, RemoveExpired, HandlerType, ViewType, Keeps
  <2>2. ASSUME NEW e \in signs'[n] PROVE e.block.number \in Int /\ (e.idx = n => e.block.number <= highest[n])
    <3>1. /\ e \in signs[n] /\ e.view \in Int /\ e.view >= v /\ e.block.number \in Int
          /\ highest[n] \in Nat /\ view[n] \in Int
      BY <1>0, <2>1, <2>2, Assumed, SMTT(30) DEF HandlerType, ViewType, CachedReq, Block, AllAssumptions, TypeInv, TypeOK
    <3>2. e.idx = n => e.block.number <= highest[n] + 1 /\ (e.block.number = highest[n] + 1 => e.view <= view[n])
      BY <1>0, <3>1 DEF ProposalFits, OwnSignsFit
    <3> QED
      BY <3>1, <3>2
  <2>3. highest'[n] = highest[n] /\ highest[n] \in Nat /\ \A p \in future'[n] : PrepareMsg(p) \in msgs'
    BY <1>0, <2>1 DEF ProposalFits, TypeInv, TypeOK
  <2>4. ProposalFits(n)'
    BY <2>1, <2>2, <2>3, ClearedProposal
  <2> QED
    BY <2>1, <2>4, KeptProposal DEF ProposalInv
<1>2. CASE ~CanChangeView(v, rv)
  <2>1. \A i \in Up : Keeps(i)
    BY <1>2 DEF checkAndChangeView, cacheVars, Keeps
  <2> QED
    BY <2>1, KeptProposal DEF ProposalInv
<1> QED
  BY <1>1, <1>2

LEMMA ViewProposal ==
  ASSUME TypeInv, TypeInv', ViewOrdered, ProposalInv, NEW n \in Up,
         \/ Timeout(n)
         \/ \E e \in viewMsgs, direct \in BOOLEAN : HandleViewChange(n, e, direct)
  PROVE  ProposalInv'
<1>0. ViewType /\ view[n] \in Nat /\ toView[n] \in Nat
  BY TypeParts, Assumed DEF TypeInv, ViewType, AllAssumptions
<1>1. CASE Timeout(n)
  <2>1. PICK t \in Nat : t = toView[n] + 1
    BY <1>0
  <2>2. /\ \E rv, lv : checkAndChangeView(n, t, rv, lv, t, TRUE)
        /\ UNCHANGED <<highest, committed, msgs>>
    BY <1>1, <2>1 DEF Timeout
  <2>3. t > view[n]
    BY <1>0, <2>1 DEF ViewOrdered
  <2> QED
    BY <2>2, <2>3, ChangeViewProposal
<1>2. ASSUME NEW e \in viewMsgs, NEW direct \in BOOLEAN, HandleViewChange(n, e, direct)
      PROVE  ProposalInv'
  <2>1. UNCHANGED <<highest, committed, msgs>>
    BY <1>2 DEF HandleViewChange
  <2>2. e.view \in Nat
    BY <1>0, Assumed DEF ViewType, ViewChangeReq, AllAssumptions
  <2>3. CASE UNCHANGED <<view, cacheVars>>
    <3>1. \A i \in Up : Keeps(i)
      BY <2>1, <2>3 DEF cacheVars, Keeps
    <3> QED
      BY <2>1, <3>1, KeptProposal DEF ProposalInv
  <2>4. CASE ~InvalidViewChange(n, e) /\ \E rv, lv, t, failed : checkAndChangeView(n, e.view, rv, lv, t, failed)
    <3>1. e.view > view[n]
      BY <1>0, <2>2, <2>4 DEF InvalidViewChange
    <3> QED
      BY <2>1, <2>2, <2>4, <3>1, ChangeViewProposal
  <2> QED
    BY <1>2, <2>3, <2>4, Zenon DEF HandleViewChange
<1> QED
  BY <1>1, <1>2

(* Steps that propose nothing and prepare nothing. *)
LEMMA QuietProposal ==
  ASSUME TypeInv, TypeInv', ProposalInv, NEW n \in Up,
         \/ SealEmpty(n) \/ ReportBlock(n) \/ CollectGarbage(n) \/ BackupMsg(n) \/ CrashAndRestart(n)
         \/ \E m \in msgs : HandleCommit(n, m)
         \/ \E i \in Idx : Disconnect(n, i)
         \/ \E m \in Up : SyncBlock(n, m)
  PROVE  ProposalInv'
<1>0. HandlerType /\ ViewType /\ OtherType
  BY TypeParts DEF TypeInv
<1> SUFFICES msgs \subseteq msgs' /\ \A i \in Up : Keeps(i) \/ ProposalFits(i)'
  BY KeptProposal DEF ProposalInv
<1>1. CASE UNCHANGED <<highest, view, raw, prep, signs, future, committed>> /\ msgs \subseteq msgs'
  BY <1>1 DEF Keeps
<1>2. CASE SealEmpty(n) \/ BackupMsg(n) \/ \E i \in Idx : Disconnect(n, i)
  BY <1>1, <1>2 DEF SealEmpty, BackupMsg, Disconnect, cacheVars, viewVars
<1>3. CASE \E m \in Up : SyncBlock(n, m)
  BY <1>1, <1>3 DEF SyncBlock, cacheVars, viewVars
<1>4. CASE ReportBlock(n)
  <2>1. PICK head : /\ signs' = [signs EXCEPT ![n] = @ \ Entries(@, head)]
                    /\ prep' = [prep EXCEPT ![n] = NoPrepare] \/ prep' = prep
    BY <1>4 DEF ReportBlock
  <2>2. /\ highest' = [highest EXCEPT ![n] = Len(chain[n])] /\ view' = [view EXCEPT ![n] = 0]
        /\ future' = [future EXCEPT ![n] = {}]
        /\ UNCHANGED <<raw, committed, msgs>> /\ highest[n] < Len(chain[n])
    BY <1>4 DEF ReportBlock, NewHead
  <2>3. Len(chain[n]) \in Nat /\ highest[n] \in Nat
    BY HeadHashType
  <2>4. Len(chain[n]) > highest[n]
    BY <2>2, <2>3
  <2> QED
    BY <1>0, <2>1, <2>2, <2>4 DEF HandlerType, ViewType, OtherType, Keeps
<1>5. CASE CollectGarbage(n)
  <2>1. PICK kept, ft : /\ kept \subseteq signs[n] /\ signs' = [signs EXCEPT ![n] = kept]
                        /\ ft \subseteq future[n] /\ future' = [future EXCEPT ![n] = ft]
    BY <1>5 DEF CollectGarbage
  <2>2. UNCHANGED <<highest, view, raw, prep, committed, msgs>>
    BY <1>5 DEF CollectGarbage
  <2> QED
    BY <1>0, <2>1, <2>2 DEF HandlerType, Keeps
<1>6. CASE CrashAndRestart(n)
  <2>1. /\ raw'[n] = NoPrepare /\ prep'[n] = NoPrepare /\ signs'[n] = {} /\ future'[n] = {}
        /\ msgs' = msgs /\ \A i \in Up \ {n} : Keeps(i)
    BY <1>0, <1>6 DEF CrashAndRestart, HandlerType, ViewType, OtherType, Keeps
  <2>2. highest'[n] \in Nat
    BY DEF TypeInv, TypeOK
  <2> QED
    BY <2>1, <2>2, ClearedProposal
<1>7. ASSUME NEW m \in msgs, HandleCommit(n, m)
      PROVE  msgs \subseteq msgs' /\ \A i \in Up : Keeps(i) \/ ProposalFits(i)'
  <2>1. /\ UNCHANGED <<highest, view, raw, committed, msgs>>
        /\ \/ \E cm : checkAndSave(n, prep[n], signs[n], cm, future[n])
           \/ UNCHANGED <<prep, signs, future>>
    BY <1>7 DEF HandleCommit, viewVars
  <2>2. CASE \E cm : checkAndSave(n, prep[n], signs[n], cm, future[n])
    BY <1>0, <2>1, <2>2, SaveKeeps DEF Keeps
  <2> QED
    BY <1>1, <2>1, <2>2
<1> QED
  BY <1>2, <1>3, <1>4, <1>5, <1>6, <1>7

(* The steps that handle a prepare request, one that has been sent. *)
Prepares(n) ==
  \E p \in PrepareReq : \E ft \in SUBSET future[n] : \E sent :
    /\ handlePrepareMsg(n, p, ft, sent) /\ msgs \subseteq sent /\ PrepareMsg(p) \in sent
    /\ UNCHANGED <<highest, view>>

LEMMA PrepareSteppers ==
  ASSUME TypeInv, ProposalInv, NEW n \in Up,
         \/ \E txs \in Payload : Seal(n, txs)
         \/ RehandleCommittedPrepare(n) \/ HandleFuture(n)
         \/ \E m \in msgs : HandlePrepare(n, m)
  PROVE  Prepares(n)
<1>1. ASSUME NEW txs \in Payload, Seal(n, txs)
      PROVE  Prepares(n)
  <2> DEFINE p == [idx |-> n, view |-> view[n],
                   block |-> [number |-> Len(chain[n]) + 1, txs |-> txs]]
  <2>1. handlePrepareMsg(n, p, future[n], msgs \cup {PrepareMsg(p)}) /\ UNCHANGED <<highest, view>>
    BY <1>1 DEF Seal, viewVars
  <2>2. p \in PrepareReq
    <3>1. Len(chain[n]) \in Nat /\ Len(chain[n]) + 1 <= MaxNumber
      BY <1>1, HeadHashType DEF Seal
    <3> QED
      BY <3>1, MsgTypes, Assumed DEF PrepareReq, Block, AllAssumptions
  <2> HIDE DEF p
  <2> QED
    BY <2>1, <2>2, Zenon DEF Prepares
<1>2. ASSUME RehandleCommittedPrepare(n)
      PROVE  Prepares(n)
  <2> DEFINE p == [idx |-> n, view |-> view[n], block |-> committed[n].block]
  <2>1. handlePrepareMsg(n, p, future[n], msgs \cup {PrepareMsg(p)}) /\ UNCHANGED <<highest, view>>
    BY <1>2 DEF RehandleCommittedPrepare, viewVars
  <2>2. p \in PrepareReq
    <3>1. committed[n] \in PrepareReq \cup {NoPrepare} /\ highest[n] \in Nat
      BY DEF TypeInv, TypeOK
    <3>2. committed[n].block.number = highest[n] + 1
      BY <1>2 DEF RehandleCommittedPrepare, consensusBlockNumber
    <3>3. committed[n].block \in Block
      BY <3>1, <3>2 DEF NoPrepare, PrepareReq
    <3> QED
      BY <3>3, MsgTypes DEF PrepareReq
  <2> HIDE DEF p
  <2> QED
    BY <2>1, <2>2, Zenon DEF Prepares
<1>3. ASSUME HandleFuture(n)
      PROVE  Prepares(n)
  <2>1. PICK p \in future[n] :
          handlePrepareMsg(n, p, future[n] \ {p}, msgs) /\ UNCHANGED <<highest, view>>
    BY <1>3 DEF HandleFuture, viewVars
  <2>2. p \in PrepareReq /\ PrepareMsg(p) \in msgs
    BY MsgTypes DEF ProposalInv, ProposalFits
  <2> QED
    BY <2>1, <2>2, Zenon DEF Prepares
<1>4. ASSUME NEW m \in msgs, HandlePrepare(n, m)
      PROVE  Prepares(n)
  <2> DEFINE p == [idx |-> m.idx, view |-> m.view, block |-> m.block]
  <2>1. handlePrepareMsg(n, p, future[n], msgs) /\ UNCHANGED <<highest, view>> /\ m.type = "prepare"
    BY <1>4 DEF HandlePrepare, viewVars
  <2>2. p \in PrepareReq /\ m \in Msg
    BY MsgTypes
  <2>3. PrepareMsg(p) \in msgs
    BY <2>1, <2>2 DEF PrepareMsg, Msg
  <2> HIDE DEF p
  <2> QED
    BY <2>1, <2>2, <2>3, Zenon DEF Prepares
<1> QED
  BY <1>1, <1>2, <1>3, <1>4

LEMMA NextProposal ==
  TypeInv /\ TypeInv' /\ QuorumInv /\ ViewOrdered /\ ProposalInv /\ OneProposalPerView' /\ [Next]_vars
    => ProposalInv'
<1> SUFFICES ASSUME TypeInv, TypeInv', QuorumInv, ViewOrdered, ProposalInv, OneProposalPerView',
                    [Next]_vars
             PROVE  ProposalInv'
  OBVIOUS
<1>1. CASE UNCHANGED vars
  <2>1. \A i \in Up : Keeps(i) /\ msgs \subseteq msgs'
    BY <1>1 DEF vars, viewVars, cacheVars, Keeps
  <2> QED
    BY <2>1, KeptProposal DEF ProposalInv
<1>2. ASSUME NEW n \in Up, Prepares(n) PROVE ProposalInv'
  BY <1>2, PrepareProposal DEF Prepares
<1> QED
  BY <1>1, <1>2, PrepareSteppers, SignProposal, ViewProposal, QuietProposal DEF Next

(* A prepare that a node has signed in a view does not come again after another. *)
LEMMA NothingAgain ==
  ASSUME TypeInv, NEW i \in Up, prep'[i] = NoPrepare \/ prep'[i] = prep[i]
  PROVE  ~PreparedAgain(i)
<1>1. \A e \in signs[i] : e.view # -1
  BY Assumed DEF TypeInv, TypeOK, CachedReq, AllAssumptions
<1>2. NoPrepare.view = -1
  BY DEF NoPrepare
<1> QED
  BY <1>1, <1>2 DEF PreparedAgain

LEMMA PrepareNotAgain ==
  ASSUME TypeInv, ProposalInv, OneProposalPerView', NEW n \in Up, Prepares(n)
  PROVE  \A i \in Up : ~PreparedAgain(i)
<1>0. HandlerType /\ ProposalFits(n)
  BY TypeParts DEF TypeInv, ProposalInv
<1>1. PICK p \in PrepareReq : \E ft \in SUBSET future[n] : \E sent :
        handlePrepareMsg(n, p, ft, sent) /\ msgs \subseteq sent /\ PrepareMsg(p) \in sent
  BY DEF Prepares
<1>2. PICK ft \in SUBSET future[n] : \E all :
        handlePrepareMsg(n, p, ft, all) /\ msgs \subseteq all /\ PrepareMsg(p) \in all
  BY <1>1
<1>3. PICK sent :
        handlePrepareMsg(n, p, ft, sent) /\ msgs \subseteq sent /\ PrepareMsg(p) \in sent
  BY <1>2
<1>4. CASE UNCHANGED prep
  BY <1>4, NothingAgain
<1>5. CASE KeepCaches(n, NoPrepare, signs[n], commits[n], ft)
  <2>1. prep'[n] = NoPrepare /\ \A i \in Up \ {n} : prep'[i] = prep[i]
    BY <1>0, <1>5 DEF KeepCaches, HandlerType
  <2> QED
    BY <2>1, NothingAgain
<1>6. CASE ~InvalidPrepare(n, p) /\ ~isFuturePrepare(n, p) /\ SignPrepare(n, p, ft, sent)
  <2>1. PICK sg, cm, all : checkAndCommit(n, p, p, sg, cm, ft, all) /\ sent \subseteq all
    BY <1>6 DEF SignPrepare
  <2>2. /\ prep'[n] = NoPrepare \/ prep'[n] = p
        /\ \A i \in Up \ {n} : prep'[i] = prep[i]
        /\ all \subseteq msgs'
    BY <1>0, <2>1, CommitKeeps
  <2>3. p.block.number = highest[n] + 1 /\ p.view = view[n]
    BY <1>6, TakenPrepare
  <2>4. \A e \in signs[n] : e.idx = n /\ e.block.number = highest[n] + 1 => e.view < view[n]
    BY <1>0, <1>3, <1>6, <2>1, <2>2, NotSigned
  <2>5. ~(view[n] < view[n])
    BY Assumed DEF TypeInv, TypeOK, AllAssumptions
  <2>6. [idx |-> n, view |-> p.view, block |-> p.block, isFuture |-> FALSE] \notin signs[n]
    BY <2>3, <2>4, <2>5
  <2>7. prep'[n] = p => ~PreparedAgain(n)
    BY <2>6 DEF PreparedAgain
  <2> QED
    BY <2>2, <2>7, NothingAgain
<1> QED
  BY <1>3, <1>4, <1>5, <1>6 DEF handlePrepareMsg, execPrepareAndGenerateSignMsg

LEMMA NextNotAgain ==
  TypeInv /\ ProposalInv /\ OneProposalPerView' /\ [Next]_vars => \A i \in Up : ~PreparedAgain(i)
<1> SUFFICES ASSUME TypeInv, ProposalInv, OneProposalPerView', [Next]_vars
             PROVE  \A i \in Up : ~PreparedAgain(i)
  OBVIOUS
<1>0. HandlerType
  BY TypeParts DEF TypeInv
<1> DEFINE Goal == \A i \in Up : prep'[i] = NoPrepare \/ prep'[i] = prep[i]
<1>1. SUFFICES ASSUME ~ \E n \in Up : Prepares(n) PROVE Goal
  BY PrepareNotAgain, NothingAgain
<1>2. CASE UNCHANGED prep
  BY <1>2
<1>3. ASSUME NEW n \in Up, prep' = [prep EXCEPT ![n] = NoPrepare] PROVE Goal
  BY <1>0, <1>3 DEF HandlerType
<1>4. ASSUME NEW n \in Up, NEW m \in msgs, HandleSign(n, m) \/ HandleCommit(n, m) PROVE Goal
  <2>1. \/ \E sg : checkAndCommit(n, raw[n], prep[n], sg, commits[n], future[n], msgs)
        \/ \E cm : checkAndSave(n, prep[n], signs[n], cm, future[n])
        \/ UNCHANGED prep
    BY <1>4 DEF HandleSign, HandleCommit
  <2> QED
    BY <1>0, <1>2, <2>1, CommitKeeps, SaveKeeps
<1>5. ASSUME NEW n \in Up, NEW v, NEW rv, NEW lv, NEW t, NEW failed,
             checkAndChangeView(n, v, rv, lv, t, failed)
      PROVE  Goal
  <2>1. prep' = [prep EXCEPT ![n] = NoPrepare] \/ UNCHANGED prep
    BY <1>5 DEF checkAndChangeView, triggerViewChange, cacheVars
  <2> QED
    BY <1>2, <1>3, <2>1
<1> HIDE DEF Goal
<1>6. ASSUME NEW n \in Up,
             \/ Timeout(n) \/ SealEmpty(n) \/ ReportBlock(n) \/ CollectGarbage(n) \/ BackupMsg(n)
             \/ \E i \in Idx : Disconnect(n, i)
             \/ \E m \in Up : SyncBlock(n, m)
             \/ CrashAndRestart(n)
      PROVE  Goal
  <2>1. \/ UNCHANGED prep \/ prep' = [prep EXCEPT ![n] = NoPrepare]
        \/ \E v, rv, lv, t, failed : checkAndChangeView(n, v, rv, lv, t, failed)
    BY <1>6, Zenon DEF Timeout, SealEmpty, ReportBlock, CollectGarbage, BackupMsg, Disconnect, SyncBlock,
       CrashAndRestart, cacheVars
  <2> QED
    BY <1>2, <1>3, <1>5, <2>1
<1>7. ASSUME NEW n \in Up, NEW e \in viewMsgs, NEW direct \in BOOLEAN, HandleViewChange(n, e, direct)
      PROVE  Goal
  <2>1. UNCHANGED prep \/ \E v, rv, lv, t, failed : checkAndChangeView(n, v, rv, lv, t, failed)
    BY <1>7, Zenon DEF HandleViewChange, cacheVars
  <2> QED
    BY <1>2, <1>5, <2>1
<1>8. CASE UNCHANGED vars
  BY <1>2, <1>8 DEF vars, cacheVars
<1> QED
  BY <1>1, <1>4, <1>6, <1>7, <1>8, PrepareSteppers DEF Next

(* No quorum of signs is overlooked, for any number of sealers, views, crashes *)
(* and lost backups, as long as every leader proposes one block a view         *)
(* (checkAndCommit, isExistPrepare).                                           *)
THEOREM SignQuorumKept == Spec /\ []OneProposalPerView => []SignQuorumNotMissed
<1>1. Init => QuorumInv /\ ViewOrdered /\ ProposalInv
  BY DEF Init, QuorumInv, NodeFits, SignsFit, PreparedFits, ViewOrdered, ProposalInv, ProposalFits,
     OwnSignsFit, Locked
<1>2. TypeInv /\ QuorumInv /\ [Next]_vars => QuorumInv'
  BY NextCounts DEF QuorumInv
<1>3. TypeInv /\ ViewOrdered /\ [Next]_vars => ViewOrdered'
  BY NextGrows
<1>4. ProposalInv => SignQuorumNotMissed
  BY DEF ProposalInv, ProposalFits, Locked, SignQuorumNotMissed
<1> QED
  BY <1>1, <1>2, <1>3, <1>4, NextProposal, TypeInvariant, PTL DEF Spec

(* A node with a quorum of signs and one of commits for the next block has    *)
(* saved it, under the same condition (checkAndSave).                         *)
THEOREM CommitQuorumKept ==
  Spec /\ []OneProposalPerView => [](\A n \in Up : ~CommitsMissed(n))
<1> DEFINE NoneMissed == \A n \in Up : ~CommitsMissed(n)
           NoneAgain == \A n \in Up : ~PreparedAgain(n)
           Kept == \A n \in Up : CommitsMissed(n)' => CommitsMissed(n) \/ PreparedAgain(n)
<1>1. Init => QuorumInv /\ ViewOrdered /\ ProposalInv /\ NoneMissed
  BY DEF Init, QuorumInv, NodeFits, SignsFit, PreparedFits, ViewOrdered, ProposalInv, ProposalFits,
     OwnSignsFit, Locked, CommitsMissed, NextPrepared
<1>2. TypeInv /\ QuorumInv /\ [Next]_vars => QuorumInv' /\ Kept
  BY NextCounts DEF QuorumInv, NotMissed
<1>3. TypeInv /\ ViewOrdered /\ [Next]_vars => ViewOrdered'
  BY NextGrows
<1>4. TypeInv /\ ProposalInv /\ OneProposalPerView' /\ [Next]_vars => NoneAgain
  BY NextNotAgain
<1>5. NoneMissed /\ Kept /\ NoneAgain => NoneMissed'
  OBVIOUS
<1> QED
  BY <1>1, <1>2, <1>3, <1>4, <1>5, NextProposal, TypeInvariant, PTL DEF Spec

-----------------------------------------------------------------------------
(* When a leader proposes one block a view: what it has proposed blocks it as *)
(* long as its height and its view stay, and a proposal made at a lower       *)
(* height is of a turn less than a round ago.                                 *)

Proposals == {m \in msgs : m.type = "prepare"}

(* What keeps a leader from a second block for a height in one view: it has given
   up its turn, its block is sealed, or it has proposed again what it is locked on. *)
Blocked(n, number) ==
  \/ leaderFailed[n] \/ sealing[n].sealed
  \/ /\ number = highest[n] + 1
     /\ committed[n].block.number = number /\ raw[n].block.number = number

(* Node n proposed m when it knew of g blocks, at most N - 1 less than its chain had. *)
ProposedAt(n, m, g) ==
  /\ g <= highest[n] /\ (m.view + g) % N = n
  /\ g < m.block.number /\ m.block.number <= g + N /\ m.block.number <= Len(chain[n]) + 1
  /\ g = highest[n] => m.view <= view[n]
  /\ g = highest[n] /\ m.view = view[n] => Blocked(n, m.block.number)

ProposedBy(n, m) == \E g \in Nat : ProposedAt(n, m, g)

ProposersInv == \A m \in Proposals : m.idx \in Up /\ ProposedBy(m.idx, m)

(* Two numbers less than N apart leave different remainders. *)
LEMMA Remainders ==
  ASSUME NEW a \in Nat, NEW b \in Nat, a < b, b < a + N, a % N = b % N
  PROVE  FALSE
<1> DEFINE q == a \div N
           r == b \div N
<1>1. N \in Nat \ {0}
  BY NAssumption
<1>2. a = N * q + (a % N) /\ b = N * r + (b % N) /\ q \in Int /\ r \in Int /\ a % N \in Int
  BY <1>1
<1> HIDE DEF q, r
<1>3. N * r - N * q = N * (r - q) /\ N * r \in Int /\ N * q \in Int /\ r - q \in Int
  BY <1>1, <1>2
<1>4. N * (r - q) \in 1..(N - 1)
  BY <1>1, <1>2, <1>3
<1>5. CASE r - q >= 1
  <2>1. N * (r - q) >= N
    BY <1>1, <1>3, <1>5
  <2> QED
    BY <1>1, <1>4, <2>1
<1>6. CASE r - q <= 0
  <2>1. N * (r - q) <= 0
    BY <1>1, <1>3, <1>6
  <2> QED
    BY <1>4, <2>1
<1> QED
  BY <1>3, <1>5, <1>6

(* A step that leaves a node blocked, or in a later view or at a new height. *)
StaysBlocked(i) ==
  /\ Len(chain'[i]) >= Len(chain[i])
  /\ \/ highest'[i] > highest[i]
     \/ highest'[i] = highest[i] /\ view'[i] > view[i]
     \/ /\ highest'[i] = highest[i] /\ view'[i] = view[i]
        /\ leaderFailed[i] => leaderFailed'[i]
        /\ sealing[i].sealed /\ Leader(i) = i => sealing'[i].sealed \/ leaderFailed'[i]
        /\ raw'[i].block.number \in {raw[i].block.number, highest[i] + 1}
        /\ committed'[i].block.number \in {committed[i].block.number, raw'[i].block.number}

LEMMA BlockedKept ==
  ASSUME TypeInv, TypeInv', NEW i \in Up, NEW m \in Msg, StaysBlocked(i), ProposedBy(i, m)
  PROVE  ProposedBy(i, m)'
<1>0. /\ highest[i] \in Nat /\ highest'[i] \in Nat /\ view[i] \in Nat /\ view'[i] \in Nat
      /\ Len(chain[i]) \in Nat /\ Len(chain'[i]) \in Nat
      /\ m.block.number \in Nat /\ m.view \in Nat
  BY Assumed, SMTT(30) DEF TypeInv, TypeOK, Msg, Block, AllAssumptions
<1>1. PICK g \in Nat : ProposedAt(i, m, g)
  BY DEF ProposedBy
<1>2. highest'[i] >= highest[i] /\ Len(chain'[i]) >= Len(chain[i])
  BY <1>0 DEF StaysBlocked
<1>3. /\ g <= highest'[i] /\ (m.view + g) % N = i
      /\ g < m.block.number /\ m.block.number <= g + N /\ m.block.number <= Len(chain'[i]) + 1
  BY <1>0, <1>1, <1>2, SMTT(30) DEF ProposedAt
<1>4. CASE highest'[i] > highest[i]
  <2>1. g # highest'[i]
    BY <1>0, <1>1, <1>4 DEF ProposedAt
  <2> QED
    BY <1>3, <2>1 DEF ProposedBy, ProposedAt
<1>5. CASE highest'[i] = highest[i] /\ view'[i] > view[i]
  <2>1. g = highest'[i] => m.view <= view'[i] /\ m.view # view'[i]
    BY <1>0, <1>1, <1>5 DEF ProposedAt
  <2> QED
    BY <1>3, <2>1 DEF ProposedBy, ProposedAt
<1>6. CASE /\ highest'[i] = highest[i] /\ view'[i] = view[i]
           /\ leaderFailed[i] => leaderFailed'[i]
           /\ sealing[i].sealed /\ Leader(i) = i => sealing'[i].sealed \/ leaderFailed'[i]
           /\ raw'[i].block.number \in {raw[i].block.number, highest[i] + 1}
           /\ committed'[i].block.number \in {committed[i].block.number, raw'[i].block.number}
  <2>1. ASSUME g = highest[i], m.view = view[i] PROVE Blocked(i, m.block.number)'
    <3>1. Blocked(i, m.block.number) /\ Leader(i) = i
      BY <1>1, <2>1 DEF ProposedAt, Leader
    <3> QED
      BY <1>6, <3>1 DEF Blocked
  <2> QED
    BY <1>1, <1>3, <1>6, <2>1 DEF ProposedBy, ProposedAt
<1> QED
  BY <1>4, <1>5, <1>6 DEF StaysBlocked

(* A new proposal of a node at the height it knows of and in its view. *)
NewProposal(n, p) ==
  /\ p.idx = n /\ p.view = view[n] /\ Leader(n) = n
  /\ highest[n] < p.block.number /\ p.block.number <= highest[n] + N
  /\ p.block.number <= Len(chain[n]) + 1
  /\ ~Blocked(n, p.block.number)

(* It is the only one of its view for its height. *)
LEMMA ProposalIsNew ==
  ASSUME TypeInv, NEW n \in Up, NEW p \in PrepareReq, NewProposal(n, p), NEW m \in Proposals,
         ProposedBy(m.idx, m), m.idx = n, m.view = p.view, m.block.number = p.block.number
  PROVE  FALSE
<1>0. /\ highest[n] \in Nat /\ view[n] \in Nat /\ m.view \in Nat /\ m.block.number \in Nat
  BY Assumed DEF TypeInv, TypeOK, Proposals, Msg, Block, AllAssumptions
<1>1. PICK g \in Nat : ProposedAt(n, m, g)
  BY DEF ProposedBy
<1>2. CASE g = highest[n]
  BY <1>1, <1>2 DEF ProposedAt, NewProposal
<1>3. CASE g < highest[n]
  <2>1. (m.view + g) % N = (m.view + highest[n]) % N
    BY <1>1 DEF ProposedAt, NewProposal, Leader
  <2>2. N \in Nat
    BY NAssumption
  <2>3. m.view + g < m.view + highest[n] /\ m.view + highest[n] < (m.view + g) + N
    <3>1. highest[n] < m.block.number /\ m.block.number <= g + N
      BY <1>1 DEF ProposedAt, NewProposal
    <3> QED
      BY <1>0, <1>3, <2>2, <3>1
  <2>4. m.view + g \in Nat /\ m.view + highest[n] \in Nat
    BY <1>0
  <2> QED
    BY <2>1, <2>3, <2>4, Remainders
<1> QED
  BY <1>0, <1>1, <1>2, <1>3 DEF ProposedAt

OneProposal == ProposersInv /\ OneProposalPerView

LEMMA NothingProposed ==
  ASSUME TypeInv, TypeInv', OneProposal, \A i \in Up : StaysBlocked(i), Proposals' = Proposals
  PROVE  OneProposal'
<1>1. Proposals \subseteq Msg
  BY DEF TypeInv, TypeOK, Proposals
<1>2. ASSUME NEW m \in Proposals PROVE m.idx \in Up /\ ProposedBy(m.idx, m)'
  BY <1>1, BlockedKept DEF OneProposal, ProposersInv
<1>3. ProposersInv'
  BY <1>2 DEF ProposersInv
<1>4. OneProposalPerView'
  BY DEF OneProposal, OneProposalPerView, Proposals
<1> QED
  BY <1>3, <1>4 DEF OneProposal

LEMMA OneProposed ==
  ASSUME TypeInv, TypeInv', OneProposal, NEW n \in Up, NEW p \in PrepareReq, NewProposal(n, p),
         \A i \in Up : StaysBlocked(i), Proposals' = Proposals \cup {PrepareMsg(p)},
         highest'[n] = highest[n], view'[n] = view[n], Blocked(n, p.block.number)'
  PROVE  OneProposal'
<1> DEFINE new == PrepareMsg(p)
<1>0. /\ new.idx = n /\ new.view = p.view /\ new.block = p.block
      /\ Proposals \subseteq Msg
  BY DEF TypeInv, TypeOK, Proposals, PrepareMsg, NewProposal
<1>1. ASSUME NEW m \in Proposals PROVE m.idx \in Up /\ ProposedBy(m.idx, m)'
  BY <1>0, <1>1, BlockedKept DEF OneProposal, ProposersInv
<1>2. ProposedBy(n, new)'
  <2>1. /\ highest[n] \in Nat /\ view[n] \in Nat /\ Len(chain[n]) \in Nat /\ Len(chain'[n]) \in Nat
        /\ p.block.number \in Nat /\ Len(chain'[n]) >= Len(chain[n])
    BY Assumed DEF TypeInv, TypeOK, PrepareReq, Block, AllAssumptions, StaysBlocked
  <2>2. PICK h \in Nat : h = highest[n]
    BY <2>1
  <2>3. /\ h = highest'[n] /\ p.view = view[n] /\ p.view = view'[n] /\ (p.view + h) % N = n
        /\ h < p.block.number /\ p.block.number <= h + N /\ p.block.number <= Len(chain[n]) + 1
    BY <2>2 DEF NewProposal, Leader
  <2>4. ProposedAt(n, new, h)'
    <3> HIDE DEF new
    <3>1. /\ h <= highest'[n] /\ p.block.number <= Len(chain'[n]) + 1 /\ p.view <= view'[n]
      BY <2>1, <2>3
    <3> QED
      BY <1>0, <2>3, <3>1 DEF ProposedAt
  <2> QED
    BY <2>1, <2>4 DEF ProposedBy
<1> HIDE DEF new
<1>3. ProposersInv'
  BY <1>0, <1>1, <1>2 DEF ProposersInv, new
<1>4. ASSUME NEW m \in Proposals, m.idx = n, m.view = p.view, m.block.number = p.block.number
      PROVE  FALSE
  BY <1>4, ProposalIsNew DEF OneProposal, ProposersInv
<1>5. ASSUME NEW a \in Proposals \cup {new}, NEW b \in Proposals \cup {new},
             a.idx = b.idx, a.view = b.view, a.block.number = b.block.number
      PROVE  a.block = b.block
  <2>1. CASE a \in Proposals /\ b \in Proposals
    BY <1>5, <2>1 DEF OneProposal, OneProposalPerView, Proposals
  <2>2. CASE a = new /\ b = new
    BY <2>2
  <2>3. CASE a = new /\ b \in Proposals
    BY <1>0, <1>4, <1>5, <2>3
  <2>4. CASE a \in Proposals /\ b = new
    BY <1>0, <1>4, <1>5, <2>4
  <2> QED
    BY <2>1, <2>2, <2>3, <2>4
<1>6. OneProposalPerView'
  BY <1>5 DEF OneProposalPerView, Proposals, new
<1> QED
  BY <1>3, <1>6 DEF OneProposal

ChainGrows == \A i \in Up : Len(chain'[i]) >= Len(chain[i])

LEMMA NextGrowsChain == TypeInv /\ [Next]_vars => ChainGrows
<1> SUFFICES ASSUME TypeInv, [Next]_vars PROVE ChainGrows
  OBVIOUS
<1>0. \A i \in Up : Len(chain[i]) \in Nat
  BY HeadHashType
<1>1. CASE UNCHANGED chain
  BY <1>0, <1>1 DEF ChainGrows
<1>2. ASSUME NEW n \in Up, NEW txs \in Payload, chain' = [chain EXCEPT ![n] = Append(@, txs)]
      PROVE  ChainGrows
  <2>1. Len(chain'[n]) = Len(chain[n]) + 1 /\ \A i \in Up \ {n} : chain'[i] = chain[i]
    BY <1>2, StepLengths
  <2>2. \A i \in Up : Len(chain'[i]) >= Len(chain[i])
    BY <1>0, <2>1
  <2> QED
    BY <2>2 DEF ChainGrows
<1> QED
  BY <1>1, <1>2, NextChain DEF ChainStep

(* A prepare is handled: the node stays blocked, and proposes nothing itself. *)
LEMMA PrepareStays ==
  ASSUME TypeInv, ChainGrows, NEW n \in Up, NEW p \in PrepareReq, NEW ft, NEW sent,
         handlePrepareMsg(n, p, ft, sent), UNCHANGED <<highest, view>>,
         \A i \in Up : leaderFailed[i] => leaderFailed'[i],
         \A i \in Up : sealing[i].sealed /\ Leader(i) = i => sealing'[i].sealed
  PROVE  /\ \A i \in Up : StaysBlocked(i)
         /\ Proposals' = {m \in sent : m.type = "prepare"}
         /\ ~InvalidPrepare(n, p) /\ ~isFuturePrepare(n, p)
              => /\ raw'[n] = p
                 /\ committed'[n].block.number \in {committed[n].block.number, p.block.number}
<1>0. HandlerType
  BY TypeParts DEF TypeInv
<1>1. CASE InvalidPrepare(n, p) \/ isFuturePrepare(n, p)
  <2>1. msgs' = sent /\ UNCHANGED <<raw, committed>>
    BY <1>1 DEF handlePrepareMsg
  <2> QED
    BY <1>1, <2>1 DEF StaysBlocked, ChainGrows, Proposals
<1>2. CASE ~InvalidPrepare(n, p) /\ ~isFuturePrepare(n, p)
  <2>1. raw' = [raw EXCEPT ![n] = p] /\ p.block.number = highest[n] + 1
    BY <1>2, TakenPrepare DEF handlePrepareMsg, execPrepareAndGenerateSignMsg
  <2>2. /\ \A i \in Up \ {n} : committed'[i] = committed[i]
        /\ committed'[n] = committed[n] \/ committed'[n] = p
        /\ Proposals' = {m \in sent : m.type = "prepare"}
    <3>1. CASE msgs' = sent /\ UNCHANGED committed
      BY <3>1 DEF Proposals
    <3>2. CASE SignPrepare(n, p, ft, sent)
      <4>1. PICK sg, cm, all :
              /\ checkAndCommit(n, p, p, sg, cm, ft, all)
              /\ all = sent \cup {[type |-> "sign", idx |-> n, view |-> p.view, block |-> p.block]}
        BY <3>2 DEF SignPrepare
      <4>2. /\ \A i \in Up \ {n} : committed'[i] = committed[i]
            /\ committed'[n] = committed[n] \/ committed'[n] = p
        BY <1>0, <4>1, CommitKeeps
      <4>3. \A m \in msgs' : m.type = "prepare" => m \in all
        BY <4>1 DEF checkAndCommit
      <4>4. all \subseteq msgs'
        BY <4>1 DEF checkAndCommit
      <4> QED
        BY <4>1, <4>2, <4>3, <4>4 DEF Proposals
    <3> QED
      BY <1>2, <3>1, <3>2 DEF handlePrepareMsg, execPrepareAndGenerateSignMsg
  <2>3. raw'[n] = p /\ \A i \in Up \ {n} : raw'[i] = raw[i]
    BY <1>0, <2>1 DEF HandlerType
  <2>4. \A i \in Up : StaysBlocked(i)
    BY <2>1, <2>2, <2>3 DEF StaysBlocked, ChainGrows
  <2> QED
    BY <2>2, <2>3, <2>4
<1> QED
  BY <1>1, <1>2

(* The sealer proposes a block, an empty one or none of them twice. *)
LEMMA SealOnce ==
  ASSUME TypeInv, TypeInv', OneProposal, ReportsInTime, ChainGrows,
         NEW n \in Up, NEW txs \in Payload \cup {NoTxs},
         (txs \in Payload /\ Seal(n, txs)) \/ (txs = NoTxs /\ SealEmpty(n))
  PROVE  OneProposal'
<1> PICK p : p = [idx |-> n, view |-> view[n],
                  block |-> [number |-> Len(chain[n]) + 1, txs |-> txs]]
  OBVIOUS
<1>0. /\ HandlerType /\ ViewType /\ OtherType /\ highest[n] \in Nat /\ Len(chain[n]) \in Nat
      /\ highest[n] <= Len(chain[n]) /\ N \in Nat
  BY TypeParts, HeadHashType, NAssumption DEF TypeInv, Bounded
<1>1. /\ ShouldSeal(n) /\ committed[n].block.number # highest[n] + 1
      /\ Len(chain[n]) + 1 <= MaxNumber /\ UNCHANGED <<highest, view>>
  BY DEF Seal, SealEmpty, consensusBlockNumber, viewVars
<1>2. p \in PrepareReq
  BY <1>0, <1>1, MsgTypes, Assumed DEF PrepareReq, Block, AllAssumptions
<1>3. NewProposal(n, p)
  <2>1. Len(chain[n]) + 1 <= highest[n] + N /\ highest[n] < Len(chain[n]) + 1
    BY <1>0 DEF ReportsInTime
  <2>2. ~Blocked(n, p.block.number)
    BY <1>1 DEF ShouldSeal, IsLeader, Blocked
  <2>3. Leader(n) = n
    BY <1>1 DEF ShouldSeal, IsLeader
  <2> QED
    BY <1>0, <2>1, <2>2, <2>3 DEF NewProposal
<1>4. CASE txs \in Payload /\ Seal(n, txs)
  <2>1. /\ handlePrepareMsg(n, p, future[n], msgs \cup {PrepareMsg(p)})
        /\ sealing' = [sealing EXCEPT ![n].sealed = TRUE] /\ UNCHANGED leaderFailed
    BY <1>4 DEF Seal, viewVars
  <2>2. sealing'[n].sealed /\ \A i \in Up \ {n} : sealing'[i] = sealing[i]
    BY <1>0, <2>1 DEF OtherType
  <2>3. /\ \A i \in Up : StaysBlocked(i)
        /\ Proposals' = {m \in msgs \cup {PrepareMsg(p)} : m.type = "prepare"}
    BY <1>1, <1>2, <2>1, <2>2, PrepareStays
  <2>4. Proposals' = Proposals \cup {PrepareMsg(p)}
    BY <2>3 DEF Proposals, PrepareMsg
  <2>5. highest'[n] = highest[n] /\ view'[n] = view[n] /\ Blocked(n, p.block.number)'
    BY <1>1, <2>2 DEF Blocked
  <2> QED
    BY <1>2, <1>3, <2>3, <2>4, <2>5, OneProposed
<1>5. CASE txs = NoTxs /\ SealEmpty(n)
  <2>1. /\ msgs' = msgs \cup {PrepareMsg(p)} /\ leaderFailed' = [leaderFailed EXCEPT ![n] = TRUE]
        /\ UNCHANGED <<raw, committed>>
        /\ \E new : sealing' = [sealing EXCEPT ![n] = new]
    BY <1>5 DEF SealEmpty, cacheVars
  <2>2. leaderFailed'[n] /\ \A i \in Up \ {n} : leaderFailed'[i] = leaderFailed[i] /\ sealing'[i] = sealing[i]
    BY <1>0, <2>1 DEF OtherType, ViewType
  <2>3. \A i \in Up : StaysBlocked(i)
    BY <1>1, <2>1, <2>2 DEF StaysBlocked, ChainGrows
  <2>4. Proposals' = Proposals \cup {PrepareMsg(p)}
    BY <2>1 DEF Proposals, PrepareMsg
  <2>5. highest'[n] = highest[n] /\ view'[n] = view[n] /\ Blocked(n, p.block.number)'
    BY <1>1, <2>2 DEF Blocked
  <2> QED
    BY <1>2, <1>3, <2>3, <2>4, <2>5, OneProposed
<1> QED
  BY <1>4, <1>5

(* A locked leader proposes its block again once in a view, and takes it itself. *)
LEMMA RehandleOnce ==
  ASSUME TypeInv, TypeInv', OneProposal, ChainGrows, NEW n \in Up, RehandleCommittedPrepare(n)
  PROVE  OneProposal'
<1> PICK p : p = [idx |-> n, view |-> view[n], block |-> committed[n].block]
  OBVIOUS
<1>0. /\ highest[n] \in Nat /\ Len(chain[n]) \in Nat /\ view[n] \in Nat
      /\ highest[n] <= Len(chain[n]) /\ N \in Nat \ {0}
  BY HeadHashType, NAssumption, Assumed DEF TypeInv, TypeOK, Bounded, AllAssumptions
<1>1. /\ ShouldSeal(n) /\ committed[n].block.number = highest[n] + 1
      /\ raw[n].block.number # highest[n] + 1
      /\ handlePrepareMsg(n, p, future[n], msgs \cup {PrepareMsg(p)})
      /\ UNCHANGED <<highest, view, leaderFailed, sealing>>
  BY DEF RehandleCommittedPrepare, consensusBlockNumber, viewVars
<1>2. p \in PrepareReq
  <2>1. committed[n] \in PrepareReq \cup {NoPrepare}
    BY DEF TypeInv, TypeOK
  <2>2. committed[n].block \in Block
    BY <1>0, <1>1, <2>1 DEF NoPrepare, PrepareReq
  <2> QED
    BY <2>2, MsgTypes DEF PrepareReq
<1>3. /\ p.idx = n /\ p.view = view[n] /\ p.block.number = highest[n] + 1
      /\ p.block = committed[n].block
  BY <1>1
<1>4. ~InvalidPrepare(n, p) /\ ~isFuturePrepare(n, p)
  <2>1. ~isExistPrepare(n, p)
    BY <1>1, <1>3 DEF isExistPrepare
  <2>2. ~hasConsensused(n, p.block.number, p.view) /\ ~isFuturePrepare(n, p)
    BY <1>0, <1>3 DEF hasConsensused, isFuturePrepare, consensusBlockNumber
  <2>3. isHashSavedAfterCommit(n, p) /\ IsLeader(n, p.idx)
    BY <1>1, <1>3 DEF isHashSavedAfterCommit, ShouldSeal
  <2> QED
    BY <2>1, <2>2, <2>3 DEF InvalidPrepare
<1>5. /\ \A i \in Up : StaysBlocked(i)
      /\ Proposals' = {m \in msgs \cup {PrepareMsg(p)} : m.type = "prepare"}
      /\ raw'[n] = p /\ committed'[n].block.number \in {committed[n].block.number, p.block.number}
  BY <1>1, <1>2, <1>4, PrepareStays
<1>6. Proposals' = Proposals \cup {PrepareMsg(p)}
  BY <1>5 DEF Proposals, PrepareMsg
<1>7. NewProposal(n, p)
  <2>1. Leader(n) = n /\ ~Blocked(n, p.block.number)
    BY <1>1 DEF ShouldSeal, IsLeader, Blocked
  <2>2. /\ highest[n] < p.block.number /\ p.block.number <= highest[n] + N
        /\ p.block.number <= Len(chain[n]) + 1
    BY <1>0, <1>3
  <2> QED
    BY <1>3, <2>1, <2>2 DEF NewProposal
<1>8. highest'[n] = highest[n] /\ view'[n] = view[n] /\ Blocked(n, p.block.number)'
  BY <1>1, <1>3, <1>5 DEF Blocked
<1> QED
  BY <1>2, <1>5, <1>6, <1>7, <1>8, OneProposed

(* A prepare of another node. *)
LEMMA PrepareProposesNone ==
  ASSUME TypeInv, TypeInv', OneProposal, ChainGrows, NEW n \in Up,
         HandleFuture(n) \/ \E m \in msgs : HandlePrepare(n, m)
  PROVE  OneProposal'
<1>0. HandlerType /\ OtherType
  BY TypeParts DEF TypeInv
<1>1. PICK p \in PrepareReq : \E ft :
        /\ handlePrepareMsg(n, p, ft, msgs) /\ UNCHANGED <<highest, view, leaderFailed>>
        /\ UNCHANGED sealing \/ notifySealing(n, p)
  <2>1. CASE HandleFuture(n)
    <3>1. \A p \in future[n] : p \in PrepareReq
      BY MsgTypes
    <3> QED
      BY <2>1, <3>1 DEF HandleFuture, viewVars
  <2>2. ASSUME NEW m \in msgs, HandlePrepare(n, m)
        PROVE  \E p \in PrepareReq : \E ft :
                 /\ handlePrepareMsg(n, p, ft, msgs) /\ UNCHANGED <<highest, view, leaderFailed>>
                 /\ UNCHANGED sealing \/ notifySealing(n, p)
    <3> DEFINE p == [idx |-> m.idx, view |-> m.view, block |-> m.block]
    <3>1. p \in PrepareReq
      BY MsgTypes
    <3>2. /\ handlePrepareMsg(n, p, future[n], msgs) /\ UNCHANGED <<highest, view, leaderFailed>>
          /\ UNCHANGED sealing \/ notifySealing(n, p)
      BY <2>2 DEF HandlePrepare, viewVars
    <3> HIDE DEF p
    <3> QED
      BY <3>1, <3>2
  <2> QED
    BY <2>1, <2>2
<1>2. \A i \in Up : sealing[i].sealed /\ Leader(i) = i => sealing'[i].sealed
  BY <1>0, <1>1 DEF notifySealing, OtherType
<1>3. \A i \in Up : StaysBlocked(i) /\ Proposals' = {m \in msgs : m.type = "prepare"}
  BY <1>1, <1>2, PrepareStays
<1> QED
  BY <1>3, NothingProposed DEF Proposals

(* A change of the view, or the wish for one. *)
LEMMA ChangeViewStays ==
  ASSUME TypeInv, ChainGrows, NEW n \in Up, NEW v \in Nat, NEW rv, NEW lv, NEW t, NEW failed \in BOOLEAN,
         v > view[n], checkAndChangeView(n, v, rv, lv, t, failed), leaderFailed[n] => failed,
         UNCHANGED <<highest, committed>>, \A i \in Up \ {n} : sealing'[i] = sealing[i],
         failed \/ sealing'[n] = sealing[n]
  PROVE  \A i \in Up : StaysBlocked(i)
<1>0. HandlerType /\ ViewType
  BY TypeParts DEF TypeInv
<1>1. CASE CanChangeView(v, rv)
  <2>1. /\ raw' = [raw EXCEPT ![n] = NoPrepare] /\ view' = [view EXCEPT ![n] = v]
        /\ leaderFailed' = [leaderFailed EXCEPT ![n] = FALSE]
    BY <1>1 DEF checkAndChangeView, triggerViewChange
  <2>2. /\ view'[n] > view[n]
        /\ \A i \in Up \ {n} : /\ view'[i] = view[i] /\ leaderFailed'[i] = leaderFailed[i]
                               /\ raw'[i] = raw[i]
    BY <1>0, <2>1 DEF HandlerType, ViewType
  <2> QED
    BY <2>2 DEF StaysBlocked, ChainGrows
<1>2. CASE ~CanChangeView(v, rv)
  <2>1. /\ leaderFailed'[n] = failed /\ \A i \in Up \ {n} : leaderFailed'[i] = leaderFailed[i]
        /\ UNCHANGED <<view, raw>>
    BY <1>0, <1>2 DEF checkAndChangeView, ViewType, cacheVars
  <2> QED
    BY <2>1 DEF StaysBlocked, ChainGrows
<1> QED
  BY <1>1, <1>2

LEMMA ViewProposesNone ==
  ASSUME TypeInv, TypeInv', OneProposal, ViewOrdered, ChainGrows, NEW n \in Up,
         \/ Timeout(n)
         \/ \E e \in viewMsgs, direct \in BOOLEAN : HandleViewChange(n, e, direct)
  PROVE  OneProposal'
<1>0. ViewType /\ OtherType /\ view[n] \in Nat /\ toView[n] \in Nat /\ leaderFailed[n] \in BOOLEAN
  BY TypeParts, Assumed DEF TypeInv, ViewType, AllAssumptions
<1> SUFFICES Proposals' = Proposals /\ \A i \in Up : StaysBlocked(i)
  BY NothingProposed
<1>1. CASE Timeout(n)
  <2>1. PICK t \in Nat : t = toView[n] + 1
    BY <1>0
  <2>2. /\ \E rv, lv : checkAndChangeView(n, t, rv, lv, t, TRUE)
        /\ UNCHANGED <<highest, committed, msgs>>
        /\ \E new : sealing' = [sealing EXCEPT ![n] = new]
    BY <1>1, <2>1 DEF Timeout
  <2>3. t > view[n] /\ \A i \in Up \ {n} : sealing'[i] = sealing[i]
    BY <1>0, <2>1, <2>2 DEF ViewOrdered, OtherType
  <2> QED
    BY <2>2, <2>3, ChangeViewStays DEF Proposals
<1>2. ASSUME NEW e \in viewMsgs, NEW direct \in BOOLEAN, HandleViewChange(n, e, direct)
      PROVE  Proposals' = Proposals /\ \A i \in Up : StaysBlocked(i)
  <2>1. UNCHANGED <<highest, committed, msgs, sealing>>
    BY <1>2 DEF HandleViewChange
  <2>2. e.view \in Nat
    BY <1>0, Assumed DEF ViewType, ViewChangeReq, AllAssumptions
  <2>3. CASE UNCHANGED <<view, leaderFailed, raw>>
    BY <2>1, <2>3 DEF StaysBlocked, ChainGrows, Proposals
  <2>4. CASE ~InvalidViewChange(n, e)
             /\ \E rv, lv, t : checkAndChangeView(n, e.view, rv, lv, t, leaderFailed[n])
    <3>1. e.view > view[n]
      BY <1>0, <2>2, <2>4 DEF InvalidViewChange
    <3> QED
      BY <1>0, <2>1, <2>2, <2>4, <3>1, ChangeViewStays DEF Proposals
  <2> QED
    BY <1>2, <2>3, <2>4, Zenon DEF HandleViewChange, cacheVars
<1> QED
  BY <1>1, <1>2

LEMMA SignProposesNone ==
  ASSUME TypeInv, TypeInv', OneProposal, ChainGrows, NEW n \in Up, NEW m \in msgs, HandleSign(n, m)
  PROVE  OneProposal'
<1>0. HandlerType
  BY TypeParts DEF TypeInv
<1>1. /\ UNCHANGED <<highest, view, leaderFailed, sealing, raw>>
      /\ \/ \E sg : checkAndCommit(n, raw[n], prep[n], sg, commits[n], future[n], msgs)
         \/ UNCHANGED <<committed, msgs>>
  BY DEF HandleSign, viewVars
<1>2. CASE UNCHANGED <<committed, msgs>>
  BY <1>1, <1>2, NothingProposed DEF StaysBlocked, ChainGrows, Proposals
<1>3. ASSUME NEW sg, checkAndCommit(n, raw[n], prep[n], sg, commits[n], future[n], msgs)
      PROVE  OneProposal'
  <2>1. /\ \A i \in Up \ {n} : committed'[i] = committed[i]
        /\ committed'[n] = committed[n] \/ committed'[n] = raw[n]
    BY <1>0, <1>3, CommitKeeps
  <2>2. \A i \in Up : StaysBlocked(i)
    BY <1>1, <2>1 DEF StaysBlocked, ChainGrows
  <2>3. Proposals' = Proposals
    BY <1>3 DEF checkAndCommit, Proposals
  <2> QED
    BY <2>2, <2>3, NothingProposed
<1> QED
  BY <1>1, <1>2, <1>3

(* The steps that neither propose nor lock, a crash not among them. *)
LEMMA QuietProposesNone ==
  ASSUME TypeInv, TypeInv', OneProposal, ChainGrows, NEW n \in Up,
         \/ ReportBlock(n) \/ CollectGarbage(n) \/ BackupMsg(n)
         \/ \E m \in msgs : HandleCommit(n, m)
         \/ \E i \in Idx : Disconnect(n, i)
         \/ \E m \in Up : SyncBlock(n, m)
  PROVE  OneProposal'
<1>0. ViewType /\ OtherType
  BY TypeParts DEF TypeInv
<1> SUFFICES Proposals' = Proposals /\ \A i \in Up : StaysBlocked(i)
  BY NothingProposed
<1>1. CASE ReportBlock(n)
  <2>1. /\ highest' = [highest EXCEPT ![n] = Len(chain[n])] /\ view' = [view EXCEPT ![n] = 0]
        /\ leaderFailed' = [leaderFailed EXCEPT ![n] = FALSE]
        /\ UNCHANGED <<raw, committed, msgs>> /\ highest[n] < Len(chain[n])
        /\ sealing' = sealing \/ \E new : sealing' = [sealing EXCEPT ![n] = new]
    BY <1>1 DEF ReportBlock, NewHead
  <2>2. highest'[n] > highest[n] /\ \A i \in Up \ {n} : /\ highest'[i] = highest[i] /\ view'[i] = view[i]
                                                       /\ leaderFailed'[i] = leaderFailed[i]
                                                       /\ sealing'[i] = sealing[i]
    <3>1. Len(chain[n]) \in Nat /\ highest[n] \in Nat
      BY HeadHashType
    <3> QED
      BY <1>0, <2>1, <3>1 DEF ViewType, OtherType
  <2> QED
    BY <2>1, <2>2 DEF StaysBlocked, ChainGrows, Proposals
<1>2. CASE UNCHANGED <<highest, view, leaderFailed, sealing, raw, committed, msgs>>
  BY <1>2 DEF StaysBlocked, ChainGrows, Proposals
<1> QED
  BY <1>1, <1>2, Zenon DEF CollectGarbage, BackupMsg, HandleCommit, Disconnect, SyncBlock, viewVars, cacheVars

LEMMA NextProposesOnce ==
  ASSUME MaxCrash = 0
  PROVE  TypeInv /\ TypeInv' /\ ViewOrdered /\ ReportsInTime /\ OneProposal /\ [Next]_vars => OneProposal'
<1> SUFFICES ASSUME TypeInv, TypeInv', ViewOrdered, ReportsInTime, OneProposal, [Next]_vars
             PROVE  OneProposal'
  OBVIOUS
<1>1. ChainGrows
  BY NextGrowsChain
<1>2. CASE UNCHANGED vars
  <2>1. Proposals' = Proposals /\ \A i \in Up : StaysBlocked(i)
    BY <1>1, <1>2 DEF vars, viewVars, cacheVars, StaysBlocked, ChainGrows, Proposals
  <2> QED
    BY <2>1, NothingProposed
<1>3. \A n \in Up : ~CrashAndRestart(n)
  BY DEF CrashAndRestart, TypeInv, TypeOK
<1>4. ASSUME NEW n \in Up, NEW txs \in Payload, Seal(n, txs) PROVE OneProposal'
  <2>1. txs \in Payload \cup {NoTxs} /\ ((txs \in Payload /\ Seal(n, txs)) \/ (txs = NoTxs /\ SealEmpty(n)))
    BY <1>4
  <2> QED
    BY <1>1, <2>1, SealOnce
<1>5. ASSUME NEW n \in Up, SealEmpty(n) PROVE OneProposal'
  <2>1. PICK txs \in Payload \cup {NoTxs} : txs = NoTxs
    OBVIOUS
  <2>2. (txs \in Payload /\ Seal(n, txs)) \/ (txs = NoTxs /\ SealEmpty(n))
    BY <1>5, <2>1
  <2> QED
    BY <1>1, <2>1, <2>2, SealOnce
<1> QED
  BY <1>1, <1>2, <1>3, <1>4, <1>5, RehandleOnce, PrepareProposesNone, SignProposesNone, ViewProposesNone,
     QuietProposesNone DEF Next

(* Without a crash, and when a node learns of its chain before it has grown by *)
(* N blocks, a leader proposes one block for a height in a view: it gives up   *)
(* its turn, its block stays sealed, or it stays locked (generateAndSetSealing,*)
(* resetBlockForViewChange, rehandleCommitedPrepareCache).                     *)
THEOREM OneProposalCorrect == MaxCrash = 0 => (Spec /\ []ReportsInTime => []OneProposalPerView)
<1> SUFFICES ASSUME MaxCrash = 0 PROVE Spec /\ []ReportsInTime => []OneProposalPerView
  OBVIOUS
<1>1. Init => ViewOrdered /\ OneProposal
  BY DEF Init, ViewOrdered, OneProposal, ProposersInv, Proposals, OneProposalPerView
<1>2. TypeInv /\ ViewOrdered /\ [Next]_vars => ViewOrdered'
  BY NextGrows
<1>3. OneProposal => OneProposalPerView
  BY DEF OneProposal
<1>4. TypeInv /\ TypeInv' /\ ViewOrdered /\ ReportsInTime /\ OneProposal /\ [Next]_vars => OneProposal'
  BY NextProposesOnce
<1> QED
  BY <1>1, <1>2, <1>3, <1>4, TypeInvariant, PTL DEF Spec

(* So no quorum of signs is overlooked then. *)
THEOREM SignQuorumCorrect == MaxCrash = 0 => (Spec /\ []ReportsInTime => []SignQuorumNotMissed)
<1>1. MaxCrash = 0 => (Spec /\ []ReportsInTime => []OneProposalPerView)
  BY OneProposalCorrect
<1>2. Spec /\ []OneProposalPerView => []SignQuorumNotMissed
  BY SignQuorumKept
<1> QED
  BY <1>1, <1>2, PTL
=============================================================================
