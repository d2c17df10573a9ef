------------------------- MODULE SealerThreadsProofs -------------------------
(***************************************************************************)
(* The types and locks of SealerThreads, that a block is proposed as it was *)
(* sealed and that the leader proposes once for its height and view, for    *)
(* every number of nodes, blocks and views.                                 *)
(***************************************************************************)
EXTENDS SealerThreads, Integers, TLAPS

(* Once it is on its way to seal, the sealer meets a block nobody has sealed, *)
(* and it proposes a sealed one.                                           *)
SealerInv ==
  /\ sealer \in {"seal", "load", "handle"} => ~sealing.sealed
  /\ sealer = "generate" => sealing.sealed

(* The engine makes room for the next leader's block in another one's turn only. *)
NotifyInv == engine = "notify" => (view + highest) % N # Self

(* What was proposed was for the engine's height and view or before. *)
ProposedBefore ==
  \A i \in 1..Len(proposed) :
    /\ proposed[i].number <= highest + 1
    /\ proposed[i].number = highest + 1 => proposed[i].view <= view

Now == [number |-> highest + 1, view |-> view]
Proposed == \E i \in 1..Len(proposed) : proposed[i] = Now

(* After the proposal of the current height and view the leader has given up,  *)
(* or the block has been kept, or the chain has moved on and a later block is *)
(* being sealed.                                                           *)
ProposedNow ==
  Proposed =>
    /\ (view + highest) % N = Self
    /\ \/ leaderFailed
       \/ /\ chain > highest \/ sealing = [number |-> highest + 1, sealed |-> TRUE]
          /\ sealer = "generate" => sealing.number # highest + 1

SealedInv == SealerTypeOK /\ SealerInv /\ NotifyInv
ProposedInv == ProposedBefore /\ ProposedNow /\ ProposesOnce

USE SealerAssumption
USE DEF locks, consensus, flags

-----------------------------------------------------------------------------
(* Types                                                                   *)

Raws == [number : 0..MaxNumber + 1, view : 0..MaxView]
Sealings == [number : 1..MaxNumber + 2, sealed : BOOLEAN]

ChainType == chain \in 0..MaxNumber /\ highest \in 0..chain /\ head \in 0..chain /\ view \in 0..MaxView
BlockType == raw \in Raws /\ locked \in 0..MaxNumber + 1 /\ sealing \in Sealings
FlagType ==
  /\ leaderFailed \in BOOLEAN /\ generatePrepare \in BOOLEAN
  /\ notifyNextLeaderSeal \in BOOLEAN /\ syncBlock \in BOOLEAN
PlaceType ==
  /\ sealer \in {"start", "report", "reported", "check", "rehandle", "seal", "load", "handle",
                 "generate"}
  /\ engine \in {"idle", "notify", "execute", "timeout"} /\ syncer \in {"idle", "ready"}
  /\ xSealing = IF sealer \in {"load", "handle", "generate"} THEN "sealer" ELSE "free"
  /\ mutex = IF engine \in {"notify", "execute"} THEN "engine" ELSE "free"
HistoryType == proposed \in Seq([number : 1..MaxNumber + 1, view : 0..MaxView])

LEMMA TypeParts ==
  /\ SealerTypeOK <=> ChainType /\ BlockType /\ FlagType /\ PlaceType /\ HistoryType
  /\ SealerTypeOK' <=> ChainType' /\ BlockType' /\ FlagType' /\ PlaceType' /\ HistoryType'
  BY Zenon DEF SealerTypeOK, ChainType, BlockType, FlagType, PlaceType, HistoryType, Raws, Sealings

LEMMA InitiallyTyped == SealerInit => SealerTypeOK
  <1> SUFFICES ASSUME SealerInit PROVE SealerTypeOK
    OBVIOUS
  <1>1. ChainType /\ HistoryType
    BY DEF SealerInit, ChainType, HistoryType
  <1>2. BlockType
    <2>1. NoRaw \in Raws /\ Fresh(1) \in Sealings /\ 0 \in 0..MaxNumber + 1
      BY DEF NoRaw, Fresh, Raws, Sealings
    <2> QED BY <2>1 DEF SealerInit, BlockType
  <1>3. FlagType /\ PlaceType
    BY DEF SealerInit, FlagType, PlaceType
  <1> QED BY <1>1, <1>2, <1>3, TypeParts

(* A block is locked, or committed at the end of the chain. *)
LEMMA ProgressTypes ==
  ASSUME ChainType, BlockType, NEW r \in Raws, Progress(r)
  PROVE  chain' \in chain..MaxNumber /\ locked' \in 0..MaxNumber + 1
  BY DEF Progress, ChainType, BlockType, Raws

LEMMA HandleOwnTypes ==
  ASSUME ChainType, BlockType, NEW n \in Int, NEW same,
         HandleOwn([number |-> n, view |-> view], same)
  PROVE  chain' \in chain..MaxNumber /\ locked' \in 0..MaxNumber + 1 /\ raw' \in Raws
  <1> DEFINE p == [number |-> n, view |-> view]
  <1>1. CASE UNCHANGED <<chain, raw, locked>>
    BY <1>1 DEF ChainType, BlockType
  <1>2. CASE p.number = highest + 1 /\ raw' = p /\ (Progress(p) \/ UNCHANGED <<chain, locked>>)
    <2>1. p \in Raws
      <3>1. n \in 0..MaxNumber + 1
        BY <1>2 DEF ChainType
      <3> QED BY <3>1 DEF ChainType, Raws
    <2> HIDE DEF p
    <2>2. chain' \in chain..MaxNumber /\ locked' \in 0..MaxNumber + 1
      <3>1. CASE Progress(p)
        BY <2>1, <3>1, ProgressTypes
      <3>2. CASE UNCHANGED <<chain, locked>>
        BY <3>2 DEF ChainType, BlockType
      <3> QED BY <1>2, <3>1, <3>2
    <2> QED BY <1>2, <2>1, <2>2
  <1>3. \/ UNCHANGED <<chain, raw, locked>>
        \/ p.number = highest + 1 /\ raw' = p /\ (Progress(p) \/ UNCHANGED <<chain, locked>>)
    BY DEF HandleOwn
  <1> QED BY <1>1, <1>2, <1>3

LEMMA FreshTypes ==
  ASSUME ChainType
  PROVE  Fresh(chain + 1) \in Sealings /\ Fresh(chain + 2) \in Sealings
  BY DEF ChainType, Fresh, Sealings

(* A step that leaves the numbers and the blocks alone. *)
LEMMA NumbersKept ==
  ASSUME SealerTypeOK, UNCHANGED <<chain, highest, head, view, raw, locked, sealing, proposed>>
  PROVE  ChainType' /\ BlockType' /\ HistoryType'
  BY TypeParts DEF ChainType, BlockType, HistoryType

LEMMA TypesOfSealer ==
  ASSUME SealerTypeOK, SealerThread
  PROVE  SealerTypeOK'
  <1> USE TypeParts
  <1>1. CASE SealerStart
    <2>1. ChainType' /\ BlockType' /\ HistoryType'
      BY <1>1 DEF SealerStart, ChainType, BlockType, HistoryType
    <2>2. FlagType' /\ PlaceType'
      BY <1>1 DEF SealerStart, FlagType, PlaceType
    <2> QED BY <2>1, <2>2
  <1>2. CASE reportBlock
    <2>1. ChainType' /\ BlockType' /\ HistoryType'
      BY <1>2 DEF reportBlock, ChainType, BlockType, HistoryType
    <2>2. FlagType' /\ PlaceType'
      BY <1>2 DEF reportBlock, FlagType, PlaceType
    <2> QED BY <2>1, <2>2
  <1>3. CASE ResetAfterReport \/ DropOversized
    <2>1. ChainType' /\ BlockType' /\ HistoryType'
      BY <1>3, FreshTypes DEF ResetAfterReport, DropOversized, ChainType, BlockType, HistoryType
    <2>2. FlagType' /\ PlaceType'
      BY <1>3 DEF ResetAfterReport, DropOversized, FlagType, PlaceType
    <2> QED BY <2>1, <2>2
  <1>4. CASE shouldSeal \/ LockSealing \/ NotEnough \/ Enough
    <2>1. UNCHANGED <<chain, highest, head, view, raw, locked, sealing, proposed>>
      BY <1>4 DEF shouldSeal, LockSealing, NotEnough, Enough
    <2>2. FlagType'
      BY <1>4 DEF shouldSeal, LockSealing, NotEnough, Enough, FlagType
    <2>3. PlaceType'
      <3>1. CASE shouldSeal
        <4>1. sealer' \in {"start", "rehandle", "seal"} /\ sealer = "check"
          BY <3>1, Zenon DEF shouldSeal
        <4> QED BY <3>1, <4>1 DEF shouldSeal, PlaceType
      <3>2. CASE LockSealing \/ NotEnough \/ Enough
        BY <3>2 DEF LockSealing, NotEnough, Enough, PlaceType
      <3> QED BY <1>4, <3>1, <3>2
    <2> QED BY <2>1, <2>2, <2>3, NumbersKept
  <1>5. CASE rehandleCommitedPrepareCache
    <2>1. chain' \in chain..MaxNumber /\ locked' \in 0..MaxNumber + 1 /\ raw' \in Raws
      <3>1. locked \in Int
        BY DEF BlockType
      <3> QED BY <1>5, <3>1, HandleOwnTypes DEF rehandleCommitedPrepareCache
    <2>2. UNCHANGED <<highest, head, view, sealing, proposed>>
      BY <1>5 DEF rehandleCommitedPrepareCache
    <2>3. ChainType' /\ BlockType' /\ HistoryType'
      BY <2>1, <2>2 DEF ChainType, BlockType, HistoryType
    <2>4. syncBlock' \in BOOLEAN
      BY <1>5, Zenon DEF rehandleCommitedPrepareCache
    <2>5. FlagType' /\ PlaceType'
      BY <1>5, <2>4 DEF rehandleCommitedPrepareCache, FlagType, PlaceType
    <2> QED BY <2>3, <2>5
  <1>6. CASE handleBlock
    <2>1. [number |-> chain + 1, sealed |-> TRUE] \in Sealings
      BY DEF ChainType, Sealings
    <2>2. ChainType' /\ BlockType' /\ HistoryType'
      BY <1>6, <2>1 DEF handleBlock, ChainType, BlockType, HistoryType
    <2>3. FlagType' /\ PlaceType'
      BY <1>6 DEF handleBlock, FlagType, PlaceType
    <2> QED BY <2>2, <2>3
  <1>7. ASSUME NEW empty \in BOOLEAN, generatePrepareLocked(empty) PROVE SealerTypeOK'
    <2>1. chain' \in chain..MaxNumber /\ locked' \in 0..MaxNumber + 1 /\ raw' \in Raws
      <3>1. CASE HandleOwn([number |-> sealing.number, view |-> view], FALSE)
        <4>1. sealing.number \in Int
          BY DEF BlockType, Sealings
        <4> QED BY <3>1, <4>1, HandleOwnTypes
      <3>2. CASE UNCHANGED <<chain, raw, locked>>
        BY <3>2 DEF ChainType, BlockType
      <3> QED BY <1>7, <3>1, <3>2, Zenon DEF generatePrepareLocked
    <2>2. HistoryType'
      <3>1. CASE proposed' = Append(proposed, [number |-> sealing.number, view |-> view])
                 /\ sealing.number = highest + 1
        <4>1. [number |-> sealing.number, view |-> view] \in [number : 1..MaxNumber + 1, view : 0..MaxView]
          BY <3>1 DEF ChainType
        <4> QED BY <3>1, <4>1 DEF HistoryType
      <3>2. CASE proposed' = proposed
        BY <3>2 DEF HistoryType
      <3> QED BY <1>7, <3>1, <3>2 DEF generatePrepareLocked
    <2>3. sealing' \in Sealings
      <3>1. CASE sealing' = sealing
        BY <3>1 DEF BlockType
      <3>2. CASE sealing' = Fresh(chain' + 1)
        <4>1. PICK c \in chain..MaxNumber : chain' = c
          BY <2>1
        <4>2. chain \in Nat
          BY DEF ChainType
        <4>3. c + 1 \in 1..MaxNumber + 2
          BY <4>2
        <4> QED BY <3>2, <4>1, <4>3 DEF Fresh, Sealings
      <3> QED BY <1>7, <3>1, <3>2, Zenon DEF generatePrepareLocked
    <2>4. ChainType' /\ BlockType'
      <3>1. UNCHANGED <<highest, head, view>>
        BY <1>7 DEF generatePrepareLocked
      <3> QED BY <2>1, <2>3, <3>1 DEF ChainType, BlockType
    <2>5. FlagType'
      <3>1. generatePrepare' \in BOOLEAN /\ leaderFailed' \in BOOLEAN /\ notifyNextLeaderSeal' \in BOOLEAN
        BY <1>7, Zenon DEF generatePrepareLocked, FlagType
      <3>2. syncBlock' \in BOOLEAN
        BY <1>7, Zenon DEF generatePrepareLocked
      <3> QED BY <3>1, <3>2 DEF FlagType
    <2>6. PlaceType'
      BY <1>7 DEF generatePrepareLocked, PlaceType
    <2> QED BY <2>2, <2>4, <2>5, <2>6
  <1> QED BY <1>1, <1>2, <1>3, <1>4, <1>5, <1>6, <1>7 DEF SealerThread

LEMMA TypesOfOthers ==
  ASSUME SealerTypeOK, EngineThread \/ SyncCommit \/ SyncReady \/ UNCHANGED sealerVars
  PROVE  SealerTypeOK'
  <1> USE TypeParts
  <1>1. CASE HandlePrepare
    <2>1. [number |-> highest + 1, view |-> view] \in Raws
      BY DEF ChainType, Raws
    <2>2. ChainType' /\ BlockType' /\ HistoryType'
      BY <1>1, <2>1 DEF HandlePrepare, ChainType, BlockType, HistoryType
    <2>3. FlagType'
      BY <1>1 DEF HandlePrepare, FlagType
    <2>4. PlaceType'
      BY <1>1 DEF HandlePrepare, PlaceType
    <2> QED BY <2>2, <2>3, <2>4
  <1>2. CASE resetBlockForNextLeader \/ resetBlockForViewChange
    <2>1. ChainType' /\ BlockType' /\ HistoryType'
      BY <1>2, FreshTypes DEF resetBlockForNextLeader, resetBlockForViewChange, ChainType, BlockType, HistoryType
    <2>2. FlagType' /\ PlaceType'
      BY <1>2 DEF resetBlockForNextLeader, resetBlockForViewChange, FlagType, PlaceType
    <2> QED BY <2>1, <2>2
  <1>3. CASE Executed \/ HandleSignOrCommit
    <2>1. chain' \in chain..MaxNumber /\ locked' \in 0..MaxNumber + 1
      <3>1. raw \in Raws /\ Progress(raw)
        BY <1>3 DEF Executed, HandleSignOrCommit, BlockType
      <3> QED BY <3>1, ProgressTypes
    <2>2. UNCHANGED <<highest, head, view, raw, sealing, proposed>>
      BY <1>3 DEF Executed, HandleSignOrCommit
    <2>3. ChainType' /\ BlockType' /\ HistoryType'
      BY <2>1, <2>2 DEF ChainType, BlockType, HistoryType
    <2>4. syncBlock' \in BOOLEAN
      BY <1>3, Zenon DEF Executed, HandleSignOrCommit
    <2>5. FlagType' /\ PlaceType'
      BY <1>3, <2>4 DEF Executed, HandleSignOrCommit, FlagType, PlaceType
    <2> QED BY <2>3, <2>5
  <1>4. CASE HandleViewChange \/ checkTimeout
    <2>1. view' \in 0..MaxView /\ raw' \in Raws
      <3>1. CASE changeView
        <4>1. PICK v \in (view + 1)..MaxView : view' = v
          BY <3>1 DEF changeView
        <4>2. NoRaw \in Raws
          BY DEF NoRaw, Raws
        <4> QED BY <3>1, <4>1, <4>2 DEF changeView, ChainType
      <3>2. CASE UNCHANGED <<view, raw>>
        BY <3>2 DEF ChainType, BlockType
      <3> QED BY <1>4, <3>1, <3>2 DEF HandleViewChange, checkTimeout
    <2>2. UNCHANGED <<chain, highest, head, locked, sealing, proposed>>
      BY <1>4 DEF HandleViewChange, checkTimeout
    <2>3. ChainType' /\ BlockType' /\ HistoryType'
      BY <2>1, <2>2 DEF ChainType, BlockType, HistoryType
    <2>4. leaderFailed' \in BOOLEAN
      BY <1>4, Zenon DEF HandleViewChange, checkTimeout, changeView
    <2>5. FlagType' /\ PlaceType'
      BY <1>4, <2>4 DEF HandleViewChange, checkTimeout, FlagType, PlaceType
    <2> QED BY <2>3, <2>5
  <1>5. CASE SyncCommit \/ SyncReady
    <2>1. ChainType' /\ BlockType' /\ HistoryType'
      BY <1>5 DEF SyncCommit, SyncReady, ChainType, BlockType, HistoryType
    <2>2. FlagType' /\ PlaceType'
      BY <1>5 DEF SyncCommit, SyncReady, FlagType, PlaceType
    <2> QED BY <2>1, <2>2
  <1>6. CASE UNCHANGED sealerVars
    <2>1. FlagType' /\ PlaceType'
      BY <1>6 DEF sealerVars, FlagType, PlaceType
    <2> QED BY <1>6, <2>1, NumbersKept DEF sealerVars
  <1> QED BY <1>1, <1>2, <1>3, <1>4, <1>5, <1>6 DEF EngineThread

LEMMA TypesInductive == SealerTypeOK /\ [SealerNext]_sealerVars => SealerTypeOK'
  BY TypesOfSealer, TypesOfOthers DEF SealerNext

(* What the two threads share is in its type, and a lock is held exactly       *)
(* between the steps that take it and give it back (x_sealing, m_mutex).   *)
THEOREM SealerTypeCorrect == SealerSpec => []SealerTypeOK
  BY InitiallyTyped, TypesInductive, PTL DEF SealerSpec

-----------------------------------------------------------------------------
(* The block that is proposed                                              *)

(* The sealer holds x_sealing from the load of the transactions to the       *)
(* proposal, so that the block cannot change under it (Sealer::doWork).    *)
THEOREM ProposedAsSealedCorrect == SealerSpec => ProposedAsSealed
  <1> DEFINE A == (sealer \in {"handle", "generate"} /\ sealer' = sealer) => UNCHANGED sealing
  <1>1. SealerTypeOK /\ [SealerNext]_sealerVars => [A]_sealerVars
    <2> SUFFICES ASSUME SealerTypeOK, SealerNext, sealer \in {"handle", "generate"}, sealer' = sealer
                 PROVE  UNCHANGED sealing
      OBVIOUS
    <2>1. xSealing = "sealer"
      BY DEF SealerTypeOK
    <2>2. ~SealerThread
      BY DEF SealerThread, SealerStart, reportBlock, ResetAfterReport, shouldSeal, rehandleCommitedPrepareCache,
             LockSealing, NotEnough, Enough, DropOversized, handleBlock, generatePrepareLocked
    <2> QED BY <2>1, <2>2 DEF SealerNext, EngineThread, HandlePrepare, resetBlockForNextLeader, Executed,
               HandleSignOrCommit, HandleViewChange, checkTimeout, resetBlockForViewChange, SyncCommit, SyncReady
  <1> QED BY <1>1, InitiallyTyped, TypesInductive, PTL DEF SealerSpec, ProposedAsSealed

LEMMA SealedInitially == SealerInit => SealedInv
  BY InitiallyTyped DEF SealerInit, SealedInv, SealerInv, NotifyInv, Fresh

LEMMA SealedInductive == SealedInv /\ [SealerNext]_sealerVars => SealedInv'
  <1> SUFFICES ASSUME SealedInv, [SealerNext]_sealerVars PROVE SealerInv' /\ NotifyInv'
    BY TypesInductive DEF SealedInv
  <1> USE DEF SealedInv, SealerInv, NotifyInv, Fresh
  <1>1. CASE handleBlock
    BY <1>1 DEF handleBlock
  <1>2. CASE \E empty \in BOOLEAN : generatePrepareLocked(empty)
    <2>1. mutex = "free" /\ engine # "notify"
      BY <1>2 DEF generatePrepareLocked, SealerTypeOK
    <2> QED BY <1>2, <2>1 DEF generatePrepareLocked
  <1>3. CASE shouldSeal
    <2>1. sealer' = "seal" => ~sealing.sealed
      BY <1>3, Zenon DEF shouldSeal
    <2>2. sealer' \in {"start", "rehandle", "seal"}
      BY <1>3, Zenon DEF shouldSeal
    <2> QED BY <1>3, <2>1, <2>2 DEF shouldSeal
  <1>4. CASE SealerStart \/ ResetAfterReport \/ LockSealing \/ NotEnough \/ Enough \/ DropOversized
    BY <1>4 DEF SealerStart, ResetAfterReport, LockSealing, NotEnough, Enough, DropOversized
  <1>5. CASE reportBlock \/ rehandleCommitedPrepareCache
    <2>1. engine # "notify" /\ UNCHANGED <<engine, sealing>> /\ sealer' \in {"reported", "start"}
      BY <1>5 DEF reportBlock, rehandleCommitedPrepareCache, SealerTypeOK
    <2> QED BY <2>1
  <1>6. CASE HandlePrepare
    <2>1. (view + highest) % N # Self
      BY <1>6 DEF HandlePrepare, IsLeader
    <2> QED BY <1>6, <2>1 DEF HandlePrepare
  <1>7. CASE resetBlockForNextLeader \/ resetBlockForViewChange
    <2>1. sealer # "generate" /\ engine' # "notify"
      BY <1>7 DEF resetBlockForNextLeader, resetBlockForViewChange, SealerTypeOK
    <2>2. UNCHANGED sealer /\ (UNCHANGED sealing \/ ~sealing'.sealed)
      BY <1>7 DEF resetBlockForNextLeader, resetBlockForViewChange
    <2> QED BY <2>1, <2>2
  <1>8. CASE Executed \/ HandleSignOrCommit \/ HandleViewChange \/ checkTimeout \/ SyncCommit \/ SyncReady
             \/ UNCHANGED sealerVars
    <2>1. UNCHANGED <<sealer, sealing>>
      BY <1>8 DEF Executed, HandleSignOrCommit, HandleViewChange, checkTimeout, SyncCommit, SyncReady, sealerVars
    <2>2. engine' = "notify" => engine = "notify" /\ UNCHANGED <<view, highest>>
      BY <1>8 DEF Executed, HandleSignOrCommit, HandleViewChange, checkTimeout, SyncCommit, SyncReady, sealerVars
    <2> QED BY <2>1, <2>2
  <1> QED BY <1>1, <1>2, <1>3, <1>4, <1>5, <1>6, <1>7, <1>8 DEF SealerNext, SealerThread, EngineThread

-----------------------------------------------------------------------------
(* One proposal                                                            *)

LEMMA SeqElements ==
  ASSUME NEW S, NEW s \in Seq(S)
  PROVE  Len(s) \in Nat /\ \A i \in 1..Len(s) : s[i] \in S
  OBVIOUS

LEMMA ProposedTypes ==
  ASSUME SealedInv
  PROVE  /\ chain \in Nat /\ highest \in Nat /\ highest <= chain /\ view \in Nat
         /\ Len(proposed) \in Nat
         /\ \A i \in 1..Len(proposed) : proposed[i] \in [number : Nat, view : Nat]
  <1>1. ChainType /\ HistoryType
    BY TypeParts DEF SealedInv
  <1>2. chain \in Nat /\ highest \in Nat /\ highest <= chain /\ view \in Nat
    BY <1>1 DEF ChainType
  <1>3. Len(proposed) \in Nat /\ \A i \in 1..Len(proposed) : proposed[i] \in [number : 1..MaxNumber + 1, view : 0..MaxView]
    BY <1>1, SeqElements, Zenon DEF HistoryType
  <1>4. ASSUME NEW i \in 1..Len(proposed) PROVE proposed[i] \in [number : Nat, view : Nat]
    <2>1. PICK p \in [number : 1..MaxNumber + 1, view : 0..MaxView] : proposed[i] = p
      BY <1>3
    <2>2. p \in [number : Nat, view : Nat]
      BY SealerAssumption
    <2> QED BY <2>1, <2>2
  <1> QED BY <1>2, <1>3, <1>4

(* The engine enters a new height or view: nothing has been proposed for it. *)
LEMMA NextTurn ==
  ASSUME SealedInv, ProposedInv, proposed' = proposed,
         NEW h \in Nat, NEW v \in Nat, highest' = h, view' = v,
         h > highest \/ (h = highest /\ v > view)
  PROVE  ProposedInv'
  <1>1. ASSUME NEW i \in 1..Len(proposed)
        PROVE  /\ proposed[i].number <= h + 1
               /\ proposed[i].number = h + 1 => proposed[i].view < v
    BY <1>1, ProposedTypes DEF ProposedInv, ProposedBefore
  <1>2. ProposedBefore'
    <2> SUFFICES ASSUME NEW i \in 1..Len(proposed)
                 PROVE  /\ proposed[i].number <= h + 1
                        /\ proposed[i].number = h + 1 => proposed[i].view <= v
      BY DEF ProposedBefore
    <2> QED BY <1>1, ProposedTypes
  <1>3. ~Proposed'
    <2> SUFFICES ASSUME NEW i \in 1..Len(proposed), proposed[i] = [number |-> h + 1, view |-> v]
                 PROVE  FALSE
      BY DEF Proposed, Now
    <2> QED BY <1>1, ProposedTypes
  <1> QED BY <1>2, <1>3 DEF ProposedInv, ProposedNow, ProposesOnce

(* The engine stays where it is: what was proposed is still kept, or no longer *)
(* matters.                                                                *)
LEMMA SameTurn ==
  ASSUME SealedInv, ProposedInv, UNCHANGED <<proposed, highest, view>>,
         NEW c \in Nat, chain' = c, c >= chain,
         leaderFailed => leaderFailed',
         Proposed /\ ~leaderFailed' =>
           /\ sealing' = sealing \/ chain > highest
           /\ sealer' = "generate" => sealing'.number # highest + 1
  PROVE  ProposedInv'
  <1>1. ProposedBefore' /\ ProposesOnce' /\ (Proposed' <=> Proposed)
    BY DEF ProposedInv, ProposedBefore, ProposesOnce, Proposed, Now
  <1>2. ASSUME Proposed', ~leaderFailed'
        PROVE  /\ (view + highest) % N = Self
               /\ c > highest \/ sealing' = [number |-> highest + 1, sealed |-> TRUE]
               /\ sealer' = "generate" => sealing'.number # highest + 1
    <2>1. Proposed /\ ~leaderFailed
      BY <1>1, <1>2
    <2>2. /\ (view + highest) % N = Self
          /\ chain > highest \/ sealing = [number |-> highest + 1, sealed |-> TRUE]
      BY <2>1 DEF ProposedInv, ProposedNow
    <2>3. chain > highest => c > highest
      BY ProposedTypes
    <2> QED BY <1>2, <2>1, <2>2, <2>3
  <1>3. Proposed' => (view' + highest') % N = Self
    BY <1>1 DEF ProposedInv, ProposedNow
  <1>4. ProposedNow'
    BY <1>2, <1>3 DEF ProposedNow
  <1> QED BY <1>1, <1>4 DEF ProposedInv

(* A proposed block is kept as long as it is the chain's next one. *)
LEMMA ProposedIsKept ==
  ASSUME SealedInv, ProposedInv, Proposed, ~leaderFailed
  PROVE  IsLeader /\ (chain > highest \/ Kept)
  BY ProposedTypes DEF ProposedInv, ProposedNow, IsLeader, Kept, shouldHandleBlock

LEMMA ChainGrows ==
  ASSUME SealedInv, [SealerNext]_sealerVars
  PROVE  chain' \in Nat /\ chain' >= chain
  <1>1. \A r : Progress(r) => chain' \in Nat /\ chain' >= chain
    BY ProposedTypes DEF Progress
  <1>2. \A r, same : HandleOwn(r, same) => chain' \in Nat /\ chain' >= chain
    BY <1>1, ProposedTypes DEF HandleOwn
  <1>3. CASE UNCHANGED chain
    BY <1>3, ProposedTypes
  <1>4. CASE rehandleCommitedPrepareCache
    BY <1>2, <1>4 DEF rehandleCommitedPrepareCache
  <1>5. CASE \E empty \in BOOLEAN : generatePrepareLocked(empty)
    BY <1>2, <1>3, <1>5, Zenon DEF generatePrepareLocked
  <1>6. CASE Executed \/ HandleSignOrCommit
    BY <1>1, <1>6 DEF Executed, HandleSignOrCommit
  <1>7. CASE SyncCommit
    BY <1>7, ProposedTypes DEF SyncCommit
  <1> QED BY <1>3, <1>4, <1>5, <1>6, <1>7 DEF SealerNext, SealerThread, EngineThread, SealerStart, reportBlock,
       ResetAfterReport, shouldSeal, LockSealing, NotEnough, Enough, DropOversized, handleBlock, HandlePrepare,
       resetBlockForNextLeader, HandleViewChange, checkTimeout, resetBlockForViewChange, SyncReady, sealerVars

(* generatePrepare: a block for the engine's height is only proposed when none *)
(* has been, and then kept or given up.                                    *)
LEMMA ProposalKept ==
  ASSUME SealedInv, ProposedInv, NEW empty \in BOOLEAN, generatePrepareLocked(empty),
         [SealerNext]_sealerVars
  PROVE  ProposedInv'
  <1>1. UNCHANGED <<highest, view>> /\ sealer = "generate" /\ sealer' = "start"
    BY DEF generatePrepareLocked
  <1>2. sealing.sealed
    BY <1>1 DEF SealedInv, SealerInv
  <1>3. PICK c \in Nat : chain' = c /\ c >= chain
    BY ChainGrows
  <1>4. CASE IsLeader /\ sealing.number = highest + 1
    <2>1. ~Proposed
      BY <1>1, <1>4 DEF ProposedInv, ProposedNow, IsLeader
    <2>2. proposed' = Append(proposed, Now) /\ Now \in [number : Nat, view : Nat]
      <3>1. Now \in [number : Nat, view : Nat]
        BY ProposedTypes DEF Now
      <3> QED BY <1>4, <3>1 DEF generatePrepareLocked, Now
    <2>3. /\ Len(proposed') = Len(proposed) + 1 /\ proposed'[Len(proposed) + 1] = Now
          /\ \A i \in 1..Len(proposed) : proposed'[i] = proposed[i]
      BY <2>2 DEF SealedInv, SealerTypeOK
    <2>4. ProposesOnce'
      <3> SUFFICES ASSUME NEW i \in 1..(Len(proposed) + 1), NEW j \in 1..(Len(proposed) + 1), i # j
                   PROVE  proposed'[i] # proposed'[j]
        BY <2>3 DEF ProposesOnce
      <3>1. \A k \in 1..Len(proposed) : proposed[k] # Now
        BY <2>1 DEF Proposed
      <3>2. \A k, l \in 1..Len(proposed) : k # l => proposed[k] # proposed[l]
        BY DEF ProposedInv, ProposesOnce
      <3>3. CASE i = Len(proposed) + 1
        BY <2>3, <3>1, <3>3, ProposedTypes
      <3>4. CASE j = Len(proposed) + 1
        BY <2>3, <3>1, <3>4, ProposedTypes
      <3>5. CASE i # Len(proposed) + 1 /\ j # Len(proposed) + 1
        BY <2>3, <3>2, <3>5, ProposedTypes
      <3> QED BY <3>3, <3>4, <3>5
    <2>5. ProposedBefore'
      <3> SUFFICES ASSUME NEW i \in 1..(Len(proposed) + 1)
                   PROVE  /\ proposed'[i].number <= highest + 1
                          /\ proposed'[i].number = highest + 1 => proposed'[i].view <= view
        BY <1>1, <2>3 DEF ProposedBefore
      <3>1. CASE i = Len(proposed) + 1
        BY <2>3, <3>1, ProposedTypes DEF Now
      <3>2. CASE i \in 1..Len(proposed)
        BY <2>3, <3>2 DEF ProposedInv, ProposedBefore
      <3> QED BY <3>1, <3>2, ProposedTypes
    <2>6. ProposedNow'
      <3>1. (view + highest) % N = Self
        BY <1>4 DEF IsLeader
      <3>2. leaderFailed' \/ sealing' = [number |-> highest + 1, sealed |-> TRUE]
        <4>1. leaderFailed' \/ sealing' = sealing
          BY <1>4, Zenon DEF generatePrepareLocked
        <4>2. sealing = [number |-> highest + 1, sealed |-> TRUE]
          BY <1>2, <1>4 DEF SealedInv, SealerTypeOK
        <4> QED BY <4>1, <4>2
      <3> QED BY <1>1, <3>1, <3>2 DEF ProposedNow
    <2> QED BY <2>4, <2>5, <2>6 DEF ProposedInv
  <1>5. CASE ~(IsLeader /\ sealing.number = highest + 1)
    <2>1. proposed' = proposed
      BY <1>5, Zenon DEF generatePrepareLocked
    <2>2. leaderFailed => leaderFailed'
      BY Zenon DEF generatePrepareLocked, IsLeader
    <2>3. Proposed /\ ~leaderFailed' => sealing' = sealing
      <3> SUFFICES ASSUME Proposed, ~leaderFailed' PROVE ~empty
        BY Zenon DEF generatePrepareLocked
      <3>1. IsLeader
        BY <2>2, ProposedIsKept
      <3> QED BY <3>1, Zenon DEF generatePrepareLocked
    <2> QED BY <1>1, <1>3, <2>1, <2>2, <2>3, SameTurn
  <1> QED BY <1>4, <1>5

LEMMA ProposedInitially == SealerInit => ProposedInv
  BY DEF SealerInit, ProposedInv, ProposedBefore, ProposedNow, Proposed, ProposesOnce

LEMMA ProposedInductive == SealedInv /\ ProposedInv /\ [SealerNext]_sealerVars => ProposedInv'
  <1> SUFFICES ASSUME SealedInv, ProposedInv, [SealerNext]_sealerVars PROVE ProposedInv'
    OBVIOUS
  <1>1. PICK c \in Nat : chain' = c /\ c >= chain
    BY ChainGrows
  <1>2. CASE \E empty \in BOOLEAN : generatePrepareLocked(empty)
    BY <1>2, ProposalKept
  <1>3. CASE handleBlock
    <2>1. Proposed /\ ~leaderFailed' =>
            (sealing' = sealing \/ chain > highest) /\ sealing'.number # highest + 1
      <3> SUFFICES ASSUME Proposed, ~leaderFailed
                   PROVE  chain > highest /\ sealing'.number # highest + 1
        BY <1>3 DEF handleBlock
      <3>1. ~sealing.sealed
        BY <1>3 DEF handleBlock, SealedInv, SealerInv
      <3>2. chain > highest
        BY <3>1, ProposedIsKept DEF Kept
      <3>3. sealing'.number = chain + 1
        BY <1>3 DEF handleBlock
      <3> QED BY <3>2, <3>3, ProposedTypes
    <2>2. UNCHANGED <<proposed, highest, view, leaderFailed>>
      BY <1>3 DEF handleBlock
    <2> QED BY <1>1, <2>1, <2>2, SameTurn
  <1>4. CASE ResetAfterReport \/ resetBlockForViewChange \/ DropOversized
    <2>1. Kept => sealing' = sealing
      BY <1>4 DEF ResetAfterReport, resetBlockForViewChange, DropOversized, Kept, SealedInv, SealerInv
    <2>2. UNCHANGED <<proposed, highest, view, leaderFailed>>
      BY <1>4 DEF ResetAfterReport, resetBlockForViewChange, DropOversized
    <2>3. sealer' # "generate"
      BY <1>4 DEF ResetAfterReport, resetBlockForViewChange, DropOversized, SealedInv, SealerTypeOK
    <2> QED BY <1>1, <2>1, <2>2, <2>3, ProposedIsKept, SameTurn
  <1>5. CASE resetBlockForNextLeader
    <2>1. ~Proposed
      BY <1>5 DEF resetBlockForNextLeader, SealedInv, NotifyInv, ProposedInv, ProposedNow
    <2> QED BY <1>1, <1>5, <2>1, SameTurn DEF resetBlockForNextLeader
  <1>6. CASE reportBlock
    <2>1. CASE highest < head
      <3>1. head \in Nat /\ 0 \in Nat /\ highest' = head /\ view' = 0 /\ proposed' = proposed
        BY <1>6, <2>1 DEF reportBlock, SealedInv, SealerTypeOK
      <3> QED BY <2>1, <3>1, NextTurn
    <2>2. CASE ~(highest < head)
      <3>1. UNCHANGED <<proposed, highest, view, leaderFailed, sealing>> /\ sealer' = "reported"
        BY <1>6, <2>2, Zenon DEF reportBlock
      <3> QED BY <1>1, <3>1, SameTurn
    <2> QED BY <2>1, <2>2
  <1>7. CASE (HandleViewChange \/ checkTimeout) /\ changeView
    <2>1. PICK v \in (view + 1)..MaxView : view' = v
      BY <1>7 DEF changeView
    <2>2. v \in Nat /\ v > view /\ highest \in Nat
      BY <2>1, ProposedTypes
    <2>3. UNCHANGED <<proposed, highest>>
      BY <1>7 DEF HandleViewChange, checkTimeout
    <2> QED BY <2>1, <2>2, <2>3, NextTurn
  <1>8. CASE checkTimeout /\ ~changeView
    <2>1. UNCHANGED <<proposed, highest, view, sealing, sealer>> /\ leaderFailed'
      BY <1>8 DEF checkTimeout
    <2> QED BY <1>1, <2>1, SameTurn
  <1>9. CASE \/ SealerStart \/ shouldSeal \/ LockSealing \/ NotEnough \/ Enough \/ rehandleCommitedPrepareCache
             \/ HandlePrepare \/ Executed \/ HandleSignOrCommit \/ SyncCommit \/ SyncReady \/ UNCHANGED sealerVars
    <2>1. UNCHANGED <<proposed, highest, view, leaderFailed, sealing>>
      BY <1>9 DEF SealerStart, shouldSeal, LockSealing, NotEnough, Enough, rehandleCommitedPrepareCache,
                  HandlePrepare, Executed, HandleSignOrCommit, SyncCommit, SyncReady, sealerVars
    <2>2. sealer' = "generate" => sealer = "generate"
      <3>1. CASE shouldSeal
        <4>1. sealer' \in {"start", "rehandle", "seal"}
          BY <3>1, Zenon DEF shouldSeal
        <4> QED BY <4>1
      <3>2. CASE ~shouldSeal
        BY <1>9, <3>2 DEF SealerStart, LockSealing, NotEnough, Enough, rehandleCommitedPrepareCache,
                    HandlePrepare, Executed, HandleSignOrCommit, SyncCommit, SyncReady, sealerVars
      <3> QED BY <3>1, <3>2
    <2>3. Proposed /\ ~leaderFailed /\ sealer = "generate" => sealing.number # highest + 1
      BY DEF ProposedInv, ProposedNow
    <2> QED BY <1>1, <2>1, <2>2, <2>3, SameTurn
  <1> QED BY <1>2, <1>3, <1>4, <1>5, <1>6, <1>7, <1>8, <1>9
      DEF SealerNext, SealerThread, EngineThread, HandleViewChange

(* The leader proposes at most one block for its height and view, in whatever  *)
(* order the sealer, the engine and the download reset the block that is      *)
(* being sealed (shouldResetSealing, resetBlockForViewChange).             *)
THEOREM ProposesOnceCorrect == SealerSpec => []ProposesOnce
  <1>1. ProposedInv => ProposesOnce
    BY DEF ProposedInv
  <1> QED BY <1>1, SealedInitially, SealedInductive, ProposedInitially, ProposedInductive, PTL DEF SealerSpec
==============================================================================
