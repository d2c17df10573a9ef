---------------------------- MODULE SealerThreads ----------------------------
(***************************************************************************)
(* The two threads of a PBFT node that share the block being sealed: the   *)
(* sealer (Sealer::doWork) and the engine (PBFTEngine::workLoop), beside   *)
(* the thread that commits synchronised blocks.  Unlike in PBFT, where a   *)
(* handler is one action, a step here ends wherever a lock is taken or     *)
(* given back or another thread can be seen: the locks x_sealing and       *)
(* m_mutex are taken in both orders, and m_generatePrepare is read and     *)
(* written outside of them.                                                *)
(*                                                                         *)
(* What the other nodes send is left open: the engine meets any request    *)
(* that its own state admits.                                              *)
(***************************************************************************)
EXTENDS Naturals, Sequences

CONSTANTS N,          \* m_nodeNum
          Self,       \* nodeIdx()
          MaxNumber,  \* bound: blocks in the chain
          MaxView     \* bound: views per height

ASSUME SealerAssumption == MaxNumber \in Nat /\ MaxView \in Nat

VARIABLES
  chain,              \* m_blockChain->number()
  highest,            \* m_highestBlock.number()
  view,               \* m_view
  leaderFailed,       \* m_leaderFailed
  raw,                \* number and view of the raw prepare, number 0 if cleared
  locked,             \* the number of the committed prepare
  sealing,            \* m_sealing.block: its number and isSealed()
  generatePrepare,    \* m_generatePrepare
  notifyNextLeaderSeal, \* m_notifyNextLeaderSeal
  syncBlock,          \* m_syncBlock: the sealer shall report a new block
  xSealing,           \* who holds x_sealing
  mutex,              \* who holds m_mutex
  sealer,             \* where the sealer thread is
  head,               \* the number it read in reportNewBlock
  engine,             \* where the engine thread is
  syncer,             \* where the thread that commits synchronised blocks is
  proposed            \* history: number and view of the new blocks proposed
                      \* for the height the engine is at

locks == <<xSealing, mutex>>
consensus == <<highest, view, leaderFailed, raw, locked>>
flags == <<generatePrepare, notifyNextLeaderSeal>>
sealerVars == <<chain, consensus, sealing, flags, syncBlock, locks, sealer, head, engine, syncer,
          proposed>>

NoRaw == [number |-> 0, view |-> 0]

IsLeader == ~leaderFailed /\ (view + highest) % N = Self
IsNextLeader == (highest + 1) % N = Self

shouldHandleBlock == sealing.number = chain + 1 /\ IsLeader

\* (a mutant: the sealed block is never worth keeping)
NeverKept == FALSE
Kept == sealing.sealed /\ shouldHandleBlock

Fresh(n) == [number |-> n, sealed |-> FALSE]

(* checkAndCommit and checkAndSave on the block of the raw prepare: it may be
   locked, or committed when it extends the chain.  The engine has the lock. *)
Progress(r) ==
  \/ UNCHANGED <<chain, locked>>
  \/ locked' = r.number /\ UNCHANGED chain
  \/ /\ r.number = chain + 1 /\ chain < MaxNumber
     /\ locked' = r.number /\ chain' = r.number

-----------------------------------------------------------------------------
(* The sealer thread *)

(* reportNewBlock looks up the head of the chain before it takes m_mutex. *)
SealerStart ==
  /\ sealer = "start"
  /\ IF syncBlock THEN sealer' = "report" /\ head' = chain
                  ELSE sealer' = "check" /\ UNCHANGED head
  /\ syncBlock' = FALSE
  /\ UNCHANGED <<chain, consensus, sealing, flags, locks, engine, syncer, proposed>>

reportBlock ==
  /\ sealer = "report" /\ mutex = "free"
  /\ IF highest < head
     THEN highest' = head /\ view' = 0 /\ leaderFailed' = FALSE
     ELSE UNCHANGED <<highest, view, leaderFailed>>
  /\ sealer' = "reported"
  /\ UNCHANGED <<chain, raw, locked, sealing, flags, syncBlock, locks, head, engine, syncer,
                 proposed>>

(* The rest of reportNewBlock, with shouldResetSealing of PBFTSealer. *)
ResetAfterReport ==
  /\ sealer = "reported" /\ xSealing = "free"
  /\ sealing' = IF /\ ~Kept
                   /\ sealing.sealed \/ sealing.number <= chain
                   /\ IsLeader
                THEN Fresh(chain + 1) ELSE sealing
  /\ sealer' = "check"
  /\ UNCHANGED <<chain, consensus, flags, syncBlock, locks, head, engine, syncer, proposed>>

(* shouldSeal of the sealer and of the engine, read without a common lock. *)
shouldSeal ==
  /\ sealer = "check" /\ xSealing = "free"
  /\ sealer' =
       CASE sealing.sealed \/ leaderFailed -> "start"
         [] ~sealing.sealed /\ IsLeader /\ locked = highest + 1 /\ raw.number # highest + 1
              -> "rehandle"
         [] ~sealing.sealed /\ IsLeader /\ locked # highest + 1 -> "seal"
         [] ~sealing.sealed /\ ~leaderFailed /\ ~IsLeader /\ notifyNextLeaderSeal /\ IsNextLeader
              -> "seal"
         [] OTHER -> "start"
  /\ UNCHANGED <<chain, consensus, sealing, flags, syncBlock, locks, head, engine, syncer,
                 proposed>>

(* handlePrepareMsg of an own prepare: a valid one is the new raw prepare, one
   that extends the chain is signed as well. *)
HandleOwn(p, sameAsLocked) ==
  IF p.number = highest + 1 /\ IsLeader /\ (locked = p.number => sameAsLocked) /\ raw # p
  THEN raw' = p /\ IF p.number = chain + 1 THEN Progress(p) ELSE UNCHANGED <<chain, locked>>
  ELSE UNCHANGED <<chain, raw, locked>>

(* The locked block is proposed again, in whatever view it is by then. *)
rehandleCommitedPrepareCache ==
  /\ sealer = "rehandle" /\ mutex = "free"
  /\ HandleOwn([number |-> locked, view |-> view], TRUE)
  /\ syncBlock' = (syncBlock \/ chain' # chain)
  /\ sealer' = "start"
  /\ UNCHANGED <<highest, view, leaderFailed, sealing, flags, locks, head, engine, syncer,
                 proposed>>

LockSealing ==
  /\ sealer = "seal" /\ xSealing = "free"
  /\ xSealing' = "sealer"
  /\ sealer' = "load"
  /\ UNCHANGED <<chain, consensus, sealing, flags, syncBlock, mutex, head, engine, syncer,
                 proposed>>

(* checkTxsEnough fails, or the block is not the one to handle. *)
NotEnough ==
  /\ sealer = "load"
  /\ xSealing' = "free"
  /\ sealer' = "start"
  /\ UNCHANGED <<chain, consensus, sealing, flags, syncBlock, mutex, head, engine, syncer,
                 proposed>>

Enough ==
  /\ sealer = "load" /\ shouldHandleBlock
  /\ sealer' = "handle"
  /\ UNCHANGED <<chain, consensus, sealing, flags, syncBlock, locks, head, engine, syncer,
                 proposed>>

(* handleBlock: a block with more transactions than are allowed by now, which the
   next leader may have loaded earlier, is dropped. *)
DropOversized ==
  /\ sealer = "handle"
  /\ sealing' = Fresh(chain + 1)
  /\ xSealing' = "free"
  /\ sealer' = "start"
  /\ UNCHANGED <<chain, consensus, flags, syncBlock, mutex, head, engine, syncer, proposed>>

(* setBlock seals any other onto the head of the chain. *)
handleBlock ==
  /\ sealer = "handle"
  /\ sealing' = [number |-> chain + 1, sealed |-> TRUE]
  /\ generatePrepare' = TRUE
  /\ sealer' = "generate"
  /\ UNCHANGED <<chain, consensus, notifyNextLeaderSeal, syncBlock, locks, head, engine, syncer,
                 proposed>>

(* generatePrepare once it has m_mutex, and the release of x_sealing.  An empty
   block gives the leader's turn away and leaves m_generatePrepare set. *)
generatePrepareLocked(empty) ==
  /\ sealer = "generate" /\ mutex = "free"
  /\ IF IsLeader
     THEN /\ notifyNextLeaderSeal' = FALSE
          /\ generatePrepare' = empty
          /\ leaderFailed' = empty
          /\ proposed' = IF sealing.number = highest + 1
                         THEN Append(proposed, [number |-> sealing.number, view |-> view])
                         ELSE proposed
          /\ IF empty THEN UNCHANGED <<chain, raw, locked>>
                      ELSE HandleOwn([number |-> sealing.number, view |-> view], FALSE)
     ELSE /\ generatePrepare' = FALSE
          /\ UNCHANGED <<chain, raw, locked, leaderFailed, notifyNextLeaderSeal, proposed>>
  /\ sealing' = IF empty THEN Fresh(chain' + 1) ELSE sealing
  /\ syncBlock' = (syncBlock \/ chain' # chain)
  /\ xSealing' = "free"
  /\ sealer' = "start"
  /\ UNCHANGED <<highest, view, mutex, head, engine, syncer>>

-----------------------------------------------------------------------------
(* The engine thread *)

(* The prepare of another leader is executed: notifySealing reads the flag
   that the sealer sets without a lock, then goes for x_sealing. *)
HandlePrepare ==
  /\ engine = "idle" /\ mutex = "free"
  /\ ~leaderFailed /\ ~IsLeader
  /\ highest = chain /\ chain < MaxNumber
  /\ raw # [number |-> highest + 1, view |-> view]
  /\ mutex' = "engine"
  /\ raw' = [number |-> highest + 1, view |-> view]
  /\ IF ~generatePrepare /\ IsNextLeader
     THEN engine' = "notify" /\ notifyNextLeaderSeal' = TRUE
     ELSE engine' = "execute" /\ UNCHANGED notifyNextLeaderSeal
  /\ UNCHANGED <<chain, highest, view, leaderFailed, locked, sealing, generatePrepare, syncBlock,
                 xSealing, sealer, head, syncer, proposed>>

resetBlockForNextLeader ==
  /\ engine = "notify" /\ xSealing = "free"
  /\ sealing' = Fresh(chain + 2)
  /\ engine' = "execute"
  /\ UNCHANGED <<chain, consensus, flags, syncBlock, locks, sealer, head, syncer, proposed>>

(* The rest of handlePrepareMsg; onReady reports a commit to the sealer. *)
Executed ==
  /\ engine = "execute"
  /\ Progress(raw)
  /\ syncBlock' = (syncBlock \/ chain' # chain)
  /\ mutex' = "free"
  /\ engine' = "idle"
  /\ UNCHANGED <<highest, view, leaderFailed, raw, sealing, flags, xSealing, sealer, head, syncer,
                 proposed>>

(* A sign or commit request completes a quorum for the prepared block. *)
HandleSignOrCommit ==
  /\ engine = "idle" /\ mutex = "free"
  /\ raw = [number |-> highest + 1, view |-> view]
  /\ Progress(raw)
  /\ syncBlock' = (syncBlock \/ chain' # chain)
  /\ UNCHANGED <<highest, view, leaderFailed, raw, sealing, flags, locks, sealer, head, engine,
                 syncer, proposed>>

changeView ==
  /\ \E v \in (view + 1)..MaxView : view' = v
  /\ leaderFailed' = FALSE
  /\ raw' = NoRaw

(* View change requests of the others complete a quorum; the sealing block is
   not reset. *)
HandleViewChange ==
  /\ engine = "idle" /\ mutex = "free"
  /\ changeView
  /\ UNCHANGED <<chain, highest, locked, sealing, flags, syncBlock, locks, sealer, head, engine,
                 syncer, proposed>>

(* checkTimeout gives m_mutex back before it calls m_onViewChange. *)
checkTimeout ==
  /\ engine = "idle" /\ mutex = "free"
  /\ \/ changeView
     \/ leaderFailed' = TRUE /\ UNCHANGED <<view, raw>>
  /\ engine' = "timeout"
  /\ UNCHANGED <<chain, highest, locked, sealing, flags, syncBlock, locks, sealer, head, syncer,
                 proposed>>

\* (a mutant: the block is reset without its lock)
ResetUnlocked ==
  /\ engine = "timeout"
  /\ sealing' = IF Kept THEN sealing ELSE Fresh(chain + 1)
  /\ engine' = "idle"
  /\ UNCHANGED <<chain, consensus, flags, syncBlock, locks, sealer, head, syncer, proposed>>

resetBlockForViewChange ==
  /\ engine = "timeout" /\ xSealing = "free"
  /\ sealing' = IF Kept THEN sealing ELSE Fresh(chain + 1)
  /\ engine' = "idle"
  /\ UNCHANGED <<chain, consensus, flags, syncBlock, locks, sealer, head, syncer, proposed>>

-----------------------------------------------------------------------------
(* The number of the chain moves before onReady tells the sealer. *)
SyncCommit ==
  /\ syncer = "idle" /\ chain < MaxNumber
  /\ chain' = chain + 1
  /\ syncer' = "ready"
  /\ UNCHANGED <<consensus, sealing, flags, syncBlock, locks, sealer, head, engine, proposed>>

SyncReady ==
  /\ syncer = "ready"
  /\ syncBlock' = TRUE
  /\ syncer' = "idle"
  /\ UNCHANGED <<chain, consensus, sealing, flags, locks, sealer, head, engine, proposed>>

-----------------------------------------------------------------------------
SealerInit ==
  /\ chain = 0 /\ highest = 0 /\ view = 0 /\ head = 0
  /\ leaderFailed = FALSE
  /\ raw = NoRaw /\ locked = 0
  /\ sealing = Fresh(1)
  /\ generatePrepare = FALSE /\ notifyNextLeaderSeal = FALSE /\ syncBlock = FALSE
  /\ xSealing = "free" /\ mutex = "free"
  /\ sealer = "start" /\ engine = "idle" /\ syncer = "idle"
  /\ proposed = << >>

SealerThread ==
  \/ SealerStart \/ reportBlock \/ ResetAfterReport \/ shouldSeal
  \/ rehandleCommitedPrepareCache \/ LockSealing \/ NotEnough \/ Enough \/ DropOversized
  \/ handleBlock
  \/ \E empty \in BOOLEAN : generatePrepareLocked(empty)

EngineThread ==
  \/ HandlePrepare \/ resetBlockForNextLeader \/ Executed \/ HandleSignOrCommit
  \/ HandleViewChange \/ checkTimeout \/ resetBlockForViewChange

SealerNext == SealerThread \/ EngineThread \/ SyncCommit \/ SyncReady

SealerSpec == SealerInit /\ [][SealerNext]_sealerVars

-----------------------------------------------------------------------------
(* Type correctness, with the owners of the locks: a lock is held exactly
   between the steps that take it and give it back. *)
SealerTypeOK ==
  /\ chain \in 0..MaxNumber /\ highest \in 0..chain /\ head \in 0..chain
  /\ view \in 0..MaxView
  /\ leaderFailed \in BOOLEAN /\ generatePrepare \in BOOLEAN
  /\ notifyNextLeaderSeal \in BOOLEAN /\ syncBlock \in BOOLEAN
  /\ raw \in [number : 0..MaxNumber + 1, view : 0..MaxView] /\ locked \in 0..MaxNumber + 1
  /\ sealing \in [number : 1..MaxNumber + 2, sealed : BOOLEAN]
  /\ sealer \in {"start", "report", "reported", "check", "rehandle", "seal", "load", "handle",
                 "generate"}
  /\ engine \in {"idle", "notify", "execute", "timeout"} /\ syncer \in {"idle", "ready"}
  /\ xSealing = IF sealer \in {"load", "handle", "generate"} THEN "sealer" ELSE "free"
  /\ mutex = IF engine \in {"notify", "execute"} THEN "engine" ELSE "free"
  /\ proposed \in Seq([number : 1..MaxNumber + 1, view : 0..MaxView])

(* The leader proposes at most one block for its height and view, whatever
   resets of the sealing block by the three threads fall between sealing and
   proposing (the cases told in shouldResetSealing and resetBlockForViewChange). *)
ProposesOnce ==
  \A i, j \in 1..Len(proposed) : i # j => proposed[i] # proposed[j]

(* Between setBlock and generatePrepare no other thread touches the block: it
   is proposed as it was sealed (doWork holds x_sealing all along). *)
ProposedAsSealed ==
  [][(sealer \in {"handle", "generate"} /\ sealer' = sealer) => UNCHANGED sealing]_sealerVars

(* generatePrepare's flag keeps the two threads from waiting for each other's
   lock: the sealer for m_mutex with x_sealing held, the engine the other way. *)
NoLockCycle == ~(sealer = "generate" /\ engine = "notify")
=============================================================================
