---------------------------- MODULE RotatingPBFT ----------------------------
(* The sealers that take part in the consensus of a node that rotates them   *)
(* (RotatingPBFTEngine).  resetConfig moves a window over the sorted list of *)
(* sealers by at most one place per call, from what the engine remembers; it *)
(* is called for downloaded blocks and for reported ones.  Blocks may change *)
(* the list of sealers and the configuration.  Left out: the consensus of a  *)
(* block (module PBFT), views, m_idx, and the transactions that are passed   *)
(* on to the sealer rotated in.                                              *)
EXTENDS Integers, Sequences, FiniteSets, SequencesExt

CONSTANTS
  N, Self,        \* nodes 0..(N-1), in the order of their ids, and this one
  Sizes,          \* values of rpbft_epoch_sealer_num
  Intervals,      \* values of rpbft_epoch_block_num
  MaxNumber, MaxChanges   \* bounds: blocks, and those that change something

RotationAssumption ==
  /\ N \in Nat \ {0} /\ Self \in 0..(N - 1)
  /\ Sizes \subseteq Nat \ {0} /\ Intervals \subseteq Nat \ {0, 1}

VARIABLES
  number,         \* of the chain
  config,         \* what the chain says at this number: sealers, size, interval, enable
  changes,        \* blocks that changed it
  rot,            \* what the engine remembers
  highest,        \* m_highestBlock
  checked,        \* block of the download between checkBlock and commitBlock, 0 without
  syncBlock,      \* m_syncBlock of the sealer thread
  picked,         \* block between getBlockByNumber and reportBlock, -1 without
  seen            \* history: number at the last resetConfig, -1 since start

rotationVars == <<number, config, changes, rot, highest, checked, syncBlock, picked, seen>>

Node == 0..(N - 1)
Smaller(a, b) == IF a < b THEN a ELSE b
\* Division of C++, which cuts off towards zero.
Div(a, b) == IF a >= 0 THEN a \div b ELSE -((-a) \div b)

\* The engine of a node that starts now.
NewEngine ==
  [list |-> <<>>, updated |-> TRUE, listAt |-> number, interval |-> -1, enable |-> -1,
   round |-> 0, start |-> -1, sealersNum |-> 0, epochSize |-> -1, chosen |-> {},
   chosenChanged |-> FALSE, chosenList |-> {}, f |-> 0]

-----------------------------------------------------------------------------
(* The steps of resetConfig, each from the engine that the one before leaves. *)
(* The chain does not grow under a call: a step that reads it again would at *)
(* most see what the next call, for that block, sees.                        *)
updateConsensusNodeList(e) ==
  LET list == SetToSortSeq(config.sealers, <) IN
  IF list # e.list THEN [e EXCEPT !.list = list, !.updated = TRUE, !.listAt = number]
  ELSE [e EXCEPT !.updated = @ /\ number = e.listAt]

\* Mutant: the same interval, set again at a later number, goes unnoticed.
ComparesInterval(e) == config.interval # e.interval

intervalUpdated(e) == config.interval # e.interval \/ config.enable # e.enable

updateRotatingInterval(e) ==
  IF intervalUpdated(e)
  THEN [e EXCEPT !.interval = config.interval, !.enable = config.enable,
                 !.round = Div(number - config.enable, config.interval)]
  ELSE e

\* The size is cut to the number of sealers when it is not the one kept already.
updateEpochSize(e) ==
  IF config.size = e.epochSize THEN e
  ELSE [e EXCEPT !.epochSize = Smaller(config.size, e.sealersNum)]

Window(e, start) == {e.list[((start + i) % e.sealersNum) + 1] : i \in 0..(e.epochSize - 1)}

resetChosedConsensusNodes(e, newInterval) ==
  LET s == IF e.updated THEN [e EXCEPT !.sealersNum = Len(e.list)] ELSE e
      z == updateEpochSize(s)
      first == IF z.start = -1 THEN [z EXCEPT !.round = Div(number - z.enable, z.interval)] ELSE z
      start == first.round % first.sealersNum
      w == Window(first, start)
  IN IF z.epochSize = s.epochSize /\ ~e.updated /\ ~newInterval THEN z
     ELSE [first EXCEPT !.start = start, !.chosen = w,
                        !.chosenChanged = @ \/ w # first.chosen]

chooseConsensusNodes(e) ==
  LET start == (e.round + 1) % e.sealersNum
      out == e.list[(e.round % e.sealersNum) + 1]
      in == e.list[((start + Smaller(e.epochSize, e.sealersNum) - 1) % e.sealersNum) + 1]
  IN IF number - e.enable - e.round * e.interval < e.interval THEN e
     ELSE [e EXCEPT !.round = @ + 1, !.start = start, !.chosen = (@ \ {out}) \cup {in},
                    !.chosenChanged = TRUE]

updateConsensusInfo(e) ==
  IF e.chosenChanged THEN [e EXCEPT !.chosenList = e.chosen, !.chosenChanged = FALSE] ELSE e

\* Each intermediate engine is a set of one, which TLC evaluates only once.
resetConfig(e) ==
  LET listed == {updateConsensusNodeList(e)}
      placed == {resetChosedConsensusNodes(updateRotatingInterval(l), intervalUpdated(l)) :
                   l \in listed}
      faulty == {[p EXCEPT !.f = Smaller((p.epochSize - 1) \div 3, (p.sealersNum - 1) \div 3)] :
                   p \in placed}
  IN CHOOSE r \in {updateConsensusInfo(chooseConsensusNodes(g)) : g \in faulty} : TRUE

minValidNodes(e) == Smaller(e.epochSize, e.sealersNum) - e.f

-----------------------------------------------------------------------------
(* The next block, which may add or remove a sealer or set a configuration.   *)
Changed ==
  LET set == [config EXCEPT !.enable = number + 2] IN
  {[config EXCEPT !.sealers = s] :
     s \in ({config.sealers \cup {n} : n \in Node}
             \cup {config.sealers \ {n} : n \in Node}) \ {{}}}
  \cup {[config EXCEPT !.size = z] : z \in Sizes}
  \cup {[set EXCEPT !.interval = i] : i \in Intervals}

commitBlock ==
  /\ number < MaxNumber
  /\ number' = number + 1
  /\ \/ UNCHANGED <<config, changes>>
     \/ changes < MaxChanges /\ changes' = changes + 1 /\ config' \in Changed
  /\ syncBlock' = TRUE

\* A block on which this node and the other chosen ones agreed.
checkAndSave ==
  /\ Self \in rot.chosen /\ highest = number
  /\ commitBlock
  /\ UNCHANGED <<rot, highest, checked, picked, seen>>

\* The next downloaded block; its header names the sealers of its number.
checkBlock ==
  /\ checked = 0 /\ number < MaxNumber
  /\ rot' = resetConfig(rot) /\ seen' = number
  /\ checked' = IF rot'.chosenList = resetConfig(NewEngine).chosenList THEN number + 1 ELSE 0
  /\ UNCHANGED <<number, config, changes, highest, syncBlock, picked>>

CommitDownloaded ==
  /\ checked # 0
  /\ checked' = 0
  /\ IF checked = number + 1 THEN commitBlock
     ELSE UNCHANGED <<number, config, changes, syncBlock>>
  /\ UNCHANGED <<rot, highest, picked, seen>>

reportNewBlock ==
  /\ syncBlock /\ picked = -1
  /\ syncBlock' = FALSE /\ picked' = number
  /\ UNCHANGED <<number, config, changes, rot, highest, checked, seen>>

\* The chain may have grown since the block was picked.
reportBlock ==
  /\ picked # -1
  /\ picked' = -1
  /\ IF number = 0 \/ highest < picked
     THEN highest' = picked /\ rot' = resetConfig(rot) /\ seen' = number
     ELSE UNCHANGED <<highest, rot, seen>>
  /\ UNCHANGED <<number, config, changes, checked, syncBlock>>

\* PBFTSealer and initPBFTEnv reset the new engine once each.
Restart ==
  /\ rot' = resetConfig(resetConfig(NewEngine)) /\ seen' = number
  /\ highest' = number /\ checked' = 0 /\ syncBlock' = FALSE /\ picked' = -1
  /\ UNCHANGED <<number, config, changes>>

RotationInit ==
  /\ number = 0 /\ changes = 0
  /\ config \in [sealers : SUBSET Node \ {{}}, size : Sizes, interval : Intervals, enable : {0}]
  /\ rot = resetConfig(resetConfig(NewEngine)) /\ seen = 0
  /\ highest = 0 /\ checked = 0 /\ syncBlock = FALSE /\ picked = -1

RotationNext ==
  checkAndSave \/ checkBlock \/ CommitDownloaded \/ reportNewBlock \/ reportBlock \/ Restart

RotationSpec == RotationInit /\ [][RotationNext]_rotationVars

-----------------------------------------------------------------------------
RotationTypeOK ==
  /\ number \in 0..MaxNumber /\ changes \in 0..MaxChanges /\ seen \in 0..MaxNumber
  /\ highest \in 0..MaxNumber /\ checked \in 0..MaxNumber /\ picked \in -1..MaxNumber
  /\ syncBlock \in BOOLEAN
  /\ config \in [sealers : SUBSET Node \ {{}}, size : Sizes, interval : Intervals,
                 enable : 0..(MaxNumber + 1)]
  /\ rot.round \in 0..MaxNumber /\ rot.start \in Node /\ rot.sealersNum \in 1..N
  /\ rot.chosen \subseteq Node /\ rot.chosenList \subseteq Node

(* No second block is committed before resetConfig has seen the first, by     *)
(* consensus or by download: checkBlock calls it for each downloaded block,   *)
(* and the engine agrees on nothing beyond the block reported last.  The      *)
(* window, which moves by one place per call, could not catch up otherwise.   *)
KeepsUp == number \in {seen, seen + 1}

(* An engine that has seen the newest block has rotated as one would have     *)
(* that starts now: whatever it lived through, blocks it downloaded, reports  *)
(* that came late, sealers that came and went, it takes the same sealers for  *)
(* the chosen ones and waits for as many of them (RotatingPBFTEngine::        *)
(* resetConfig, chooseConsensusNodes).  It is never further behind than one.  *)
RotationFollowsChain ==
  /\ KeepsUp
  /\ seen = number =>
       LET fresh == resetConfig(NewEngine) IN
       /\ rot.round = fresh.round /\ rot.start = fresh.start
       /\ rot.chosen = fresh.chosen /\ rot.chosenList = fresh.chosenList
       /\ minValidNodes(rot) = minValidNodes(fresh)
       /\ rot.epochSize <= rot.sealersNum => rot.epochSize = fresh.epochSize

(* Why it keeps up: a block that was checked or reported was followed by a    *)
(* call, and the chain has not grown past the block after it.                 *)
KeepsUpInv ==
  /\ number \in Nat /\ seen \in Nat /\ highest \in Nat /\ checked \in Nat
  /\ picked \in Nat \cup {-1}
  /\ KeepsUp
  /\ highest <= seen /\ checked <= seen + 1 /\ picked <= number
=============================================================================
