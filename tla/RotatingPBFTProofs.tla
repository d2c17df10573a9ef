-------------------------- MODULE RotatingPBFTProofs --------------------------
(* No block passes a rotating engine by: between two blocks of its chain it   *)
(* has called resetConfig, for any number of blocks, sealers and changes.     *)
EXTENDS RotatingPBFT, TLAPS

USE DEF KeepsUpInv, KeepsUp

(* The chain begins at block 0, which the new engine has seen. *)
LEMMA KeepsUpAtStart == RotationInit => KeepsUpInv
BY DEF RotationInit

(* A step of the node: its own consensus commits after the block reported     *)
(* last, the download after the block it has checked.                         *)
LEMMA KeepsUpKept == KeepsUpInv /\ [RotationNext]_rotationVars => KeepsUpInv'
<1> SUFFICES ASSUME KeepsUpInv, [RotationNext]_rotationVars PROVE KeepsUpInv'
  OBVIOUS
<1>1. CASE checkAndSave
  <2>1. seen = number
    BY <1>1 DEF checkAndSave
  <2> QED BY <1>1, <2>1 DEF checkAndSave, commitBlock
<1>2. CASE checkBlock
  BY <1>2 DEF checkBlock
<1>3. CASE CommitDownloaded
  <2>1. CASE checked = number + 1
    <3>1. seen = number
      BY <2>1
    <3> QED BY <1>3, <2>1, <3>1 DEF CommitDownloaded, commitBlock
  <2>2. CASE checked # number + 1
    BY <1>3, <2>2 DEF CommitDownloaded
  <2> QED BY <2>1, <2>2
<1>4. CASE reportNewBlock
  BY <1>4 DEF reportNewBlock
<1>5. CASE reportBlock
  <2>1. CASE number = 0 \/ highest < picked
    BY <1>5, <2>1 DEF reportBlock
  <2>2. CASE ~(number = 0 \/ highest < picked)
    BY <1>5, <2>2 DEF reportBlock
  <2> QED BY <2>1, <2>2
<1>6. CASE Restart
  BY <1>6 DEF Restart
<1>7. CASE UNCHANGED rotationVars
  BY <1>7 DEF rotationVars
<1> QED BY <1>1, <1>2, <1>3, <1>4, <1>5, <1>6, <1>7 DEF RotationNext

(* The chain is never more than one block past the last call of resetConfig   *)
(* (PBFTEngine::checkBlock, reportBlockWithoutLock), whatever the bounds.     *)
THEOREM RotationKeepsUp == RotationSpec => []KeepsUp
<1>1. KeepsUpInv => KeepsUp
  OBVIOUS
<1> QED BY KeepsUpAtStart, KeepsUpKept, <1>1, PTL DEF RotationSpec
=============================================================================
