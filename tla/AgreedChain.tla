---------------------------- MODULE AgreedChain ----------------------------
(***************************************************************************)
(* What the consensus of one group promises: its sealers agree on one      *)
(* chain of blocks.  A block is decided once, at the next height, and a    *)
(* node's chain only ever grows by the block decided for its next height.  *)
(***************************************************************************)
EXTENDS Naturals, Sequences

CONSTANTS Node,      \* the sealers of the group
          Block      \* what can be decided

VARIABLES decided,   \* the chain the group has decided
          learned    \* how many blocks of it each node holds

vars == <<decided, learned>>

Init == decided = << >> /\ learned = [n \in Node |-> 0]

(* A node extends the longest chain: the block is decided and the node has it. *)
Decide(n, b) ==
  /\ learned' = [learned EXCEPT ![n] = @ + 1]
  /\ learned[n] = Len(decided)
  /\ decided' = Append(decided, b)

(* A node that is behind takes over the block decided for its next height. *)
Learn(n) ==
  /\ learned' = [learned EXCEPT ![n] = @ + 1]
  /\ learned[n] < Len(decided)
  /\ UNCHANGED decided

Next == \E n \in Node : Learn(n) \/ \E b \in Block : Decide(n, b)

Spec == Init /\ [][Next]_vars
=============================================================================
