--------------------------- MODULE OrderedBatches ---------------------------
(***************************************************************************)
(* What the epoch mechanism of the hierarchical shards promises.           *)
(*                                                                         *)
(* A coordinator shard c sends each of its lower shards d a stream of      *)
(* batches of cross-shard transactions.  Whatever the network and the      *)
(* consensus inside d do to their order, d starts the batches of c one by  *)
(* one, in the order in which c produced them, each exactly once; and      *)
(* every batch that c produced is started in the end.                      *)
(***************************************************************************)
EXTENDS Naturals, Sequences

CONSTANTS Shard,  \* the shards of the tree
          Batch   \* the possible contents of a batch

VARIABLES flushed,    \* flushed[c][d]: the batches c has produced for d
          delivered   \* delivered[d][c]: the batches of c that d has started

vars == <<flushed, delivered>>

Streams == [Shard -> [Shard -> Seq(Batch)]]

Init ==
  /\ flushed   = [c \in Shard |-> [d \in Shard |-> <<>>]]
  /\ delivered = [d \in Shard |-> [c \in Shard |-> <<>>]]

\* A stream keeps what it holds and gains at most one batch.
GrowsByOne(old, new) ==
  \/ new = old
  \/ /\ Len(new) = Len(old) + 1
     /\ \A i \in 1..Len(old) : new[i] = old[i]

\* The coordinator c closes a block: each of its streams gains at most one batch.
Flush(c) ==
  /\ flushed' \in Streams
  /\ \A x \in Shard : \A d \in Shard :
        IF x = c THEN GrowsByOne(flushed[x][d], flushed'[x][d])
                 ELSE flushed'[x][d] = flushed[x][d]
  /\ UNCHANGED delivered

\* Shard d starts the next batch of coordinator c.
Deliver(d, c) ==
  /\ Len(delivered[d][c]) < Len(flushed[c][d])
  /\ delivered' = [delivered EXCEPT ![d][c] = Append(@, flushed[c][d][Len(@) + 1])]
  /\ UNCHANGED flushed

Next == \/ \E c \in Shard : Flush(c)
        \/ \E d \in Shard, c \in Shard : Deliver(d, c)

SafeSpec == Init /\ [][Next]_vars

Spec == SafeSpec /\ \A d \in Shard, c \in Shard : WF_vars(Deliver(d, c))

=============================================================================
