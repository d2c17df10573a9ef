------------------------------- MODULE TxGossip -------------------------------
(* One transaction on its way through the pools of the sealers (TxPool), the *)
(* tree that forwards it (TreeTopology, DownloadingTxsQueue) and the gossip  *)
(* of its hash (SyncTransaction, SyncMsgEngine).  Connected sealers see each *)
(* other; what is sent arrives, in any order.  The blocks are left to the    *)
(* consensus: one block takes the transaction and is committed everywhere.   *)
(* Left out: observers, other transactions and with them the limits of pool  *)
(* and filter, and signatures.                                               *)
EXTENDS Integers, FiniteSets, FiniteSetsExt

CONSTANTS
  N,              \* sealers
  Width,          \* m_treeWidth
  Clients         \* sealers whose RPC may be given the transaction

GossipAssumption ==
  N \in Nat \ {0} /\ Width \in Nat \ {0} /\ Clients \subseteq 0..(N - 1)

VARIABLES
  up,             \* the sealers that run and see each other: m_peersStatus
  early,          \* history: those that did when the RPC took the transaction
  origin,         \* the sealer whose RPC took the transaction, -1 before
  txsHash,        \* m_txsHash: whose pool holds the transaction
  txsHashFilter,  \* m_txsHashFilter
  object,         \* the latest Transaction of a sealer: rpcTx, synced and
                  \* m_nodeListWithTheTransaction
  announcing,     \* sealers between broadcastTransactions and sendTxsStatus
  buffer,         \* m_buffer of DownloadingTxsQueue
  loading,        \* localBuffer of pop2TxPool
  msgs,           \* on their way
  sealed,         \* a block holds the transaction
  nonces,         \* sealers whose m_cache of nonces has this block
  handled,        \* and that have dropped its transactions
  erasing,        \* dropBlockTxsFilter waits in m_workerPool
  got             \* history: how often the tree has brought the transaction

gossipVars == <<up, early, origin, txsHash, txsHashFilter, object, announcing, buffer, loading,
                msgs, sealed, nonces, handled, erasing, got>>

Node == 0..(N - 1)
Peers(n) == up \ {n}

NewObject(rpc, known) == [rpcTx |-> rpc, synced |-> FALSE, known |-> known]

-----------------------------------------------------------------------------
(* The tree of which sealer root is the root. *)
getNodeIndex(n, root) == (n - root + N) % N
getSelectedNodeIndex(index, root) == (index + root) % N
Children(index) == {index * Width + i : i \in 1..Width} \cap Node

\* Mutant: below a child that is not connected nobody is selected.
SelectsChildrenOnly(n, index, root) ==
  {getSelectedNodeIndex(i, root) : i \in Children(index)} \cap Peers(n)

RECURSIVE recursiveSelectChildNodes(_, _, _)
recursiveSelectChildNodes(n, index, root) ==
  UNION {LET child == getSelectedNodeIndex(i, root) IN
         IF child \in Peers(n) THEN {child} ELSE recursiveSelectChildNodes(n, i, root)
         : i \in Children(index)}

selectNodes(n, root) == recursiveSelectChildNodes(n, getNodeIndex(n, root), root)

RECURSIVE Ancestors(_)
Ancestors(index) ==
  IF index = 0 THEN {} ELSE LET parent == (index - 1) \div Width IN {parent} \cup Ancestors(parent)

selectParent(n, root) ==
  {getSelectedNodeIndex(i, root) : i \in Ancestors(getNodeIndex(n, root))} \cap Peers(n)

-----------------------------------------------------------------------------
GossipInit ==
  /\ up \in SUBSET Node
  /\ origin = -1 /\ early = {}
  /\ txsHash = {} /\ txsHashFilter = {}
  /\ object = [n \in Node |-> NewObject(FALSE, {})]
  /\ announcing = {}
  /\ buffer = [n \in Node |-> {}] /\ loading = [n \in Node |-> {}]
  /\ msgs = {}
  /\ sealed = FALSE /\ nonces = {} /\ handled = {} /\ erasing = {}
  /\ got = [n \in Node |-> 0]

Send(kind, from, to, root) == {[kind |-> kind, from |-> from, to |-> n, root |-> root] : n \in to}

\* maintainPeersConnection on all sides: n comes, with an empty pool.
newSyncPeerStatus(n) ==
  /\ n \in Node \ up
  /\ up' = up \cup {n}
  /\ UNCHANGED <<early, origin, txsHash, txsHashFilter, object, announcing, buffer, loading,
                 msgs, sealed, nonces, handled, erasing, got>>

\* TxPool::import of a transaction from the RPC.
submit(n) ==
  /\ origin = -1 /\ n \in up \cap Clients
  /\ origin' = n /\ early' = up
  /\ txsHash' = txsHash \cup {n} /\ txsHashFilter' = txsHashFilter \cup {n}
  /\ object' = [object EXCEPT ![n] = NewObject(TRUE, {})]
  /\ UNCHANGED <<up, announcing, buffer, loading, msgs, sealed, nonces, handled, erasing, got>>

broadcastTransactions(n) ==
  /\ n \in txsHash \ announcing /\ ~object[n].synced /\ buffer[n] = {}
  /\ LET selected == IF object[n].rpcTx /\ object[n].known = {} THEN selectNodes(n, n) ELSE {} IN
     /\ msgs' = msgs \cup Send("tree", n, selected, n)
     /\ object' = [object EXCEPT ![n].synced = TRUE,
                                 ![n].known = IF selected = {} THEN @ ELSE selected \cup {n}]
  /\ announcing' = announcing \cup {n}
  /\ UNCHANGED <<up, early, origin, txsHash, txsHashFilter, buffer, loading, sealed, nonces,
                 handled, erasing, got>>

SelectSize(n) == Min({(Cardinality(Peers(n)) * 25 + 99) \div 100, 5})

sendTxsStatus(n) ==
  /\ n \in announcing
  /\ LET allowed == IF n \in object[n].known THEN {} ELSE Peers(n) \ object[n].known IN
     \E chosen \in kSubset(Min({SelectSize(n), Cardinality(allowed)}), allowed) :
       /\ msgs' = msgs \cup Send("status", n, chosen, n)
       /\ object' = [object EXCEPT ![n].known = IF chosen = {} THEN @ ELSE @ \cup chosen \cup {n}]
  /\ announcing' = announcing \ {n}
  /\ UNCHANGED <<up, early, origin, txsHash, txsHashFilter, buffer, loading, sealed, nonces,
                 handled, erasing, got>>

\* push: transactions that the tree brings are forwarded at once.
push(m) ==
  LET n == m.to
      onward == IF m.kind = "tree" THEN selectNodes(n, m.root) \ {m.from} ELSE {}
      known == IF m.kind = "tree" THEN selectParent(n, m.root) \cup onward ELSE {}
  IN
  /\ m.kind \in {"tree", "txs"}
  /\ buffer' = [buffer EXCEPT ![n] = @ \cup {[from |-> m.from, known |-> known]}]
  /\ msgs' = (msgs \ {m}) \cup Send("tree", n, onward, m.root)
  /\ got' = [got EXCEPT ![n] = @ + IF m.kind = "tree" THEN 1 ELSE 0]
  /\ UNCHANGED <<up, early, origin, txsHash, txsHashFilter, object, announcing, loading, sealed,
                 nonces, handled, erasing>>

pop2TxPool(n) ==
  /\ buffer[n] # {} /\ loading[n] = {}
  /\ loading' = [loading EXCEPT ![n] = buffer[n]]
  /\ buffer' = [buffer EXCEPT ![n] = {}]
  /\ UNCHANGED <<up, early, origin, txsHash, txsHashFilter, object, announcing, msgs, sealed,
                 nonces, handled, erasing, got>>

\* A transaction that the pool or the nonce cache knows is refused.
import(n) ==
  /\ \E shard \in loading[n] :
       /\ loading' = [loading EXCEPT ![n] = @ \ {shard}]
       /\ \/ /\ n \notin txsHash \cup nonces
             /\ txsHash' = txsHash \cup {n} /\ txsHashFilter' = txsHashFilter \cup {n}
             /\ object' = [object EXCEPT ![n] = NewObject(FALSE, {shard.from} \cup shard.known)]
          \/ /\ n \in txsHash \cup nonces
             /\ UNCHANGED <<txsHash, txsHashFilter, object>>
  /\ UNCHANGED <<up, early, origin, announcing, buffer, msgs, sealed, nonces, handled, erasing,
                 got>>

\* filterUnknownTxs: a hash is asked for once, whoever announces it.
onPeerTxsStatus(m) ==
  LET n == m.to IN
  /\ m.kind = "status" /\ buffer[n] = {}
  /\ object' = IF n \in txsHash THEN [object EXCEPT ![n].known = @ \cup {m.from}] ELSE object
  /\ txsHashFilter' = txsHashFilter \cup {n}
  /\ msgs' = (msgs \ {m}) \cup
             (IF n \in txsHashFilter THEN {} ELSE Send("request", n, {m.from}, m.root))
  /\ UNCHANGED <<up, early, origin, txsHash, announcing, buffer, loading, sealed, nonces,
                 handled, erasing, got>>

\* Mutant: a transaction is not sent to a sealer that is said to have it.
AnswersTheUnknowing(m) ==
  LET n == m.to IN
  /\ m.kind = "request"
  /\ msgs' = (msgs \ {m}) \cup
             (IF n \in txsHash /\ m.from \notin object[n].known
              THEN Send("txs", n, {m.from}, m.root) ELSE {})
  /\ object' = IF n \in txsHash THEN [object EXCEPT ![n].known = @ \cup {m.from}] ELSE object
  /\ UNCHANGED <<up, early, origin, txsHash, txsHashFilter, announcing, buffer, loading, sealed,
                 nonces, handled, erasing, got>>

onReceiveTxsRequest(m) ==
  LET n == m.to IN
  /\ m.kind = "request"
  /\ msgs' = (msgs \ {m}) \cup (IF n \in txsHash THEN Send("txs", n, {m.from}, m.root) ELSE {})
  /\ object' = IF n \in txsHash THEN [object EXCEPT ![n].known = @ \cup {m.from}] ELSE object
  /\ UNCHANGED <<up, early, origin, txsHash, txsHashFilter, announcing, buffer, loading, sealed,
                 nonces, handled, erasing, got>>

-----------------------------------------------------------------------------
\* Sealer::doWork drops the transactions of the block it is about to propose.
seal(n) ==
  /\ ~sealed /\ n \in txsHash \ nonces
  /\ sealed' = TRUE
  /\ txsHash' = txsHash \ {n} /\ erasing' = erasing \cup {n}
  /\ UNCHANGED <<up, early, origin, txsHashFilter, object, announcing, buffer, loading, msgs,
                 nonces, handled, got>>

\* dropBlockTrans, when the block has come by the consensus or the download of blocks: first
\* the nonces, then the transactions.
updateCache(n) ==
  /\ sealed /\ n \in up \ nonces
  /\ nonces' = nonces \cup {n}
  /\ UNCHANGED <<up, early, origin, txsHash, txsHashFilter, object, announcing, buffer, loading,
                 msgs, sealed, handled, erasing, got>>

\* Mutant: the transactions are dropped before the nonces are noted.
DropsFirst(n) ==
  /\ sealed /\ n \in up \ handled
  /\ handled' = handled \cup {n}
  /\ txsHash' = txsHash \ {n} /\ erasing' = erasing \cup {n}
  /\ UNCHANGED <<up, early, origin, txsHashFilter, object, announcing, buffer, loading, msgs,
                 sealed, nonces, got>>

dropTransactions(n) ==
  /\ n \in nonces \ handled
  /\ handled' = handled \cup {n}
  /\ txsHash' = txsHash \ {n} /\ erasing' = erasing \cup {n}
  /\ UNCHANGED <<up, early, origin, txsHashFilter, object, announcing, buffer, loading, msgs,
                 sealed, nonces, got>>

dropBlockTxsFilter(n) ==
  /\ n \in erasing
  /\ erasing' = erasing \ {n}
  /\ txsHashFilter' = txsHashFilter \ {n}
  /\ UNCHANGED <<up, early, origin, txsHash, object, announcing, buffer, loading, msgs, sealed,
                 nonces, handled, got>>

GossipNext ==
  \/ \E n \in Node :
       \/ newSyncPeerStatus(n) \/ submit(n) \/ broadcastTransactions(n) \/ sendTxsStatus(n)
       \/ pop2TxPool(n) \/ import(n)
       \/ seal(n) \/ updateCache(n) \/ dropTransactions(n) \/ dropBlockTxsFilter(n)
  \/ \E m \in msgs : push(m) \/ onPeerTxsStatus(m) \/ onReceiveTxsRequest(m)

-----------------------------------------------------------------------------
Message == [kind : {"tree", "txs", "status", "request"}, from : Node, to : Node, root : Node]
Shard == [from : Node, known : SUBSET Node]

GossipTypeOK ==
  /\ early \subseteq up /\ up \subseteq Node /\ origin \in up \cup {-1}
  /\ txsHash \subseteq up /\ txsHashFilter \subseteq up
  /\ object \in [Node -> [rpcTx : BOOLEAN, synced : BOOLEAN, known : SUBSET Node]]
  /\ announcing \subseteq up
  /\ buffer \in [Node -> SUBSET Shard] /\ loading \in [Node -> SUBSET Shard]
  /\ msgs \subseteq Message
  /\ sealed \in BOOLEAN /\ nonces \subseteq up
  /\ handled \subseteq nonces /\ erasing \subseteq up
  /\ got \in [Node -> Nat]

\* The tree brings the transaction to every connected sealer, and to none twice, whichever
\* sealers are missing in between (TreeTopology, DownloadingTxsQueue::push).
TreeReachesOnce ==
  /\ \A n \in Node : got[n] <= IF n = origin THEN 0 ELSE 1
  /\ origin # -1 /\ object[origin].synced /\ (\A m \in msgs : m.kind # "tree") =>
       \A n \in early \ {origin} : got[n] = 1

(* A hash is asked for once, and whoever is said to have the transaction is  *)
(* not told of it again: it is there or on its way, until a block holds it   *)
(* (TxPool::filterUnknownTxs, Transaction::m_nodeListWithTheTransaction).    *)
(* A sealer that comes late is said to have it when it is an ancestor of one *)
(* that got it past him: nothing is promised to him before he asks.          *)
Coming(p) ==
  \/ p \in txsHash \/ buffer[p] # {} \/ loading[p] # {} \/ sealed
  \/ \E m \in msgs : IF m.kind = "request" THEN m.from = p ELSE m.to = p

PromisedComes ==
  \A p \in up :
    p \in txsHashFilter \/ (p \in early /\ \E n \in txsHash : p \in object[n].known) => Coming(p)

\* Once a sealer has handled the block, its pool does not hold the transaction, and no late
\* copy brings it back (TxPool::dropBlockTrans, TxPool::verify).
CommittedNotPooled == handled \cap txsHash = {}
=============================================================================
