-------------------------------- MODULE TxDAG --------------------------------
(* The parallel execution of a block's transactions (libblockverifier).      *)
(* TxDAG::init draws an edge to a transaction from the latest one before it  *)
(* that touches the same critical field; a transaction without a list of     *)
(* critical fields is a normal one, which touches everything.  Workers take  *)
(* transactions without open edges from m_topLevel, execute them, and take   *)
(* away the edges that begin there; the thread goes on with the first        *)
(* transaction that becomes free and puts the others into m_topLevel.        *)
(* Left out: the exit of the process, the order of m_topLevel, and           *)
(* m_totalConsume, which only ends a wait before its 10 milliseconds.        *)
EXTENDS Naturals, FiniteSets

CONSTANTS
  Workers,        \* threads that execute
  Field,          \* critical fields
  NoField,        \* in place of a field in an edge between normal transactions
  MaxTx           \* bound of the model: transactions of a block

ASSUME DagAssumption ==
  /\ IsFiniteSet(Workers) /\ IsFiniteSet(Field) /\ NoField \notin Field /\ MaxTx \in Nat

VARIABLES
  criticals,      \* for every transaction whether it is normal, and its fields
  inDegree,       \* Vertex::inDegree
  topLevel,       \* m_topLevel
  thread,         \* for every thread its place, its transaction, the edges it still
                  \* takes away, the transaction it goes on with, and its exeCnt
  exeCnt,         \* m_exeCnt
  started,        \* history: the transactions whose execution has begun
  executed        \* and has ended

dagVars == <<criticals, inDegree, topLevel, thread, exeCnt, started, executed>>

Tx == DOMAIN criticals
Critical == [normal : {FALSE}, fields : SUBSET Field] \cup [normal : {TRUE}, fields : {{}}]

\* Mutant: normal transactions are not noted.
TouchesFieldsOnly(k, c) == c \in criticals[k].fields

Touches(k, c) == criticals[k].normal \/ c \in criticals[k].fields

\* The id that latestCriticals keeps for c when it comes to transaction j.
Latest(p, c, j) == p < j /\ Touches(p, c) /\ \A k \in (p + 1)..(j - 1) : ~Touches(k, c)

\* A normal transaction has an edge from every field that is kept, and one from the last
\* normal transaction.
Edges ==
  {e \in Tx \X (Field \cup {NoField}) \X Tx :
     /\ Latest(e[1], e[2], e[3])
     /\ IF criticals[e[3]].normal
        THEN e[2] \in criticals[e[1]].fields \cup {NoField}
        ELSE e[2] \in criticals[e[3]].fields}

In(j) == {e \in Edges : e[3] = j}
Out(i) == {e \in Edges : e[1] = i}

-----------------------------------------------------------------------------
NewThread == [at |-> "idle", id |-> 0, rest |-> {}, next |-> 0, count |-> 0]

Generate ==
  /\ inDegree = [j \in Tx |-> Cardinality(In(j))]
  /\ topLevel = {j \in Tx : inDegree[j] = 0}
  /\ thread = [t \in Workers |-> NewThread]
  /\ exeCnt = 0 /\ started = {} /\ executed = {}

DagInit ==
  /\ \E n \in 0..MaxTx : criticals \in [1..n -> Critical]
  /\ Generate

At(t, place) == thread[t].at = place

\* The loop of parallelExecuteBlock.
HasFinished(t) ==
  /\ At(t, "idle")
  /\ thread' = [thread EXCEPT ![t].at = IF exeCnt >= Cardinality(Tx) THEN "finished" ELSE "pop"]
  /\ UNCHANGED <<criticals, inDegree, topLevel, exeCnt, started, executed>>

waitPop(t) ==
  /\ At(t, "pop")
  /\ \E id \in topLevel :
       /\ topLevel' = topLevel \ {id}
       /\ thread' = [thread EXCEPT ![t].at = "run", ![t].id = id]
  /\ UNCHANGED <<criticals, inDegree, exeCnt, started, executed>>

\* Mutant: the count of the thread is not reset.
PopsNothingCountsOn(t) ==
  /\ At(t, "pop") /\ topLevel = {}
  /\ thread' = [thread EXCEPT ![t].at = "idle"]
  /\ exeCnt' = exeCnt + thread[t].count
  /\ UNCHANGED <<criticals, inDegree, topLevel, started, executed>>

\* Nothing came in time: executeUnit returns.
PopsNothing(t) ==
  /\ At(t, "pop") /\ topLevel = {}
  /\ thread' = [thread EXCEPT ![t].at = "idle", ![t].count = 0]
  /\ exeCnt' = exeCnt + thread[t].count
  /\ UNCHANGED <<criticals, inDegree, topLevel, started, executed>>

BeginExecute(t) ==
  /\ At(t, "run")
  /\ thread' = [thread EXCEPT ![t].at = "execute", ![t].count = @ + 1]
  /\ started' = started \cup {thread[t].id}
  /\ UNCHANGED <<criticals, inDegree, topLevel, exeCnt, executed>>

EndExecute(t) ==
  /\ At(t, "execute")
  /\ thread' = [thread EXCEPT ![t].at = "consume", ![t].rest = Out(thread[t].id), ![t].next = 0]
  /\ executed' = executed \cup {thread[t].id}
  /\ UNCHANGED <<criticals, inDegree, topLevel, exeCnt, started>>

\* Mutant: a transaction that becomes free after the first one is forgotten.
ConsumeEdgeForgets(t) ==
  /\ At(t, "consume")
  /\ \E e \in thread[t].rest :
       LET j == e[3]  free == inDegree[j] = 1 IN
       /\ inDegree' = [inDegree EXCEPT ![j] = @ - 1]
       /\ thread' = [thread EXCEPT ![t].rest = @ \ {e},
                                   ![t].next = IF free /\ @ = 0 THEN j ELSE @]
  /\ UNCHANGED <<criticals, topLevel, exeCnt, started, executed>>

\* consume, for one edge.
ConsumeEdge(t) ==
  /\ At(t, "consume")
  /\ \E e \in thread[t].rest :
       LET j == e[3]  free == inDegree[j] = 1 IN
       /\ inDegree' = [inDegree EXCEPT ![j] = @ - 1]
       /\ thread' = [thread EXCEPT ![t].rest = @ \ {e},
                                   ![t].next = IF free /\ @ = 0 THEN j ELSE @]
       /\ topLevel' = topLevel \cup (IF free /\ thread[t].next # 0 THEN {j} ELSE {})
  /\ UNCHANGED <<criticals, exeCnt, started, executed>>

EndConsume(t) ==
  /\ At(t, "consume") /\ thread[t].rest = {}
  /\ thread' = [thread EXCEPT ![t].at = IF thread[t].next # 0 THEN "run" ELSE "pop",
                              ![t].id = thread[t].next]
  /\ UNCHANGED <<criticals, inDegree, topLevel, exeCnt, started, executed>>

Step(t) ==
  \/ HasFinished(t) \/ waitPop(t) \/ PopsNothing(t)
  \/ BeginExecute(t) \/ EndExecute(t) \/ ConsumeEdge(t) \/ EndConsume(t)

DagNext == \E t \in Workers : Step(t)

DagSpec == DagInit /\ [][DagNext]_dagVars

-----------------------------------------------------------------------------
DagTypeOK ==
  /\ \E n \in 0..MaxTx : criticals \in [1..n -> Critical]
  /\ inDegree \in [Tx -> Nat]
  /\ topLevel \subseteq Tx /\ started \subseteq Tx /\ executed \subseteq Tx
  /\ exeCnt \in Nat
  /\ thread \in [Workers -> [at : {"idle", "pop", "run", "execute", "consume", "finished"},
                             id : Tx \cup {0}, rest : SUBSET Edges, next : Tx \cup {0}, count : Nat]]

\* Transactions that touch the same critical field are executed one after the other in the
\* order of the block, and a normal transaction after all before it and before all after it
\* that have a critical field, whichever threads take them (TxDAG::init, DAG::consume).
Conflict(i, j) ==
  \/ criticals[i].fields \cap criticals[j].fields # {}
  \/ criticals[i].normal /\ (criticals[j].normal \/ criticals[j].fields # {})
  \/ criticals[j].normal /\ criticals[i].fields # {}

ConflictsOrdered == \A i, j \in Tx : i < j /\ Conflict(i, j) /\ j \in started => i \in executed

\* While a transaction is left, one is free or being executed: no transaction is lost
\* between the thread that frees it and the threads that wait (DAG::consume, DAG::waitPop).
NothingStuck ==
  executed # Tx =>
    topLevel # {} \/ \E t \in Workers : thread[t].at \in {"run", "execute", "consume"}

\* A thread leaves the loop only when every transaction has been executed (executeUnit,
\* hasFinished).
ReturnsWhenDone == \A t \in Workers : At(t, "finished") => executed = Tx
=============================================================================
