----------------------------- MODULE TxDAGProofs -----------------------------
(* For every block, number of threads and set of critical fields:            *)
(* transactions that conflict are executed in the order of the block, and no *)
(* transaction is lost on its way to the threads.                            *)
EXTENDS TxDAG, Integers, FiniteSetTheorems, WellFoundedInduction, TLAPS

(* A transaction without open edges is in exactly one place: started, in     *)
(* m_topLevel, or with one thread that will execute it next.                 *)
Pending(t) ==
  IF At(t, "run") THEN {thread[t].id}
  ELSE IF At(t, "consume") THEN {thread[t].next} \ {0}
  ELSE {}

Holds(t) == thread[t].at \in {"execute", "consume"}

Open == {e \in Edges : e[1] \notin executed \/ \E t \in Workers : At(t, "consume") /\ e \in thread[t].rest}
OpenIn(j) == {e \in Open : e[3] = j}

ThreadsRight ==
  \A t \in Workers :
    /\ At(t, "run") \/ At(t, "execute") \/ At(t, "consume") => thread[t].id \in Tx
    /\ At(t, "execute") => thread[t].id \in started \ executed
    /\ At(t, "consume") => thread[t].id \in executed /\ thread[t].rest \subseteq Out(thread[t].id)
    /\ \A u \in Workers \ {t} : thread[t].at = thread[u].at /\ Holds(t) => thread[t].id # thread[u].id

PlacedOnce ==
  /\ topLevel \cap started = {}
  /\ \A t \in Workers : Pending(t) \cap (started \cup topLevel) = {}
  /\ \A t \in Workers : \A u \in Workers \ {t} : Pending(t) \cap Pending(u) = {}

PlacedWhenFree ==
  \A j \in Tx : inDegree[j] = 0 <=> j \in started \cup topLevel \/ \E t \in Workers : j \in Pending(t)

CountsOpen == \A j \in Tx : inDegree[j] = Cardinality(OpenIn(j))

StartedIsHeld ==
  /\ executed \subseteq started
  /\ \A j \in started \ executed : \E t \in Workers : At(t, "execute") /\ thread[t].id = j

Inv ==
  /\ DagTypeOK
  /\ ThreadsRight
  /\ PlacedOnce
  /\ PlacedWhenFree
  /\ CountsOpen
  /\ StartedIsHeld
  /\ ConflictsOrdered

-----------------------------------------------------------------------------
(* The graph of a block. *)
LEMMA LeastNatural ==
  ASSUME NEW S \in SUBSET Nat, S # {}
  PROVE  \E m \in S : \A n \in S : m <= n
  <1> DEFINE less == OpToRel(<, Nat)
  <1>1. \A m, n \in Nat : <<m, n>> \in less <=> m < n
    BY DEF OpToRel
  <1>2. PICK m \in S : \A n \in S : ~(<<n, m>> \in less)
    <2> HIDE DEF less
    <2> QED BY NatLessThanWellFounded, WFMin DEF less
  <1>3. \A n \in S : ~(n < m)
    BY <1>1, <1>2
  <1> QED BY <1>3

CriticalsOK == \E n \in 0..MaxTx : criticals \in [1..n -> Critical]

LEMMA TxNumbers ==
  ASSUME CriticalsOK
  PROVE  /\ \E n \in Nat : Tx = 1..n
         /\ IsFiniteSet(Tx) /\ Tx \subseteq Nat \ {0}
         /\ \A j \in Tx : criticals[j] \in Critical
  <1>1. PICK n \in 0..MaxTx : criticals \in [1..n -> Critical]
    BY DEF CriticalsOK
  <1>2. n \in Nat /\ Tx = 1..n
    BY <1>1, DagAssumption DEF Tx
  <1>3. IsFiniteSet(1..n)
    BY <1>2, FS_Interval
  <1> QED BY <1>1, <1>2, <1>3

LEMMA CriticalKinds ==
  ASSUME NEW r \in Critical
  PROVE  /\ r.normal \in BOOLEAN /\ r.fields \subseteq Field
         /\ r.normal => r.fields = {}
         /\ NoField \notin r.fields
  BY DagAssumption DEF Critical

LEMMA EdgeShape ==
  ASSUME CriticalsOK, NEW e \in Edges
  PROVE  /\ e[1] \in Tx /\ e[3] \in Tx /\ e[1] < e[3]
         /\ e \in In(e[3]) /\ e \in Out(e[1])
  BY DEF Edges, Latest, In, Out

LEMMA EdgesFinite ==
  ASSUME CriticalsOK
  PROVE  IsFiniteSet(Edges)
  <1> DEFINE F == Field \cup {NoField}
             P == (Tx \X F) \X Tx
             f == [x \in P |-> <<x[1][1], x[1][2], x[2]>>]
             T == Tx \X F \X Tx
  <1>1. IsFiniteSet(F)
    BY DagAssumption, FS_AddElement
  <1>2. IsFiniteSet(Tx \X F)
    BY <1>1, TxNumbers, FS_Product
  <1>3. IsFiniteSet(P)
    BY <1>2, TxNumbers, FS_Product
  <1>4. f \in Surjection(P, T)
    <2>1. f \in [P -> T]
      OBVIOUS
    <2>2. ASSUME NEW e \in T PROVE \E x \in P : f[x] = e
      <3>1. <<<<e[1], e[2]>>, e[3]>> \in P
        OBVIOUS
      <3> QED BY <3>1
    <2> QED BY <2>1, <2>2 DEF Surjection
  <1>5. IsFiniteSet(T)
    <2> HIDE DEF P, f, T
    <2> QED BY <1>3, <1>4, FS_Surjection
  <1>6. Edges \subseteq T
    BY DEF Edges
  <1> QED BY <1>5, <1>6, FS_Subset

LEMMA OpenFinite ==
  ASSUME CriticalsOK, NEW j
  PROVE  /\ IsFiniteSet(OpenIn(j)) /\ Cardinality(OpenIn(j)) \in Nat
         /\ Cardinality(OpenIn(j)) = 0 <=> OpenIn(j) = {}
  <1>1. OpenIn(j) \subseteq Edges
    BY DEF OpenIn, Open
  <1>2. IsFiniteSet(OpenIn(j))
    BY <1>1, EdgesFinite, FS_Subset
  <1> QED BY <1>2, FS_CardinalityType, FS_EmptySet

(* Between a transaction that touches a field and a later one lies, or is it *)
(* the one itself, the latest that touches the field before the later one.   *)
LEMMA LatestExists ==
  ASSUME CriticalsOK, NEW i \in Tx, NEW j \in Tx, i < j, NEW c, Touches(i, c)
  PROVE  \E p \in Tx : i <= p /\ p < j /\ Touches(p, c) /\ Latest(p, c, j)
  <1>1. PICK n \in Nat : Tx = 1..n
    BY TxNumbers
  <1> DEFINE S == {d \in Nat : d >= 1 /\ j - d \in Tx /\ Touches(j - d, c)}
  <1>2. j - i \in S
    <2>1. j - (j - i) = i
      BY <1>1
    <2> QED BY <1>1, <2>1
  <1>3. PICK d \in S : \A m \in S : d <= m
    BY <1>2, LeastNatural
  <1>4. i <= j - d /\ j - d < j /\ j - d \in Tx
    <2>1. d <= j - i
      BY <1>2, <1>3
    <2>2. d \in Nat /\ d >= 1 /\ j - d \in Tx
      BY <1>3
    <2> QED BY <1>1, <2>1, <2>2
  <1>5. \A k \in (j - d + 1)..(j - 1) : ~Touches(k, c)
    <2> SUFFICES ASSUME NEW k \in (j - d + 1)..(j - 1), Touches(k, c) PROVE FALSE
      OBVIOUS
    <2>1. k \in Tx /\ j - k \in Nat /\ j - k >= 1 /\ j - (j - k) = k /\ j - k < d
      BY <1>1, <1>3, <1>4
    <2>2. j - k \in S
      BY <2>1
    <2> QED BY <1>3, <2>1, <2>2
  <1> QED BY <1>3, <1>4, <1>5 DEF Latest

-----------------------------------------------------------------------------
(* A transaction without open edges may be executed. *)
LEMMA FreeIsOrdered ==
  ASSUME Inv, NEW j \in Tx, OpenIn(j) = {}, NEW i \in Tx, i < j, Conflict(i, j)
  PROVE  i \in executed
  <1>0. CriticalsOK
    BY DEF Inv, DagTypeOK, CriticalsOK
  <1>1. ASSUME NEW p \in Tx, NEW c, <<p, c, j>> \in Edges PROVE p \in executed
    BY <1>1 DEF OpenIn, Open
  <1>2. ASSUME NEW p \in Tx, p < j, p \in executed, i <= p, i = p \/ Conflict(i, p)
        PROVE  i \in executed
    <2>1. CASE i = p
      BY <1>2, <2>1
    <2>2. CASE i # p /\ Conflict(i, p)
      <3>1. i < p
        BY <1>0, <1>2, <2>2, TxNumbers
      <3>2. p \in started
        BY <1>2 DEF Inv, StartedIsHeld
      <3> QED BY <2>2, <3>1, <3>2 DEF Inv, ConflictsOrdered
    <2> QED BY <1>2, <2>1, <2>2
  <1>3. \A k \in Tx : /\ criticals[k].normal \in BOOLEAN
                      /\ criticals[k].fields \subseteq Field
                      /\ criticals[k].normal => criticals[k].fields = {}
                      /\ NoField \notin criticals[k].fields
    BY <1>0, TxNumbers, CriticalKinds
  <1>4. CASE ~criticals[j].normal
    <2>1. PICK c \in criticals[j].fields : Touches(i, c)
      BY <1>3, <1>4 DEF Conflict, Touches
    <2>2. PICK p \in Tx : i <= p /\ p < j /\ Touches(p, c) /\ Latest(p, c, j)
      BY <1>0, <2>1, LatestExists
    <2>3. <<p, c, j>> \in Edges
      BY <1>3, <1>4, <2>1, <2>2 DEF Edges
    <2>4. i = p \/ Conflict(i, p)
      BY <1>3, <2>1, <2>2 DEF Touches, Conflict
    <2> QED BY <1>1, <1>2, <2>2, <2>3, <2>4
  <1>5. CASE criticals[j].normal /\ \E k \in Tx : i <= k /\ k < j /\ criticals[k].normal
    <2>1. PICK k \in Tx : i <= k /\ k < j /\ criticals[k].normal
      BY <1>5
    <2>2. Touches(k, NoField)
      BY <2>1 DEF Touches
    <2>3. PICK p \in Tx : k <= p /\ p < j /\ Touches(p, NoField) /\ Latest(p, NoField, j)
      BY <1>0, <2>1, <2>2, LatestExists
    <2>4. criticals[p].normal
      BY <1>3, <2>3 DEF Touches
    <2>5. <<p, NoField, j>> \in Edges
      BY <1>5, <2>3 DEF Edges
    <2>6. i = p \/ Conflict(i, p)
      BY <1>3, <1>5, <2>4 DEF Conflict
    <2>7. i <= p
      BY <1>0, <2>1, <2>3, TxNumbers
    <2> QED BY <1>1, <1>2, <2>3, <2>5, <2>6, <2>7
  <1>6. CASE criticals[j].normal /\ \A k \in Tx : i <= k /\ k < j => ~criticals[k].normal
    <2>0. ~criticals[i].normal
      BY <1>0, <1>6, TxNumbers
    <2>1. PICK c \in criticals[i].fields : TRUE
      BY <1>3, <1>6, <2>0 DEF Conflict
    <2>2. PICK p \in Tx : i <= p /\ p < j /\ Touches(p, c) /\ Latest(p, c, j)
      BY <1>0, <2>1, LatestExists DEF Touches
    <2>3. c \in criticals[p].fields
      BY <1>6, <2>2 DEF Touches
    <2>4. <<p, c, j>> \in Edges
      BY <1>3, <1>6, <2>1, <2>2, <2>3 DEF Edges
    <2>5. Conflict(i, p)
      BY <2>1, <2>3 DEF Conflict
    <2> QED BY <1>1, <1>2, <2>2, <2>4, <2>5
  <1> QED BY <1>3, <1>4, <1>5, <1>6

(* The least transaction that is not executed can go on. *)
LEMMA NotStuck ==
  ASSUME Inv
  PROVE  NothingStuck
  <1>0. CriticalsOK
    BY DEF Inv, DagTypeOK, CriticalsOK
  <1> SUFFICES ASSUME executed # Tx
               PROVE  topLevel # {} \/ \E t \in Workers : thread[t].at \in {"run", "execute", "consume"}
    BY DEF NothingStuck
  <1>1. PICK j \in Tx \ executed : \A k \in Tx \ executed : j <= k
    <2>1. Tx \ executed # {} /\ Tx \ executed \in SUBSET Nat
      BY <1>0, TxNumbers DEF Inv, DagTypeOK
    <2> QED BY <2>1, LeastNatural
  <1>2. CASE j \in started
    BY <1>1, <1>2 DEF Inv, StartedIsHeld, At
  <1>3. CASE j \notin started /\ inDegree[j] = 0
    <2>1. j \in topLevel \/ \E t \in Workers : j \in Pending(t)
      BY <1>1, <1>3 DEF Inv, PlacedWhenFree
    <2> QED BY <2>1 DEF Pending, At
  <1>4. CASE inDegree[j] # 0
    <2>1. OpenIn(j) # {}
      BY <1>0, <1>1, <1>4, OpenFinite DEF Inv, CountsOpen
    <2>2. PICK e \in Edges : e[3] = j /\ e \in Open
      BY <2>1 DEF OpenIn, Open
    <2>3. e[1] \in executed
      BY <1>0, <1>1, <2>2, EdgeShape, TxNumbers
    <2> QED BY <2>2, <2>3 DEF Open, At
  <1> QED BY <1>2, <1>3, <1>4

-----------------------------------------------------------------------------
(* The invariant holds at first and is kept by every step. *)
LEMMA DagInitInv ==
  ASSUME DagInit
  PROVE  Inv
  <1>1. CriticalsOK
    BY DEF DagInit, CriticalsOK
  <1>2. \A t \in Workers : thread[t] = NewThread
    BY DEF DagInit, Generate
  <1>3. \A t \in Workers : thread[t].at = "idle" /\ Pending(t) = {}
    BY <1>2 DEF NewThread, Pending, At
  <1>4. Open = Edges
    BY <1>3 DEF Open, DagInit, Generate
  <1>5. \A j \in Tx : OpenIn(j) = In(j)
    BY <1>4 DEF OpenIn, In
  <1>6. \A j \in Tx : inDegree[j] = Cardinality(OpenIn(j)) /\ inDegree[j] \in Nat
    BY <1>1, <1>5, OpenFinite DEF DagInit, Generate
  <1>7. DagTypeOK
    <2>1. inDegree \in [Tx -> Nat]
      BY <1>6 DEF DagInit, Generate
    <2>2. NewThread \in [at : {"idle", "pop", "run", "execute", "consume", "finished"},
                         id : Tx \cup {0}, rest : SUBSET Edges, next : Tx \cup {0}, count : Nat]
      BY DEF NewThread
    <2> QED BY <1>1, <2>1, <2>2 DEF DagTypeOK, CriticalsOK, DagInit, Generate
  <1>8. ThreadsRight
    BY <1>3 DEF ThreadsRight, At, Holds
  <1>9. PlacedOnce
    BY <1>3 DEF PlacedOnce, DagInit, Generate
  <1>10. PlacedWhenFree
    BY <1>3 DEF PlacedWhenFree, DagInit, Generate
  <1>11. StartedIsHeld /\ ConflictsOrdered
    BY DEF StartedIsHeld, ConflictsOrdered, DagInit, Generate
  <1> QED BY <1>6, <1>7, <1>8, <1>9, <1>10, <1>11 DEF Inv, CountsOpen

(* The graph does not change, and neither does the rest of the invariant     *)
(* when threads hold, and will execute next, what they did before.           *)
LEMMA SameGraph ==
  ASSUME UNCHANGED criticals
  PROVE  /\ Tx' = Tx /\ Edges' = Edges
         /\ \A i : Out(i)' = Out(i)
         /\ \A i, j : Conflict(i, j)' <=> Conflict(i, j)
  <1>1. Tx' = Tx /\ Edges' = Edges
    BY DEF Tx, Edges, Latest, Touches
  <1> QED BY <1>1 DEF Out, Conflict

ThreadType ==
  [at : {"idle", "pop", "run", "execute", "consume", "finished"},
   id : Tx \cup {0}, rest : SUBSET Edges, next : Tx \cup {0}, count : Nat]

(* A step that gives one thread a new record leaves the others alone. *)
LEMMA ThreadChanges ==
  ASSUME thread \in [Workers -> ThreadType], NEW t \in Workers, NEW r \in ThreadType,
         thread' = [thread EXCEPT ![t] = r]
  PROVE  /\ thread' \in [Workers -> ThreadType] /\ thread'[t] = r
         /\ \A u \in Workers \ {t} : thread'[u] = thread[u]
  OBVIOUS

LEMMA SameWork ==
  ASSUME Inv, UNCHANGED <<criticals, inDegree, topLevel, started, executed>>, DagTypeOK',
         ThreadsRight', Open' = Open,
         \A t \in Workers : Pending(t)' = Pending(t),
         \A t \in Workers : At(t, "execute") => At(t, "execute")' /\ thread'[t].id = thread[t].id
  PROVE  Inv'
  <1>1. PlacedOnce'
    BY DEF Inv, PlacedOnce
  <1>2. PlacedWhenFree'
    BY SameGraph DEF Inv, PlacedWhenFree
  <1>3. CountsOpen'
    BY SameGraph DEF Inv, CountsOpen, OpenIn
  <1>4. StartedIsHeld'
    BY DEF Inv, StartedIsHeld, At
  <1>5. ConflictsOrdered'
    BY SameGraph DEF Inv, ConflictsOrdered
  <1> QED BY <1>1, <1>2, <1>3, <1>4, <1>5 DEF Inv

LEMMA IdleSteps ==
  ASSUME Inv, NEW t \in Workers, HasFinished(t) \/ PopsNothing(t)
  PROVE  Inv'
  <1>1. /\ UNCHANGED <<criticals, inDegree, topLevel, started, executed>>
        /\ thread[t].at \in {"idle", "pop"} /\ thread[t] \in ThreadType
        /\ exeCnt' \in Nat
        /\ \E at \in {"idle", "pop", "finished"} : \E c \in Nat :
             thread' = [thread EXCEPT ![t].at = at, ![t].count = c]
    <2>1. CASE HasFinished(t)
      <3>1. thread[t] \in ThreadType
        BY DEF Inv, DagTypeOK, ThreadType
      <3>2. thread' = [thread EXCEPT ![t].at = IF exeCnt >= Cardinality(Tx) THEN "finished" ELSE "pop",
                                     ![t].count = thread[t].count]
        BY <2>1, <3>1 DEF HasFinished, ThreadType, Inv, DagTypeOK
      <3>3. thread[t].count \in Nat
        BY <3>1 DEF ThreadType
      <3>4. PICK at \in {"idle", "pop", "finished"} :
              at = IF exeCnt >= Cardinality(Tx) THEN "finished" ELSE "pop"
        OBVIOUS
      <3>5. thread' = [thread EXCEPT ![t].at = at, ![t].count = thread[t].count]
        BY <3>2, <3>4
      <3> QED BY <2>1, <3>1, <3>3, <3>5 DEF HasFinished, At, Inv, DagTypeOK
    <2>2. CASE PopsNothing(t)
      <3>1. thread[t] \in ThreadType /\ exeCnt \in Nat
        BY DEF Inv, DagTypeOK, ThreadType
      <3>2. exeCnt' \in Nat
        BY <2>2, <3>1 DEF PopsNothing, ThreadType
      <3>3. thread' = [thread EXCEPT ![t].at = "idle", ![t].count = 0]
        BY <2>2 DEF PopsNothing
      <3>4. \E at \in {"idle", "pop", "finished"} : \E c \in Nat :
              thread' = [thread EXCEPT ![t].at = at, ![t].count = c]
        BY <3>3
      <3> QED BY <2>2, <3>1, <3>2, <3>4 DEF PopsNothing, At
    <2> QED BY <2>1, <2>2
  <1>2. PICK at \in {"idle", "pop", "finished"}, c \in Nat :
          thread' = [thread EXCEPT ![t].at = at, ![t].count = c]
    BY <1>1
  <1>3. /\ thread' \in [Workers -> ThreadType] /\ thread \in [Workers -> ThreadType]
        /\ \A u \in Workers \ {t} : thread'[u] = thread[u]
        /\ thread'[t].at = at
    BY <1>1, <1>2 DEF Inv, DagTypeOK, ThreadType
  <1>4. DagTypeOK'
    BY <1>1, <1>3, SameGraph DEF Inv, DagTypeOK, ThreadType
  <1>5. ThreadsRight'
    BY <1>1, <1>3, SameGraph DEF Inv, ThreadsRight, At, Holds
  <1>6. Open' = Open
    BY <1>1, <1>3, SameGraph DEF Open, At
  <1>7. \A u \in Workers : Pending(u)' = Pending(u)
    BY <1>1, <1>3 DEF Pending, At
  <1>8. \A u \in Workers : At(u, "execute") => At(u, "execute")' /\ thread'[u].id = thread[u].id
    BY <1>1, <1>3 DEF At
  <1> QED BY <1>1, <1>4, <1>5, <1>6, <1>7, <1>8, SameWork

LEMMA EndConsumeStep ==
  ASSUME Inv, NEW t \in Workers, EndConsume(t)
  PROVE  Inv'
  <1>1. /\ thread' \in [Workers -> ThreadType] /\ thread \in [Workers -> ThreadType]
        /\ \A u \in Workers \ {t} : thread'[u] = thread[u]
        /\ thread[t].at = "consume" /\ thread[t].rest = {}
        /\ thread'[t].at = IF thread[t].next # 0 THEN "run" ELSE "pop"
        /\ thread'[t].id = thread[t].next
    <2>1. thread \in [Workers -> ThreadType] /\ thread[t].next \in Tx \cup {0}
      BY DEF Inv, DagTypeOK, ThreadType
    <2>2. PICK at \in {"run", "pop"} : at = IF thread[t].next # 0 THEN "run" ELSE "pop"
      OBVIOUS
    <2>3. thread' = [thread EXCEPT ![t].at = at, ![t].id = thread[t].next]
      BY <2>2 DEF EndConsume
    <2>4. PICK r : r = [thread[t] EXCEPT !.at = at, !.id = thread[t].next]
      OBVIOUS
    <2>5. thread[t] \in ThreadType
      BY <2>1
    <2>6. r \in ThreadType /\ r.at = at /\ r.id = thread[t].next
      BY <2>1, <2>2, <2>4, <2>5 DEF ThreadType
    <2>7. thread' = [thread EXCEPT ![t] = r]
      BY <2>3, <2>4
    <2>8. thread[t].at = "consume" /\ thread[t].rest = {}
      BY DEF EndConsume, At
    <2> QED BY <2>1, <2>2, <2>6, <2>7, <2>8, ThreadChanges
  <1>2. UNCHANGED <<criticals, inDegree, topLevel, started, executed, exeCnt>>
    BY DEF EndConsume
  <1>3. DagTypeOK'
    BY <1>1, <1>2, SameGraph DEF Inv, DagTypeOK, ThreadType
  <1>4. ThreadsRight'
    BY <1>1, <1>2, SameGraph DEF Inv, ThreadsRight, At, Holds, ThreadType
  <1>5. Open' = Open
    BY <1>1, <1>2, SameGraph DEF Open, At
  <1>6. \A u \in Workers : Pending(u)' = Pending(u)
    BY <1>1 DEF Pending, At
  <1>7. \A u \in Workers : At(u, "execute") => At(u, "execute")' /\ thread'[u].id = thread[u].id
    BY <1>1 DEF At
  <1> QED BY <1>2, <1>3, <1>4, <1>5, <1>6, <1>7, SameWork

LEMMA WaitPopStep ==
  ASSUME Inv, NEW t \in Workers, waitPop(t)
  PROVE  Inv'
  <1>1. PICK id \in topLevel :
          /\ topLevel' = topLevel \ {id}
          /\ thread' = [thread EXCEPT ![t].at = "run", ![t].id = id]
    BY DEF waitPop
  <1>2. UNCHANGED <<criticals, inDegree, exeCnt, started, executed>> /\ thread[t].at = "pop"
    BY DEF waitPop, At
  <1>3. id \in Tx /\ id \notin started
    BY DEF Inv, DagTypeOK, PlacedOnce
  <1>4. /\ thread' \in [Workers -> ThreadType] /\ thread \in [Workers -> ThreadType]
        /\ \A u \in Workers \ {t} : thread'[u] = thread[u]
        /\ thread'[t].at = "run" /\ thread'[t].id = id
    BY <1>1, <1>3, ZenonT(30) DEF Inv, DagTypeOK, ThreadType
  <1>5. DagTypeOK'
    BY <1>1, <1>2, <1>4, SameGraph DEF Inv, DagTypeOK, ThreadType
  <1>6. ThreadsRight'
    BY <1>2, <1>3, <1>4, SameGraph DEF Inv, ThreadsRight, At, Holds
  <1>7. Open' = Open
    BY <1>2, <1>4, SameGraph DEF Open, At
  <1>8. /\ Pending(t) = {} /\ Pending(t)' = {id}
        /\ \A u \in Workers \ {t} : Pending(u)' = Pending(u)
    BY <1>2, <1>4 DEF Pending, At
  <1>9. PlacedOnce'
    BY <1>1, <1>2, <1>3, <1>8 DEF Inv, PlacedOnce
  <1>10. PlacedWhenFree'
    <2> SUFFICES ASSUME NEW j \in Tx
                 PROVE  inDegree[j] = 0 <=> j \in started \cup topLevel' \/ \E u \in Workers : j \in Pending(u)'
      BY <1>2, SameGraph DEF PlacedWhenFree
    <2>1. inDegree[j] = 0 <=> j \in started \cup topLevel \/ \E u \in Workers : j \in Pending(u)
      BY DEF Inv, PlacedWhenFree
    <2> QED BY <1>1, <1>8, <2>1
  <1>11. CountsOpen'
    BY <1>2, <1>7, SameGraph DEF Inv, CountsOpen, OpenIn
  <1>12. StartedIsHeld'
    BY <1>2, <1>4 DEF Inv, StartedIsHeld, At
  <1>13. ConflictsOrdered'
    BY <1>2, SameGraph DEF Inv, ConflictsOrdered
  <1> QED BY <1>5, <1>6, <1>9, <1>10, <1>11, <1>12, <1>13 DEF Inv

LEMMA BeginExecuteStep ==
  ASSUME Inv, NEW t \in Workers, BeginExecute(t)
  PROVE  Inv'
  <1> DEFINE id == thread[t].id
  <1>1. /\ UNCHANGED <<criticals, inDegree, topLevel, exeCnt, executed>>
        /\ thread[t].at = "run" /\ started' = started \cup {id}
    BY DEF BeginExecute, At
  <1>2. id \in Tx /\ Pending(t) = {id} /\ id \notin started /\ id \notin executed /\ id \notin topLevel
    BY <1>1 DEF Inv, ThreadsRight, PlacedOnce, StartedIsHeld, Pending, At
  <1>3. /\ thread' \in [Workers -> ThreadType] /\ thread \in [Workers -> ThreadType]
        /\ \A u \in Workers \ {t} : thread'[u] = thread[u]
        /\ thread'[t].at = "execute" /\ thread'[t].id = id
    BY <1>2 DEF BeginExecute, Inv, DagTypeOK, ThreadType
  <1>4. DagTypeOK'
    BY <1>1, <1>2, <1>3, SameGraph DEF Inv, DagTypeOK, ThreadType
  <1>5. \A u \in Workers \ {t} : thread[u].at = "execute" => thread[u].id # id
    BY <1>2 DEF Inv, ThreadsRight, At
  <1>6. ThreadsRight'
    BY <1>1, <1>2, <1>3, <1>5, SameGraph DEF Inv, ThreadsRight, At, Holds
  <1>7. Open' = Open
    BY <1>1, <1>3, SameGraph DEF Open, At
  <1>8. /\ Pending(t)' = {}
        /\ \A u \in Workers \ {t} : Pending(u)' = Pending(u)
    BY <1>3 DEF Pending, At
  <1>9. PlacedOnce'
    BY <1>1, <1>2, <1>8 DEF Inv, PlacedOnce
  <1>10. PlacedWhenFree'
    <2> SUFFICES ASSUME NEW j \in Tx
                 PROVE  inDegree[j] = 0 <=> j \in started' \cup topLevel \/ \E u \in Workers : j \in Pending(u)'
      BY <1>1, SameGraph DEF PlacedWhenFree
    <2>1. inDegree[j] = 0 <=> j \in started \cup topLevel \/ \E u \in Workers : j \in Pending(u)
      BY DEF Inv, PlacedWhenFree
    <2> QED BY <1>1, <1>2, <1>8, <2>1
  <1>11. CountsOpen'
    BY <1>1, <1>7, SameGraph DEF Inv, CountsOpen, OpenIn
  <1>12. StartedIsHeld'
    BY <1>1, <1>3 DEF Inv, StartedIsHeld, At
  <1>13. ConflictsOrdered'
    <2> SUFFICES ASSUME NEW i \in Tx, NEW j \in Tx, i < j, Conflict(i, j), j \in started'
                 PROVE  i \in executed
      BY <1>1, SameGraph DEF ConflictsOrdered
    <2>1. CASE j \in started
      BY <2>1 DEF Inv, ConflictsOrdered
    <2>2. CASE j = id
      <3>1. inDegree[id] = 0
        BY <1>2 DEF Inv, PlacedWhenFree
      <3>2. OpenIn(id) = {}
        BY <1>2, <3>1, OpenFinite DEF Inv, CountsOpen, DagTypeOK, CriticalsOK
      <3> QED BY <1>2, <2>2, <3>2, FreeIsOrdered
    <2> QED BY <1>1, <2>1, <2>2
  <1> QED BY <1>4, <1>6, <1>9, <1>10, <1>11, <1>12, <1>13 DEF Inv

LEMMA EndExecuteStep ==
  ASSUME Inv, NEW t \in Workers, EndExecute(t)
  PROVE  Inv'
  <1> DEFINE id == thread[t].id
  <1>1. /\ UNCHANGED <<criticals, inDegree, topLevel, exeCnt, started>>
        /\ thread[t].at = "execute" /\ executed' = executed \cup {id}
    BY DEF EndExecute, At
  <1>2. id \in Tx /\ id \in started \ executed /\ Pending(t) = {}
    BY <1>1 DEF Inv, ThreadsRight, Pending, At
  <1>3. Out(id) \subseteq Edges
    BY DEF Out
  <1>4. /\ thread' \in [Workers -> ThreadType] /\ thread \in [Workers -> ThreadType]
        /\ \A u \in Workers \ {t} : thread'[u] = thread[u]
        /\ thread'[t].at = "consume" /\ thread'[t].id = id
        /\ thread'[t].rest = Out(id) /\ thread'[t].next = 0
    BY <1>3, ZenonT(30) DEF EndExecute, Inv, DagTypeOK, ThreadType
  <1>5. DagTypeOK'
    BY <1>1, <1>2, <1>4, SameGraph DEF Inv, DagTypeOK, ThreadType
  <1>6. \A u \in Workers \ {t} : /\ thread[u].at = "execute" => thread[u].id # id
                                 /\ thread[u].at = "consume" => thread[u].id # id
    BY <1>1, <1>2 DEF Inv, ThreadsRight, At, Holds
  <1>7. ThreadsRight'
    BY <1>1, <1>2, <1>4, <1>6, SameGraph DEF Inv, ThreadsRight, At, Holds
  <1>8. Open' = Open
    <2>1. \A e \in Edges : e[1] = id => e \in Out(id)
      BY DEF Out
    <2>2. \A e \in Out(id) : e[1] = id
      BY DEF Out
    <2> QED BY <1>1, <1>2, <1>4, <2>1, <2>2, SameGraph DEF Open, At
  <1>9. \A u \in Workers : Pending(u)' = Pending(u)
    BY <1>1, <1>2, <1>4 DEF Pending, At
  <1>10. PlacedOnce'
    BY <1>1, <1>9 DEF Inv, PlacedOnce
  <1>11. PlacedWhenFree'
    BY <1>1, <1>9, SameGraph DEF Inv, PlacedWhenFree
  <1>12. CountsOpen'
    BY <1>1, <1>8, SameGraph DEF Inv, CountsOpen, OpenIn
  <1>13. StartedIsHeld'
    BY <1>1, <1>2, <1>4 DEF Inv, StartedIsHeld, At
  <1>14. ConflictsOrdered'
    BY <1>1, SameGraph DEF Inv, ConflictsOrdered
  <1> QED BY <1>5, <1>7, <1>10, <1>11, <1>12, <1>13, <1>14 DEF Inv

(* Taking away an edge: it was open, and the thread that sees the last one   *)
(* of a transaction go is the only one that places this transaction.         *)
LEMMA ConsumeEdgeStep ==
  ASSUME Inv, NEW t \in Workers, ConsumeEdge(t)
  PROVE  Inv'
  <1>1. PICK e \in thread[t].rest :
          /\ inDegree' = [inDegree EXCEPT ![e[3]] = @ - 1]
          /\ thread' = [thread EXCEPT ![t].rest = @ \ {e},
                                      ![t].next = IF inDegree[e[3]] = 1 /\ @ = 0 THEN e[3] ELSE @]
          /\ topLevel' = topLevel \cup (IF inDegree[e[3]] = 1 /\ thread[t].next # 0 THEN {e[3]} ELSE {})
    BY DEF ConsumeEdge
  <1>2. UNCHANGED <<criticals, exeCnt, started, executed>> /\ thread[t].at = "consume"
    BY DEF ConsumeEdge, At
  <1> DEFINE id == thread[t].id
             j == e[3]
             next == IF inDegree[j] = 1 /\ thread[t].next = 0 THEN j ELSE thread[t].next
  <1>3. CriticalsOK /\ thread \in [Workers -> ThreadType] /\ inDegree \in [Tx -> Nat]
    BY DEF Inv, DagTypeOK, CriticalsOK, ThreadType
  <1>4. e \in Edges /\ e \in Out(id) /\ id \in executed
    BY <1>2, <1>3 DEF Inv, ThreadsRight, At, Out
  <1>5. e[1] = id /\ j \in Tx /\ j # 0
    BY <1>3, <1>4, EdgeShape, TxNumbers DEF Out
  <1>6. /\ thread' \in [Workers -> ThreadType]
        /\ \A u \in Workers \ {t} : thread'[u] = thread[u]
        /\ thread'[t].at = "consume" /\ thread'[t].id = id
        /\ thread'[t].rest = thread[t].rest \ {e} /\ thread'[t].next = next
    <2>1. next \in Tx \cup {0}
      BY <1>3, <1>5 DEF ThreadType
    <2>2. thread' = [thread EXCEPT ![t].rest = thread[t].rest \ {e}, ![t].next = next]
      BY <1>1, <1>3 DEF ThreadType
    <2> HIDE DEF next
    <2> QED BY <1>2, <1>3, <2>1, <2>2 DEF ThreadType
  <1>7. e \in Open /\ e \in OpenIn(j)
    BY <1>2, <1>4 DEF Open, OpenIn, At
  <1>8. Open' = Open \ {e}
    <2>1. \A u \in Workers \ {t} : thread[u].at = "consume" => e \notin thread[u].rest
      BY <1>2, <1>5 DEF Inv, ThreadsRight, At, Holds, Out
    <2>2. \A f \in Edges : f \in Open' <=> f[1] \notin executed \/ \E u \in Workers : At(u, "consume")' /\ f \in thread'[u].rest
      BY <1>2, SameGraph DEF Open
    <2>3. \A f \in Edges : f \in Open <=> f[1] \notin executed \/ \E u \in Workers : At(u, "consume") /\ f \in thread[u].rest
      BY DEF Open
    <2>4. ASSUME NEW f \in Edges PROVE f \in Open' <=> f \in Open /\ f # e
      BY <1>2, <1>4, <1>5, <1>6, <2>1, <2>2, <2>3 DEF At
    <2>5. Open' \subseteq Edges /\ Open \subseteq Edges
      BY <1>2, SameGraph DEF Open
    <2> QED BY <2>4, <2>5
  <1>9. \A k \in Tx : inDegree[k] = Cardinality(OpenIn(k))
    BY DEF Inv, CountsOpen
  <1>10. inDegree[j] # 0
    BY <1>3, <1>5, <1>7, <1>9, OpenFinite
  <1>11. inDegree' \in [Tx -> Nat] /\ inDegree'[j] = inDegree[j] - 1
         /\ \A k \in Tx \ {j} : inDegree'[k] = inDegree[k]
    BY <1>1, <1>3, <1>5, <1>10
  <1>12. DagTypeOK'
    <2>1. topLevel' \subseteq Tx
      BY <1>1, <1>5 DEF Inv, DagTypeOK
    <2> QED BY <1>2, <1>6, <1>11, <2>1, SameGraph DEF Inv, DagTypeOK, ThreadType
  <1>13. ThreadsRight'
    BY <1>2, <1>6, SameGraph DEF Inv, ThreadsRight, At, Holds
  <1>14. CountsOpen'
    <2> SUFFICES ASSUME NEW k \in Tx PROVE inDegree'[k] = Cardinality(OpenIn(k)')
      BY <1>2, SameGraph DEF CountsOpen
    <2>1. CASE k = j
      <3>1. OpenIn(k)' = OpenIn(k) \ {e}
        BY <1>8, <2>1 DEF OpenIn
      <3>2. IsFiniteSet(OpenIn(k)) /\ e \in OpenIn(k)
        BY <1>3, <1>7, <2>1, OpenFinite
      <3>3. Cardinality(OpenIn(k) \ {e}) = Cardinality(OpenIn(k)) - 1
        BY <3>2, FS_RemoveElement
      <3> QED BY <1>9, <1>11, <2>1, <3>1, <3>3
    <2>2. CASE k # j
      <3>1. OpenIn(k)' = OpenIn(k)
        BY <1>8, <2>2 DEF OpenIn
      <3> QED BY <1>9, <1>11, <2>2, <3>1
    <2> QED BY <2>1, <2>2
  <1>15. j \notin started /\ j \notin topLevel /\ \A u \in Workers : j \notin Pending(u)
    BY <1>5, <1>10 DEF Inv, PlacedWhenFree
  <1>16. /\ \A u \in Workers \ {t} : Pending(u)' = Pending(u)
         /\ Pending(t) = {thread[t].next} \ {0} /\ Pending(t)' = {next} \ {0}
    BY <1>2, <1>6 DEF Pending, At
  <1>17. PlacedOnce'
    BY <1>1, <1>2, <1>15, <1>16 DEF Inv, PlacedOnce
  <1>18. PlacedWhenFree'
    <2> SUFFICES ASSUME NEW k \in Tx
                 PROVE  inDegree'[k] = 0 <=> k \in started \cup topLevel' \/ \E u \in Workers : k \in Pending(u)'
      BY <1>2, SameGraph DEF PlacedWhenFree
    <2>1. inDegree[k] = 0 <=> k \in started \cup topLevel \/ \E u \in Workers : k \in Pending(u)
      BY DEF Inv, PlacedWhenFree
    <2>2. CASE k # j
      BY <1>1, <1>11, <1>16, <2>1, <2>2
    <2>3. CASE k = j /\ inDegree[j] = 1
      BY <1>1, <1>5, <1>11, <1>16, <2>3
    <2>4. CASE k = j /\ inDegree[j] # 1
      <3>1. inDegree'[j] # 0
        BY <1>3, <1>5, <1>11, <2>4
      <3> QED BY <1>1, <1>15, <1>16, <2>4, <3>1
    <2> QED BY <2>2, <2>3, <2>4
  <1>19. StartedIsHeld'
    BY <1>2, <1>6 DEF Inv, StartedIsHeld, At
  <1>20. ConflictsOrdered'
    BY <1>2, SameGraph DEF Inv, ConflictsOrdered
  <1> QED BY <1>12, <1>13, <1>14, <1>17, <1>18, <1>19, <1>20 DEF Inv

LEMMA DagInvariant == DagSpec => []Inv
  <1>1. DagInit => Inv
    BY DagInitInv
  <1>2. Inv /\ [DagNext]_dagVars => Inv'
    <2> SUFFICES ASSUME Inv, [DagNext]_dagVars PROVE Inv'
      OBVIOUS
    <2>1. ASSUME NEW t \in Workers, Step(t) PROVE Inv'
      BY <2>1, IdleSteps, WaitPopStep, BeginExecuteStep, EndExecuteStep, ConsumeEdgeStep,
         EndConsumeStep DEF Step
    <2>2. CASE UNCHANGED dagVars
      <3>1. UNCHANGED <<criticals, inDegree, topLevel, exeCnt, started, executed, thread>>
        BY <2>2 DEF dagVars
      <3>2. DagTypeOK' /\ ThreadsRight'
        BY <3>1, SameGraph DEF Inv, DagTypeOK, ThreadsRight, At, Holds
      <3>3. Open' = Open /\ \A t \in Workers : Pending(t)' = Pending(t)
        BY <3>1, SameGraph DEF Open, Pending, At
      <3>4. \A t \in Workers : At(t, "execute") => At(t, "execute")' /\ thread'[t].id = thread[t].id
        BY <3>1 DEF At
      <3> QED BY <3>1, <3>2, <3>3, <3>4, SameWork
    <2> QED BY <2>1, <2>2 DEF DagNext
  <1> QED BY <1>1, <1>2, PTL DEF DagSpec

-----------------------------------------------------------------------------
(* The counts: m_exeCnt stands for the transactions done, of which no thread *)
(* speaks any more, and the count of a thread for those of its present call  *)
(* of executeUnit.  No transaction is counted twice.                         *)
Accounted(done, batch) ==
  /\ done \subseteq executed /\ exeCnt = Cardinality(done)
  /\ \A t \in Workers :
       /\ batch[t] \subseteq started \ done
       /\ thread[t].count = Cardinality(batch[t])
       /\ batch[t] \subseteq executed \/ (At(t, "execute") /\ batch[t] \subseteq executed \cup {thread[t].id})
       /\ \A u \in Workers \ {t} : batch[t] \cap batch[u] = {}

CountsDone ==
  /\ \E done \in SUBSET Tx : \E batch \in [Workers -> SUBSET Tx] : Accounted(done, batch)
  /\ ReturnsWhenDone

LEMMA CountsDoneInit == DagInit => CountsDone
  <1> SUFFICES ASSUME DagInit PROVE CountsDone
    OBVIOUS
  <1>1. /\ exeCnt = 0 /\ executed = {} /\ started = {}
        /\ \A t \in Workers : thread[t].count = 0 /\ thread[t].at = "idle"
    BY DEF DagInit, Generate, NewThread
  <1> DEFINE batch == [t \in Workers |-> {}]
  <1>2. Accounted({}, batch)
    BY <1>1, FS_EmptySet DEF Accounted
  <1>3. batch \in [Workers -> SUBSET Tx]
    OBVIOUS
  <1> HIDE DEF batch
  <1> QED BY <1>1, <1>2, <1>3 DEF CountsDone, ReturnsWhenDone, At

(* The threads do not touch the counts while they look for work. *)
LEMMA CountsSame ==
  ASSUME CountsDone, UNCHANGED <<criticals, exeCnt, started, executed>>,
         \A t \in Workers : /\ thread'[t].count = thread[t].count
                            /\ At(t, "execute") => At(t, "execute")' /\ thread'[t].id = thread[t].id
                            /\ At(t, "finished")' => At(t, "finished")
  PROVE  CountsDone'
  <1>1. PICK done \in SUBSET Tx, batch \in [Workers -> SUBSET Tx] : Accounted(done, batch)
    BY DEF CountsDone
  <1>2. Accounted(done, batch)'
    BY <1>1 DEF Accounted
  <1>3. ReturnsWhenDone'
    BY SameGraph DEF CountsDone, ReturnsWhenDone
  <1> QED BY <1>1, <1>2, <1>3, SameGraph DEF CountsDone

(* A thread leaves the loop: as many transactions are done as there are. *)
LEMMA HasFinishedCounts ==
  ASSUME Inv, CountsDone, NEW t \in Workers, HasFinished(t)
  PROVE  CountsDone'
  <1>1. PICK done \in SUBSET Tx, batch \in [Workers -> SUBSET Tx] : Accounted(done, batch)
    BY DEF CountsDone
  <1>2. UNCHANGED <<criticals, exeCnt, started, executed>> /\ thread[t].at = "idle"
    BY DEF HasFinished, At
  <1>3. PICK at \in {"finished", "pop"} :
          /\ at = "finished" => exeCnt >= Cardinality(Tx)
          /\ thread' = [thread EXCEPT ![t].at = at]
    BY DEF HasFinished
  <1>4. /\ thread'[t].at = at /\ thread'[t].count = thread[t].count
        /\ \A u \in Workers \ {t} : thread'[u] = thread[u]
    BY <1>3 DEF Inv, DagTypeOK
  <1>5. CASE at = "finished"
    <2>1. IsFiniteSet(Tx) /\ Cardinality(Tx) \in Nat /\ Cardinality(done) \in Nat
      <3>1. IsFiniteSet(Tx)
        BY TxNumbers DEF Inv, DagTypeOK, CriticalsOK
      <3>2. IsFiniteSet(done)
        BY <1>1, <3>1, FS_Subset
      <3> QED BY <3>1, <3>2, FS_CardinalityType
    <2>2. Cardinality(done) <= Cardinality(Tx) /\ (Cardinality(Tx) = Cardinality(done) => Tx = done)
      BY <1>1, <2>1, FS_Subset
    <2>3. executed = Tx
      <3>1. done \subseteq executed /\ exeCnt = Cardinality(done) /\ exeCnt >= Cardinality(Tx)
        BY <1>1, <1>3, <1>5 DEF Accounted
      <3>2. Tx = done
        BY <2>1, <2>2, <3>1
      <3> QED BY <3>1, <3>2 DEF Inv, DagTypeOK
    <2>4. ReturnsWhenDone'
      BY <1>2, <2>3, SameGraph DEF ReturnsWhenDone
    <2>5. Accounted(done, batch)'
      BY <1>1, <1>2, <1>4 DEF Accounted, At
    <2> QED BY <1>1, <1>2, <2>4, <2>5, SameGraph DEF CountsDone
  <1>6. CASE at = "pop"
    <2>1. \A u \in Workers : /\ thread'[u].count = thread[u].count
                             /\ At(u, "execute") => At(u, "execute")' /\ thread'[u].id = thread[u].id
                             /\ At(u, "finished")' => At(u, "finished")
      BY <1>2, <1>4, <1>6 DEF At
    <2> QED BY <1>2, <2>1, CountsSame
  <1> QED BY <1>5, <1>6

(* executeUnit returns: its transactions, all executed, join those done. *)
LEMMA PopsNothingCounts ==
  ASSUME Inv, CountsDone, NEW t \in Workers, PopsNothing(t)
  PROVE  CountsDone'
  <1>1. PICK done \in SUBSET Tx, batch \in [Workers -> SUBSET Tx] : Accounted(done, batch)
    BY DEF CountsDone
  <1>2. /\ UNCHANGED <<criticals, started, executed>> /\ thread[t].at = "pop"
        /\ exeCnt' = exeCnt + thread[t].count
    BY DEF PopsNothing, At
  <1>3. /\ thread'[t].at = "idle" /\ thread'[t].count = 0
        /\ \A u \in Workers \ {t} : thread'[u] = thread[u]
    BY DEF PopsNothing, Inv, DagTypeOK
  <1>4. PICK all \in SUBSET Tx : all = done \cup batch[t]
    BY <1>1
  <1>5. PICK rest \in [Workers -> SUBSET Tx] :
          rest[t] = {} /\ \A u \in Workers \ {t} : rest[u] = batch[u]
    <2>1. [batch EXCEPT ![t] = {}] \in [Workers -> SUBSET Tx]
      BY <1>1
    <2> QED BY <1>1, <2>1
  <1>6. batch[t] \subseteq executed
    BY <1>1, <1>2 DEF Accounted, At
  <1>7. exeCnt' = Cardinality(all)
    <2>1. IsFiniteSet(Tx)
      BY TxNumbers DEF Inv, DagTypeOK, CriticalsOK
    <2>2. IsFiniteSet(done) /\ IsFiniteSet(batch[t])
      BY <1>1, <2>1, FS_Subset
    <2>3. done \cap batch[t] = {}
      BY <1>1 DEF Accounted
    <2>4. Cardinality(all) = Cardinality(done) + Cardinality(batch[t])
      <3>1. Cardinality(done \cup batch[t])
              = Cardinality(done) + Cardinality(batch[t]) - Cardinality(done \cap batch[t])
        BY <2>2, FS_Union
      <3>2. Cardinality(done \cap batch[t]) = 0
        BY <2>3, FS_EmptySet
      <3>3. Cardinality(done) \in Nat /\ Cardinality(batch[t]) \in Nat
        BY <2>2, FS_CardinalityType
      <3> QED BY <1>4, <3>1, <3>2, <3>3
    <2> QED BY <1>1, <1>2, <2>4 DEF Accounted
  <1>8. Accounted(all, rest)'
    <2>1. all \subseteq executed'
      BY <1>1, <1>2, <1>4, <1>6 DEF Accounted
    <2>2. ASSUME NEW u \in Workers
          PROVE  /\ rest[u] \subseteq started' \ all /\ thread'[u].count = Cardinality(rest[u])
                 /\ rest[u] \subseteq executed' \/ (At(u, "execute")' /\ rest[u] \subseteq executed' \cup {thread'[u].id})
                 /\ \A v \in Workers \ {u} : rest[u] \cap rest[v] = {}
      <3>1. CASE u = t
        BY <1>3, <1>5, <3>1, FS_EmptySet
      <3>2. CASE u # t
        BY <1>1, <1>2, <1>3, <1>4, <1>5, <3>2 DEF Accounted, At
      <3> QED BY <3>1, <3>2
    <2> QED BY <1>7, <2>1, <2>2 DEF Accounted
  <1>9. ReturnsWhenDone'
    BY <1>2, <1>3, SameGraph DEF CountsDone, ReturnsWhenDone, At
  <1> QED BY <1>2, <1>8, <1>9, SameGraph DEF CountsDone

(* A transaction is counted when its execution begins. *)
LEMMA BeginExecuteCounts ==
  ASSUME Inv, CountsDone, NEW t \in Workers, BeginExecute(t)
  PROVE  CountsDone'
  <1>1. PICK done \in SUBSET Tx, batch \in [Workers -> SUBSET Tx] : Accounted(done, batch)
    BY DEF CountsDone
  <1>2. PICK id \in Tx : id = thread[t].id /\ id \notin started
    BY DEF BeginExecute, At, Inv, ThreadsRight, PlacedOnce, Pending
  <1>3. /\ UNCHANGED <<criticals, exeCnt, executed>> /\ thread[t].at = "run"
        /\ started' = started \cup {id}
    BY <1>2 DEF BeginExecute, At
  <1>4. /\ thread'[t].at = "execute" /\ thread'[t].id = id
        /\ thread'[t].count = thread[t].count + 1
        /\ \A u \in Workers \ {t} : thread'[u] = thread[u]
    BY <1>2 DEF BeginExecute, Inv, DagTypeOK
  <1>5. PICK more \in [Workers -> SUBSET Tx] :
          more[t] = batch[t] \cup {id} /\ \A u \in Workers \ {t} : more[u] = batch[u]
    <2>1. [batch EXCEPT ![t] = batch[t] \cup {id}] \in [Workers -> SUBSET Tx]
      BY <1>1, <1>2
    <2> QED BY <1>1, <2>1
  <1>6. Cardinality(more[t]) = thread[t].count + 1
    <2>1. IsFiniteSet(Tx)
      BY TxNumbers DEF Inv, DagTypeOK, CriticalsOK
    <2>2. IsFiniteSet(batch[t])
      BY <1>1, <2>1, FS_Subset
    <2>3. id \notin batch[t] /\ thread[t].count = Cardinality(batch[t])
      BY <1>1, <1>2 DEF Accounted
    <2>4. Cardinality(batch[t] \cup {id}) = Cardinality(batch[t]) + 1
      BY <2>2, <2>3, FS_AddElement
    <2> QED BY <1>5, <2>3, <2>4
  <1>7. executed \subseteq started
    BY DEF Inv, StartedIsHeld
  <1>8. Accounted(done, more)'
    <2>1. ASSUME NEW u \in Workers
          PROVE  /\ more[u] \subseteq started' \ done /\ thread'[u].count = Cardinality(more[u])
                 /\ more[u] \subseteq executed' \/ (At(u, "execute")' /\ more[u] \subseteq executed' \cup {thread'[u].id})
                 /\ \A v \in Workers \ {u} : more[u] \cap more[v] = {}
      <3>1. id \notin done /\ \A v \in Workers : id \notin batch[v]
        BY <1>1, <1>2, <1>7 DEF Accounted
      <3>2. \A v \in Workers : \A w \in Workers \ {v} : more[v] \cap more[w] = {}
        BY <1>1, <1>5, <3>1 DEF Accounted
      <3>3. CASE u = t
        <4>1. batch[t] \subseteq executed
          BY <1>1, <1>3 DEF Accounted, At
        <4>2. At(t, "execute")' /\ more[t] \subseteq executed' \cup {thread'[t].id}
          BY <1>3, <1>4, <1>5, <4>1 DEF At
        <4>3. more[t] \subseteq started' \ done
          BY <1>1, <1>3, <1>5, <3>1 DEF Accounted
        <4> QED BY <1>4, <1>6, <3>2, <3>3, <4>2, <4>3
      <3>4. CASE u # t
        BY <1>1, <1>3, <1>4, <1>5, <3>2, <3>4 DEF Accounted, At
      <3> QED BY <3>3, <3>4
    <2> QED BY <1>1, <1>3, <2>1 DEF Accounted
  <1>9. ReturnsWhenDone'
    BY <1>3, <1>4, SameGraph DEF CountsDone, ReturnsWhenDone, At
  <1> QED BY <1>1, <1>3, <1>8, <1>9, SameGraph DEF CountsDone

LEMMA EndExecuteCounts ==
  ASSUME Inv, CountsDone, NEW t \in Workers, EndExecute(t)
  PROVE  CountsDone'
  <1>1. PICK done \in SUBSET Tx, batch \in [Workers -> SUBSET Tx] : Accounted(done, batch)
    BY DEF CountsDone
  <1>2. /\ UNCHANGED <<criticals, exeCnt, started>> /\ thread[t].at = "execute"
        /\ executed' = executed \cup {thread[t].id}
    BY DEF EndExecute, At
  <1>3. /\ thread'[t].at = "consume" /\ thread'[t].count = thread[t].count
        /\ \A u \in Workers \ {t} : thread'[u] = thread[u]
    BY DEF EndExecute, Inv, DagTypeOK
  <1>4. Accounted(done, batch)'
    <2>1. ASSUME NEW u \in Workers
          PROVE  /\ thread'[u].count = thread[u].count
                 /\ batch[u] \subseteq executed' \/ (At(u, "execute")' /\ batch[u] \subseteq executed' \cup {thread'[u].id})
      <3>1. CASE u = t
        BY <1>1, <1>2, <1>3, <3>1 DEF Accounted
      <3>2. CASE u # t
        BY <1>1, <1>2, <1>3, <3>2 DEF Accounted, At
      <3> QED BY <3>1, <3>2
    <2> QED BY <1>1, <1>2, <2>1 DEF Accounted
  <1>5. ReturnsWhenDone'
    <2>1. executed = Tx => executed' = Tx
      BY <1>2 DEF Inv, ThreadsRight, At
    <2> QED BY <1>2, <1>3, <2>1, SameGraph DEF CountsDone, ReturnsWhenDone, At
  <1> QED BY <1>1, <1>2, <1>4, <1>5, SameGraph DEF CountsDone

LEMMA CountsDoneStep ==
  ASSUME Inv, CountsDone, NEW t \in Workers, Step(t)
  PROVE  CountsDone'
  <1>1. CASE waitPop(t) \/ ConsumeEdge(t) \/ EndConsume(t)
    <2>1. UNCHANGED <<criticals, exeCnt, started, executed>> /\ thread[t].at \in {"pop", "consume"}
      BY <1>1 DEF waitPop, ConsumeEdge, EndConsume, At
    <2>2. /\ thread'[t].count = thread[t].count /\ thread'[t].at \in {"run", "consume", "pop"}
          /\ \A u \in Workers \ {t} : thread'[u] = thread[u]
      <3>1. CASE waitPop(t)
        BY <3>1 DEF waitPop, Inv, DagTypeOK
      <3>2. CASE ConsumeEdge(t)
        BY <3>2 DEF ConsumeEdge, Inv, DagTypeOK, At
      <3>3. CASE EndConsume(t)
        BY <3>3 DEF EndConsume, Inv, DagTypeOK
      <3> QED BY <1>1, <3>1, <3>2, <3>3
    <2>3. \A u \in Workers : /\ thread'[u].count = thread[u].count
                             /\ At(u, "execute") => At(u, "execute")' /\ thread'[u].id = thread[u].id
                             /\ At(u, "finished")' => At(u, "finished")
      BY <2>1, <2>2 DEF At
    <2> QED BY <2>1, <2>3, CountsSame
  <1> QED BY <1>1, HasFinishedCounts, PopsNothingCounts, BeginExecuteCounts, EndExecuteCounts DEF Step

(* A thread leaves the loop of parallelExecuteBlock only when every          *)
(* transaction has been executed (executeUnit, hasFinished).                 *)
THEOREM DagReturnsWhenDone == DagSpec => []ReturnsWhenDone
  <1>1. Inv /\ CountsDone /\ [DagNext]_dagVars => CountsDone'
    <2> SUFFICES ASSUME Inv, CountsDone, [DagNext]_dagVars PROVE CountsDone'
      OBVIOUS
    <2>1. CASE UNCHANGED dagVars
      <3>1. UNCHANGED <<criticals, exeCnt, started, executed, thread>>
        BY <2>1 DEF dagVars
      <3> QED BY <3>1, CountsSame DEF At
    <2> QED BY <2>1, CountsDoneStep DEF DagNext
  <1>2. CountsDone => ReturnsWhenDone
    BY DEF CountsDone
  <1> QED BY <1>1, <1>2, CountsDoneInit, DagInvariant, PTL DEF DagSpec

-----------------------------------------------------------------------------
(* Every variable keeps its type: above all, an in-degree never falls below  *)
(* zero (DAG::consume).                                                      *)
THEOREM DagTypeCorrect == DagSpec => []DagTypeOK
  <1>1. Inv => DagTypeOK
    BY DEF Inv
  <1> QED BY <1>1, DagInvariant, PTL

(* Conflicting transactions are executed one after the other in the order of *)
(* the block (TxDAG::init, DAG::consume).                                    *)
THEOREM DagConflictsOrdered == DagSpec => []ConflictsOrdered
  <1>1. Inv => ConflictsOrdered
    BY DEF Inv
  <1> QED BY <1>1, DagInvariant, PTL

(* No transaction is lost on its way to the threads (DAG::consume,           *)
(* DAG::waitPop).                                                            *)
THEOREM DagNothingStuck == DagSpec => []NothingStuck
  <1> QED BY NotStuck, DagInvariant, PTL
=============================================================================
