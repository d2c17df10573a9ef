---------------------------- MODULE StorageCache ----------------------------
(* One key of CachedStorage.  The rows of the key live in a Cache object     *)
(* that the map m_caches points to; a thread finds the object in the map,    *)
(* locks it, and looks again whether the map still points to it (touchCache).*)
(* Threads that read select the rows, one thread commits the blocks, one     *)
(* clears what RocksDB already holds and one writes the blocks to RocksDB.   *)
(* The rows are the set of the blocks whose updates they contain.            *)
(* An object that no thread and no map holds is used again for a new one.    *)
(* Left out: entries that are committed with force (a new key per block),    *)
(* conditions, sizes: whether the cache is over its limit is a free choice.  *)
EXTENDS Naturals, Sequences, FiniteSetsExt

CONSTANTS
  Readers,        \* threads that select
  Objects,        \* numbers of the Cache objects
  MaxUpdates      \* bound of the model: blocks that update the key

ASSUME CacheAssumption ==
  /\ Objects \subseteq Nat \ {0} /\ MaxUpdates \in Nat
  /\ "commit" \notin Readers /\ "clear" \notin Readers

VARIABLES
  map,            \* m_caches: the object of the key, 0 when it has none
  cell,           \* of every object m_empty, m_num and the rows
  cacheThread,    \* of every thread its place in the code and the object it holds
  mru, queued,    \* the key is in m_mru, or on its way there in m_mruQueue
  commitNum,      \* the last block that was committed to the cache
  keyTasks,       \* rows that wait for the task thread
  keySyncNum,     \* m_syncNum
  dbRows,         \* rows of the key in RocksDB
  exited          \* the process called exit(1)

cacheVars == <<map, cell, cacheThread, mru, queued, commitNum, keyTasks, keySyncNum, dbRows, exited>>
backVars == <<commitNum, keyTasks, keySyncNum, dbRows>>

Threads == Readers \cup {"commit", "clear"}
NewCell == [empty |-> TRUE, num |-> 0, rows |-> {}]
IsAt(t, place) == ~exited /\ cacheThread[t].at = place
Move(t, place) == cacheThread' = [cacheThread EXCEPT ![t].at = place]
Leave(t) == cacheThread' = [cacheThread EXCEPT ![t] = [at |-> "idle", object |-> 0]]

Holding == {"recheck", "held", "restore", "update", "remove"}
Unlocked(o) == \A t \in Threads : ~(cacheThread[t].object = o /\ cacheThread[t].at \in Holding)

CacheInit ==
  /\ map = 0 /\ cell = [o \in Objects |-> NewCell]
  /\ cacheThread = [t \in Threads |-> [at |-> "idle", object |-> 0]]
  /\ mru = FALSE /\ queued = FALSE
  /\ commitNum = 0 /\ keyTasks = <<>> /\ keySyncNum = 0 /\ dbRows = {}
  /\ exited = FALSE

-----------------------------------------------------------------------------
(* touchCache.                                                               *)

\* An object is inserted into the map, or the one that is there is taken.
Free == {o \in Objects : o # map /\ \A t \in Threads : cacheThread[t].object # o}

Insert(t) ==
  /\ IsAt(t, "idle")
  /\ IF map = 0
     THEN /\ Free # {}
          /\ map' = Min(Free)
          /\ cell' = [cell EXCEPT ![Min(Free)] = NewCell]
          /\ cacheThread' = [cacheThread EXCEPT ![t] = [at |-> "inserted", object |-> Min(Free)]]
     ELSE /\ cacheThread' = [cacheThread EXCEPT ![t] = [at |-> "found", object |-> map]]
          /\ UNCHANGED <<map, cell>>
  /\ UNCHANGED <<mru, queued, backVars, exited>>

\* Only a thread that found its object looks again at the map.
Lock(t) ==
  /\ Unlocked(cacheThread[t].object)
  /\ \/ IsAt(t, "inserted") /\ Move(t, "held")
     \/ IsAt(t, "found") /\ Move(t, "recheck")
  /\ UNCHANGED <<map, cell, mru, queued, backVars, exited>>

\* The object is put back when the map has none, and given up for another one, for whose
\* lock the thread waits while it holds the lock of the map.
Recheck(t) ==
  /\ IsAt(t, "recheck")
  /\ IF map \in {0, cacheThread[t].object}
     THEN Move(t, "held") /\ map' = cacheThread[t].object
     ELSE cacheThread' = [cacheThread EXCEPT ![t] = [at |-> "relock", object |-> map]] /\ UNCHANGED map
  /\ UNCHANGED <<cell, mru, queued, backVars, exited>>

Relock(t) ==
  /\ IsAt(t, "relock") /\ Unlocked(cacheThread[t].object)
  /\ Move(t, "held")
  /\ UNCHANGED <<map, cell, mru, queued, backVars, exited>>

-----------------------------------------------------------------------------
(* selectNoCondition: rows that are not cached are read from RocksDB.        *)
Rows(t) == LET c == cell[cacheThread[t].object] IN IF c.empty THEN dbRows ELSE c.rows

selectNoCondition(t) ==
  /\ IsAt(t, "held") /\ t \in Readers
  /\ cell' = [cell EXCEPT ![cacheThread[t].object].rows = Rows(t), ![cacheThread[t].object].empty = FALSE]
  /\ queued' = TRUE
  /\ Leave(t)
  /\ UNCHANGED <<map, mru, backVars, exited>>

-----------------------------------------------------------------------------
(* commit, of the next block that updates the key.                           *)
BeginCommit == commitNum < MaxUpdates /\ Insert("commit")

\* Rows that are not cached are read, before the object is put back into the map.
CommitLoads ==
  /\ IsAt("commit", "held")
  /\ IF cell[cacheThread["commit"].object].empty
     THEN /\ cell' = [cell EXCEPT ![cacheThread["commit"].object].rows = dbRows]
          /\ queued' = TRUE /\ Move("commit", "restore")
     ELSE Move("commit", "update") /\ UNCHANGED <<cell, queued>>
  /\ UNCHANGED <<map, mru, backVars, exited>>

\* Mutant: the object is not put back.
DoesNotRestore ==
  /\ IsAt("commit", "restore")
  /\ Move("commit", "update")
  /\ UNCHANGED <<map, cell, mru, queued, backVars, exited>>

restoreCache ==
  /\ IsAt("commit", "restore")
  /\ IF map \in {0, cacheThread["commit"].object}
     THEN map' = cacheThread["commit"].object /\ Move("commit", "update") /\ UNCHANGED exited
     ELSE exited' = TRUE /\ UNCHANGED <<map, cacheThread>>
  /\ UNCHANGED <<cell, mru, queued, backVars>>

\* The updated rows stay in the cache and are handed to the task thread.
CommitUpdates ==
  /\ IsAt("commit", "update")
  /\ LET o == cacheThread["commit"].object
         n == commitNum + 1
         rows == cell[o].rows \cup {n}
     IN /\ cell' = [cell EXCEPT ![o] = [empty |-> FALSE, num |-> n, rows |-> rows]]
        /\ commitNum' = n
        /\ keyTasks' = Append(keyTasks, [num |-> n, rows |-> rows])
  /\ queued' = TRUE
  /\ Leave("commit")
  /\ UNCHANGED <<map, mru, keySyncNum, dbRows, exited>>

commitBackend ==
  /\ ~exited /\ keyTasks # <<>>
  /\ dbRows' = Head(keyTasks).rows /\ keySyncNum' = Head(keyTasks).num /\ keyTasks' = Tail(keyTasks)
  /\ UNCHANGED <<map, cell, cacheThread, mru, queued, commitNum, exited>>

-----------------------------------------------------------------------------
(* checkAndClear.                                                            *)
DrainQueue ==
  /\ IsAt("clear", "idle") /\ queued
  /\ mru' = TRUE /\ queued' = FALSE
  /\ UNCHANGED <<map, cell, cacheThread, backVars, exited>>

BeginClear == mru /\ keySyncNum > 0 /\ Insert("clear")

\* Rows that RocksDB does not hold yet stay.
ClearEmpties ==
  /\ IsAt("clear", "held")
  /\ IF cell[cacheThread["clear"].object].num <= keySyncNum
     THEN /\ cell' = [cell EXCEPT ![cacheThread["clear"].object].empty = TRUE]
          /\ Move("clear", "remove")
     ELSE Leave("clear") /\ UNCHANGED cell
  /\ UNCHANGED <<map, mru, queued, backVars, exited>>

\* It waits, with the lock of the object, until no thread holds the lock of the map.
removeCache ==
  /\ IsAt("clear", "remove")
  /\ \A t \in Threads : cacheThread[t].at # "relock"
  /\ map' = 0 /\ mru' = FALSE
  /\ Leave("clear")
  /\ UNCHANGED <<cell, queued, backVars, exited>>

Touch(t) == Lock(t) \/ Recheck(t) \/ Relock(t)

CacheNext ==
  \/ \E t \in Readers : Insert(t) \/ Touch(t) \/ selectNoCondition(t)
  \/ BeginCommit \/ Touch("commit") \/ CommitLoads \/ restoreCache \/ CommitUpdates
  \/ commitBackend
  \/ DrainQueue \/ BeginClear \/ Touch("clear") \/ ClearEmpties \/ removeCache

CacheSpec == CacheInit /\ [][CacheNext]_cacheVars

-----------------------------------------------------------------------------
\* Every variable stays in its range: a thread holds an object while it is in touchCache
\* and after it.
CacheTypeOK ==
  /\ map \in Objects \cup {0}
  /\ cell \in [Objects -> [empty : BOOLEAN, num : 0..MaxUpdates, rows : SUBSET (1..MaxUpdates)]]
  /\ cacheThread \in [Threads -> [at : {"idle", "inserted", "found", "relock"} \cup Holding,
                                  object : Objects \cup {0}]]
  /\ \A t \in Threads : cacheThread[t].object = 0 <=> cacheThread[t].at = "idle"
  /\ mru \in BOOLEAN /\ queued \in BOOLEAN /\ exited \in BOOLEAN
  /\ commitNum \in 0..MaxUpdates /\ keySyncNum \in 0..commitNum
  /\ keyTasks \in Seq([num : 1..MaxUpdates, rows : SUBSET (1..MaxUpdates)])
  /\ dbRows \subseteq 1..MaxUpdates

\* Updates that RocksDB does not hold yet are in the object that the map points to, so
\* that every later select and every later commit finds them (restoreCache, checkAndClear).
UnflushedIsCached ==
  keySyncNum < commitNum =>
    /\ map # 0
    /\ ~cell[map].empty /\ (keySyncNum + 1) .. commitNum \subseteq cell[map].rows

\* No update is lost: what waits for RocksDB, and what it holds, has every earlier update
\* of the key too, whichever object the commit found or loaded (touchCache, restoreCache).
NothingLost ==
  /\ dbRows = 1..keySyncNum
  /\ \A i \in DOMAIN keyTasks : keyTasks[i].rows = 1..keyTasks[i].num
=============================================================================
