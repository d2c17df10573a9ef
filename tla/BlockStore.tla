----------------------------- MODULE BlockStore -----------------------------
(* The way of a committed block to the disk, and back after a crash.  The    *)
(* thread that commits a block (BinaryLogStorage::commit) appends it to the  *)
(* binary log, when that is on, and hands it to the cache, whose task thread *)
(* writes it to RocksDB later (CachedStorage); a node that starts brings     *)
(* RocksDB up to the log (DBInitializer::recoverFromBinaryLog).  With the    *)
(* binary log RocksDB runs without a log of its own and loses, in a crash,   *)
(* what it has not flushed.                                                  *)
(* A file of the log is named by its first block and holds consecutive ones; *)
(* it may end in the torn record of a write that a crash cut off.  Tables,   *)
(* encoding and sizes in bytes are left out: every block takes one place.    *)
(* So is the genesis block, which is on the disk before the model begins.  A *)
(* cache without limits (disabled) has the committing thread write RocksDB:  *)
(* as here with MaxForward = 0, but that a failure ends the commit.          *)
EXTENDS Integers, Sequences, FiniteSets, FiniteSetsExt

CONSTANTS
  FileBlocks,     \* places of a log file (m_binarylogSize)
  MaxForward,     \* storage.max_forward_block
  Interval,       \* blocks that the recovery reads in one turn, 100 in the code
  MaxBlock,       \* bounds of the model: blocks, crashes, errors of RocksDB
  MaxCrash,
  MaxError

ASSUME StoreAssumption ==
  /\ FileBlocks \in Nat \ {0} /\ MaxForward \in Nat /\ Interval \in Nat \ {0}
  /\ MaxBlock \in Nat /\ MaxCrash \in Nat /\ MaxError \in Nat

VARIABLES
  binaryLog,      \* storage.binary_log, of the configuration
  files,          \* the log: for the name of a file its blocks and what is torn
  fd,             \* name of the file that is open, 0 when none is
  written,        \* blocks written to it since it was opened
  committed,      \* the highest block whose commit has returned
  step,           \* of the thread that commits block committed + 1
  tasks,          \* blocks that wait for the task thread
  syncNum,        \* m_syncNum
  running,        \* m_running
  db,             \* numbers of the blocks in RocksDB
  durable,        \* the highest number that it would keep in any crash
  node,           \* whether the process runs
  crashes, errors,
  damage          \* history: what went wrong with log and database so far

logVars == <<files, fd, written>>
taskVars == <<tasks, syncNum, running>>
dbVars == <<db, durable>>
faultVars == <<crashes, errors>>
storeVars == <<binaryLog, logVars, committed, step, taskVars, dbVars, node, faultVars, damage>>

-----------------------------------------------------------------------------
(* The binary log.                                                           *)

\* What is torn at the end of a file: nothing, a part of the length field of a record,
\* of its block number, or of the block itself.
Whole == 0   LengthTorn == 1   NumberTorn == 2   BlockTorn == 3

NoFile == [blocks |-> 0, torn |-> Whole]
File(F, f) == IF f \in DOMAIN F THEN F[f] ELSE NoFile
WithFile(f, content) == [g \in DOMAIN files \cup {f} |-> IF g = f THEN content ELSE files[g]]

Blocks(F, f) == f .. (f + F[f].blocks - 1)
Newest(F) == Max(DOMAIN F)

\* A new file is opened for the first block of a process, and when the old one is full.
\* Mutant: a file takes one block too many.
FitsOneMore == written > 0 /\ written <= FileBlocks
Fits == written > 0 /\ written < FileBlocks
Target == IF Fits THEN fd ELSE committed + 1
Place == IF Fits THEN written + 1 ELSE 1

\* An old file of that name is not truncated: the block overwrites what is at its place.
Put == LET old == File(files, Target)
       IN IF Place <= old.blocks THEN old ELSE [blocks |-> Place, torn |-> Whole]

\* A file in which no block was begun is removed when the node starts.
checkBinLogSize(F) == [f \in {g \in DOMAIN F : F[g] # NoFile} |-> F[f]]

\* The start is given up over a file whose first block number cannot be read.
NameReadable(F, f) == F[f].blocks > 0 \/ F[f].torn = BlockTorn

\* 0 stands for every answer that is not above the database's number: no other file is
\* looked at when the newest one has no whole block, or ends within the length of a record.
getLastBlockNum(F) ==
  IF DOMAIN F = {} THEN 0
  ELSE LET f == F[Newest(F)]
       IN IF f.blocks = 0 \/ f.torn = LengthTorn THEN 0 ELSE Newest(F) + f.blocks - 1

\* The files are visited from the newest one down to the first whose name is not above num.
\* Mutant: only files that begin after num are read.
VisitedAfter(F, num) == {f \in DOMAIN F : f > num}
Visited(F, num) == {f \in DOMAIN F : \A g \in DOMAIN F : g <= num => g <= f}
getMissingBlocksFromBinLog(F, num) ==
  (UNION {Blocks(F, f) : f \in Visited(F, num)}) \cap ((num + 1) .. (num + Interval))

-----------------------------------------------------------------------------
Height(blocks) == Max({0} \cup blocks)

\* One turn of the recovery after num: as many numbers are looked up, from num + 1 on,
\* as blocks were found, and a missing one is only logged.
Turn(F, num) ==
  LET found == getMissingBlocksFromBinLog(F, num)
  IN found \cap ((num + 1) .. (num + Cardinality(found)))

\* The turns begin every Interval blocks from the database's number on.
recoverFromBinaryLog(F, start) ==
  LET last == getLastBlockNum(F)
  IN IF start >= last THEN {}
     ELSE UNION {Turn(F, start + k * Interval) : k \in 0 .. ((last - start) \div Interval)}

Opens(F, start) ==
  /\ DOMAIN F # {} => NameReadable(F, Newest(F))
  /\ start < getLastBlockNum(F) => \A f \in Visited(F, start) : NameReadable(F, f)

-----------------------------------------------------------------------------
StoreInit ==
  /\ binaryLog \in BOOLEAN
  /\ files = <<>> /\ fd = 0 /\ written = 0
  /\ committed = 0 /\ step = "idle"
  /\ tasks = <<>> /\ syncNum = 0 /\ running = TRUE
  /\ db = {} /\ durable = 0
  /\ node = "up" /\ crashes = 0 /\ errors = 0 /\ damage = {}

\* BinaryLogStorage::commit first writes the log.
writeBlocktoBinLog ==
  /\ node = "up" /\ step = "idle" /\ committed < MaxBlock
  /\ step' = "logged"
  /\ IF binaryLog
     THEN files' = WithFile(Target, Put) /\ fd' = Target /\ written' = Place
     ELSE UNCHANGED logVars
  /\ UNCHANGED <<binaryLog, committed, taskVars, dbVars, node, faultVars, damage>>

\* CachedStorage::commit hands the block to the task thread.
SubmitTask ==
  /\ node = "up" /\ step = "logged"
  /\ step' = "waiting" /\ tasks' = Append(tasks, committed + 1)
  /\ UNCHANGED <<binaryLog, logVars, committed, syncNum, running, dbVars, node, faultVars, damage>>

\* It returns unless RocksDB is too far behind; a stopped cache does not wait.
CommitReturns ==
  /\ node = "up" /\ step = "waiting"
  /\ committed + 1 - syncNum <= MaxForward \/ ~running
  /\ step' = "idle" /\ committed' = committed + 1
  /\ UNCHANGED <<binaryLog, logVars, taskVars, dbVars, node, faultVars, damage>>

\* commitBackend, in the task thread.
TaskBegins == node = "up" /\ running /\ tasks # <<>>

BackendCommits ==
  /\ TaskBegins
  /\ db' = db \cup {Head(tasks)} /\ syncNum' = Head(tasks) /\ tasks' = Tail(tasks)
  /\ UNCHANGED <<binaryLog, logVars, committed, step, running, durable, node, faultVars, damage>>

\* RocksDBStorage::commit logs an error that asks for a retry, and returns.
BackendNeedsRetry ==
  /\ TaskBegins /\ errors < MaxError
  /\ errors' = errors + 1 /\ damage' = damage \cup {"retry"}
  /\ syncNum' = Head(tasks) /\ tasks' = Tail(tasks)
  /\ UNCHANGED <<binaryLog, logVars, committed, step, running, dbVars, node, crashes>>

\* Mutant: the task thread goes on with the next block.
BackendFailsAndGoesOn ==
  /\ TaskBegins /\ errors < MaxError
  /\ errors' = errors + 1 /\ tasks' = Tail(tasks)
  /\ UNCHANGED <<binaryLog, logVars, committed, step, syncNum, running, dbVars, node, crashes, damage>>

\* On any other error the task thread stops for good; the process is told to exit.
BackendFails ==
  /\ TaskBegins /\ errors < MaxError
  /\ errors' = errors + 1 /\ running' = FALSE /\ tasks' = Tail(tasks)
  /\ UNCHANGED <<binaryLog, logVars, committed, step, syncNum, dbVars, node, crashes, damage>>

-----------------------------------------------------------------------------
(* Crash and start.                                                          *)

\* RocksDB keeps everything that is in its own log, or else what it has flushed, the
\* blocks up to some number.
ProcessEnds ==
  /\ node = "up" /\ crashes < MaxCrash
  /\ crashes' = crashes + 1 /\ node' = "down"
  /\ step' = "idle" /\ tasks' = <<>> /\ fd' = 0 /\ written' = 0
  /\ \E k \in (IF binaryLog THEN {durable} \cup {n \in db : n > durable} ELSE {Height(db)}) :
       /\ durable' = k
       /\ db' = {n \in db : n <= k}
  /\ UNCHANGED <<binaryLog, committed, syncNum, running, errors>>

Crash == ProcessEnds /\ UNCHANGED <<files, damage>>

\* The write of the next block is cut off: before its first byte, which matters when the
\* file is new, or within the record.
CrashWhileLogging ==
  /\ ProcessEnds
  /\ binaryLog /\ step = "idle" /\ committed < MaxBlock
  /\ Place > File(files, Target).blocks
  /\ \E t \in File(files, Target).torn .. BlockTorn :
       /\ files' = WithFile(Target, [blocks |-> Place - 1, torn |-> t])
       /\ damage' = damage \cup (IF t # Whole /\ (Place = 1 \/ t = LengthTorn) THEN {"torn"} ELSE {})

\* A start reads the chain's number from the storage it opens.
Start(number) ==
  /\ node' = "up" /\ committed' = number /\ syncNum' = number
  /\ UNCHANGED <<binaryLog, step, tasks, fd, written, durable, crashes>>

StartWithoutLog ==
  /\ node = "down" /\ ~binaryLog
  /\ running' = TRUE
  /\ UNCHANGED <<files, db, errors, damage>>
  /\ Start(Height(db))

\* The recovered blocks are written one by one: the cache waits for each of them.  It takes
\* all, or those below the one on which RocksDB fails; then it stops, and the node goes on
\* with what the cache holds until it is made to exit.
StartAndRecover ==
  /\ node = "down" /\ binaryLog
  /\ files' = checkBinLogSize(files)
  /\ Opens(files', Height(db))
  /\ LET recovered == recoverFromBinaryLog(files', Height(db)) IN
     \E taken \in SUBSET recovered : \E lost \in SUBSET taken :
       LET failures == Cardinality(lost) + (IF taken = recovered THEN 0 ELSE 1) IN
       /\ \A n \in taken : \A m \in recovered : m < n => m \in taken
       /\ failures <= MaxError - errors
       /\ errors' = errors + failures
       /\ running' = (taken = recovered)
       /\ db' = db \cup (taken \ lost)
       /\ damage' = damage \cup (IF lost # {} THEN {"retry"} ELSE {})
       /\ Start(Height(db \cup recovered))

StoreNext ==
  \/ writeBlocktoBinLog \/ SubmitTask \/ CommitReturns
  \/ BackendCommits \/ BackendNeedsRetry \/ BackendFails
  \/ Crash \/ CrashWhileLogging \/ StartWithoutLog \/ StartAndRecover

StoreSpec == StoreInit /\ [][StoreNext]_storeVars

-----------------------------------------------------------------------------
\* Every variable stays in its range: a file of the log never takes more than it may
\* (writeBlocktoBinLog).
StoreTypeOK ==
  /\ binaryLog \in BOOLEAN
  /\ DOMAIN files \subseteq 1..MaxBlock
  /\ \A f \in DOMAIN files : files[f] \in [blocks : 0..FileBlocks, torn : Whole..BlockTorn]
  /\ fd \in 0..MaxBlock /\ written \in 0..FileBlocks
  /\ committed \in 0..MaxBlock /\ step \in {"idle", "logged", "waiting"}
  /\ tasks \in Seq(1..MaxBlock) /\ syncNum \in 0..MaxBlock /\ running \in BOOLEAN
  /\ db \subseteq 1..MaxBlock /\ durable \in 0..MaxBlock
  /\ node \in {"up", "down"} /\ crashes \in 0..MaxCrash /\ errors \in 0..MaxError
  /\ damage \subseteq {"retry", "torn"}

\* RocksDB holds a beginning of the chain at all times, after any number of crashes, unless
\* an error that asks for a retry lost a block or the log has a torn beginning
\* (commitBackend, recoverFromBinaryLog).
NoGap == damage = {} => db = 1..Height(db)

\* With the log a restarted node has every block whose commit returned before the crash,
\* whatever the cache had not written and RocksDB had not flushed; without it at most
\* max_forward_block blocks are gone, unless the cache had stopped (BinaryLogStorage::commit,
\* CachedStorage::commit, recoverFromBinaryLog).
Forgets == IF binaryLog THEN 0 ELSE MaxForward
RecoversCommitted ==
  [][(node = "down" /\ node' = "up" /\ damage' = {} /\ (binaryLog \/ running))
       => committed' + Forgets >= committed]_storeVars
=============================================================================
