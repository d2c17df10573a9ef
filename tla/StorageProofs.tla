---------------------------- MODULE StorageProofs ----------------------------
(***************************************************************************)
(* What the storage promises, for every size of the log's files, every      *)
(* limit of the cache and any number of crashes, errors and readers: RocksDB *)
(* holds a beginning of the chain and a restarted node has what it had      *)
(* committed (BlockStore), and what RocksDB does not hold yet is in the      *)
(* cache (StorageCache).  The first rests on what the files of the log hold  *)
(* after each crash, the second on who may touch an object of the cache.     *)
(***************************************************************************)
EXTENDS BlockStore, StorageCache, FiniteSetTheorems, WellFoundedInduction, TLAPS

-----------------------------------------------------------------------------
(* The invariant of the way to the disk.                                     *)

(* The last block that was begun, and the last one that the task thread was  *)
(* handed: commit takes block committed + 1 through the log to the cache.    *)
Begun == IF step = "idle" THEN committed ELSE committed + 1
Handed == IF step = "waiting" THEN committed + 1 ELSE committed

FileType == [blocks : 0..FileBlocks, torn : Whole..BlockTorn]

(* No file reaches beyond the last block. *)
FilesFit(F) ==
  /\ DOMAIN F \subseteq 1..MaxBlock
  /\ \A f \in DOMAIN F : F[f] \in FileType /\ f + F[f].blocks <= MaxBlock + 1

(* The open file ends with the last block that was begun. *)
OpenFileFits ==
  /\ fd \in 0..MaxBlock /\ written \in 0..FileBlocks
  /\ fd = 0 => written = 0
  /\ fd # 0 => written > 0 /\ fd + written = Begun + 1
  /\ binaryLog /\ node = "up" /\ fd = 0 => step = "idle"
  /\ ~binaryLog => fd = 0
  /\ node = "down" => step = "idle" /\ fd = 0 /\ tasks = <<>>

CommitFits ==
  /\ committed \in 0..MaxBlock /\ step \in {"idle", "logged", "waiting"}
  /\ step # "idle" => committed < MaxBlock

QueueFits ==
  /\ tasks \in Seq(1..MaxBlock) /\ syncNum \in 0..MaxBlock
  /\ db \subseteq 1..MaxBlock /\ durable \in 0..MaxBlock

FlagsFit ==
  /\ binaryLog \in BOOLEAN /\ running \in BOOLEAN
  /\ node \in {"up", "down"} /\ crashes \in 0..MaxCrash /\ errors \in 0..MaxError
  /\ damage \subseteq {"retry", "torn"}

StoreFits == FilesFit(files) /\ OpenFileFits /\ CommitFits /\ QueueFits /\ FlagsFit

(* The files hold the blocks 1..last and nothing else, in their order; one in *)
(* which no block was begun can only be the newest.                          *)
Covers(F, last) ==
  /\ \A f \in DOMAIN F : f + F[f].blocks <= last + 1 /\ F[f].torn # LengthTorn
  /\ \A f \in DOMAIN F : F[f].blocks = 0 => F[f].torn = Whole /\ f = last + 1
  /\ \A f, g \in DOMAIN F : f < g => f + F[f].blocks <= g
  /\ \A n \in 1..last : \E f \in DOMAIN F : n \in Blocks(F, f)

Filled(F) == \A f \in DOMAIN F : F[f].blocks > 0

IsBeginning == db = 1..Height(db) /\ durable <= Height(db)

(* While the cache works, the tasks are the blocks that follow the database's. *)
TasksFollow ==
  node = "up" =>
    /\ Height(db) <= Handed
    /\ running => /\ syncNum = Height(db)
                  /\ Height(db) + Len(tasks) = Handed
                  /\ \A i \in 1..Len(tasks) : tasks[i] = Height(db) + i

LogFollows ==
  binaryLog /\ node = "up" =>
    /\ Covers(files, Begun) /\ Filled(files)
    /\ fd # 0 => fd \in DOMAIN files /\ files[fd] = [blocks |-> written, torn |-> Whole]

(* A crash may leave a block in the log whose commit has not returned. *)
LogLeft ==
  binaryLog /\ node = "down" =>
    \E last \in {committed, committed + 1} : last <= MaxBlock /\ Covers(files, last) /\ Height(db) <= last

NotFarBehind == ~binaryLog /\ running => committed <= Height(db) + MaxForward

Undamaged == IsBeginning /\ TasksFollow /\ LogFollows /\ LogLeft /\ NotFarBehind

StoreInv == StoreFits /\ (damage = {} => Undamaged)

USE StoreAssumption
USE DEF Whole, LengthTorn, NumberTorn, BlockTorn, NoFile, logVars, taskVars, dbVars, faultVars

-----------------------------------------------------------------------------
(* The height of a set of blocks.                                            *)

(* The least element of a set of naturals. *)
LEMMA LeastOfNaturals ==
  ASSUME NEW S \in SUBSET Nat, S # {}
  PROVE  \E m \in S : \A n \in S : m <= n
  <1> DEFINE less == OpToRel(<, Nat)
  <1>1. \A m, n \in Nat : <<m, n>> \in less <=> m < n
    BY DEF OpToRel
  <1>2. PICK m \in S : \A n \in S : ~(<<n, m>> \in less)
    <2> HIDE DEF less
    <2> QED BY NatLessThanWellFounded, WFMin DEF less
  <1>3. \A n \in S : ~(n < m)
    BY <1>1, <1>2
  <1> QED BY <1>3

(* The greatest element of a bounded set of naturals. *)
LEMMA GreatestOfNaturals ==
  ASSUME NEW S \in SUBSET Nat, S # {}, NEW b \in Nat, \A n \in S : n <= b
  PROVE  Max(S) \in S /\ \A n \in S : n <= Max(S)
  <1> DEFINE T == {b - n : n \in S}
  <1>1. T \in SUBSET Nat /\ T # {}
    <2>1. \A n \in S : b - n \in Nat
      BY SMT
    <2> QED BY <2>1
  <1>2. PICK t \in T : \A u \in T : t <= u
    BY <1>1, LeastOfNaturals
  <1>3. PICK m \in S : t = b - m
    BY <1>2
  <1>4. \A n \in S : m >= n
    <2> SUFFICES ASSUME NEW n \in S PROVE m >= n
      OBVIOUS
    <2>1. b - n \in T /\ m \in Nat /\ n \in Nat
      OBVIOUS
    <2>2. b - m <= b - n
      BY <1>2, <1>3, <2>1
    <2> QED BY <2>1, <2>2
  <1>5. \E x \in S : \A y \in S : x >= y
    BY <1>4
  <1>6. Max(S) \in S /\ \A y \in S : Max(S) >= y
    BY <1>5, Zenon DEF Max
  <1> QED BY <1>6

(* The height of a set is the number that bounds it from within. *)
LEMMA HeightIs ==
  ASSUME NEW S \in SUBSET Nat, NEW h \in Nat, h \in {0} \cup S, \A n \in S : n <= h
  PROVE  Height(S) = h
  <1>1. Max({0} \cup S) \in {0} \cup S /\ \A n \in {0} \cup S : n <= Max({0} \cup S)
    <2>1. {0} \cup S \in SUBSET Nat /\ {0} \cup S # {} /\ \A n \in {0} \cup S : n <= h
      OBVIOUS
    <2> HIDE DEF Max
    <2> QED BY <2>1, GreatestOfNaturals
  <1>2. PICK m : m = Max({0} \cup S)
    OBVIOUS
  <1>3. m \in {0} \cup S /\ \A n \in {0} \cup S : n <= m
    BY <1>1, <1>2, Zenon
  <1>4. m = h
    BY <1>3
  <1> QED BY <1>2, <1>4 DEF Height

(* The height of a beginning is its last number. *)
LEMMA HeightOfBeginning ==
  ASSUME NEW h \in Nat
  PROVE  Height(1..h) = h
  BY HeightIs

(* No block in the database is above its height. *)
LEMMA HeightFits ==
  ASSUME NEW S \in SUBSET (1..MaxBlock)
  PROVE  Height(S) \in 0..MaxBlock /\ \A n \in S : n <= Height(S)
  <1>1. {0} \cup S \in SUBSET Nat /\ {0} \cup S # {} /\ \A n \in {0} \cup S : n <= MaxBlock
    OBVIOUS
  <1>2. Max({0} \cup S) \in {0} \cup S /\ \A n \in {0} \cup S : n <= Max({0} \cup S)
    BY <1>1, GreatestOfNaturals
  <1>3. PICK m : m = Height(S)
    OBVIOUS
  <1>4. m \in {0} \cup S /\ \A n \in {0} \cup S : n <= m
    BY <1>2, <1>3, Zenon DEF Height
  <1>5. m \in 0..MaxBlock /\ \A n \in S : n <= m
    BY <1>4
  <1> QED BY <1>3, <1>5

(* What is at or below k of a beginning is a beginning. *)
LEMMA BeginningCut ==
  ASSUME NEW h \in Nat, NEW k \in 0..h
  PROVE  {n \in 1..h : n <= k} = 1..k
  OBVIOUS

(* A beginning joined with what follows it is a beginning. *)
LEMMA BeginningJoined ==
  ASSUME NEW h \in Nat, NEW k \in Nat, h <= k
  PROVE  (1..h) \cup ((h + 1)..k) = 1..k
  OBVIOUS

-----------------------------------------------------------------------------
(* The files of the log.                                                     *)

(* A file that is not there has no blocks. *)
LEMMA FileFits ==
  ASSUME NEW F, FilesFit(F), NEW f \in 1..MaxBlock
  PROVE  File(F, f) \in FileType /\ f + File(F, f).blocks <= MaxBlock + 1
  <1>1. NoFile \in FileType /\ NoFile.blocks = 0
    BY DEF FileType
  <1> QED BY <1>1 DEF FilesFit, File

LEMMA WithFileFits ==
  ASSUME FilesFit(files), NEW f \in 1..MaxBlock, NEW c \in FileType, f + c.blocks <= MaxBlock + 1
  PROVE  FilesFit(WithFile(f, c))
  BY DEF FilesFit, WithFile

(* The next block begins a file, or follows what is in the open one. *)
LEMMA NextPlace ==
  ASSUME StoreFits, step = "idle", committed < MaxBlock
  PROVE  /\ Target \in 1..MaxBlock /\ Place \in 1..FileBlocks
         /\ Target + Place = committed + 2
  BY DEF StoreFits, OpenFileFits, CommitFits, Begun, Target, Place, Fits

LEMMA PutFits ==
  ASSUME StoreFits, step = "idle", committed < MaxBlock
  PROVE  Put \in FileType /\ Target + Put.blocks <= MaxBlock + 1
  <1>1. Target \in 1..MaxBlock /\ Place \in 1..FileBlocks /\ Target + Place = committed + 2
    BY NextPlace
  <1>2. File(files, Target) \in FileType /\ Target + File(files, Target).blocks <= MaxBlock + 1
    BY <1>1, FileFits DEF StoreFits
  <1>3. [blocks |-> Place, torn |-> Whole] \in FileType
    BY <1>1 DEF FileType
  <1> HIDE DEF Whole
  <1> QED BY <1>1, <1>2, <1>3 DEF Put, StoreFits, CommitFits

(* checkBinLogSize only takes files away. *)
LEMMA CheckedFiles ==
  ASSUME NEW F
  PROVE  /\ DOMAIN checkBinLogSize(F) = {f \in DOMAIN F : F[f] # NoFile}
         /\ \A f \in DOMAIN checkBinLogSize(F) : checkBinLogSize(F)[f] = F[f]
  BY DEF checkBinLogSize

LEMMA CheckedFit ==
  ASSUME NEW F, FilesFit(F)
  PROVE  FilesFit(checkBinLogSize(F))
  BY CheckedFiles DEF FilesFit

(* Whatever is recovered is a block of the log. *)
LEMMA RecoveredFits ==
  ASSUME NEW F, FilesFit(F), NEW start
  PROVE  recoverFromBinaryLog(F, start) \subseteq 1..MaxBlock
  <1>1. ASSUME NEW num PROVE Turn(F, num) \subseteq 1..MaxBlock
    <2>1. \A f \in DOMAIN F : Blocks(F, f) \subseteq 1..MaxBlock
      BY DEF FilesFit, FileType, Blocks
    <2>2. getMissingBlocksFromBinLog(F, num) \subseteq 1..MaxBlock
      BY <2>1 DEF getMissingBlocksFromBinLog, Visited
    <2> QED BY <2>2 DEF Turn
  <1> QED BY <1>1 DEF recoverFromBinaryLog

-----------------------------------------------------------------------------
(* Type correctness.                                                         *)

(* The first element of a sequence and the rest of it. *)
LEMMA HeadAndTail ==
  ASSUME NEW S, NEW s \in Seq(S), s # <<>>
  PROVE  /\ Head(s) \in S /\ Head(s) = s[1] /\ Tail(s) \in Seq(S)
         /\ Len(s) \in Nat \ {0} /\ Len(Tail(s)) = Len(s) - 1
         /\ \A i \in 1..Len(Tail(s)) : Tail(s)[i] = s[i + 1]
  OBVIOUS

(* Appending an element keeps the others in their places. *)
LEMMA Appended ==
  ASSUME NEW S, NEW s \in Seq(S), NEW e \in S
  PROVE  /\ Append(s, e) \in Seq(S)
         /\ Len(s) \in Nat /\ Len(Append(s, e)) = Len(s) + 1
         /\ Append(s, e)[Len(s) + 1] = e
         /\ \A i \in 1..Len(s) : Append(s, e)[i] = s[i]
  OBVIOUS

(* The node starts up, with nothing committed. *)
LEMMA InitFits == StoreInit => StoreFits
  <1> SUFFICES ASSUME StoreInit PROVE StoreFits
    OBVIOUS
  <1>1. FilesFit(files)
    BY DEF StoreInit, FilesFit
  <1>2. tasks \in Seq(1..MaxBlock)
    BY DEF StoreInit
  <1>3. OpenFileFits /\ CommitFits /\ FlagsFit
    BY DEF StoreInit, OpenFileFits, CommitFits, FlagsFit
  <1>4. QueueFits
    BY <1>2 DEF StoreInit, QueueFits
  <1> QED BY <1>1, <1>3, <1>4 DEF StoreFits

(* writeBlocktoBinLog *)
LEMMA WriteFits ==
  ASSUME StoreFits, writeBlocktoBinLog
  PROVE  StoreFits'
  <1>1. /\ node = "up" /\ step = "idle" /\ committed < MaxBlock /\ step' = "logged"
        /\ UNCHANGED <<binaryLog, committed, tasks, syncNum, running, db, durable, node, crashes, errors, damage>>
    BY DEF writeBlocktoBinLog
  <1>2. CommitFits' /\ QueueFits' /\ FlagsFit'
    BY <1>1 DEF StoreFits, CommitFits, QueueFits, FlagsFit
  <1>3. CASE binaryLog
    <2>1. PICK T \in 1..MaxBlock, p \in 1..FileBlocks, c \in FileType :
            /\ T = Target /\ p = Place /\ c = Put
            /\ T + p = committed + 2 /\ T + c.blocks <= MaxBlock + 1
      BY <1>1, NextPlace, PutFits
    <2>2. files' = WithFile(T, c) /\ fd' = T /\ written' = p
      BY <1>3, <2>1, Zenon DEF writeBlocktoBinLog
    <2>3. FilesFit(WithFile(T, c))
      BY <2>1, WithFileFits DEF StoreFits
    <2>4. FilesFit(files')
      BY <2>2, <2>3, Zenon
    <2>5. OpenFileFits'
      BY <1>1, <1>3, <2>1, <2>2 DEF StoreFits, OpenFileFits, CommitFits, Begun
    <2> QED BY <1>2, <2>4, <2>5 DEF StoreFits
  <1>4. CASE ~binaryLog
    <2>1. UNCHANGED <<files, fd, written>>
      BY <1>4 DEF writeBlocktoBinLog
    <2>2. OpenFileFits'
      BY <1>1, <1>4, <2>1 DEF StoreFits, OpenFileFits
    <2>3. FilesFit(files')
      BY <2>1 DEF StoreFits
    <2> QED BY <1>2, <2>2, <2>3 DEF StoreFits
  <1> QED BY <1>3, <1>4

(* The steps that leave the log alone, while the node runs. *)
LEMMA RunningStepFits ==
  ASSUME StoreFits,
         SubmitTask \/ CommitReturns \/ BackendCommits \/ BackendNeedsRetry \/ BackendFails
  PROVE  StoreFits'
  <1>1. UNCHANGED <<binaryLog, files, fd, written, node, crashes>> /\ node = "up"
    BY DEF SubmitTask, CommitReturns, BackendCommits, BackendNeedsRetry, BackendFails, TaskBegins
  <1>2. FilesFit(files')
    BY <1>1 DEF StoreFits
  <1>3. CommitFits' /\ Begun' = Begun
    BY DEF StoreFits, CommitFits, Begun, SubmitTask, CommitReturns, BackendCommits, BackendNeedsRetry, BackendFails
  <1>4. OpenFileFits'
    <2>1. fd # 0 => written > 0 /\ fd + written = Begun' + 1
      BY <1>3 DEF StoreFits, OpenFileFits
    <2>2. binaryLog /\ fd = 0 => step' = "idle"
      BY <1>1 DEF StoreFits, OpenFileFits, SubmitTask, CommitReturns, BackendCommits, BackendNeedsRetry, BackendFails
    <2> HIDE DEF Begun
    <2> QED BY <1>1, <2>1, <2>2 DEF StoreFits, OpenFileFits
  <1>5. FlagsFit'
    <2>1. errors' \in 0..MaxError
      BY DEF StoreFits, FlagsFit, SubmitTask, CommitReturns, BackendCommits, BackendNeedsRetry, BackendFails
    <2>2. damage' = damage \/ damage' = damage \cup {"retry"}
      BY Zenon DEF SubmitTask, CommitReturns, BackendCommits, BackendNeedsRetry, BackendFails
    <2>3. running' = running \/ running' = FALSE
      BY Zenon DEF SubmitTask, CommitReturns, BackendCommits, BackendNeedsRetry, BackendFails, taskVars
    <2>4. damage' \subseteq {"retry", "torn"} /\ running' \in BOOLEAN
      BY <2>2, <2>3 DEF StoreFits, FlagsFit
    <2> QED BY <1>1, <2>1, <2>4 DEF StoreFits, FlagsFit
  <1>6. QueueFits'
    <2>1. CASE SubmitTask
      <3>1. committed + 1 \in 1..MaxBlock /\ tasks \in Seq(1..MaxBlock)
        BY <2>1 DEF StoreFits, CommitFits, QueueFits, SubmitTask
      <3>2. Append(tasks, committed + 1) \in Seq(1..MaxBlock)
        BY <3>1, Appended
      <3> QED BY <2>1, <3>2 DEF StoreFits, QueueFits, SubmitTask
    <2>2. CASE CommitReturns
      BY <2>2 DEF StoreFits, QueueFits, CommitReturns
    <2>3. CASE BackendCommits \/ BackendNeedsRetry \/ BackendFails
      <3>1. tasks \in Seq(1..MaxBlock) /\ tasks # <<>>
        BY <2>3 DEF StoreFits, QueueFits, BackendCommits, BackendNeedsRetry, BackendFails, TaskBegins
      <3>2. PICK n \in 1..MaxBlock, q \in Seq(1..MaxBlock) : n = Head(tasks) /\ q = Tail(tasks)
        BY <3>1, HeadAndTail
      <3>3. tasks' = q /\ syncNum' \in {n, syncNum} /\ db' \in {db, db \cup {n}} /\ durable' = durable
        BY <2>3, <3>2, Zenon DEF BackendCommits, BackendNeedsRetry, BackendFails, dbVars
      <3> QED BY <3>2, <3>3 DEF StoreFits, QueueFits
    <2> QED BY <2>1, <2>2, <2>3
  <1> QED BY <1>2, <1>3, <1>4, <1>5, <1>6 DEF StoreFits

(* A crash keeps blocks that the database had. *)
LEMMA EndFits ==
  ASSUME StoreFits, ProcessEnds
  PROVE  OpenFileFits' /\ CommitFits' /\ QueueFits'
  <1>1. /\ node' = "down" /\ step' = "idle" /\ tasks' = <<>> /\ fd' = 0 /\ written' = 0
        /\ UNCHANGED <<binaryLog, committed, syncNum, running, errors>>
    BY DEF ProcessEnds
  <1>2. PICK k : /\ k \in {durable} \cup {n \in db : n > durable} \cup {Height(db)}
                 /\ durable' = k /\ db' = {n \in db : n <= k}
    BY DEF ProcessEnds
  <1>3. Height(db) \in 0..MaxBlock
    BY HeightFits DEF StoreFits, QueueFits
  <1>4. k \in 0..MaxBlock
    BY <1>2, <1>3 DEF StoreFits, QueueFits
  <1>5. <<>> \in Seq(1..MaxBlock)
    OBVIOUS
  <1>6. QueueFits'
    BY <1>1, <1>2, <1>4, <1>5 DEF StoreFits, QueueFits
  <1>7. OpenFileFits' /\ CommitFits'
    BY <1>1 DEF StoreFits, OpenFileFits, CommitFits
  <1> QED BY <1>6, <1>7

LEMMA CrashFits ==
  ASSUME StoreFits, Crash \/ CrashWhileLogging
  PROVE  StoreFits'
  <1>1. ProcessEnds
    BY DEF Crash, CrashWhileLogging
  <1>2. OpenFileFits' /\ CommitFits' /\ QueueFits'
    BY <1>1, EndFits
  <1>3. damage' \subseteq damage \cup {"torn"}
    BY DEF Crash, CrashWhileLogging
  <1>4. FlagsFit'
    BY <1>1, <1>3 DEF StoreFits, FlagsFit, ProcessEnds
  <1>5. FilesFit(files')
    <2>1. CASE Crash
      BY <2>1 DEF StoreFits, Crash
    <2>2. CASE CrashWhileLogging
      <3>1. step = "idle" /\ committed < MaxBlock
        BY <2>2 DEF CrashWhileLogging
      <3>2. PICK T \in 1..MaxBlock, p \in 1..FileBlocks :
              T = Target /\ p = Place /\ T + p = committed + 2
        BY <3>1, NextPlace
      <3>3. File(files, T) \in FileType
        BY FileFits DEF StoreFits
      <3>4. PICK t \in File(files, T).torn .. BlockTorn :
              files' = WithFile(T, [blocks |-> p - 1, torn |-> t])
        BY <2>2, <3>2 DEF CrashWhileLogging
      <3>5. [blocks |-> p - 1, torn |-> t] \in FileType /\ T + (p - 1) <= MaxBlock + 1
        BY <3>1, <3>2, <3>3, <3>4 DEF FileType, StoreFits, CommitFits
      <3>6. FilesFit(WithFile(T, [blocks |-> p - 1, torn |-> t]))
        BY <3>5, WithFileFits DEF StoreFits
      <3> QED BY <3>4, <3>6
    <2> QED BY <2>1, <2>2
  <1> QED BY <1>2, <1>4, <1>5 DEF StoreFits

(* A start finds its number in the database, of which every block is one of  *)
(* the log or of before the crash.                                         *)
LEMMA StartFits ==
  ASSUME StoreFits, StartWithoutLog \/ StartAndRecover
  PROVE  StoreFits'
  <1>1. PICK B : /\ committed' = Height(B) /\ syncNum' = Height(B)
                 /\ FilesFit(files') /\ db' \subseteq B /\ B \subseteq 1..MaxBlock
    <2>1. CASE StartWithoutLog
      BY <2>1 DEF StoreFits, QueueFits, StartWithoutLog, Start
    <2>2. CASE StartAndRecover
      <3>1. FilesFit(checkBinLogSize(files)) /\ files' = checkBinLogSize(files)
        BY <2>2, CheckedFit DEF StoreFits, StartAndRecover
      <3>2. recoverFromBinaryLog(files', Height(db)) \subseteq 1..MaxBlock
        BY <3>1, RecoveredFits
      <3>3. db' \subseteq db \cup recoverFromBinaryLog(files', Height(db))
        BY <2>2 DEF StartAndRecover
      <3>4. LET B == db \cup recoverFromBinaryLog(files', Height(db))
            IN  committed' = Height(B) /\ syncNum' = Height(B)
        BY <2>2 DEF StartAndRecover, Start
      <3> QED BY <3>1, <3>2, <3>3, <3>4 DEF StoreFits, QueueFits
    <2> QED BY <2>1, <2>2
  <1>2. /\ node = "down" /\ node' = "up" /\ running' \in BOOLEAN
        /\ UNCHANGED <<binaryLog, step, tasks, fd, written, durable, crashes>>
    BY DEF StartWithoutLog, StartAndRecover, Start
  <1>3. Height(B) \in 0..MaxBlock
    BY <1>1, HeightFits
  <1>4. errors' \in 0..MaxError /\ damage' \subseteq damage \cup {"retry"}
    <2>1. CASE StartWithoutLog
      BY <2>1 DEF StoreFits, FlagsFit, StartWithoutLog
    <2>2. CASE StartAndRecover
      <3>1. PICK lost \in SUBSET recoverFromBinaryLog(files', Height(db)), fails \in {0, 1} :
              /\ Cardinality(lost) + fails <= MaxError - errors
              /\ errors' = errors + (Cardinality(lost) + fails)
        BY <2>2 DEF StartAndRecover
      <3>2. lost \subseteq 1..MaxBlock
        BY <2>2, <3>1, CheckedFit, RecoveredFits DEF StoreFits, StartAndRecover
      <3>3. Cardinality(lost) \in Nat
        <4>1. IsFiniteSet(1..MaxBlock)
          BY FS_Interval
        <4> QED BY <3>2, <4>1, FS_Subset, FS_CardinalityType
      <3>4. errors' \in 0..MaxError
        BY <3>1, <3>3 DEF StoreFits, FlagsFit
      <3> QED BY <2>2, <3>4 DEF StartAndRecover
    <2> QED BY <2>1, <2>2
  <1>5. FlagsFit'
    BY <1>2, <1>4 DEF StoreFits, FlagsFit
  <1>6. OpenFileFits' /\ CommitFits'
    BY <1>1, <1>2, <1>3 DEF StoreFits, OpenFileFits, CommitFits
  <1>7. QueueFits'
    BY <1>1, <1>2, <1>3 DEF StoreFits, QueueFits
  <1> QED BY <1>1, <1>5, <1>6, <1>7 DEF StoreFits

LEMMA StepFits == StoreFits /\ [StoreNext]_storeVars => StoreFits'
  <1> SUFFICES ASSUME StoreFits, [StoreNext]_storeVars PROVE StoreFits'
    OBVIOUS
  <1>1. CASE UNCHANGED storeVars
    <2>1. FilesFit(files')
      BY <1>1 DEF StoreFits, storeVars
    <2> QED BY <1>1, <2>1 DEF StoreFits, OpenFileFits, CommitFits, QueueFits, FlagsFit, Begun, storeVars
  <1> QED BY <1>1, WriteFits, RunningStepFits, CrashFits, StartFits DEF StoreNext

LEMMA FitsGiveType == StoreFits => StoreTypeOK
  BY DEF StoreFits, FilesFit, FileType, OpenFileFits, CommitFits, QueueFits, FlagsFit, StoreTypeOK

(* Every variable stays in its range in every behaviour of StoreSpec. *)
THEOREM StoreTypeCorrect == StoreSpec => []StoreTypeOK
  BY InitFits, StepFits, FitsGiveType, PTL DEF StoreSpec

-----------------------------------------------------------------------------
(* What the log holds.                                                       *)

LEMMA BlocksFit ==
  ASSUME NEW F, FilesFit(F), NEW f \in DOMAIN F
  PROVE  /\ f \in Nat \ {0} /\ F[f].blocks \in Nat /\ F[f].torn \in Nat
         /\ F[f] = [blocks |-> F[f].blocks, torn |-> F[f].torn]
         /\ \A n : n \in Blocks(F, f) <=> n \in Nat /\ f <= n /\ n < f + F[f].blocks
  BY DEF FilesFit, FileType, Blocks

(* The file that takes the next block is the newest, and ends just below it. *)
LEMMA NextFile ==
  ASSUME StoreFits, LogFollows, binaryLog, node = "up", step = "idle", committed < MaxBlock
  PROVE  /\ File(files, Target).blocks = Place - 1 /\ File(files, Target).torn = Whole
         /\ \A g \in DOMAIN files : g # Target => g < Target /\ g + files[g].blocks <= Target
  <1>1. Target \in Nat /\ Place \in Nat /\ Target + Place = committed + 2 /\ committed \in Nat
    BY NextPlace DEF StoreFits, CommitFits
  <1>2. \A g \in DOMAIN files : /\ g \in Nat /\ files[g].blocks \in Nat /\ files[g].blocks > 0
                                /\ g + files[g].blocks <= committed + 1
    BY BlocksFit DEF StoreFits, LogFollows, Covers, Filled, Begun
  <1>3. \A f, g \in DOMAIN files : f < g => f + files[f].blocks <= g
    BY DEF LogFollows, Covers
  <1>4. CASE Fits
    <2>1. Target = fd /\ Place = written + 1 /\ fd # 0
      BY <1>4 DEF Target, Place, Fits, StoreFits, OpenFileFits
    <2>2. fd \in DOMAIN files /\ files[fd] = [blocks |-> written, torn |-> Whole]
      BY <2>1 DEF LogFollows
    <2>3. written \in Nat
      BY DEF StoreFits, OpenFileFits
    <2>4. fd \in Nat /\ fd + written = committed + 1 /\ files[fd].blocks = written
      BY <1>1, <2>1, <2>2, <2>3
    <2>5. ASSUME NEW g \in DOMAIN files, g # fd
          PROVE  g < fd /\ g + files[g].blocks <= fd
      <3>1. ~(fd < g)
        BY <1>2, <1>3, <2>2, <2>3, <2>4
      <3> QED BY <1>2, <1>3, <2>2, <2>4, <2>5, <3>1
    <2> QED BY <2>1, <2>2, <2>3, <2>5 DEF File
  <1>5. CASE ~Fits
    <2>1. Target = committed + 1 /\ Place = 1
      BY <1>5 DEF Target, Place
    <2>2. Target \notin DOMAIN files
      BY <1>1, <1>2, <2>1
    <2>3. \A g \in DOMAIN files : g < Target /\ g + files[g].blocks <= Target
      BY <1>1, <1>2, <2>1
    <2> QED BY <2>1, <2>2, <2>3 DEF File
  <1> QED BY <1>4, <1>5

(* It then holds one block more, or, when the write was cut off, what it had. *)
LEMMA CoversMore ==
  ASSUME FilesFit(files), NEW last \in Nat, Covers(files, last), Filled(files),
         NEW T \in 1..MaxBlock, NEW p \in Nat \ {0}, T + p = last + 2,
         File(files, T).blocks = p - 1,
         \A g \in DOMAIN files : g # T => g < T /\ g + files[g].blocks <= T,
         NEW c \in FileType, c.torn # LengthTorn
  PROVE  /\ c.blocks = p => Covers(WithFile(T, c), last + 1) /\ Filled(WithFile(T, c))
         /\ c.blocks = p - 1 /\ (p = 1 => c.torn = Whole) => Covers(WithFile(T, c), last)
  <1> DEFINE G == WithFile(T, c)
  <1>1. DOMAIN G = DOMAIN files \cup {T} /\ G[T] = c /\ \A g \in DOMAIN files : g # T => G[g] = files[g]
    BY DEF WithFile
  <1> HIDE DEF G
  <1>2. c.blocks \in Nat
    BY DEF FileType
  <1>3. \A g \in DOMAIN G : /\ g \in Nat \ {0} /\ G[g].blocks \in Nat
                            /\ \A n : n \in Blocks(G, g) <=> n \in Nat /\ g <= n /\ n < g + G[g].blocks
    BY <1>1, <1>2, BlocksFit DEF Blocks
  <1>4. \A g \in DOMAIN G : g # T => /\ g < T /\ g + G[g].blocks <= T /\ G[g].blocks > 0
                                    /\ g + G[g].blocks <= last + 1 /\ G[g].torn # LengthTorn
    BY <1>1 DEF Covers, Filled
  <1>5. \A f, g \in DOMAIN G : f < g => f + G[f].blocks <= g
    <2> SUFFICES ASSUME NEW f \in DOMAIN G, NEW g \in DOMAIN G, f < g PROVE f + G[f].blocks <= g
      OBVIOUS
    <2>1. CASE g = T
      BY <1>3, <1>4, <2>1
    <2>2. CASE g # T
      <3>1. f # T
        BY <1>3, <1>4, <2>2
      <3> QED BY <1>1, <2>2, <3>1 DEF Covers
    <2> QED BY <2>1, <2>2
  <1>6. ASSUME NEW n \in 1..last, c.blocks >= p - 1
        PROVE  \E g \in DOMAIN G : n \in Blocks(G, g)
    <2>1. PICK g \in DOMAIN files : n \in Blocks(files, g)
      BY DEF Covers
    <2>2. g <= n /\ n < g + files[g].blocks /\ g \in Nat
      BY <2>1, BlocksFit
    <2>3. CASE g = T
      <3>1. files[g].blocks = p - 1
        BY <2>3 DEF File
      <3>2. n < T + c.blocks
        BY <1>2, <1>6, <2>2, <2>3, <3>1
      <3> QED BY <1>1, <1>3, <2>2, <2>3, <3>2
    <2>4. CASE g # T
      BY <1>1, <1>3, <2>2, <2>4
    <2> QED BY <2>3, <2>4
  <1>7. ASSUME c.blocks = p
        PROVE  Covers(G, last + 1) /\ Filled(G)
    <2>1. \A n \in 1..(last + 1) : \E g \in DOMAIN G : n \in Blocks(G, g)
      <3> SUFFICES ASSUME NEW n \in 1..(last + 1) PROVE \E g \in DOMAIN G : n \in Blocks(G, g)
        OBVIOUS
      <3>1. CASE n \in 1..last
        BY <1>2, <1>6, <1>7, <3>1
      <3>2. CASE n = last + 1
        BY <1>1, <1>3, <1>7, <3>2
      <3> QED BY <3>1, <3>2
    <2>2. Filled(G)
      BY <1>1, <1>4, <1>7 DEF Filled
    <2>3. \A g \in DOMAIN G : g + G[g].blocks <= last + 2 /\ G[g].torn # LengthTorn
      BY <1>1, <1>3, <1>4, <1>7
    <2> QED BY <1>5, <2>1, <2>2, <2>3 DEF Covers, Filled
  <1>8. ASSUME c.blocks = p - 1, p = 1 => c.torn = Whole
        PROVE  Covers(G, last)
    <2>1. \A n \in 1..last : \E g \in DOMAIN G : n \in Blocks(G, g)
      BY <1>2, <1>6, <1>8
    <2>2. \A g \in DOMAIN G : g + G[g].blocks <= last + 1 /\ G[g].torn # LengthTorn
      BY <1>1, <1>3, <1>4, <1>8
    <2>3. \A g \in DOMAIN G : G[g].blocks = 0 => G[g].torn = Whole /\ g = last + 1
      BY <1>1, <1>4, <1>8
    <2> QED BY <1>5, <2>1, <2>2, <2>3 DEF Covers
  <1> QED BY <1>7, <1>8 DEF G

(* checkBinLogSize takes the file away in which no block was begun. *)
LEMMA CheckedCovers ==
  ASSUME NEW F, FilesFit(F), NEW last \in Nat, Covers(F, last)
  PROVE  Covers(checkBinLogSize(F), last) /\ Filled(checkBinLogSize(F))
  <1> DEFINE G == checkBinLogSize(F)
  <1>1. DOMAIN G = {f \in DOMAIN F : F[f] # NoFile} /\ \A f \in DOMAIN G : G[f] = F[f]
    BY CheckedFiles
  <1> HIDE DEF G
  <1>2. Filled(G)
    <2> SUFFICES ASSUME NEW f \in DOMAIN G PROVE F[f].blocks > 0
      BY <1>1 DEF Filled
    <2>1. F[f].blocks = 0 => F[f] = NoFile
      BY <1>1, BlocksFit DEF Covers
    <2> QED BY <1>1, <2>1, BlocksFit
  <1>3. \A n \in 1..last : \E f \in DOMAIN G : n \in Blocks(G, f)
    <2> SUFFICES ASSUME NEW n \in 1..last PROVE \E f \in DOMAIN G : n \in Blocks(G, f)
      OBVIOUS
    <2>1. PICK f \in DOMAIN F : n \in Blocks(F, f)
      BY DEF Covers
    <2>2. F[f].blocks > 0
      BY <2>1, BlocksFit
    <2>3. F[f] # NoFile
      BY <2>2
    <2> QED BY <1>1, <2>1, <2>3 DEF Blocks
  <1>4. \A f \in DOMAIN G : f \in DOMAIN F /\ G[f] = F[f]
    BY <1>1
  <1> QED BY <1>2, <1>3, <1>4 DEF Covers, Filled, G

(* The newest file ends with the last block. *)
LEMMA LastOfLog ==
  ASSUME NEW F, FilesFit(F), NEW last \in Nat, Covers(F, last), Filled(F)
  PROVE  getLastBlockNum(F) = last
  <1>1. CASE DOMAIN F = {}
    <2>1. last = 0
      <3> SUFFICES ASSUME last # 0 PROVE FALSE
        OBVIOUS
      <3>1. 1 \in 1..last
        OBVIOUS
      <3> QED BY <1>1, <3>1 DEF Covers
    <2> QED BY <1>1, <2>1 DEF getLastBlockNum
  <1>2. CASE DOMAIN F # {}
    <2>1. DOMAIN F \in SUBSET Nat /\ \A f \in DOMAIN F : f <= MaxBlock
      BY DEF FilesFit
    <2>2. PICK N \in DOMAIN F : N = Newest(F) /\ \A f \in DOMAIN F : f <= N
      BY <1>2, <2>1, GreatestOfNaturals DEF Newest
    <2>3. N \in Nat \ {0} /\ F[N].blocks \in Nat \ {0} /\ N + F[N].blocks <= last + 1 /\ F[N].torn # LengthTorn
      BY BlocksFit DEF Covers, Filled
    <2>4. last \in 1..last
      BY <2>3
    <2>5. PICK f \in DOMAIN F : last \in Blocks(F, f)
      BY <2>4 DEF Covers
    <2>6. f \in Nat /\ f <= N /\ last < f + F[f].blocks /\ F[f].blocks \in Nat
      BY <2>2, <2>5, BlocksFit
    <2>7. ~(f < N)
      <3> SUFFICES ASSUME f < N PROVE FALSE
        OBVIOUS
      <3>1. f + F[f].blocks <= N
        BY DEF Covers
      <3> QED BY <2>3, <2>6, <3>1
    <2>8. N + F[N].blocks - 1 = last
      BY <2>3, <2>6, <2>7
    <2> QED BY <1>2, <2>2, <2>3, <2>8 DEF getLastBlockNum
  <1> QED BY <1>1, <1>2

(* A turn finds every block of its interval that the log holds. *)
LEMMA TurnFinds ==
  ASSUME NEW F, FilesFit(F), NEW last \in Nat, Covers(F, last), NEW num \in Nat
  PROVE  Turn(F, num) = ((num + 1) .. (num + Interval)) \cap (1..last)
  <1>1. \A f \in DOMAIN F : Blocks(F, f) \subseteq 1..last
    BY BlocksFit DEF Covers
  <1>2. ASSUME NEW n \in (num + 1)..last
        PROVE  \E f \in Visited(F, num) : n \in Blocks(F, f)
    <2>1. n \in 1..last /\ n \in Nat
      OBVIOUS
    <2>2. PICK f \in DOMAIN F : n \in Blocks(F, f)
      BY <2>1 DEF Covers
    <2>3. \A g \in DOMAIN F : g <= num => g <= f
      <3> SUFFICES ASSUME NEW g \in DOMAIN F, g <= num, ~(g <= f) PROVE FALSE
        OBVIOUS
      <3>1. g \in Nat /\ f \in Nat /\ n < f + F[f].blocks /\ F[f].blocks \in Nat
        BY <2>2, BlocksFit
      <3>2. f + F[f].blocks <= g
        BY <3>1 DEF Covers
      <3> QED BY <1>2, <3>1, <3>2
    <2> QED BY <2>2, <2>3 DEF Visited
  <1>3. getMissingBlocksFromBinLog(F, num) = ((num + 1) .. (num + Interval)) \cap (1..last)
    <2> DEFINE V == Visited(F, num)
               found == UNION {Blocks(F, f) : f \in V}
               turn == (num + 1) .. (num + Interval)
    <2>1. getMissingBlocksFromBinLog(F, num) = found \cap turn
      BY DEF getMissingBlocksFromBinLog
    <2>2. V \subseteq DOMAIN F
      BY DEF Visited
    <2>3. \A n : n \in found <=> \E f \in V : n \in Blocks(F, f)
      <3> HIDE DEF V
      <3> QED OBVIOUS
    <2>4. \A n \in (num + 1)..last : n \in found
      BY <1>2, <2>3
    <2> HIDE DEF V, found
    <2>5. found \subseteq 1..last
      BY <1>1, <2>2, <2>3
    <2>6. \A n \in turn \cap (1..last) : n \in (num + 1)..last
      OBVIOUS
    <2> HIDE DEF turn
    <2>7. found \cap turn = turn \cap (1..last)
      BY <2>4, <2>5, <2>6
    <2> QED BY <2>1, <2>7 DEF turn
  <1>4. PICK m \in Nat : ((num + 1) .. (num + Interval)) \cap (1..last) = (num + 1)..m
    <2>1. CASE num + Interval <= last
      <3>1. num + Interval \in Nat /\ ((num + 1) .. (num + Interval)) \cap (1..last) = (num + 1)..(num + Interval)
        BY <2>1
      <3> QED BY <3>1
    <2>2. CASE ~(num + Interval <= last)
      <3>1. ((num + 1) .. (num + Interval)) \cap (1..last) = (num + 1)..last
        BY <2>2
      <3> QED BY <3>1
    <2> QED BY <2>1, <2>2
  <1>5. Cardinality((num + 1)..m) = IF num + 1 > m THEN 0 ELSE m - num
    <2>1. num + 1 \in Int /\ m \in Int /\ m - (num + 1) + 1 = m - num
      OBVIOUS
    <2>2. Cardinality((num + 1)..m) = IF num + 1 > m THEN 0 ELSE m - (num + 1) + 1
      BY <2>1, FS_Interval, Zenon
    <2> QED BY <2>1, <2>2, Zenon
  <1>6. ((num + 1)..m) \cap ((num + 1)..(num + Cardinality((num + 1)..m))) = (num + 1)..m
    <2>1. PICK k : k = Cardinality((num + 1)..m)
      OBVIOUS
    <2>2. CASE num + 1 > m
      <3>1. (num + 1)..m = {}
        BY <2>2
      <3> QED BY <3>1, Zenon
    <2>3. CASE ~(num + 1 > m)
      <3>1. k = m - num
        BY <1>5, <2>1, <2>3
      <3>2. num + k = m
        BY <3>1
      <3> QED BY <2>1, <3>2, Zenon
    <2> QED BY <2>2, <2>3
  <1> QED BY <1>3, <1>4, <1>6, Zenon DEF Turn

(* Every block above start lies in the interval of one of the turns. *)
LEMMA TurnOf ==
  ASSUME NEW start \in Nat, NEW last \in Nat, NEW n \in (start + 1)..last
  PROVE  \E k \in 0 .. ((last - start) \div Interval) :
           start + k * Interval < n /\ n <= start + k * Interval + Interval
  <1> DEFINE a == n - start - 1
  <1>1. a \in Nat /\ last - start \in Nat /\ a <= last - start
    OBVIOUS
  <1>2. PICK k \in Nat, r \in 0..(Interval - 1) : a = k * Interval + r /\ k = a \div Interval
    <2> HIDE DEF a
    <2>1. a \div Interval \in Nat /\ a % Interval \in 0..(Interval - 1)
      BY <1>1
    <2>2. a = (a \div Interval) * Interval + (a % Interval)
      BY <1>1
    <2> QED BY <2>1, <2>2
  <1>3. k <= (last - start) \div Interval /\ (last - start) \div Interval \in Nat
    <2>1. PICK q \in Nat, s \in 0..(Interval - 1) : last - start = q * Interval + s /\ q = (last - start) \div Interval
      <3> DEFINE b == last - start
      <3> HIDE DEF b
      <3>1. b \in Nat
        BY <1>1 DEF b
      <3>2. b \div Interval \in Nat /\ b % Interval \in 0..(Interval - 1)
        BY <3>1
      <3>3. b = (b \div Interval) * Interval + (b % Interval)
        BY <3>1
      <3> QED BY <3>2, <3>3 DEF b
    <2>2. ~(q + 1 <= k)
      <3> SUFFICES ASSUME q + 1 <= k PROVE FALSE
        OBVIOUS
      <3>1. (q + 1) * Interval <= k * Interval
        OBVIOUS
      <3>2. (q + 1) * Interval = q * Interval + Interval
        OBVIOUS
      <3> DEFINE x == q * Interval  y == k * Interval
      <3>3. x \in Nat /\ y \in Nat /\ x + Interval <= y
        BY <3>1, <3>2
      <3>4. last - start = x + s /\ a = y + r
        BY <1>2, <2>1
      <3> HIDE DEF x, y, a
      <3> QED BY <1>1, <3>3, <3>4
    <2> QED BY <2>1, <2>2
  <1>4. start + k * Interval < n /\ n <= start + k * Interval + Interval
    <2> DEFINE x == k * Interval
    <2>1. x \in Nat /\ n - start - 1 = x + r
      BY <1>2
    <2> HIDE DEF x
    <2>2. start + x < n /\ n <= start + x + Interval
      BY <2>1
    <2> QED BY <2>2 DEF x
  <1> QED BY <1>3, <1>4

(* The turns together find every block of the log that the database misses. *)
LEMMA RecoversAll ==
  ASSUME NEW F, FilesFit(F), NEW last \in Nat, Covers(F, last), Filled(F), NEW start \in Nat
  PROVE  recoverFromBinaryLog(F, start) = (start + 1)..last
  <1>1. getLastBlockNum(F) = last
    BY LastOfLog
  <1>2. CASE start >= last
    <2>1. (start + 1)..last = {}
      BY <1>2
    <2> QED BY <1>1, <1>2, <2>1 DEF recoverFromBinaryLog
  <1>3. CASE ~(start >= last)
    <2> DEFINE K == 0 .. ((last - start) \div Interval)
    <2>1. recoverFromBinaryLog(F, start) = UNION {Turn(F, start + k * Interval) : k \in K}
      BY <1>1, <1>3 DEF recoverFromBinaryLog
    <2>2. \A k \in K : start + k * Interval \in Nat
      <3> SUFFICES ASSUME NEW k \in K PROVE start + k * Interval \in Nat
        OBVIOUS
      <3>1. k \in Nat
        OBVIOUS
      <3> HIDE DEF K
      <3>2. k * Interval \in Nat
        BY <3>1
      <3> QED BY <3>2
    <2>3. \A n \in (start + 1)..last : \E k \in K : start + k * Interval < n /\ n <= start + k * Interval + Interval
      BY TurnOf
    <2> HIDE DEF K
    <2>4. \A k \in K : Turn(F, start + k * Interval) =
                         ((start + k * Interval + 1) .. (start + k * Interval + Interval)) \cap (1..last)
      BY <2>2, TurnFinds
    <2>5. ASSUME NEW n \in (start + 1)..last
          PROVE  n \in UNION {Turn(F, start + k * Interval) : k \in K}
      <3>1. PICK k \in K : start + k * Interval < n /\ n <= start + k * Interval + Interval
        BY <2>3
      <3>2. PICK x \in Nat : x = start + k * Interval
        BY <2>2
      <3>3. n \in ((x + 1) .. (x + Interval)) \cap (1..last)
        BY <3>1, <3>2
      <3>4. n \in Turn(F, start + k * Interval)
        BY <2>4, <3>2, <3>3, Zenon
      <3> QED BY <3>4
    <2>6. ASSUME NEW k \in K, NEW n \in Turn(F, start + k * Interval)
          PROVE  n \in (start + 1)..last
      <3>1. PICK x : x = k * Interval
        OBVIOUS
      <3>2. x \in Nat
        <4>1. k \in Nat
          BY DEF K
        <4> QED BY <3>1, <4>1
      <3>3. n \in ((start + x + 1) .. (start + x + Interval)) \cap (1..last)
        BY <2>4, <2>6, <3>1, Zenon
      <3> QED BY <3>2, <3>3
    <2>7. UNION {Turn(F, start + k * Interval) : k \in K} \subseteq (start + 1)..last
      BY <2>6
    <2> QED BY <2>1, <2>5, <2>7
  <1> QED BY <1>2, <1>3

-----------------------------------------------------------------------------
(* As long as nothing is damaged.                                            *)

(* The numbers of blocks that are committed, begun and handed to the queue. *)
LEMMA Numbers ==
  ASSUME StoreFits
  PROVE  /\ committed \in Nat /\ Begun \in Nat /\ Handed \in Nat
         /\ committed <= Begun /\ Handed <= Begun /\ Begun <= committed + 1
         /\ Begun <= MaxBlock /\ Height(db) \in 0..MaxBlock
  <1>1. Height(db) \in 0..MaxBlock
    BY HeightFits DEF StoreFits, QueueFits
  <1> QED BY <1>1 DEF StoreFits, CommitFits, Begun, Handed

LEMMA WriteUndamaged ==
  ASSUME StoreFits, Undamaged, writeBlocktoBinLog
  PROVE  Undamaged'
  <1>1. /\ node = "up" /\ step = "idle" /\ committed < MaxBlock /\ step' = "logged"
        /\ UNCHANGED <<binaryLog, committed, tasks, syncNum, running, db, durable, node>>
    BY DEF writeBlocktoBinLog
  <1>2. IsBeginning' /\ NotFarBehind' /\ LogLeft'
    BY <1>1 DEF Undamaged, IsBeginning, NotFarBehind, LogLeft
  <1>3. TasksFollow'
    <2>1. Handed' = Handed
      BY <1>1 DEF Handed
    <2> QED BY <1>1, <2>1 DEF Undamaged, TasksFollow
  <1>4. ASSUME binaryLog
        PROVE  /\ Covers(files', committed + 1) /\ Filled(files')
               /\ fd' \in DOMAIN files' /\ files'[fd'] = [blocks |-> written', torn |-> Whole]
    <2>1. PICK T \in 1..MaxBlock, p \in Nat \ {0}, c \in FileType :
            T = Target /\ p = Place /\ c = Put /\ T + p = committed + 2
      BY <1>1, NextPlace, PutFits
    <2>2. files' = WithFile(T, c) /\ fd' = T /\ written' = p
      BY <1>4, <2>1, Zenon DEF writeBlocktoBinLog
    <2>3. /\ File(files, T).blocks = p - 1
          /\ \A g \in DOMAIN files : g # T => g < T /\ g + files[g].blocks <= T
      BY <1>1, <1>4, <2>1, NextFile DEF Undamaged
    <2>4. c = [blocks |-> p, torn |-> Whole]
      BY <2>1, <2>3 DEF Put
    <2>5. FilesFit(files) /\ Covers(files, committed) /\ Filled(files) /\ committed \in Nat
      BY <1>1, <1>4, Numbers DEF StoreFits, Undamaged, LogFollows, Begun
    <2>6. Covers(WithFile(T, c), committed + 1) /\ Filled(WithFile(T, c))
      BY <2>1, <2>3, <2>4, <2>5, CoversMore
    <2>7. T \in DOMAIN WithFile(T, c) /\ WithFile(T, c)[T] = c
      BY DEF WithFile
    <2> QED BY <2>2, <2>4, <2>6, <2>7
  <1>5. LogFollows'
    <2>1. Begun' = committed + 1
      BY <1>1 DEF Begun
    <2>2. binaryLog' = binaryLog
      BY <1>1
    <2>3. binaryLog => Covers(files', Begun')
      BY <1>4, <2>1, Zenon
    <2> QED BY <1>4, <2>2, <2>3, Zenon DEF LogFollows, Covers, Filled
  <1> QED BY <1>2, <1>3, <1>5 DEF Undamaged

LEMMA CommitUndamaged ==
  ASSUME StoreFits, Undamaged, SubmitTask \/ CommitReturns
  PROVE  Undamaged'
  <1>1. /\ node = "up" /\ Begun' = Begun
        /\ UNCHANGED <<binaryLog, files, fd, written, db, durable, syncNum, running, node>>
    BY DEF SubmitTask, CommitReturns, Begun
  <1>2. IsBeginning' /\ LogFollows' /\ LogLeft'
    BY <1>1 DEF Undamaged, IsBeginning, LogFollows, LogLeft
  <1>3. PICK h \in Nat : h = Height(db) /\ h <= Handed
    BY <1>1, Numbers DEF Undamaged, TasksFollow
  <1>4. Height(db') = h /\ committed \in Nat
    BY <1>1, <1>3, Numbers
  <1>5. TasksFollow'
    <2>1. CASE SubmitTask
      <3>1. step = "logged" /\ step' = "waiting" /\ tasks' = Append(tasks, committed + 1) /\ committed' = committed
        BY <2>1 DEF SubmitTask
      <3>2. Handed = committed /\ Handed' = committed + 1
        BY <3>1 DEF Handed
      <3>3. ASSUME running
            PROVE  h + Len(tasks') = committed + 1 /\ \A i \in 1..Len(tasks') : tasks'[i] = h + i
        <4>1. h + Len(tasks) = committed /\ \A i \in 1..Len(tasks) : tasks[i] = h + i
          BY <1>1, <1>3, <3>2, <3>3 DEF Undamaged, TasksFollow
        <4>2. /\ Len(tasks) \in Nat /\ Len(tasks') = Len(tasks) + 1 /\ tasks'[Len(tasks) + 1] = committed + 1
              /\ \A i \in 1..Len(tasks) : tasks'[i] = tasks[i]
          <5>1. tasks \in Seq(1..MaxBlock) /\ committed + 1 \in 1..MaxBlock
            BY <3>1 DEF StoreFits, QueueFits, CommitFits
          <5> QED BY <3>1, <5>1, Appended
        <4> QED BY <4>1, <4>2
      <3>4. running => syncNum = h
        BY <1>1, <1>3 DEF Undamaged, TasksFollow
      <3> QED BY <1>1, <1>3, <1>4, <3>2, <3>3, <3>4 DEF TasksFollow
    <2>2. CASE CommitReturns
      <3>1. Handed' = Handed /\ tasks' = tasks
        BY <2>2 DEF CommitReturns, Handed, taskVars
      <3> QED BY <1>1, <3>1 DEF Undamaged, TasksFollow
    <2> QED BY <2>1, <2>2
  <1>6. NotFarBehind'
    <2>1. CASE SubmitTask
      BY <1>1, <2>1 DEF Undamaged, NotFarBehind, SubmitTask
    <2>2. CASE CommitReturns
      <3>1. running => committed + 1 - h <= MaxForward
        BY <1>1, <1>3, <2>2 DEF CommitReturns, Undamaged, TasksFollow
      <3>2. committed' = committed + 1
        BY <2>2 DEF CommitReturns
      <3> QED BY <1>1, <1>4, <3>1, <3>2 DEF NotFarBehind
    <2> QED BY <2>1, <2>2
  <1> QED BY <1>2, <1>5, <1>6 DEF Undamaged

LEMMA BackendUndamaged ==
  ASSUME StoreFits, Undamaged, BackendCommits \/ BackendFails
  PROVE  Undamaged'
  <1>1. /\ node = "up" /\ running /\ tasks # <<>> /\ tasks' = Tail(tasks)
        /\ UNCHANGED <<binaryLog, files, fd, written, committed, step, durable, node>>
    BY DEF BackendCommits, BackendFails, TaskBegins, logVars, dbVars
  <1>2. Begun' = Begun /\ Handed' = Handed
    BY <1>1 DEF Begun, Handed
  <1>3. LogFollows' /\ LogLeft'
    BY <1>1, <1>2 DEF Undamaged, LogFollows, LogLeft
  <1>4. PICK h \in Nat : h = Height(db) /\ db = 1..h /\ durable <= h /\ h <= Handed
    BY <1>1, Numbers DEF Undamaged, TasksFollow, IsBeginning
  <1>5. CASE BackendFails
    <2>1. running' = FALSE /\ db' = db
      BY <1>5 DEF BackendFails, dbVars
    <2> QED BY <1>1, <1>2, <1>3, <1>4, <2>1 DEF Undamaged, IsBeginning, TasksFollow, NotFarBehind
  <1>6. CASE BackendCommits
    <2>1. /\ Len(tasks) \in Nat \ {0} /\ Len(tasks') = Len(tasks) - 1
          /\ Head(tasks) = tasks[1] /\ \A i \in 1..Len(tasks') : tasks'[i] = tasks[i + 1]
      <3>1. tasks \in Seq(1..MaxBlock)
        BY DEF StoreFits, QueueFits
      <3> QED BY <1>1, <3>1, HeadAndTail
    <2>2. h + Len(tasks) = Handed /\ \A i \in 1..Len(tasks) : tasks[i] = h + i
      BY <1>1, <1>4 DEF Undamaged, TasksFollow
    <2>3. db' = (1..h) \cup {h + 1} /\ syncNum' = h + 1 /\ running' = running
      <3>1. Head(tasks) = h + 1
        BY <2>1, <2>2
      <3> QED BY <1>4, <1>6, <3>1, Zenon DEF BackendCommits
    <2>4. db' = 1..(h + 1)
      <3>1. (1..h) \cup {h + 1} = 1..(h + 1)
        OBVIOUS
      <3> QED BY <2>3, <3>1, Zenon
    <2>5. Height(db') = h + 1
      BY <2>4, HeightOfBeginning
    <2>6. IsBeginning'
      <3>1. durable' <= h + 1
        BY <1>1, <1>4 DEF StoreFits, QueueFits
      <3> QED BY <2>4, <2>5, <3>1, Zenon DEF IsBeginning
    <2>7. TasksFollow'
      <3>1. Handed \in Nat /\ h + 1 <= Handed /\ h + 1 + Len(tasks') = Handed
        BY <2>1, <2>2, Numbers
      <3>2. \A i \in 1..Len(tasks') : tasks'[i] = h + 1 + i
        BY <2>1, <2>2
      <3> QED BY <1>2, <2>3, <2>5, <3>1, <3>2, Zenon DEF TasksFollow
    <2>8. NotFarBehind'
      BY <1>1, <1>4, <2>3, <2>5, Numbers DEF Undamaged, NotFarBehind
    <2> QED BY <1>3, <2>6, <2>7, <2>8 DEF Undamaged
  <1> QED BY <1>5, <1>6

LEMMA CrashUndamaged ==
  ASSUME StoreFits, Undamaged, Crash \/ CrashWhileLogging, damage' = {}
  PROVE  Undamaged'
  <1>1. ProcessEnds
    BY DEF Crash, CrashWhileLogging
  <1>2. node = "up" /\ node' = "down" /\ UNCHANGED <<binaryLog, committed, running>>
    BY <1>1 DEF ProcessEnds
  <1>3. PICK h \in Nat : h = Height(db) /\ db = 1..h /\ durable <= h /\ h <= Handed
    BY <1>2, Numbers DEF Undamaged, TasksFollow, IsBeginning
  <1>4. PICK k \in 0..h : durable' = k /\ db' = 1..k /\ (~binaryLog => k = h)
    <2>1. PICK k : /\ k \in (IF binaryLog THEN {durable} \cup {n \in db : n > durable} ELSE {Height(db)})
                   /\ durable' = k /\ db' = {n \in db : n <= k}
      BY <1>1 DEF ProcessEnds
    <2>2. durable \in 0..h
      BY <1>3 DEF StoreFits, QueueFits
    <2>3. \A n \in db : n \in 0..h
      <3>1. \A n \in 1..h : n \in 0..h
        OBVIOUS
      <3> QED BY <1>3, <3>1, Zenon
    <2>4. binaryLog => k = durable \/ k \in db
      BY <2>1
    <2>5. ~binaryLog => k = h
      BY <1>3, <2>1
    <2>6. k \in 0..h
      BY <2>2, <2>3, <2>4, <2>5
    <2>7. db' = 1..k
      BY <1>3, <2>1, <2>6, BeginningCut
    <2> QED BY <2>1, <2>5, <2>6, <2>7
  <1>5. Height(db') = k /\ k \in Nat
    BY <1>4, HeightOfBeginning
  <1>6. IsBeginning' /\ NotFarBehind'
    BY <1>2, <1>3, <1>4, <1>5 DEF Undamaged, IsBeginning, NotFarBehind
  <1>7. TasksFollow' /\ LogFollows'
    BY <1>2 DEF TasksFollow, LogFollows
  <1>8. ASSUME binaryLog
        PROVE  \E last \in {committed, committed + 1} : last <= MaxBlock /\ Covers(files', last) /\ k <= last
    <2>1. CASE Crash
      <3>1. Covers(files, Begun) /\ files' = files
        BY <1>2, <1>8, <2>1 DEF Undamaged, LogFollows, Crash
      <3>2. Begun \in {committed, committed + 1} /\ Begun <= MaxBlock /\ k <= Begun
        <4>1. Begun \in {committed, committed + 1}
          BY DEF Begun
        <4> QED BY <1>3, <1>4, <4>1, Numbers
      <3> QED BY <3>1, <3>2
    <2>2. CASE CrashWhileLogging
      <3>1. step = "idle" /\ committed < MaxBlock
        BY <2>2 DEF CrashWhileLogging
      <3>2. PICK T \in 1..MaxBlock, p \in Nat \ {0} :
              T = Target /\ p = Place /\ p \in 1..FileBlocks /\ T + p = committed + 2
        BY <3>1, NextPlace
      <3>3. /\ File(files, T).blocks = p - 1 /\ File(files, T).torn = Whole
            /\ \A g \in DOMAIN files : g # T => g < T /\ g + files[g].blocks <= T
        BY <1>2, <1>8, <3>1, <3>2, NextFile DEF Undamaged
      <3>4. PICK t \in File(files, T).torn .. BlockTorn :
              /\ files' = WithFile(T, [blocks |-> p - 1, torn |-> t])
              /\ damage' = damage \cup (IF t # Whole /\ (p = 1 \/ t = LengthTorn) THEN {"torn"} ELSE {})
        BY <2>2, <3>2 DEF CrashWhileLogging
      <3>5. t \in 0..3 /\ t # LengthTorn /\ (p = 1 => t = Whole)
        BY <3>3, <3>4
      <3>6. PICK c \in FileType : c = [blocks |-> p - 1, torn |-> t]
        <4>1. p - 1 \in 0..FileBlocks /\ t \in Whole..BlockTorn
          BY <3>2, <3>5
        <4>2. [blocks |-> p - 1, torn |-> t] \in FileType
          BY <4>1 DEF FileType
        <4> QED BY <4>2
      <3>7. c.blocks = p - 1 /\ c.torn = t
        BY <3>6
      <3>8. FilesFit(files) /\ Covers(files, committed) /\ Filled(files) /\ committed \in Nat
        BY <1>2, <1>8, <3>1, Numbers DEF StoreFits, Undamaged, LogFollows, Begun
      <3>9. Covers(WithFile(T, c), committed)
        BY <3>2, <3>3, <3>5, <3>7, <3>8, CoversMore
      <3>10. Covers(files', committed)
        BY <3>4, <3>6, <3>9, Zenon
      <3>11. k <= committed /\ committed <= MaxBlock
        BY <1>3, <1>4, <3>1, Numbers DEF Handed
      <3> QED BY <3>10, <3>11
    <2> QED BY <2>1, <2>2
  <1>9. LogLeft'
    BY <1>2, <1>5, <1>8 DEF LogLeft
  <1> QED BY <1>6, <1>7, <1>9 DEF Undamaged

(* A start without the log finds the database's height.                      *)
LEMMA StartUndamaged ==
  ASSUME StoreFits, Undamaged, StartWithoutLog
  PROVE  Undamaged'
  <1>1. /\ node = "down" /\ node' = "up" /\ running' = TRUE /\ ~binaryLog /\ ~binaryLog'
        /\ committed' = Height(db') /\ syncNum' = Height(db')
        /\ step' = "idle" /\ tasks' = <<>> /\ UNCHANGED <<db, durable>>
    BY DEF StartWithoutLog, Start, StoreFits, OpenFileFits
  <1>2. Height(db') = Height(db) /\ Height(db) \in Nat
    BY <1>1, Numbers
  <1>3. IsBeginning'
    BY <1>1 DEF Undamaged, IsBeginning
  <1>4. Handed' = Height(db')
    BY <1>1 DEF Handed
  <1>5. TasksFollow'
    BY <1>1, <1>2, <1>4 DEF TasksFollow
  <1>6. NotFarBehind' /\ LogFollows' /\ LogLeft'
    BY <1>1, <1>2 DEF NotFarBehind, LogFollows, LogLeft
  <1> QED BY <1>3, <1>5, <1>6 DEF Undamaged

(* With the log it finds every block of the log, up to the last one, and    *)
(* RocksDB takes them all unless it fails on one.                          *)
LEMMA RecoverFindsLast ==
  ASSUME StoreFits, Undamaged, StartAndRecover, damage' = {}
  PROVE  \E last \in {committed, committed + 1} :
           /\ last \in 0..MaxBlock /\ committed' = last /\ syncNum' = last
           /\ Covers(files', last) /\ Filled(files')
           /\ \E k \in Height(db)..last : db' = 1..k /\ (running' => k = last)
  <1>1. node = "down" /\ binaryLog /\ files' = checkBinLogSize(files)
    BY DEF StartAndRecover
  <1>2. PICK last \in {committed, committed + 1} : last <= MaxBlock /\ Covers(files, last) /\ Height(db) <= last
    BY <1>1 DEF Undamaged, LogLeft
  <1>3. PICK h \in Nat : h = Height(db) /\ db = 1..h /\ h <= last
    BY <1>2, Numbers DEF Undamaged, IsBeginning
  <1>4. last \in 0..MaxBlock
    BY <1>2, Numbers
  <1>5. Covers(files', last) /\ Filled(files') /\ FilesFit(files')
    BY <1>1, <1>2, <1>4, CheckedCovers, CheckedFit DEF StoreFits
  <1>6. recoverFromBinaryLog(files', h) = (h + 1)..last
    BY <1>4, <1>5, RecoversAll
  <1>7. PICK taken, lost :
          LET recovered == recoverFromBinaryLog(files', Height(db)) IN
          /\ taken \in SUBSET recovered
          /\ \A n \in taken : \A m \in recovered : m < n => m \in taken
          /\ running' = (taken = recovered)
          /\ db' = db \cup (taken \ lost)
          /\ damage' = damage \cup (IF lost # {} THEN {"retry"} ELSE {})
          /\ committed' = Height(db \cup recovered) /\ syncNum' = Height(db \cup recovered)
    BY DEF StartAndRecover, Start
  <1>8. lost = {}
    BY <1>7
  <1>9. db \cup recoverFromBinaryLog(files', Height(db)) = 1..last
    <2>1. (1..h) \cup ((h + 1)..last) = 1..last
      BY <1>3, <1>4, BeginningJoined
    <2> QED BY <1>3, <1>6, <2>1
  <1>10. committed' = last /\ syncNum' = last
    <2>1. Height(1..last) = last
      BY <1>4, HeightOfBeginning
    <2> QED BY <1>7, <1>9, <2>1
  <1>11. /\ taken \subseteq (h + 1)..last /\ (running' => taken = (h + 1)..last)
         /\ \A n \in taken : \A m \in (h + 1)..last : m < n => m \in taken
    BY <1>3, <1>6, <1>7
  <1>12. PICK k \in h..last : taken = (h + 1)..k
    <2>1. CASE taken = {}
      <3>1. h \in h..last /\ taken = (h + 1)..h
        BY <1>3, <1>4, <2>1
      <3> QED BY <3>1
    <2>2. CASE taken # {}
      <3>1. \A n \in taken : n \in Nat /\ h < n /\ n <= last
        <4>1. last \in Nat
          BY <1>4
        <4> QED BY <1>11, <4>1
      <3>2. PICK k \in taken : \A n \in taken : n <= k
        <4>1. taken \in SUBSET Nat /\ last \in Nat
          BY <1>4, <3>1
        <4> QED BY <2>2, <3>1, <4>1, GreatestOfNaturals
      <3>3. k \in Nat /\ last \in Nat /\ h < k /\ k <= last
        BY <1>4, <3>1, <3>2
      <3>4. ASSUME NEW n \in (h + 1)..k PROVE n \in taken
        <4>1. n \in (h + 1)..last /\ (n < k \/ n = k)
          BY <3>3
        <4> QED BY <1>11, <3>2, <4>1
      <3>5. taken = (h + 1)..k
        <4>1. ASSUME NEW n \in taken PROVE n \in (h + 1)..k
          BY <3>1, <3>2, <3>3
        <4> QED BY <3>4, <4>1
      <3> QED BY <3>3, <3>5
    <2> QED BY <2>1, <2>2
  <1>13. db' = 1..k
    <2>1. db' = db \cup taken
      BY <1>7, <1>8
    <2>2. db' = (1..h) \cup ((h + 1)..k)
      BY <1>3, <1>12, <2>1, Zenon
    <2>3. k \in Nat /\ h <= k
      BY <1>4
    <2> QED BY <2>2, <2>3, BeginningJoined
  <1>14. running' => k = last
    <2> SUFFICES ASSUME running' PROVE k = last
      OBVIOUS
    <2>1. (h + 1)..k = (h + 1)..last
      BY <1>11, <1>12
    <2> QED BY <1>3, <1>4, <1>12, <2>1
  <1> QED BY <1>2, <1>3, <1>4, <1>5, <1>10, <1>12, <1>13, <1>14

LEMMA RecoverUndamaged ==
  ASSUME StoreFits, Undamaged, StartAndRecover, damage' = {}
  PROVE  Undamaged'
  <1>1. /\ node = "down" /\ node' = "up" /\ binaryLog /\ binaryLog'
        /\ step' = "idle" /\ tasks' = <<>> /\ fd' = 0 /\ durable' = durable
    BY DEF StartAndRecover, Start, StoreFits, OpenFileFits
  <1>2. PICK last \in 0..MaxBlock : /\ committed' = last /\ syncNum' = last
                                   /\ Covers(files', last) /\ Filled(files')
                                   /\ \E k \in Height(db)..last : db' = 1..k /\ (running' => k = last)
    BY RecoverFindsLast
  <1>3. PICK k \in Height(db)..last : db' = 1..k /\ (running' => k = last)
    BY <1>2
  <1>4. Height(db') = k /\ k \in Nat /\ Height(db) <= k /\ k <= last
    BY <1>3, HeightOfBeginning, Numbers
  <1>5. IsBeginning'
    BY <1>1, <1>3, <1>4, Numbers DEF Undamaged, IsBeginning, StoreFits, QueueFits
  <1>6. Handed' = last /\ Begun' = last
    BY <1>1, <1>2 DEF Handed, Begun
  <1>7. TasksFollow'
    BY <1>1, <1>2, <1>3, <1>4, <1>6 DEF TasksFollow
  <1>8. LogFollows'
    BY <1>1, <1>2, <1>6 DEF LogFollows
  <1>9. NotFarBehind' /\ LogLeft'
    BY <1>1 DEF NotFarBehind, LogLeft
  <1> QED BY <1>5, <1>7, <1>8, <1>9 DEF Undamaged

LEMMA InitUndamaged == StoreInit => Undamaged
  <1> SUFFICES ASSUME StoreInit PROVE Undamaged
    OBVIOUS
  <1>1. db = 1..0
    BY DEF StoreInit
  <1>2. Height(db) = 0
    BY <1>1, HeightOfBeginning
  <1>3. Begun = 0 /\ Handed = 0
    BY DEF StoreInit, Begun, Handed
  <1>4. IsBeginning /\ NotFarBehind /\ LogLeft
    BY <1>1, <1>2 DEF StoreInit, IsBeginning, NotFarBehind, LogLeft
  <1>5. TasksFollow
    BY <1>2, <1>3 DEF StoreInit, TasksFollow
  <1>6. LogFollows
    BY <1>3 DEF StoreInit, LogFollows, Covers, Filled
  <1> QED BY <1>4, <1>5, <1>6 DEF Undamaged

LEMMA StepUndamaged ==
  ASSUME StoreInv, [StoreNext]_storeVars, damage' = {}
  PROVE  damage = {} /\ Undamaged /\ Undamaged'
  <1>1. damage = {}
    BY DEF StoreNext, writeBlocktoBinLog, SubmitTask, CommitReturns, BackendCommits, BackendNeedsRetry,
           BackendFails, Crash, CrashWhileLogging, StartWithoutLog, StartAndRecover, storeVars
  <1>2. StoreFits /\ Undamaged
    BY <1>1 DEF StoreInv
  <1>3. ~BackendNeedsRetry
    BY DEF BackendNeedsRetry
  <1>4. CASE UNCHANGED storeVars
    <2>1. UNCHANGED <<IsBeginning, TasksFollow, LogFollows, LogLeft, NotFarBehind>>
      BY <1>4 DEF storeVars, IsBeginning, TasksFollow, LogFollows, LogLeft, NotFarBehind, Begun, Handed
    <2> QED BY <1>1, <1>2, <2>1 DEF Undamaged
  <1> QED BY <1>1, <1>2, <1>3, <1>4, WriteUndamaged, CommitUndamaged, BackendUndamaged, CrashUndamaged,
             StartUndamaged, RecoverUndamaged DEF StoreNext

LEMMA StoreInvHolds == StoreSpec => []StoreInv
  <1>1. StoreInit => StoreInv
    BY InitFits, InitUndamaged DEF StoreInv
  <1>2. StoreInv /\ [StoreNext]_storeVars => StoreInv'
    <2> SUFFICES ASSUME StoreInv, [StoreNext]_storeVars PROVE StoreInv'
      OBVIOUS
    <2>1. StoreFits'
      BY StepFits DEF StoreInv
    <2>2. damage' = {} => Undamaged'
      BY StepUndamaged
    <2> QED BY <2>1, <2>2 DEF StoreInv
  <1> QED BY <1>1, <1>2, PTL DEF StoreSpec

(* Whatever crashes and restarts, and wherever a crash cuts, RocksDB holds a *)
(* beginning of the chain, as long as no write asked for a retry and no   *)
(* beginning of the log was torn (commitBackend, recoverFromBinaryLog).    *)
THEOREM NoGapCorrect == StoreSpec => []NoGap
  <1>1. StoreInv => NoGap
    BY DEF StoreInv, Undamaged, IsBeginning, NoGap
  <1> QED BY <1>1, StoreInvHolds, PTL

(* A start loses no block whose commit had returned when the log is on, and *)
(* at most max_forward_block of them without it (BinaryLogStorage::commit,  *)
(* CachedStorage::commit).                                                 *)
THEOREM RecoversCommittedCorrect == StoreSpec => RecoversCommitted
  <1>1. ASSUME StoreInv, [StoreNext]_storeVars,
               node = "down", node' = "up", damage' = {}, binaryLog \/ running
        PROVE  committed' + Forgets >= committed
    <2>1. StoreFits /\ Undamaged
      BY <1>1, StepUndamaged DEF StoreInv
    <2>2. StartWithoutLog \/ StartAndRecover
      BY <1>1 DEF StoreNext, writeBlocktoBinLog, SubmitTask, CommitReturns, BackendCommits, BackendNeedsRetry,
                  BackendFails, TaskBegins, Crash, CrashWhileLogging, ProcessEnds, storeVars
    <2>3. CASE StartWithoutLog
      <3>1. ~binaryLog /\ running /\ committed' = Height(db) /\ db' = db
        BY <1>1, <2>3 DEF StartWithoutLog, Start
      <3>2. committed <= Height(db) + MaxForward
        BY <2>1, <3>1 DEF Undamaged, NotFarBehind
      <3> QED BY <2>1, <3>1, <3>2, Numbers DEF Forgets
    <2>4. CASE StartAndRecover
      <3>1. committed' \in {committed, committed + 1}
        BY <1>1, <2>1, <2>4, RecoverFindsLast
      <3> QED BY <2>1, <2>4, <3>1, Numbers DEF Forgets, StartAndRecover
    <2> QED BY <2>2, <2>3, <2>4
  <1>2. StoreInv /\ [StoreNext]_storeVars =>
          [(node = "down" /\ node' = "up" /\ damage' = {} /\ (binaryLog \/ running))
             => committed' + Forgets >= committed]_storeVars
    BY <1>1
  <1> QED BY <1>2, StoreInvHolds, PTL DEF StoreSpec, RecoversCommitted

-----------------------------------------------------------------------------
(* The invariant of one key of the cache.                                    *)

Places == {"idle", "inserted", "found", "relock"} \cup Holding
RowSet == SUBSET (1..MaxUpdates)
Update == [num : 1..MaxUpdates, rows : RowSet]

ThreadsFit ==
  /\ cacheThread \in [Threads -> [at : Places, object : Objects \cup {0}]]
  /\ \A t \in Threads : cacheThread[t].object = 0 <=> cacheThread[t].at = "idle"

CellsFit ==
  /\ map \in Objects \cup {0}
  /\ cell \in [Objects -> [empty : BOOLEAN, num : 0..MaxUpdates, rows : RowSet]]

RowsFit == keyTasks \in Seq(Update) /\ dbRows \in RowSet

CacheFlagsFit == mru \in BOOLEAN /\ queued \in BOOLEAN /\ exited \in BOOLEAN

(* What waits for the task thread are the updates that RocksDB does not hold. *)
UpdatesFollow ==
  /\ commitNum \in 0..MaxUpdates /\ keySyncNum \in Nat
  /\ Len(keyTasks) \in Nat /\ keySyncNum + Len(keyTasks) = commitNum
  /\ \A i \in 1..Len(keyTasks) : keyTasks[i].num = keySyncNum + i
  /\ cacheThread["commit"].at # "idle" => commitNum < MaxUpdates

(* A thread reads, commits or clears, and an object has one lock. *)
Roles ==
  /\ \A t \in Threads : cacheThread[t].at \in {"restore", "update"} => t = "commit"
  /\ \A t \in Threads : cacheThread[t].at = "remove" => t = "clear"
  /\ \A t, u \in Threads : cacheThread[t].at \in Holding /\ cacheThread[u].at \in Holding
                           /\ cacheThread[t].object = cacheThread[u].object => t = u

(* Only the thread that clears takes an object out of the map, so that its own *)
(* is in the map, and so is the one that a thread waits for in touchCache.    *)
InMap ==
  /\ cacheThread["clear"].at # "idle" => map = cacheThread["clear"].object
  /\ cacheThread["clear"].at = "remove" => cell[map].empty /\ keySyncNum = commitNum
  /\ \A t \in Threads : cacheThread[t].at = "relock" => map = cacheThread[t].object

(* An object that the commit holds is in the map, or else it is empty, for the *)
(* commit inserted it and no other thread holds it.                          *)
CommitsIntoMap ==
  /\ cacheThread["commit"].at \in {"inserted", "held"} /\ map # cacheThread["commit"].object =>
       cell[cacheThread["commit"].object].empty
  /\ cacheThread["commit"].at = "update" => map = cacheThread["commit"].object
  /\ cacheThread["commit"].at = "inserted" =>
       \A t \in Threads \ {"commit"} : cacheThread[t].object = cacheThread["commit"].object =>
         cacheThread[t].at # "inserted" /\ (cacheThread[t].at = "held" => map = cacheThread[t].object)

UnflushedInMap ==
  keySyncNum < commitNum =>
    /\ map # 0 /\ ~cell[map].empty /\ cell[map].num = commitNum
    /\ (keySyncNum + 1) .. commitNum \subseteq cell[map].rows

CacheFits == ThreadsFit /\ CellsFit /\ RowsFit /\ CacheFlagsFit
CacheInv == CacheFits /\ UpdatesFollow /\ Roles /\ InMap /\ CommitsIntoMap /\ UnflushedInMap

USE CacheAssumption
USE DEF backVars, Threads, Holding, Places

-----------------------------------------------------------------------------
LEMMA FitsGiveCacheType == CacheFits /\ UpdatesFollow => CacheTypeOK
  BY DEF CacheFits, ThreadsFit, CellsFit, RowsFit, CacheFlagsFit, UpdatesFollow, CacheTypeOK, Update, RowSet

LEMMA CacheInitInv == CacheInit => CacheInv
  <1> SUFFICES ASSUME CacheInit PROVE CacheInv
    OBVIOUS
  <1>1. \A t \in Threads : cacheThread[t].at = "idle" /\ cacheThread[t].object = 0
    BY DEF CacheInit
  <1>2. ThreadsFit
    BY DEF CacheInit, ThreadsFit
  <1>3. CellsFit
    BY DEF CacheInit, CellsFit, NewCell, RowSet
  <1>4. RowsFit /\ CacheFlagsFit
    <2>1. <<>> \in Seq(Update)
      OBVIOUS
    <2>2. {} \in RowSet
      BY DEF RowSet
    <2> QED BY <2>1, <2>2 DEF CacheInit, RowsFit, CacheFlagsFit
  <1>5. UpdatesFollow
    BY <1>1 DEF CacheInit, UpdatesFollow
  <1>6. Roles /\ InMap /\ CommitsIntoMap
    BY <1>1 DEF Roles, InMap, CommitsIntoMap
  <1>7. UnflushedInMap
    BY DEF CacheInit, UnflushedInMap
  <1> QED BY <1>2, <1>3, <1>4, <1>5, <1>6, <1>7 DEF CacheInv, CacheFits

(* One thread goes on, the others stay where they are. *)
Goes(t, place, o) ==
  /\ cacheThread'[t].at = place /\ cacheThread'[t].object = o
  /\ \A u \in Threads : u # t => cacheThread'[u] = cacheThread[u]

LEMMA SetGoes ==
  ASSUME ThreadsFit, NEW t \in Threads, NEW p \in Places, NEW o \in Objects \cup {0}, o = 0 <=> p = "idle",
         cacheThread' = [cacheThread EXCEPT ![t] = [at |-> p, object |-> o]]
  PROVE  ThreadsFit' /\ Goes(t, p, o)
  BY DEF ThreadsFit, Goes

LEMMA MoveGoes ==
  ASSUME ThreadsFit, NEW t \in Threads, NEW p \in Places \ {"idle"}, cacheThread[t].at # "idle", Move(t, p)
  PROVE  ThreadsFit' /\ Goes(t, p, cacheThread[t].object)
  BY DEF ThreadsFit, Goes, Move

LEMMA LeaveGoes ==
  ASSUME ThreadsFit, NEW t \in Threads, Leave(t)
  PROVE  ThreadsFit' /\ Goes(t, "idle", 0)
  BY SetGoes DEF Leave

LEMMA Updates ==
  ASSUME UpdatesFollow
  PROVE  commitNum \in Nat /\ keySyncNum \in 0..commitNum
  BY DEF UpdatesFollow

(* Insert: a new object is one that no thread holds. *)
LEMMA InsertInv ==
  ASSUME CacheInv, NEW t \in Threads, Insert(t), t = "commit" => commitNum < MaxUpdates
  PROVE  CacheInv'
  <1>1. /\ cacheThread[t].at = "idle" /\ UNCHANGED <<mru, queued, commitNum, keyTasks, keySyncNum, dbRows, exited>>
        /\ ThreadsFit /\ CellsFit
    BY DEF Insert, IsAt, CacheInv, CacheFits
  <1>2. RowsFit' /\ CacheFlagsFit'
    BY <1>1 DEF CacheInv, CacheFits, RowsFit, CacheFlagsFit
  <1>3. CASE map = 0
    <2>1. PICK o \in Objects : /\ o = Min(Free) /\ o # 0 /\ \A u \in Threads : cacheThread[u].object # o
      <3>1. Free \in SUBSET Nat /\ Free # {}
        BY <1>3 DEF Insert, Free
      <3>2. Min(Free) \in Free
        <4> HIDE DEF Free
        <4> QED BY <3>1, LeastOfNaturals DEF Min
      <3> QED BY <3>2 DEF Free
    <2>2. /\ map' = o /\ cell' = [cell EXCEPT ![o] = NewCell]
          /\ cacheThread' = [cacheThread EXCEPT ![t] = [at |-> "inserted", object |-> o]]
      BY <1>3, <2>1, Zenon DEF Insert
    <2>3. ThreadsFit' /\ Goes(t, "inserted", o)
      BY <1>1, <2>1, <2>2, SetGoes
    <2>4. CellsFit' /\ cell'[o] = NewCell /\ \A p \in Objects : p # o => cell'[p] = cell[p]
      BY <1>1, <2>2 DEF CellsFit, NewCell, RowSet
    <2>5. keySyncNum = commitNum
      BY <1>3, Updates DEF CacheInv, UnflushedInMap
    <2>6. UpdatesFollow' /\ UnflushedInMap'
      BY <1>1, <2>3, <2>5 DEF CacheInv, UpdatesFollow, UnflushedInMap, Goes
    <2>7. Roles'
      BY <2>3 DEF CacheInv, Roles, Goes
    <2>8. cacheThread["clear"].at = "idle" /\ \A u \in Threads : cacheThread[u].at # "relock"
      BY <1>1, <1>3 DEF CacheInv, InMap, ThreadsFit
    <2>9. InMap'
      BY <1>1, <2>2, <2>3, <2>8 DEF InMap, Goes
    <2>10. CommitsIntoMap'
      <3>1. CASE t = "commit"
        BY <2>1, <2>2, <2>3, <3>1 DEF CommitsIntoMap, Goes
      <3>2. CASE t # "commit"
        <4>1. cacheThread'["commit"] = cacheThread["commit"] /\ cacheThread["commit"].object # o
          BY <2>1, <2>3, <3>2 DEF Goes
        <4>2. cacheThread["commit"].at # "update"
          BY <1>1, <1>3 DEF CacheInv, CommitsIntoMap, ThreadsFit
        <4>3. cacheThread["commit"].at \in {"inserted", "held"} => cell'[cacheThread["commit"].object].empty
          BY <1>1, <1>3, <2>4, <4>1 DEF CacheInv, CommitsIntoMap, ThreadsFit
        <4>4. ASSUME cacheThread["commit"].at = "inserted", NEW u \in Threads \ {"commit"},
                     cacheThread'[u].object = cacheThread["commit"].object
              PROVE  cacheThread'[u].at # "inserted" /\ cacheThread'[u].at # "held"
          <5>1. u # t /\ cacheThread'[u] = cacheThread[u]
            BY <2>3, <4>1, <4>4 DEF Goes
          <5> QED BY <1>1, <1>3, <4>4, <5>1 DEF CacheInv, CommitsIntoMap, ThreadsFit
        <4> QED BY <4>1, <4>2, <4>3, <4>4 DEF CommitsIntoMap
      <3> QED BY <3>1, <3>2
    <2> QED BY <1>2, <2>3, <2>4, <2>6, <2>7, <2>9, <2>10 DEF CacheInv, CacheFits
  <1>4. CASE map # 0
    <2>1. cacheThread' = [cacheThread EXCEPT ![t] = [at |-> "found", object |-> map]] /\ UNCHANGED <<map, cell>>
      BY <1>4 DEF Insert
    <2>2. ThreadsFit' /\ Goes(t, "found", map)
      BY <1>1, <1>4, <2>1, SetGoes DEF CellsFit
    <2>3. CellsFit'
      BY <1>1, <2>1 DEF CellsFit
    <2>4. UpdatesFollow' /\ UnflushedInMap'
      BY <1>1, <2>1, <2>2 DEF CacheInv, UpdatesFollow, UnflushedInMap, Goes
    <2>5. Roles'
      BY <2>2 DEF CacheInv, Roles, Goes
    <2>6. InMap'
      BY <1>1, <2>1, <2>2 DEF CacheInv, InMap, Goes
    <2>7. CommitsIntoMap'
      BY <2>1, <2>2 DEF CacheInv, CommitsIntoMap, Goes
    <2> QED BY <1>2, <2>2, <2>3, <2>4, <2>5, <2>6, <2>7 DEF CacheInv, CacheFits
  <1> QED BY <1>3, <1>4

(* Lock, Recheck and Relock: no two threads hold one object, and what is put  *)
(* back or waited for is in the map.                                        *)
LEMMA LockInv ==
  ASSUME CacheInv, NEW t \in Threads, Lock(t)
  PROVE  CacheInv'
  <1>1. /\ UNCHANGED <<map, cell, mru, queued, commitNum, keyTasks, keySyncNum, dbRows, exited>>
        /\ ThreadsFit /\ CellsFit /\ Unlocked(cacheThread[t].object)
    BY DEF Lock, CacheInv, CacheFits
  <1>2. PICK p \in {"held", "recheck"} :
          /\ Move(t, p)
          /\ p = "held" => cacheThread[t].at = "inserted"
          /\ p = "recheck" => cacheThread[t].at = "found"
    BY DEF Lock, IsAt
  <1>3. PICK o \in Objects : o = cacheThread[t].object
    BY <1>1, <1>2 DEF ThreadsFit
  <1>4. ThreadsFit' /\ Goes(t, p, o)
    BY <1>1, <1>2, <1>3, MoveGoes
  <1>5. CellsFit' /\ RowsFit' /\ CacheFlagsFit'
    BY <1>1 DEF CacheInv, CacheFits, CellsFit, RowsFit, CacheFlagsFit
  <1>6. UpdatesFollow' /\ UnflushedInMap'
    BY <1>1, <1>2, <1>4 DEF CacheInv, UpdatesFollow, UnflushedInMap, Goes
  <1>7. Roles'
    BY <1>1, <1>3, <1>4 DEF CacheInv, Roles, Goes, Unlocked
  <1>8. InMap'
    BY <1>1, <1>2, <1>3, <1>4 DEF CacheInv, InMap, Goes
  <1>9. CommitsIntoMap'
    <2>1. CASE t = "commit"
      BY <1>1, <1>2, <1>3, <1>4, <2>1 DEF CacheInv, CommitsIntoMap, Goes
    <2>2. CASE t # "commit"
      <3>1. cacheThread'["commit"] = cacheThread["commit"]
        BY <1>4, <2>2 DEF Goes
      <3>2. cacheThread["commit"].at = "inserted" /\ cacheThread["commit"].object = o => p # "held"
        BY <1>2, <1>3, <2>2 DEF CacheInv, CommitsIntoMap
      <3> QED BY <1>1, <1>3, <1>4, <2>2, <3>1, <3>2 DEF CacheInv, CommitsIntoMap, Goes
    <2> QED BY <2>1, <2>2
  <1> QED BY <1>4, <1>5, <1>6, <1>7, <1>8, <1>9 DEF CacheInv, CacheFits

LEMMA RecheckInv ==
  ASSUME CacheInv, NEW t \in Threads, Recheck(t)
  PROVE  CacheInv'
  <1>1. /\ UNCHANGED <<cell, mru, queued, commitNum, keyTasks, keySyncNum, dbRows, exited>>
        /\ ThreadsFit /\ CellsFit /\ cacheThread[t].at = "recheck"
    BY DEF Recheck, IsAt, CacheInv, CacheFits
  <1>2. PICK o \in Objects : o = cacheThread[t].object
    BY <1>1 DEF ThreadsFit
  <1>3. RowsFit' /\ CacheFlagsFit'
    BY <1>1 DEF CacheInv, CacheFits, RowsFit, CacheFlagsFit
  <1>4. o # 0 /\ \A u \in Threads : cacheThread[u].at # "idle" => cacheThread[u].object # 0
    BY <1>1 DEF ThreadsFit
  <1>5. CASE map \in {0, o}
    <2>1. Move(t, "held") /\ map' = o
      BY <1>2, <1>5, Zenon DEF Recheck
    <2>2. ThreadsFit' /\ Goes(t, "held", o)
      BY <1>1, <1>2, <2>1, MoveGoes
    <2>3. CellsFit'
      BY <1>1, <2>1 DEF CellsFit
    <2>4. map # 0 => map' = map
      BY <1>5, <2>1
    <2>5. UpdatesFollow' /\ UnflushedInMap'
      BY <1>1, <2>2, <2>4 DEF CacheInv, UpdatesFollow, UnflushedInMap, Goes
    <2>6. Roles'
      BY <1>1, <1>2, <2>2 DEF CacheInv, Roles, Goes
    <2>7. InMap'
      BY <1>1, <1>2, <1>4, <2>1, <2>2, <2>4 DEF CacheInv, InMap, Goes
    <2>8. CommitsIntoMap'
      <3>1. CASE t = "commit"
        BY <2>1, <2>2, <3>1 DEF CommitsIntoMap, Goes
      <3>2. CASE t # "commit"
        <4>1. cacheThread'["commit"] = cacheThread["commit"]
          BY <2>2, <3>2 DEF Goes
        <4> QED BY <1>1, <1>4, <2>1, <2>2, <2>4, <3>2, <4>1 DEF CacheInv, CommitsIntoMap, Goes
      <3> QED BY <3>1, <3>2
    <2> QED BY <1>3, <2>2, <2>3, <2>5, <2>6, <2>7, <2>8 DEF CacheInv, CacheFits
  <1>6. CASE map \notin {0, o}
    <2>1. /\ cacheThread' = [cacheThread EXCEPT ![t] = [at |-> "relock", object |-> map]]
          /\ map' = map /\ map # 0 /\ map # o
      BY <1>2, <1>6 DEF Recheck
    <2>2. ThreadsFit' /\ Goes(t, "relock", map)
      BY <1>1, <2>1, SetGoes DEF CellsFit
    <2>3. CellsFit'
      BY <1>1, <2>1 DEF CellsFit
    <2>4. UpdatesFollow' /\ UnflushedInMap'
      BY <1>1, <2>1, <2>2 DEF CacheInv, UpdatesFollow, UnflushedInMap, Goes
    <2>5. Roles'
      BY <2>2 DEF CacheInv, Roles, Goes
    <2>6. t # "clear"
      BY <1>1, <1>2, <2>1 DEF CacheInv, InMap
    <2>7. InMap'
      BY <1>1, <2>1, <2>2, <2>6 DEF CacheInv, InMap, Goes
    <2>8. CommitsIntoMap'
      BY <1>1, <2>1, <2>2 DEF CacheInv, CommitsIntoMap, Goes
    <2> QED BY <1>3, <2>2, <2>3, <2>4, <2>5, <2>7, <2>8 DEF CacheInv, CacheFits
  <1> QED BY <1>5, <1>6

LEMMA RelockInv ==
  ASSUME CacheInv, NEW t \in Threads, Relock(t)
  PROVE  CacheInv'
  <1>1. /\ UNCHANGED <<map, cell, mru, queued, commitNum, keyTasks, keySyncNum, dbRows, exited>>
        /\ ThreadsFit /\ CellsFit /\ Unlocked(cacheThread[t].object)
        /\ cacheThread[t].at = "relock" /\ Move(t, "held")
    BY DEF Relock, IsAt, CacheInv, CacheFits
  <1>2. PICK o \in Objects : o = cacheThread[t].object
    BY <1>1 DEF ThreadsFit
  <1>3. ThreadsFit' /\ Goes(t, "held", o)
    BY <1>1, <1>2, MoveGoes
  <1>4. CellsFit' /\ RowsFit' /\ CacheFlagsFit'
    BY <1>1 DEF CacheInv, CacheFits, CellsFit, RowsFit, CacheFlagsFit
  <1>5. UpdatesFollow' /\ UnflushedInMap'
    BY <1>1, <1>3 DEF CacheInv, UpdatesFollow, UnflushedInMap, Goes
  <1>6. Roles'
    BY <1>1, <1>2, <1>3 DEF CacheInv, Roles, Goes, Unlocked
  <1>7. map = o
    BY <1>1, <1>2 DEF CacheInv, InMap
  <1>8. InMap'
    BY <1>1, <1>2, <1>3, <1>7 DEF CacheInv, InMap, Goes
  <1>9. CommitsIntoMap'
    BY <1>1, <1>2, <1>3, <1>7 DEF CacheInv, CommitsIntoMap, Goes
  <1> QED BY <1>3, <1>4, <1>5, <1>6, <1>8, <1>9 DEF CacheInv, CacheFits

(* A select fills an object, and changes no rows that are cached. *)
LEMMA SelectInv ==
  ASSUME CacheInv, NEW t \in Readers, selectNoCondition(t)
  PROVE  CacheInv'
  <1>1. /\ UNCHANGED <<map, mru, commitNum, keyTasks, keySyncNum, dbRows, exited>> /\ queued' = TRUE
        /\ ThreadsFit /\ CellsFit /\ cacheThread[t].at = "held" /\ Leave(t)
        /\ t \in Threads /\ t # "commit" /\ t # "clear"
    BY DEF selectNoCondition, IsAt, CacheInv, CacheFits
  <1>2. PICK o \in Objects : o = cacheThread[t].object
    BY <1>1 DEF ThreadsFit
  <1>3. ThreadsFit' /\ Goes(t, "idle", 0)
    BY <1>1, LeaveGoes
  <1>4. PICK rows \in RowSet : rows = Rows(t) /\ (~cell[o].empty => rows = cell[o].rows)
    BY <1>1, <1>2 DEF Rows, CellsFit, CacheInv, CacheFits, RowsFit
  <1>5. cell' = [cell EXCEPT ![o].rows = rows, ![o].empty = FALSE]
    BY <1>2, <1>4, Zenon DEF selectNoCondition
  <1>6. CellsFit' /\ cell'[o] = [cell[o] EXCEPT !.rows = rows, !.empty = FALSE]
        /\ \A p \in Objects : p # o => cell'[p] = cell[p]
    BY <1>1, <1>5 DEF CellsFit
  <1>7. ~cell'[o].empty /\ cell'[o].num = cell[o].num /\ cell'[o].rows = rows
    BY <1>1, <1>6 DEF CellsFit
  <1>8. RowsFit' /\ CacheFlagsFit'
    BY <1>1 DEF CacheInv, CacheFits, RowsFit, CacheFlagsFit
  <1>9. UpdatesFollow'
    BY <1>1, <1>3 DEF CacheInv, UpdatesFollow, Goes
  <1>10. Roles'
    BY <1>3 DEF CacheInv, Roles, Goes
  <1>11. UnflushedInMap'
    BY <1>1, <1>4, <1>6, <1>7 DEF CacheInv, UnflushedInMap, CellsFit
  <1>12. InMap'
    <2>1. cacheThread'["clear"] = cacheThread["clear"]
      BY <1>1, <1>3 DEF Goes
    <2>2. cacheThread["clear"].at = "remove" => map # o /\ map # 0
      BY <1>1, <1>2 DEF CacheInv, Roles, InMap, ThreadsFit
    <2> QED BY <1>1, <1>3, <1>6, <2>1, <2>2 DEF CacheInv, InMap, CellsFit, Goes
  <1>13. CommitsIntoMap'
    <2>1. cacheThread'["commit"] = cacheThread["commit"]
      BY <1>1, <1>3 DEF Goes
    <2>2. cacheThread["commit"].at \in {"inserted", "held"} /\ map # cacheThread["commit"].object
            => cacheThread["commit"].object # o
      BY <1>1, <1>2 DEF CacheInv, Roles, CommitsIntoMap
    <2>3. cacheThread["commit"].at # "idle" => cacheThread["commit"].object \in Objects
      BY <1>1 DEF ThreadsFit
    <2> QED BY <1>1, <1>3, <1>6, <2>1, <2>2, <2>3 DEF CacheInv, CommitsIntoMap, Goes
  <1> QED BY <1>3, <1>6, <1>8, <1>9, <1>10, <1>11, <1>12, <1>13 DEF CacheInv, CacheFits

-----------------------------------------------------------------------------
(* The thread that commits.                                                  *)

LEMMA CommitLoadsInv ==
  ASSUME CacheInv, CommitLoads
  PROVE  CacheInv'
  <1>1. /\ UNCHANGED <<map, mru, commitNum, keyTasks, keySyncNum, dbRows, exited>>
        /\ ThreadsFit /\ CellsFit /\ cacheThread["commit"].at = "held" /\ "commit" \in Threads
    BY DEF CommitLoads, IsAt, CacheInv, CacheFits
  <1>2. PICK o \in Objects : o = cacheThread["commit"].object
    BY <1>1 DEF ThreadsFit
  <1>3. CASE cell[o].empty
    <2>1. /\ cell' = [cell EXCEPT ![o].rows = dbRows] /\ queued' = TRUE /\ Move("commit", "restore")
      BY <1>2, <1>3, Zenon DEF CommitLoads
    <2>2. ThreadsFit' /\ Goes("commit", "restore", o)
      BY <1>1, <1>2, <2>1, MoveGoes
    <2>3. /\ CellsFit' /\ cell'[o].empty
          /\ \A p \in Objects : p # o => cell'[p] = cell[p]
      BY <1>1, <1>3, <2>1 DEF CellsFit, CacheInv, CacheFits, RowsFit
    <2>4. RowsFit' /\ CacheFlagsFit'
      BY <1>1, <2>1 DEF CacheInv, CacheFits, RowsFit, CacheFlagsFit
    <2>5. UpdatesFollow'
      BY <1>1, <2>2 DEF CacheInv, UpdatesFollow, Goes
    <2>6. Roles'
      BY <1>1, <1>2, <2>2 DEF CacheInv, Roles, Goes
    <2>7. InMap'
      <3>1. cacheThread'["clear"] = cacheThread["clear"]
        BY <2>2 DEF Goes
      <3>2. cacheThread["clear"].at = "remove" => map \in Objects /\ cell'[map].empty
        <4> SUFFICES ASSUME cacheThread["clear"].at = "remove" PROVE map \in Objects /\ cell'[map].empty
          OBVIOUS
        <4>1. map = cacheThread["clear"].object /\ cell[map].empty
          BY DEF CacheInv, InMap
        <4>2. cacheThread["clear"].object \in Objects
          BY <1>1 DEF ThreadsFit
        <4> QED BY <2>3, <4>1, <4>2
      <3> QED BY <1>1, <2>2, <3>1, <3>2 DEF CacheInv, InMap, Goes
    <2>8. CommitsIntoMap'
      BY <2>2 DEF CommitsIntoMap, Goes
    <2>9. UnflushedInMap'
      BY <1>1, <1>3, <2>3 DEF CacheInv, UnflushedInMap, CellsFit
    <2> QED BY <2>2, <2>3, <2>4, <2>5, <2>6, <2>7, <2>8, <2>9 DEF CacheInv, CacheFits
  <1>4. CASE ~cell[o].empty
    <2>1. Move("commit", "update") /\ UNCHANGED <<cell, queued>>
      BY <1>2, <1>4, Zenon DEF CommitLoads
    <2>2. ThreadsFit' /\ Goes("commit", "update", o)
      BY <1>1, <1>2, <2>1, MoveGoes
    <2>3. CellsFit' /\ RowsFit' /\ CacheFlagsFit'
      BY <1>1, <2>1 DEF CacheInv, CacheFits, CellsFit, RowsFit, CacheFlagsFit
    <2>4. UpdatesFollow' /\ UnflushedInMap'
      BY <1>1, <2>1, <2>2 DEF CacheInv, UpdatesFollow, UnflushedInMap, Goes
    <2>5. Roles'
      BY <1>1, <1>2, <2>2 DEF CacheInv, Roles, Goes
    <2>6. map = o
      BY <1>1, <1>2, <1>4 DEF CacheInv, CommitsIntoMap
    <2>7. InMap' /\ CommitsIntoMap'
      BY <1>1, <2>1, <2>2, <2>6 DEF CacheInv, InMap, CommitsIntoMap, Goes
    <2> QED BY <2>2, <2>3, <2>4, <2>5, <2>7 DEF CacheInv, CacheFits
  <1> QED BY <1>3, <1>4

LEMMA RestoreInv ==
  ASSUME CacheInv, restoreCache
  PROVE  CacheInv'
  <1>1. /\ UNCHANGED <<cell, mru, queued, commitNum, keyTasks, keySyncNum, dbRows>>
        /\ ThreadsFit /\ CellsFit /\ cacheThread["commit"].at = "restore" /\ "commit" \in Threads
    BY DEF restoreCache, IsAt, CacheInv, CacheFits
  <1>2. PICK o \in Objects : o = cacheThread["commit"].object
    BY <1>1 DEF ThreadsFit
  <1>3. \A u \in Threads : cacheThread[u].at # "idle" => cacheThread[u].object # 0
    BY <1>1 DEF ThreadsFit
  <1>4. CASE map \in {0, o}
    <2>1. Move("commit", "update") /\ map' = o /\ exited' = exited
      BY <1>2, <1>4, Zenon DEF restoreCache
    <2>2. ThreadsFit' /\ Goes("commit", "update", o)
      BY <1>1, <1>2, <2>1, MoveGoes
    <2>3. CellsFit' /\ RowsFit' /\ CacheFlagsFit'
      BY <1>1, <2>1 DEF CacheInv, CacheFits, CellsFit, RowsFit, CacheFlagsFit
    <2>4. map # 0 => map' = map
      BY <1>4, <2>1
    <2>5. UpdatesFollow' /\ UnflushedInMap'
      BY <1>1, <2>2, <2>4 DEF CacheInv, UpdatesFollow, UnflushedInMap, Goes
    <2>6. Roles'
      BY <1>1, <1>2, <2>2 DEF CacheInv, Roles, Goes
    <2>7. InMap' /\ CommitsIntoMap'
      BY <1>1, <1>3, <2>1, <2>2, <2>4 DEF CacheInv, InMap, CommitsIntoMap, Goes
    <2> QED BY <2>2, <2>3, <2>5, <2>6, <2>7 DEF CacheInv, CacheFits
  <1>5. CASE map \notin {0, o}
    <2>1. exited' = TRUE /\ UNCHANGED <<map, cacheThread>>
      BY <1>2, <1>5 DEF restoreCache
    <2>2. CacheFits'
      BY <1>1, <2>1 DEF CacheInv, CacheFits, ThreadsFit, CellsFit, RowsFit, CacheFlagsFit
    <2> QED BY <1>1, <2>1, <2>2 DEF CacheInv, UpdatesFollow, Roles, InMap, CommitsIntoMap, UnflushedInMap
  <1> QED BY <1>4, <1>5

LEMMA CommitUpdatesInv ==
  ASSUME CacheInv, CommitUpdates
  PROVE  CacheInv'
  <1>1. /\ UNCHANGED <<map, mru, keySyncNum, dbRows, exited>> /\ queued' = TRUE
        /\ ThreadsFit /\ CellsFit /\ cacheThread["commit"].at = "update" /\ "commit" \in Threads
        /\ Leave("commit")
    BY DEF CommitUpdates, IsAt, CacheInv, CacheFits
  <1>2. PICK o \in Objects : o = cacheThread["commit"].object
    BY <1>1 DEF ThreadsFit
  <1>3. PICK n \in 1..MaxUpdates, rows \in RowSet :
          n = commitNum + 1 /\ rows = cell[o].rows \cup {commitNum + 1}
    <2>1. commitNum + 1 \in 1..MaxUpdates
      BY <1>1 DEF CacheInv, UpdatesFollow
    <2>2. cell[o].rows \cup {commitNum + 1} \in RowSet
      BY <1>1, <2>1 DEF CellsFit, RowSet
    <2> QED BY <2>1, <2>2
  <1>4. /\ cell' = [cell EXCEPT ![o] = [empty |-> FALSE, num |-> n, rows |-> rows]]
        /\ commitNum' = n /\ keyTasks' = Append(keyTasks, [num |-> n, rows |-> rows])
    BY <1>2, <1>3, Zenon DEF CommitUpdates
  <1>5. ThreadsFit' /\ Goes("commit", "idle", 0)
    BY <1>1, LeaveGoes
  <1>6. /\ CellsFit' /\ cell'[o] = [empty |-> FALSE, num |-> n, rows |-> rows]
        /\ \A p \in Objects : p # o => cell'[p] = cell[p]
    BY <1>1, <1>4 DEF CellsFit
  <1>7. map = o
    BY <1>1, <1>2 DEF CacheInv, CommitsIntoMap
  <1>8. PICK e : e = [num |-> n, rows |-> rows]
    OBVIOUS
  <1>9. e \in Update /\ e.num = n
    BY <1>8 DEF Update
  <1>10. /\ keyTasks' \in Seq(Update)
         /\ Len(keyTasks) \in Nat /\ Len(keyTasks') = Len(keyTasks) + 1
         /\ keyTasks'[Len(keyTasks) + 1] = e
         /\ \A i \in 1..Len(keyTasks) : keyTasks'[i] = keyTasks[i]
    <2>1. keyTasks' = Append(keyTasks, e) /\ keyTasks \in Seq(Update)
      BY <1>4, <1>8 DEF CacheInv, CacheFits, RowsFit
    <2> QED BY <1>9, <2>1, Appended
  <1>11. RowsFit' /\ CacheFlagsFit'
    BY <1>1, <1>10 DEF CacheInv, CacheFits, RowsFit, CacheFlagsFit
  <1>12. UpdatesFollow'
    <2>1. keySyncNum + Len(keyTasks') = n /\ keySyncNum \in Nat
      BY <1>3, <1>10 DEF CacheInv, UpdatesFollow
    <2>2. \A i \in 1..Len(keyTasks') : keyTasks'[i].num = keySyncNum + i
      <3> SUFFICES ASSUME NEW i \in 1..Len(keyTasks') PROVE keyTasks'[i].num = keySyncNum + i
        OBVIOUS
      <3>1. CASE i \in 1..Len(keyTasks)
        <4>1. keyTasks'[i] = keyTasks[i] /\ keyTasks[i].num = keySyncNum + i
          BY <1>10, <3>1 DEF CacheInv, UpdatesFollow
        <4> QED BY <4>1
      <3>2. CASE i = Len(keyTasks) + 1
        <4>1. keyTasks'[i].num = n
          BY <1>9, <1>10, <3>2
        <4>2. n = keySyncNum + i
          BY <1>10, <2>1, <3>2
        <4> QED BY <4>1, <4>2
      <3> QED BY <1>10, <3>1, <3>2
    <2>3. n \in 0..MaxUpdates /\ Len(keyTasks') \in Nat
      BY <1>10
    <2> QED BY <1>1, <1>4, <1>5, <2>1, <2>2, <2>3 DEF UpdatesFollow, Goes
  <1>13. Roles'
    BY <1>5 DEF CacheInv, Roles, Goes
  <1>14. cacheThread["clear"].at # "remove"
    BY <1>1, <1>2, <1>7 DEF CacheInv, Roles, InMap
  <1>15. InMap' /\ CommitsIntoMap'
    BY <1>1, <1>5, <1>14 DEF CacheInv, InMap, CommitsIntoMap, Goes
  <1>16. UnflushedInMap'
    <2>1. map' = o /\ o # 0 /\ keySyncNum' = keySyncNum
      BY <1>1, <1>7
    <2>2. (keySyncNum + 1)..n \subseteq rows
      <3>1. keySyncNum < commitNum => (keySyncNum + 1)..commitNum \subseteq cell[o].rows
        BY <1>7 DEF CacheInv, UnflushedInMap
      <3>2. commitNum \in Nat /\ keySyncNum \in 0..commitNum
        BY Updates DEF CacheInv
      <3> QED BY <1>3, <3>1, <3>2
    <2> QED BY <1>4, <1>6, <2>1, <2>2 DEF UnflushedInMap
  <1> QED BY <1>5, <1>6, <1>11, <1>12, <1>13, <1>15, <1>16 DEF CacheInv, CacheFits

(* The task thread writes the oldest update. *)
LEMMA KeyBackendInv ==
  ASSUME CacheInv, commitBackend
  PROVE  CacheInv'
  <1>1. /\ UNCHANGED <<map, cell, cacheThread, mru, queued, commitNum, exited>>
        /\ keyTasks \in Seq(Update) /\ keyTasks # <<>>
        /\ dbRows' = Head(keyTasks).rows /\ keySyncNum' = Head(keyTasks).num /\ keyTasks' = Tail(keyTasks)
    BY DEF commitBackend, CacheInv, CacheFits, RowsFit
  <1>2. /\ Head(keyTasks) \in Update /\ Head(keyTasks) = keyTasks[1]
        /\ keyTasks' \in Seq(Update)
        /\ Len(keyTasks) \in Nat \ {0} /\ Len(keyTasks') = Len(keyTasks) - 1
        /\ \A i \in 1..Len(keyTasks') : keyTasks'[i] = keyTasks[i + 1]
    BY <1>1, HeadAndTail
  <1>3. /\ keySyncNum \in Nat /\ keySyncNum + Len(keyTasks) = commitNum
        /\ \A i \in 1..Len(keyTasks) : keyTasks[i].num = keySyncNum + i
    BY DEF CacheInv, UpdatesFollow
  <1>4. keySyncNum' = keySyncNum + 1 /\ dbRows' \in RowSet
    <2>1. keyTasks[1].num = keySyncNum + 1
      BY <1>2, <1>3
    <2> QED BY <1>1, <1>2, <2>1 DEF Update
  <1>5. CacheFits'
    BY <1>1, <1>2, <1>4 DEF CacheInv, CacheFits, ThreadsFit, CellsFit, RowsFit, CacheFlagsFit
  <1>6. UpdatesFollow'
    <2>1. keySyncNum + 1 + Len(keyTasks') = commitNum /\ Len(keyTasks') \in Nat
      BY <1>2, <1>3
    <2>2. \A i \in 1..Len(keyTasks') : keyTasks'[i].num = keySyncNum + 1 + i
      <3> SUFFICES ASSUME NEW i \in 1..Len(keyTasks') PROVE keyTasks'[i].num = keySyncNum + 1 + i
        OBVIOUS
      <3>1. i \in Nat /\ i + 1 \in 1..Len(keyTasks)
        BY <1>2
      <3>2. keyTasks'[i] = keyTasks[i + 1] /\ keyTasks[i + 1].num = keySyncNum + (i + 1)
        BY <1>2, <1>3, <3>1
      <3>3. keySyncNum + (i + 1) = keySyncNum + 1 + i
        BY <1>3, <3>1
      <3> QED BY <3>2, <3>3
    <2>3. commitNum' = commitNum /\ keySyncNum' \in Nat /\ cacheThread' = cacheThread
      BY <1>1, <1>3, <1>4
    <2> QED BY <1>4, <2>1, <2>2, <2>3 DEF CacheInv, UpdatesFollow
  <1>7. keySyncNum < commitNum
    BY <1>2, <1>3
  <1>8. Roles' /\ InMap' /\ CommitsIntoMap'
    BY <1>1, <1>3, <1>7 DEF CacheInv, Roles, InMap, CommitsIntoMap
  <1>9. UnflushedInMap'
    BY <1>1, <1>3, <1>4, <1>7 DEF CacheInv, UnflushedInMap, UpdatesFollow
  <1> QED BY <1>5, <1>6, <1>8, <1>9 DEF CacheInv

-----------------------------------------------------------------------------
(* The thread that clears.                                                   *)

LEMMA DrainInv ==
  ASSUME CacheInv, DrainQueue
  PROVE  CacheInv'
  <1>1. /\ UNCHANGED <<map, cell, cacheThread, commitNum, keyTasks, keySyncNum, dbRows, exited>>
        /\ mru' = TRUE /\ queued' = FALSE
    BY DEF DrainQueue
  <1>2. CacheFits'
    BY <1>1 DEF CacheInv, CacheFits, ThreadsFit, CellsFit, RowsFit, CacheFlagsFit
  <1> QED BY <1>1, <1>2 DEF CacheInv, UpdatesFollow, Roles, InMap, CommitsIntoMap, UnflushedInMap

(* It empties an object only when RocksDB holds every update. *)
LEMMA ClearEmptiesInv ==
  ASSUME CacheInv, ClearEmpties
  PROVE  CacheInv'
  <1>1. /\ UNCHANGED <<map, mru, queued, commitNum, keyTasks, keySyncNum, dbRows, exited>>
        /\ ThreadsFit /\ CellsFit /\ cacheThread["clear"].at = "held" /\ "clear" \in Threads
    BY DEF ClearEmpties, IsAt, CacheInv, CacheFits
  <1>2. PICK o \in Objects : o = cacheThread["clear"].object /\ map = o
    BY <1>1 DEF ThreadsFit, CacheInv, InMap
  <1>3. RowsFit' /\ CacheFlagsFit'
    BY <1>1 DEF CacheInv, CacheFits, RowsFit, CacheFlagsFit
  <1>4. CASE cell[o].num <= keySyncNum
    <2>1. cell' = [cell EXCEPT ![o].empty = TRUE] /\ Move("clear", "remove")
      BY <1>2, <1>4, Zenon DEF ClearEmpties
    <2>2. ThreadsFit' /\ Goes("clear", "remove", o)
      BY <1>1, <1>2, <2>1, MoveGoes
    <2>3. /\ CellsFit' /\ cell'[o].empty /\ \A p \in Objects : p # o => cell'[p] = cell[p]
      BY <1>1, <2>1 DEF CellsFit
    <2>4. keySyncNum = commitNum
      BY <1>2, <1>4, Updates DEF CacheInv, UnflushedInMap
    <2>5. UpdatesFollow' /\ UnflushedInMap'
      BY <1>1, <2>2, <2>4, Updates DEF CacheInv, UpdatesFollow, UnflushedInMap, Goes
    <2>6. Roles'
      BY <1>1, <1>2, <2>2 DEF CacheInv, Roles, Goes
    <2>7. InMap'
      BY <1>1, <1>2, <2>2, <2>3, <2>4 DEF CacheInv, InMap, Goes
    <2>8. cacheThread["commit"].at # "idle" => cacheThread["commit"].object \in Objects
      BY <1>1 DEF ThreadsFit
    <2>9. CommitsIntoMap'
      <3>1. cacheThread'["commit"] = cacheThread["commit"]
        <4>1. "commit" \in Threads /\ "commit" # "clear"
          BY DEF Threads
        <4> QED BY <2>2, <4>1 DEF Goes
      <3>2. \A p \in Objects : cell[p].empty => cell'[p].empty
        BY <2>3
      <3>3. UNCHANGED map
        BY <1>1
      <3>4. /\ cacheThread["commit"].at \in {"inserted", "held"} /\ map # cacheThread["commit"].object =>
                 cell[cacheThread["commit"].object].empty
            /\ cacheThread["commit"].at = "update" => map = cacheThread["commit"].object
        BY <1>1 DEF CacheInv, CommitsIntoMap
      <3>5. cacheThread["commit"].at \in {"inserted", "held"} /\ map # cacheThread["commit"].object =>
              cell'[cacheThread["commit"].object].empty
        BY <2>8, <3>2, <3>4
      <3>6. ASSUME cacheThread["commit"].at = "inserted", NEW t \in Threads \ {"commit"},
                   cacheThread'[t].object = cacheThread["commit"].object
            PROVE  cacheThread'[t].at # "inserted" /\ (cacheThread'[t].at = "held" => map = cacheThread'[t].object)
        BY <1>1, <2>2, <3>6 DEF CacheInv, CommitsIntoMap, Goes
      <3> QED BY <3>1, <3>3, <3>4, <3>5, <3>6 DEF CommitsIntoMap
    <2> QED BY <1>3, <2>2, <2>3, <2>5, <2>6, <2>7, <2>9 DEF CacheInv, CacheFits
  <1>5. CASE ~(cell[o].num <= keySyncNum)
    <2>1. Leave("clear") /\ UNCHANGED cell
      BY <1>2, <1>5 DEF ClearEmpties
    <2>2. ThreadsFit' /\ Goes("clear", "idle", 0)
      BY <1>1, <2>1, LeaveGoes
    <2>3. CellsFit'
      BY <1>1, <2>1 DEF CellsFit
    <2>4. UpdatesFollow' /\ UnflushedInMap'
      BY <1>1, <2>1, <2>2 DEF CacheInv, UpdatesFollow, UnflushedInMap, Goes
    <2>5. Roles'
      BY <2>2 DEF CacheInv, Roles, Goes
    <2>6. InMap' /\ CommitsIntoMap'
      BY <1>1, <2>1, <2>2 DEF CacheInv, InMap, CommitsIntoMap, Goes
    <2> QED BY <1>3, <2>2, <2>3, <2>4, <2>5, <2>6 DEF CacheInv, CacheFits
  <1> QED BY <1>4, <1>5

LEMMA RemoveInv ==
  ASSUME CacheInv, removeCache
  PROVE  CacheInv'
  <1>1. /\ UNCHANGED <<cell, queued, commitNum, keyTasks, keySyncNum, dbRows, exited>>
        /\ map' = 0 /\ mru' = FALSE /\ Leave("clear")
        /\ \A t \in Threads : cacheThread[t].at # "relock"
        /\ ThreadsFit /\ CellsFit /\ cacheThread["clear"].at = "remove" /\ "clear" \in Threads
    BY DEF removeCache, IsAt, CacheInv, CacheFits
  <1>2. PICK o \in Objects : /\ o = cacheThread["clear"].object /\ map = o
                             /\ cell[o].empty /\ keySyncNum = commitNum
    BY <1>1 DEF ThreadsFit, CacheInv, InMap
  <1>3. ThreadsFit' /\ Goes("clear", "idle", 0)
    BY <1>1, LeaveGoes
  <1>4. CellsFit' /\ RowsFit' /\ CacheFlagsFit'
    BY <1>1 DEF CacheInv, CacheFits, CellsFit, RowsFit, CacheFlagsFit
  <1>5. UpdatesFollow' /\ UnflushedInMap'
    BY <1>1, <1>2, <1>3, Updates DEF CacheInv, UpdatesFollow, UnflushedInMap, Goes
  <1>6. Roles'
    BY <1>3 DEF CacheInv, Roles, Goes
  <1>7. InMap'
    BY <1>1, <1>3 DEF InMap, Goes
  <1>8. \A t \in Threads \ {"clear"} : cacheThread[t].at \in Holding => cacheThread[t].object # o
    BY <1>1, <1>2 DEF CacheInv, Roles
  <1>9. CommitsIntoMap'
    <2>1. cacheThread'["commit"] = cacheThread["commit"]
      BY <1>3 DEF Goes
    <2>2. cacheThread["commit"].at # "update"
      BY <1>2, <1>8 DEF CacheInv, CommitsIntoMap
    <2>3. cacheThread["commit"].at \in {"inserted", "held"} => cell[cacheThread["commit"].object].empty
      BY <1>2 DEF CacheInv, CommitsIntoMap
    <2>4. ASSUME cacheThread["commit"].at = "inserted", NEW u \in Threads \ {"commit"},
                 cacheThread'[u].object = cacheThread["commit"].object
          PROVE  cacheThread'[u].at # "inserted" /\ cacheThread'[u].at # "held"
      <3>1. CASE u = "clear"
        BY <1>3, <3>1 DEF Goes
      <3>2. CASE u # "clear"
        <4>1. cacheThread'[u] = cacheThread[u]
          BY <1>3, <3>2 DEF Goes
        <4> QED BY <1>2, <1>8, <2>4, <3>2, <4>1 DEF CacheInv, CommitsIntoMap
      <3> QED BY <3>1, <3>2
    <2> QED BY <1>1, <2>1, <2>2, <2>3, <2>4 DEF CommitsIntoMap
  <1> QED BY <1>3, <1>4, <1>5, <1>6, <1>7, <1>9 DEF CacheInv, CacheFits

-----------------------------------------------------------------------------
LEMMA CacheInvHolds == CacheSpec => []CacheInv
  <1>1. CacheInv /\ [CacheNext]_cacheVars => CacheInv'
    <2> SUFFICES ASSUME CacheInv, [CacheNext]_cacheVars PROVE CacheInv'
      OBVIOUS
    <2>1. CASE \E t \in Readers : Insert(t) \/ Touch(t) \/ selectNoCondition(t)
      <3>1. \A t \in Readers : t \in Threads /\ t # "commit"
        OBVIOUS
      <3> QED BY <2>1, <3>1, InsertInv, LockInv, RecheckInv, RelockInv, SelectInv DEF Touch
    <2>2. CASE BeginCommit \/ Touch("commit") \/ CommitLoads \/ restoreCache \/ CommitUpdates
      <3>1. "commit" \in Threads
        OBVIOUS
      <3> QED BY <2>2, <3>1, InsertInv, LockInv, RecheckInv, RelockInv, CommitLoadsInv, RestoreInv, CommitUpdatesInv
              DEF Touch, BeginCommit
    <2>3. CASE commitBackend \/ DrainQueue
      BY <2>3, KeyBackendInv, DrainInv
    <2>4. CASE BeginClear \/ Touch("clear") \/ ClearEmpties \/ removeCache
      <3>1. "clear" \in Threads
        OBVIOUS
      <3> QED BY <2>4, <3>1, InsertInv, LockInv, RecheckInv, RelockInv, ClearEmptiesInv, RemoveInv
              DEF Touch, BeginClear
    <2>5. CASE UNCHANGED cacheVars
      <3>1. UNCHANGED <<map, cell, cacheThread, mru, queued, commitNum, keyTasks, keySyncNum, dbRows, exited>>
        BY <2>5 DEF cacheVars
      <3>2. CacheFits'
        BY <3>1 DEF CacheInv, CacheFits, ThreadsFit, CellsFit, RowsFit, CacheFlagsFit
      <3> QED BY <3>1, <3>2 DEF CacheInv, UpdatesFollow, Roles, InMap, CommitsIntoMap, UnflushedInMap
    <2> QED BY <2>1, <2>2, <2>3, <2>4, <2>5 DEF CacheNext
  <1> QED BY <1>1, CacheInitInv, PTL DEF CacheSpec

(* A thread holds a cache object exactly from touchCache to the end of its   *)
(* operation, and the flush queue holds numbered commits.                  *)
THEOREM CacheTypeCorrect == CacheSpec => []CacheTypeOK
  <1>1. CacheInv => CacheTypeOK
    BY FitsGiveCacheType DEF CacheInv
  <1> QED BY <1>1, CacheInvHolds, PTL

(* The updates that RocksDB does not hold yet are in the object that the map *)
(* points to, however selects, commits and the clearing thread interleave   *)
(* (touchCache, restoreCache, checkAndClear).                              *)
THEOREM UnflushedIsCachedCorrect == CacheSpec => []UnflushedIsCached
  <1>1. CacheInv => UnflushedIsCached
    BY DEF CacheInv, UnflushedInMap, UnflushedIsCached
  <1> QED BY <1>1, CacheInvHolds, PTL
=============================================================================
