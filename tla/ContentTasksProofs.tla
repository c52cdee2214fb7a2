------------------------ MODULE ContentTasksProofs ------------------------
(***************************************************************************)
(* Proofs about ContentTasks: what keeps the AutoscanList, the scan ids of *)
(* the directories and the ids of their timer parameters in step, whatever *)
(* is edited and removed while tasks run, and when a scan may take things  *)
(* out of the database or bring them back.                                 *)
(***************************************************************************)
EXTENDS ContentTasks, TLAPS, SequenceTheorems, FiniteSetTheorems,
        WellFoundedInduction

----------------------------------------------------------------------------
(* Numbers and the AutoscanList                                            *)

LEMMA SmallestNat ==
    ASSUME NEW S, S \subseteq Nat, S # {}
    PROVE  \E x \in S : \A y \in S : x <= y
<1> DEFINE R == OpToRel(<, Nat)
<1>1. IsWellFoundedOn(R, Nat)
  BY NatLessThanWellFounded
<1>2. \A x, y \in Nat : <<y, x>> \in R <=> y < x
  BY DEF OpToRel
<1> HIDE DEF R
<1>3. PICK x \in S : \A y \in S : ~(<<y, x>> \in R)
  BY ONLY <1>1, WFMin, S \subseteq Nat, S # {}
<1>4. \A y \in S : ~(y < x)
  BY <1>2, <1>3
<1>5. \A y \in S : x <= y
  BY <1>4
<1>6. QED BY <1>5

LEMMA LargestBelow ==
    ASSUME NEW n \in Nat, NEW S, S \subseteq 1 .. n, S # {}
    PROVE  \E x \in S : \A y \in S : y <= x
<1> DEFINE T == {n - i : i \in S}
<1>1. T \subseteq Nat
  OBVIOUS
<1>2. T # {}
  <2>1. PICK i \in S : TRUE
    OBVIOUS
  <2>2. n - i \in T
    OBVIOUS
  <2>3. QED BY <2>2
<1>3. PICK x \in T : \A y \in T : x <= y
  BY <1>1, <1>2, SmallestNat
<1>4. PICK i \in S : x = n - i
  BY <1>3
<1>5. ASSUME NEW j \in S PROVE j <= i
  <2>1. n - j \in T
    OBVIOUS
  <2>2. n - i <= n - j
    BY <2>1, <1>3, <1>4
  <2>3. QED BY <2>2
<1>6. QED BY <1>5

\* SlotFor finds a place that is free, or the one after the last.
LEMMA SlotIsFree ==
    ASSUME NEW S, NEW list \in Seq(S)
    PROVE  \/ SlotFor(list) = Len(list) + 1
           \/ SlotFor(list) \in 1 .. Len(list) /\ list[SlotFor(list)] = 0
<1>1. Len(list) \in Nat
  BY LenProperties
<1>2. CASE FreeSlots(list) = {}
  BY <1>2 DEF SlotFor
<1>3. CASE FreeSlots(list) # {}
  <2>1. FreeSlots(list) \subseteq 1 .. Len(list)
    BY DEF FreeSlots
  <2>2. \E i \in FreeSlots(list) : \A j \in FreeSlots(list) : j <= i
    BY <1>1, <1>3, <2>1, LargestBelow
  <2>3. SlotFor(list) \in FreeSlots(list)
    BY <1>3, <2>2 DEF SlotFor
  <2>4. QED BY <2>3 DEF FreeSlots
<1>4. QED BY <1>2, <1>3

LEMMA SlotIsNew ==
    ASSUME NEW S, NEW list \in Seq(S)
    PROVE  /\ SlotFor(list) \in Nat \ {0}
           /\ SlotFor(list) \in DOMAIN list => list[SlotFor(list)] = 0
<1>1. Len(list) \in Nat /\ DOMAIN list = 1 .. Len(list)
  BY LenProperties
<1>2. QED BY <1>1, SlotIsFree

\* Put fills that place and no other.
LEMMA PutFills ==
    ASSUME NEW S, NEW list \in Seq(S), NEW o \in S
    PROVE  /\ DOMAIN Put(list, o) = DOMAIN list \cup {SlotFor(list)}
           /\ Put(list, o)[SlotFor(list)] = o
<1>1. Len(list) \in Nat /\ DOMAIN list = 1 .. Len(list)
  BY LenProperties
<1>2. CASE SlotFor(list) = Len(list) + 1
  <2>1. SlotFor(list) > Len(list)
    BY <1>1, <1>2
  <2>2. Put(list, o) = Append(list, o)
    BY <2>1, Zenon DEF Put
  <2>3. QED BY <1>1, <1>2, <2>2, AppendProperties
<1>3. CASE SlotFor(list) \in 1 .. Len(list) /\ list[SlotFor(list)] = 0
  <2>1. ~(SlotFor(list) > Len(list))
    BY <1>1, <1>3
  <2>2. Put(list, o) = [list EXCEPT ![SlotFor(list)] = o]
    BY <2>1, Zenon DEF Put
  <2>3. QED BY <1>1, <1>3, <2>2
<1>4. QED BY <1>2, <1>3, SlotIsFree

LEMMA PutKeeps ==
    ASSUME NEW S, NEW list \in Seq(S), NEW o \in S,
           NEW i \in DOMAIN list, i # SlotFor(list)
    PROVE  Put(list, o)[i] = list[i]
<1>1. Len(list) \in Nat /\ DOMAIN list = 1 .. Len(list)
  BY LenProperties
<1>2. CASE SlotFor(list) > Len(list)
  <2>1. Put(list, o) = Append(list, o)
    BY <1>2, Zenon DEF Put
  <2>2. QED BY <1>1, <2>1, AppendProperties
<1>3. CASE ~(SlotFor(list) > Len(list))
  <2>1. Put(list, o) = [list EXCEPT ![SlotFor(list)] = o]
    BY <1>3, Zenon DEF Put
  <2>2. QED BY <1>1, <2>1
<1>4. QED BY <1>2, <1>3

LEMMA PutIsSeq ==
    ASSUME NEW S, NEW list \in Seq(S), NEW o \in S
    PROVE  Put(list, o) \in Seq(S)
<1>1. CASE SlotFor(list) > Len(list)
  <2>1. Put(list, o) = Append(list, o)
    BY <1>1, Zenon DEF Put
  <2>2. QED BY <2>1, AppendProperties
<1>2. CASE ~(SlotFor(list) > Len(list))
  <2>1. Put(list, o) = [list EXCEPT ![SlotFor(list)] = o]
    BY <1>2, Zenon DEF Put
  <2>2. Len(list) \in Nat /\ SlotFor(list) \in 1 .. Len(list)
    BY <1>2, LenProperties, SlotIsFree
  <2>3. QED BY <2>1, <2>2, ExceptSeq
<1>3. QED BY <1>1, <1>2

\* Take empties these places and no other.
LEMMA TakeEmpties ==
    ASSUME NEW S, 0 \in S, NEW list \in Seq(S), NEW ids
    PROVE  /\ Take(list, ids) \in Seq(S)
           /\ DOMAIN Take(list, ids) \subseteq DOMAIN list
           /\ \A i \in DOMAIN Take(list, ids) :
                Take(list, ids)[i] = IF i \in ids THEN 0 ELSE list[i]
           /\ \A i \in DOMAIN list : i \notin ids => i \in DOMAIN Take(list, ids)
<1> DEFINE n == Len(list)
           cleared == [i \in 1 .. n |-> IF i \in ids THEN 0 ELSE list[i]]
<1>1. n \in Nat /\ DOMAIN list = 1 .. n /\ list \in [1 .. n -> S]
  BY LenProperties
<1>2. cleared \in Seq(S) /\ Len(cleared) = n
  <2>1. \A i \in 1 .. n : cleared[i] \in S
    BY <1>1
  <2>2. cleared \in Seq(S)
    BY <1>1, <2>1, IsASeq
  <2>3. QED BY <1>1, <2>2
<1>3. CASE n \in ids
  <2>1. Take(list, ids) = SubSeq(cleared, 1, n - 1)
    BY <1>3 DEF Take
  <2> DEFINE t == SubSeq(cleared, 1, n - 1)
  <2>2. CASE n = 0
    <3>1. t = << >>
      BY <1>2, <2>2, SubSeqEmpty
    <3>2. QED BY <1>1, <2>1, <2>2, <3>1, EmptySeq
  <2>3. CASE n > 0
    <3>1. t \in Seq(S) /\ Len(t) = n - 1 /\ \A i \in 1 .. n - 1 : t[i] = cleared[i]
      BY <1>1, <1>2, <2>3, SubSeqProperties, SMTT(30)
    <3>2. DOMAIN t = 1 .. n - 1
      BY <3>1, LenProperties
    <3>3. QED BY <1>1, <1>3, <2>1, <2>3, <3>1, <3>2
  <2>4. QED BY <1>1, <2>2, <2>3
<1>4. CASE n \notin ids
  <2>1. Take(list, ids) = cleared
    BY <1>4 DEF Take
  <2>2. QED BY <1>1, <1>2, <2>1
<1>5. QED BY <1>3, <1>4

LEMMA GetEntry ==
    ASSUME NEW S, NEW list \in Seq(S), NEW id \in Nat, Get(list, id) # 0
    PROVE  id \in DOMAIN list /\ Get(list, id) = list[id] /\ Get(list, id) \in S
BY LenProperties DEF Get

----------------------------------------------------------------------------
(* The parts of TypeOK, and where the task thread has which locals         *)

DirType(n) == [location : Paths, persistent : BOOLEAN, scanID : Nat, param : 1 .. n,
               taskCount : Int, objectID : Nat]
DirsType == dirs \in Seq(DirType(Len(dirs)))
TimerType ==
    /\ timerID \in [Objects -> Nat]
    /\ autoscan_timed \in Seq(Objects \cup {0})
    /\ subscribers \subseteq Objects /\ notifying \in subscribers \cup {0}
CallType ==
    call \in [{"timer", "web"} ->
              [at : {"none", "get", "read", "queue", "done"}, id : Nat,
               dir : Objects \cup {0}, inc : Nat, scan : Nat]]
TaskType ==
    /\ taskQueue1 \subseteq Tasks /\ taskQueue2 \subseteq Tasks
    /\ currentTask \in Tasks \cup {NoTask}
    /\ taskID \in Nat /\ \A t \in taskQueue1 \cup taskQueue2 : t.id < taskID
    /\ shutdownFlag \in BOOLEAN
LocalType ==
    /\ pc \in {"top", "wait", "exit", "run", "add", "enter", "open", "load", "drop",
              "remove", "crash", "unsubscribe", "scan", "entry", "done", "subscribe"}
    /\ dir \in Objects \cup {0} /\ adir \in Objects \cup {0} /\ scanID \in Nat
    /\ victim \in Objects \cup {0}
    /\ location \in Paths /\ entry \in Paths
    /\ todo \subseteq Paths /\ stale \subseteq Paths \X Nat
UiType ==
    ui \in [op : {"idle", "notify", "edit", "take", "put", "copy", "clear",
                  "unsubscribe", "invalidate", "enqueue"},
            path : Paths, inc : Nat, dir : Objects \cup {0}, objs : SUBSET Objects,
            n : Nat]
DbType ==
    /\ inDB \subseteq Paths /\ incarnation \in [Paths -> Nat]
    /\ rows \subseteq Objects /\ onDisk \subseteq Paths

Parts == DirsType /\ TimerType /\ CallType /\ TaskType /\ LocalType /\ UiType /\ DbType

LEMMA TypeParts == TypeOK <=> Parts
BY DEF TypeOK, Parts, DirsType, DirType, TimerType, CallType, TaskType, LocalType, UiType,
   DbType, Objects

LEMMA TypePartsNext == TypeOK' <=> Parts'
BY DEF TypeOK, Parts, DirsType, DirType, TimerType, CallType, TaskType, LocalType, UiType,
   DbType, Objects

InRescan == {"enter", "open", "load", "drop", "remove", "unsubscribe", "scan", "entry",
             "done", "subscribe"}

\* Phases: in a rescan the thread has a directory, in the scan itself the one it
\* was found by, it is never at work without a task, and a request or a
\* notification that is past its lookup has a directory too.
ThreadPhases ==
    /\ pc \in InRescan => dir # 0
    /\ pc \in {"load", "drop", "remove", "unsubscribe", "scan", "entry"} => adir # 0
    /\ pc \in {"remove", "unsubscribe"} => victim # 0
    /\ pc \in {"run", "add"} \cup InRescan => currentTask \in Tasks

RequestPhases ==
    ui.op \in {"notify", "edit", "take", "put", "clear"} => ui.dir # 0

CallPhases ==
    /\ \A c \in {"timer", "web"} : call[c].at \in {"read", "queue"} => call[c].dir # 0
    /\ call["timer"].at # "none" <=> notifying # 0
    /\ call["web"].at # "none" => ui.op = "notify"

Phases == ThreadPhases /\ RequestPhases /\ CallPhases

ShapeInv == TypeOK /\ Phases

LEMMA AnyPathIsPath == AnyPath \in Paths
BY PathsAssumption DEF AnyPath

----------------------------------------------------------------------------
(* Updates of the directories                                              *)

\* Kept(d, e): no directory of d is lost or becomes another one in e.
Kept(d, e) ==
    /\ Len(e) \in Nat /\ Len(d) <= Len(e)
    /\ \A o \in 1 .. Len(d) : /\ e[o].location = d[o].location
                              /\ e[o].persistent = d[o].persistent
                              /\ e[o].param = d[o].param

\* SameScans(d, e): the same directories with the same scan ids.
SameScans(d, e) ==
    /\ Kept(d, e) /\ Len(e) = Len(d)
    /\ \A o \in 1 .. Len(d) : e[o].scanID = d[o].scanID

LEMMA DirFacts ==
    ASSUME NEW n \in Nat, NEW d \in Seq(DirType(n))
    PROVE  /\ Len(d) \in Nat /\ DOMAIN d = 1 .. Len(d)
           /\ \A o \in 1 .. Len(d) :
                /\ d[o] \in DirType(n)
                /\ d[o].location \in Paths /\ d[o].persistent \in BOOLEAN
                /\ d[o].scanID \in Nat /\ d[o].param \in 1 .. n
                /\ d[o].taskCount \in Int /\ d[o].objectID \in Nat
<1>1. Len(d) \in Nat /\ DOMAIN d = 1 .. Len(d) /\ \A o \in 1 .. Len(d) : d[o] \in DirType(n)
  BY LenProperties, ElementOfSeq
<1>2. QED BY <1>1 DEF DirType

LEMMA SameKept ==
    ASSUME NEW n \in Nat, NEW d \in Seq(DirType(n))
    PROVE  SameScans(d, d)
BY LenProperties DEF SameScans, Kept

LEMMA SetObjectID ==
    ASSUME NEW n \in Nat, NEW d \in Seq(DirType(n)), NEW o \in 1 .. Len(d), NEW c \in Nat
    PROVE  LET e == [d EXCEPT ![o].objectID = c] IN
           /\ e \in Seq(DirType(n)) /\ SameScans(d, e)
           /\ \A q \in 1 .. Len(d) : e[q].taskCount = d[q].taskCount
<1> DEFINE r == [d[o] EXCEPT !.objectID = c]
           e == [d EXCEPT ![o] = r]
<1>1. /\ Len(d) \in Nat /\ DOMAIN d = 1 .. Len(d) /\ d[o] \in DirType(n)
      /\ \A q \in 1 .. Len(d) : d[q] \in DirType(n)
  BY DirFacts
<1>2. r \in DirType(n) /\ r.taskCount = d[o].taskCount /\ r.location = d[o].location
      /\ r.persistent = d[o].persistent /\ r.param = d[o].param /\ r.scanID = d[o].scanID
  BY <1>1 DEF DirType
<1> HIDE DEF r
<1>3. e \in Seq(DirType(n)) /\ Len(e) = Len(d)
      /\ \A q \in 1 .. Len(d) : e[q] = IF q = o THEN r ELSE d[q]
  BY <1>1, <1>2, ExceptSeq
<1>4. [d EXCEPT ![o].objectID = c] = e
  BY DEF r
<1> HIDE DEF e
<1>5. SameScans(d, e)
  BY <1>1, <1>2, <1>3 DEF SameScans, Kept
<1>6. \A q \in 1 .. Len(d) : e[q].taskCount = d[q].taskCount
  BY <1>2, <1>3
<1>7. QED BY <1>3, <1>4, <1>5, <1>6

\* removeIfSubdir() and remove(): the directories taken off the list.
Cleared(d, os) ==
    [o \in DOMAIN d |-> IF o \in os THEN [d[o] EXCEPT !.scanID = 0] ELSE d[o]]

LEMMA ClearScans ==
    ASSUME NEW n \in Nat, NEW d \in Seq(DirType(n)), NEW os
    PROVE  LET e == Cleared(d, os)
           IN  /\ e \in Seq(DirType(n)) /\ Kept(d, e) /\ Len(e) = Len(d)
               /\ \A q \in 1 .. Len(d) :
                    /\ e[q].scanID = IF q \in os THEN 0 ELSE d[q].scanID
                    /\ e[q].taskCount = d[q].taskCount
<1> DEFINE r(o) == [d[o] EXCEPT !.scanID = 0]
           e == [o \in DOMAIN d |-> IF o \in os THEN r(o) ELSE d[o]]
<1>1. /\ Len(d) \in Nat /\ DOMAIN d = 1 .. Len(d)
      /\ \A q \in 1 .. Len(d) : d[q] \in DirType(n)
  BY DirFacts
<1>2. \A o \in 1 .. Len(d) :
         r(o) \in DirType(n) /\ r(o).scanID = 0 /\ r(o).location = d[o].location
         /\ r(o).persistent = d[o].persistent /\ r(o).param = d[o].param
         /\ r(o).taskCount = d[o].taskCount
  BY <1>1 DEF DirType
<1> HIDE DEF r
<1>3. \A q \in 1 .. Len(d) : e[q] \in DirType(n)
  BY <1>1, <1>2
<1>4. e = [o \in 1 .. Len(d) |-> e[o]]
  BY <1>1
<1>5. e \in Seq(DirType(n)) /\ Len(e) = Len(d)
      /\ \A q \in 1 .. Len(d) : e[q] = IF q \in os THEN r(q) ELSE d[q]
  BY <1>1, <1>3, <1>4, IsASeq
<1>6. e = Cleared(d, os)
  BY DEF Cleared, r
<1> HIDE DEF e
<1>7. QED BY <1>1, <1>2, <1>5, <1>6 DEF Kept

\* A new object at the end.
LEMMA AppendDir ==
    ASSUME NEW n \in Nat, NEW d \in Seq(DirType(n)), NEW r \in DirType(n + 1)
    PROVE  LET e == Append(d, r) IN
           /\ e \in Seq(DirType(n + 1)) /\ Kept(d, e) /\ Len(e) = Len(d) + 1
           /\ \A q \in 1 .. Len(d) : e[q] = d[q]
           /\ e[Len(d) + 1] = r
<1>1. /\ Len(d) \in Nat /\ DOMAIN d = 1 .. Len(d)
      /\ \A q \in 1 .. Len(d) : d[q] \in DirType(n)
  BY DirFacts
<1>2. DirType(n) \subseteq DirType(n + 1)
  BY DEF DirType
<1>3. d \in Seq(DirType(n + 1))
  BY <1>2, SeqMonotonic
<1>4. QED BY <1>1, <1>3, AppendProperties DEF Kept

----------------------------------------------------------------------------
(* What the actions do to the directories                                  *)

\* DirsStep: after the step the objects are there, each the one it was.
DirsStep == DirsType' /\ Kept(dirs, dirs')

LEMMA ObjectFacts ==
    ASSUME TypeOK
    PROVE  /\ Len(dirs) \in Nat /\ DOMAIN dirs = Objects /\ Objects \subseteq Nat
           /\ dirs \in Seq(DirType(Len(dirs)))
           /\ \A o \in Objects :
                /\ dirs[o] \in DirType(Len(dirs))
                /\ dirs[o].location \in Paths /\ dirs[o].persistent \in BOOLEAN
                /\ dirs[o].scanID \in Nat /\ dirs[o].param \in Objects
                /\ dirs[o].taskCount \in Int /\ dirs[o].objectID \in Nat
<1>1. dirs \in Seq(DirType(Len(dirs))) /\ Len(dirs) \in Nat
  BY TypeParts, LenProperties DEF Parts, DirsType
<1>2. QED BY <1>1, DirFacts DEF Objects

LEMMA SameDirs ==
    ASSUME TypeOK, dirs' = dirs
    PROVE  DirsStep /\ SameScans(dirs, dirs')
BY ObjectFacts, SameKept DEF DirsStep, DirsType, SameScans

LEMMA GetObject ==
    ASSUME TypeOK, NEW id \in Nat, Get(autoscan_timed, id) # 0
    PROVE  /\ id \in DOMAIN autoscan_timed
           /\ Get(autoscan_timed, id) = autoscan_timed[id]
           /\ Get(autoscan_timed, id) \in Objects
<1>1. autoscan_timed \in Seq(Objects \cup {0})
  BY TypeParts DEF Parts, TimerType
<1>2. QED BY <1>1, GetEntry

LEMMA CountStep ==
    ASSUME TypeOK, NEW o \in Objects, NEW c \in Int,
           dirs' = [dirs EXCEPT ![o].taskCount = c]
    PROVE  /\ DirsStep /\ SameScans(dirs, dirs')
           /\ dirs'[o].taskCount = c
           /\ \A q \in Objects : q # o => dirs'[q].taskCount = dirs[q].taskCount
<1> DEFINE r == [dirs[o] EXCEPT !.taskCount = c]
           D == DirType(Len(dirs))
<1>1. /\ Len(dirs) \in Nat /\ DOMAIN dirs = 1 .. Len(dirs) /\ dirs \in Seq(D)
      /\ dirs[o] \in D /\ \A q \in 1 .. Len(dirs) : dirs[q] \in D
      /\ o \in 1 .. Len(dirs) /\ Objects = 1 .. Len(dirs)
  BY ObjectFacts DEF Objects
<1>2. /\ r \in D /\ r.taskCount = c /\ r.location = dirs[o].location
      /\ r.persistent = dirs[o].persistent /\ r.param = dirs[o].param
      /\ r.scanID = dirs[o].scanID
  BY <1>1 DEF DirType
<1>3. dirs' = [dirs EXCEPT ![o] = r]
  OBVIOUS
<1> HIDE DEF r, D
<1>4. /\ dirs' \in Seq(D) /\ Len(dirs') = Len(dirs)
      /\ \A q \in 1 .. Len(dirs) : dirs'[q] = IF q = o THEN r ELSE dirs[q]
  BY <1>1, <1>2, <1>3, ExceptSeq
<1>5. /\ SameScans(dirs, dirs') /\ dirs'[o].taskCount = c
      /\ \A q \in Objects : q # o => dirs'[q].taskCount = dirs[q].taskCount
  BY <1>1, <1>2, <1>4 DEF SameScans, Kept
<1>6. QED BY <1>4, <1>5 DEF DirsStep, DirsType, SameScans, D

LEMMA RescanStep ==
    ASSUME TypeOK, NEW path, NEW inc, NEW scan \in Nat, rescanDirectory(path, inc, scan)
    PROVE  DirsStep /\ SameScans(dirs, dirs')
<1> DEFINE o == Get(autoscan_timed, scan)
<1>1. CASE o = 0
  BY <1>1, SameDirs DEF rescanDirectory
<1>2. CASE o # 0
  <2>1. o \in Objects /\ dirs[o].taskCount + 1 \in Int
    BY <1>2, GetObject, ObjectFacts
  <2>2. dirs' = [dirs EXCEPT ![o].taskCount = dirs[o].taskCount + 1]
    BY <1>2 DEF rescanDirectory
  <2>3. QED BY <2>1, <2>2, CountStep
<1>3. QED BY <1>1, <1>2

LEMMA CallFacts ==
    ASSUME TypeOK, NEW c \in {"timer", "web"}
    PROVE  /\ call[c].id \in Nat /\ call[c].inc \in Nat /\ call[c].scan \in Nat
           /\ call[c].dir \in Objects \cup {0}
           /\ call[c].at \in {"none", "get", "read", "queue", "done"}
BY TypeParts DEF Parts, CallType

LEMMA NotificationStep ==
    ASSUME TypeOK, NEW c \in {"timer", "web"}, Notification(c)
    PROVE  /\ DirsStep /\ SameScans(dirs, dirs')
           /\ UNCHANGED <<autoscan_timed, timerID, ui>>
<1>1. CASE getDir(c) \/ readDir(c)
  BY <1>1, SameDirs DEF getDir, readDir
<1>2. CASE queueRescan(c)
  <2>1. call[c].scan \in Nat
    BY CallFacts
  <2>2. /\ rescanDirectory(dirs[call[c].dir].location, call[c].inc, call[c].scan)
        /\ UNCHANGED <<autoscan_timed, timerID, ui>>
    BY <1>2 DEF queueRescan
  <2>3. QED BY <2>1, <2>2, RescanStep
<1>3. QED BY <1>1, <1>2 DEF Notification

LEMMA ObjectIDStep ==
    ASSUME TypeOK, NEW o \in Objects, NEW c \in Nat, dirs' = [dirs EXCEPT ![o].objectID = c]
    PROVE  DirsStep /\ SameScans(dirs, dirs')
<1>1. dirs' \in Seq(DirType(Len(dirs))) /\ SameScans(dirs, dirs')
  BY ObjectFacts, SetObjectID DEF Objects
<1>2. QED BY <1>1 DEF DirsStep, DirsType, SameScans

LEMMA LoadStep ==
    ASSUME TypeOK, Phases, loadScan
    PROVE  /\ DirsStep /\ SameScans(dirs, dirs')
           /\ UNCHANGED <<autoscan_timed, timerID, ui>>
<1>1. pc = "load" /\ UNCHANGED <<autoscan_timed, timerID, ui>>
  BY DEF loadScan, timerVars
<1>2. adir \in Objects
  BY <1>1, TypeParts DEF Phases, ThreadPhases, Parts, LocalType
<1>3. CASE DropAutoscan
  <2>1. dirs' = [dirs EXCEPT ![adir].taskCount = -1] /\ -1 \in Int
    BY <1>3 DEF DropAutoscan
  <2>2. QED BY <1>1, <1>2, <2>1, CountStep
<1>4. CASE KeepAutoscan
  <2>1. dirs' = [dirs EXCEPT ![adir].objectID = 0] /\ 0 \in Nat
    BY <1>4 DEF KeepAutoscan
  <2>2. QED BY <1>1, <1>2, <2>1, ObjectIDStep
<1>5. CASE dirs' = dirs
  BY <1>1, <1>5, SameDirs
<1>6. CASE /\ AddToDB(dirs[adir].location)
           /\ dirs' = [dirs EXCEPT ![adir].objectID = incarnation'[dirs[adir].location]]
  <2>1. dirs[adir].location \in Paths /\ incarnation \in [Paths -> Nat]
    BY <1>2, ObjectFacts, TypeParts DEF Parts, DbType
  <2>2. incarnation'[dirs[adir].location] \in Nat
    BY <1>6, <2>1 DEF AddToDB, ensurePathExistence
  <2>3. QED BY <1>1, <1>2, <1>6, <2>2, ObjectIDStep
<1>7. CASE GiveUp
  BY <1>3, <1>4, <1>7 DEF GiveUp
<1>8. CASE openFound
  BY <1>5, <1>7, <1>8 DEF openFound
<1>9. CASE openMissing
  BY <1>3, <1>6, <1>7, <1>9 DEF openMissing
<1>10. QED BY <1>8, <1>9 DEF loadScan

LEMMA RemoveStep ==
    ASSUME TypeOK, NEW ids, RemoveFromList(ids)
    PROVE  /\ DirsStep /\ Len(dirs') = Len(dirs)
           /\ \A q \in Objects :
                /\ dirs'[q].scanID = IF q \in {autoscan_timed[i] : i \in ids} THEN 0
                                     ELSE dirs[q].scanID
                /\ dirs'[q].taskCount = dirs[q].taskCount
<1> DEFINE os == {autoscan_timed[i] : i \in ids}
<1>1. dirs \in Seq(DirType(Len(dirs))) /\ Len(dirs) \in Nat /\ Objects = 1 .. Len(dirs)
  BY ObjectFacts DEF Objects
<1>2. dirs' = Cleared(dirs, os)
  BY DEF RemoveFromList, Cleared
<1> HIDE DEF os
<1>3. /\ dirs' \in Seq(DirType(Len(dirs))) /\ Kept(dirs, dirs') /\ Len(dirs') = Len(dirs)
      /\ \A q \in 1 .. Len(dirs) :
           /\ dirs'[q].scanID = IF q \in os THEN 0 ELSE dirs[q].scanID
           /\ dirs'[q].taskCount = dirs[q].taskCount
  BY <1>1, <1>2, ClearScans
<1>4. QED BY <1>1, <1>3 DEF DirsStep, DirsType, os

LEMMA ensurePathType ==
    ASSUME DbType, NEW p \in Paths, ensurePathExistence(p)
    PROVE  /\ inDB \subseteq inDB' /\ inDB' \subseteq Paths
           /\ incarnation' \in [Paths -> Nat]
<1>1. \A q \in Paths : incarnation[q] \in Nat /\ incarnation[q] + 1 \in Nat
  BY DEF DbType
<1>2. inDB \subseteq inDB' /\ inDB' \subseteq Paths
  BY DEF DbType, ensurePathExistence, Above
<1>3. incarnation' \in [Paths -> Nat]
  BY <1>1 DEF ensurePathExistence
<1>4. QED BY <1>2, <1>3

\* A new directory is appended: without a scan id when its path is in the list
\* already, else with the place it takes.
LEMMA SetStep ==
    ASSUME TypeOK, NEW p \in Paths, setAutoscanDirectory(p)
    PROVE  LET o == Len(dirs) + 1
               slot == SlotFor(autoscan_timed)
           IN  /\ DirsStep /\ Len(dirs') = o
               /\ \A q \in Objects : dirs'[q] = dirs[q]
               /\ dirs'[o].param = o /\ ~dirs'[o].persistent
               /\ \/ /\ dirs'[o].scanID = 0 /\ timerID' = Append(timerID, 0)
                     /\ UNCHANGED <<autoscan_timed, ui>>
                  \/ /\ dirs'[o].scanID = slot /\ timerID' = Append(timerID, slot)
                     /\ slot \in Nat
                     /\ autoscan_timed' = Put(autoscan_timed, o)
                     /\ ui' = [Idle EXCEPT !.op = "notify", !.dir = o]
<1> DEFINE n == Len(dirs)
           new(scan) == NewDir(p, FALSE, scan, n + 1, 0, incarnation'[p])
<1>1. n \in Nat /\ Objects = 1 .. n /\ dirs \in Seq(DirType(n))
  BY ObjectFacts DEF Objects
<1>2. incarnation'[p] \in Nat
  <2>1. incarnation' \in [Paths -> Nat]
    BY TypeParts, ensurePathType DEF Parts, setAutoscanDirectory
  <2>2. QED BY <2>1
<1>3. autoscan_timed \in Seq(Objects \cup {0}) /\ SlotFor(autoscan_timed) \in Nat
  <2>1. autoscan_timed \in Seq(Objects \cup {0})
    BY TypeParts DEF Parts, TimerType
  <2>2. QED BY <2>1, SlotIsNew
<1>4. ASSUME NEW scan \in Nat, dirs' = Append(dirs, new(scan))
      PROVE  /\ DirsStep /\ Len(dirs') = n + 1
             /\ \A q \in Objects : dirs'[q] = dirs[q]
             /\ dirs'[n + 1].scanID = scan /\ dirs'[n + 1].param = n + 1
             /\ ~dirs'[n + 1].persistent
  <2>1. /\ new(scan) \in DirType(n + 1) /\ new(scan).scanID = scan
        /\ new(scan).param = n + 1 /\ ~new(scan).persistent
    <3>1. n + 1 \in 1 .. n + 1 /\ 0 \in Int
      BY <1>1
    <3>2. QED BY <1>2, <3>1 DEF NewDir, DirType
  <2> HIDE DEF new
  <2>2. /\ dirs' \in Seq(DirType(n + 1)) /\ Kept(dirs, dirs') /\ Len(dirs') = n + 1
        /\ \A q \in 1 .. n : dirs'[q] = dirs[q]
        /\ dirs'[n + 1] = new(scan)
    BY <1>1, <1>4, <2>1, AppendDir
  <2>3. QED BY <1>1, <2>1, <2>2 DEF DirsStep, DirsType
<1>5. CASE \E i \in DOMAIN dirs : Listed(i) /\ dirs[i].location = p
  <2>1. /\ dirs' = Append(dirs, new(0)) /\ timerID' = Append(timerID, 0)
        /\ UNCHANGED <<autoscan_timed, ui>>
    BY <1>5 DEF setAutoscanDirectory
  <2>2. /\ DirsStep /\ Len(dirs') = n + 1
        /\ \A q \in Objects : dirs'[q] = dirs[q]
        /\ dirs'[n + 1].scanID = 0 /\ dirs'[n + 1].param = n + 1
        /\ ~dirs'[n + 1].persistent
    BY <1>4, <2>1, 0 \in Nat
  <2>3. QED BY <2>1, <2>2, 0 \in Nat
<1>6. CASE ~(\E i \in DOMAIN dirs : Listed(i) /\ dirs[i].location = p)
  <2> DEFINE scan == SlotFor(autoscan_timed)
  <2>1. /\ dirs' = Append(dirs, new(scan)) /\ timerID' = Append(timerID, scan)
        /\ autoscan_timed' = Put(autoscan_timed, n + 1)
        /\ ui' = [Idle EXCEPT !.op = "notify", !.dir = n + 1]
    BY <1>6 DEF setAutoscanDirectory
  <2>2. /\ DirsStep /\ Len(dirs') = n + 1
        /\ \A q \in Objects : dirs'[q] = dirs[q]
        /\ dirs'[n + 1].scanID = scan /\ dirs'[n + 1].param = n + 1
        /\ ~dirs'[n + 1].persistent
    BY <1>3, <1>4, <2>1
  <2>3. QED BY <1>3, <2>1, <2>2
<1>7. QED BY <1>5, <1>6

\* The copy has the scan id and the timer parameter of the directory.
LEMMA CopyStep ==
    ASSUME TypeOK, Phases, editCopy
    PROVE  LET copy == Len(dirs) + 1 IN
           /\ ui.op = "edit" /\ ui.dir \in Objects
           /\ DirsStep /\ Len(dirs') = copy
           /\ \A q \in Objects : dirs'[q] = dirs[q]
           /\ dirs'[copy] = dirs[ui.dir]
           /\ timerID' = Append(timerID, 0) /\ autoscan_timed' = autoscan_timed
           /\ ui' = [ui EXCEPT !.op = "take", !.dir = copy]
<1> DEFINE n == Len(dirs)
<1>1. n \in Nat /\ Objects = 1 .. n /\ dirs \in Seq(DirType(n))
  BY ObjectFacts DEF Objects
<1>2. ui.op = "edit" /\ ui.dir \in Objects
  BY TypeParts DEF Parts, UiType, Phases, RequestPhases, editCopy
<1>3. dirs[ui.dir] \in DirType(n + 1)
  <2>1. dirs[ui.dir] \in DirType(n)
    BY <1>2, ObjectFacts
  <2>2. DirType(n) \subseteq DirType(n + 1)
    BY <1>1 DEF DirType
  <2>3. QED BY <2>1, <2>2
<1>4. dirs' = Append(dirs, dirs[ui.dir])
  BY DEF editCopy
<1>5. /\ dirs' \in Seq(DirType(n + 1)) /\ Kept(dirs, dirs') /\ Len(dirs') = n + 1
      /\ \A q \in 1 .. n : dirs'[q] = dirs[q]
      /\ dirs'[n + 1] = dirs[ui.dir]
  BY <1>1, <1>3, <1>4, AppendDir
<1>6. DirsStep
  BY <1>5 DEF DirsStep, DirsType
<1>7. QED BY <1>1, <1>2, <1>5, <1>6 DEF editCopy

LEMMA ScanIDStep ==
    ASSUME TypeOK, NEW o \in Objects, NEW id \in Nat, dirs' = SetScanID(dirs, o, id)
    PROVE  /\ DirsStep /\ Len(dirs') = Len(dirs)
           /\ \A q \in Objects :
                /\ dirs'[q].scanID = IF q = o THEN id ELSE dirs[q].scanID
                /\ dirs'[q].taskCount = dirs[q].taskCount
<1> DEFINE r == [dirs[o] EXCEPT !.scanID = id]
           n == Len(dirs)
<1>1. /\ n \in Nat /\ Objects = 1 .. n /\ dirs \in Seq(DirType(n))
      /\ \A q \in Objects : dirs[q] \in DirType(n)
  BY ObjectFacts DEF Objects
<1>2. /\ r \in DirType(n) /\ r.scanID = id /\ r.param = dirs[o].param
      /\ r.location = dirs[o].location /\ r.persistent = dirs[o].persistent
      /\ r.taskCount = dirs[o].taskCount
  <2>1. dirs[o] \in DirType(n)
    BY <1>1
  <2>2. QED BY <2>1 DEF DirType
<1>3. dirs' = [dirs EXCEPT ![o] = r]
  BY DEF SetScanID
<1> HIDE DEF r
<1>4. /\ dirs' \in Seq(DirType(n)) /\ Len(dirs') = n
      /\ \A q \in 1 .. n : dirs'[q] = IF q = o THEN r ELSE dirs[q]
  BY <1>1, <1>2, <1>3, ExceptSeq
<1>5. QED BY <1>1, <1>2, <1>4 DEF DirsStep, DirsType, Kept

\* The copy is put on the list, at a free place.
LEMMA AddStep ==
    ASSUME TypeOK, Phases, editAdd
    PROVE  LET slot == SlotFor(autoscan_timed) IN
           /\ ui.op = "put" /\ ui.dir \in Objects /\ slot \in Nat
           /\ DirsStep /\ Len(dirs') = Len(dirs)
           /\ \A q \in Objects :
                /\ dirs'[q].scanID = IF q = ui.dir THEN slot ELSE dirs[q].scanID
                /\ dirs'[q].taskCount = dirs[q].taskCount
           /\ timerID' = SetTimerID(dirs, timerID, {ui.dir}, slot)
           /\ autoscan_timed' = Put(autoscan_timed, ui.dir)
           /\ ui' = [ui EXCEPT !.op = "notify"]
<1> DEFINE slot == SlotFor(autoscan_timed)
<1>1. ui.op = "put" /\ ui.dir \in Objects
  BY TypeParts DEF Parts, UiType, Phases, RequestPhases, editAdd
<1>2. slot \in Nat
  <2>1. autoscan_timed \in Seq(Objects \cup {0})
    BY TypeParts DEF Parts, TimerType
  <2>2. QED BY <2>1, SlotIsNew
<1>3. /\ dirs' = SetScanID(dirs, ui.dir, slot)
      /\ timerID' = SetTimerID(dirs, timerID, {ui.dir}, slot)
      /\ autoscan_timed' = Put(autoscan_timed, ui.dir)
      /\ ui' = [ui EXCEPT !.op = "notify"]
  BY DEF editAdd
<1> HIDE DEF slot
<1>4. QED BY <1>1, <1>2, <1>3, ScanIDStep DEF slot

\* Quiet: list, scan ids and timer parameters stay as they are.
AtList == {"edit", "take", "put", "clear"}
Quiet == /\ SameScans(dirs, dirs') /\ UNCHANGED <<autoscan_timed, timerID>>
         /\ ui' = ui \/ (ui.op \notin AtList /\ ui'.op \notin AtList)

\* ClearStep(ids): entries are taken off the list, by the scan, by
\* removeAutoscanDirectory(), or by an edit that puts a copy in its place.
ClearStep(ids) ==
    /\ ids \subseteq DOMAIN autoscan_timed /\ \A i \in ids : autoscan_timed[i] # 0
    /\ RemoveFromList(ids)
    /\ \/ dropRemove /\ ids = {scanID} /\ ui' = ui
       \/ "removeAutoscan" \in Ops /\ ui' = ui
       \/ /\ ui.op = "take" /\ ui' = [ui EXCEPT !.op = "put"]
          /\ ids = {dirs[ui.dir].scanID}
    /\ ListFree

\* Every step leaves list and directories alone or is one of these.
StepKind ==
    \/ Quiet
    \/ \E o \in Objects : editAutoscanDirectory(o)
    \/ \E p \in Paths : setAutoscanDirectory(p)
    \/ editCopy \/ editAdd \/ copySubdir \/ clearSubdir
    \/ editRemove /\ UNCHANGED <<dirs, autoscan_timed, timerID>>
    \/ \E ids : ClearStep(ids)

LEMMA StepKinds ==
    ASSUME ShapeInv, [Next]_vars
    PROVE  DirsStep /\ StepKind
<1> USE DEF ShapeInv, StepKind
<1>0. TypeOK /\ Phases
  OBVIOUS
<1>1. ASSUME dirs' = dirs, UNCHANGED <<autoscan_timed, timerID>>,
             ui' = ui \/ (ui.op \notin AtList /\ ui'.op \notin AtList)
      PROVE  DirsStep /\ Quiet
  BY <1>0, <1>1, SameDirs DEF Quiet
<1>2. CASE UNCHANGED vars
  BY <1>1, <1>2 DEF vars, timerVars
<1>3. CASE \/ dequeue \/ threadExit \/ skipInvalid \/ runRemove \/ runAdd \/ addEnd
           \/ \E p \in Paths : addEntry(p)
  BY <1>1, <1>3 DEF dequeue, threadExit, skipInvalid, runRemove, runAdd, addEnd, addEntry,
     timerVars
<1>4. CASE \/ runRescan \/ enterScan \/ openScan \/ dropLookup \/ unsubscribe
           \/ addNewEntry \/ scanEnd \/ scanFails \/ subscribe
           \/ \E p \in Paths : scanEntry(p)
  BY <1>1, <1>4 DEF runRescan, enterScan, openScan, dropLookup, unsubscribe, addNewEntry,
     scanEnd, scanFails, subscribe, scanEntry, timerVars
<1>5. CASE loadScan
  BY <1>0, <1>5, LoadStep DEF Quiet
<1>6. CASE rescanEntry
  <2>1. scanID \in Nat
    BY <1>0, TypeParts DEF Parts, LocalType
  <2>2. rescanDirectory(entry, incarnation[entry], scanID)
        /\ UNCHANGED <<autoscan_timed, timerID, ui>>
    BY <1>6 DEF rescanEntry, timerVars
  <2>3. QED BY <1>0, <2>1, <2>2, RescanStep DEF Quiet
<1>7. CASE rescanDone
  <2>1. dir \in Objects
    BY <1>0, <1>7, TypeParts DEF Parts, Phases, ThreadPhases, InRescan, LocalType, rescanDone
  <2>2. dirs[dir].taskCount - 1 \in Int
    BY <1>0, <2>1, ObjectFacts
  <2>3. /\ dirs' = [dirs EXCEPT ![dir].taskCount = dirs[dir].taskCount - 1]
        /\ UNCHANGED <<autoscan_timed, timerID, ui>>
    BY <1>7 DEF rescanDone, timerVars
  <2>4. QED BY <1>0, <2>1, <2>2, <2>3, CountStep DEF Quiet
<1>8. ASSUME NEW c \in {"timer", "web"}, Notification(c)
      PROVE  DirsStep /\ Quiet
  BY <1>0, <1>8, NotificationStep DEF Quiet
<1>9. CASE \/ \E p \in DOMAIN dirs : timerFire(p)
           \/ timerNotified \/ shutdown \/ \E p \in Paths : changeDisk(p)
  BY <1>1, <1>9 DEF timerFire, timerNotified, shutdown, changeDisk, timerVars
<1>10. ASSUME NEW p \in Paths, setAutoscanDirectory(p)
       PROVE  DirsStep
  BY <1>0, <1>10, SetStep
<1>11. ASSUME NEW id, RemoveID(id)
       PROVE  /\ DirsStep
              /\ \/ UNCHANGED <<dirs, autoscan_timed, timerID>>
                 \/ /\ {id} \subseteq DOMAIN autoscan_timed
                    /\ \A i \in {id} : autoscan_timed[i] # 0
                    /\ RemoveFromList({id})
  <2>1. CASE UNCHANGED <<dirs, autoscan_timed, timerID>>
    BY <1>0, <2>1, SameDirs
  <2>2. CASE /\ id \in DOMAIN autoscan_timed /\ autoscan_timed[id] # 0
             /\ RemoveFromList({id})
    BY <1>0, <2>2, RemoveStep
  <2>3. QED BY <1>11, <2>1, <2>2 DEF RemoveID
<1>12. CASE dropRemove
  <2>1. ui' = ui /\ ListFree
    BY <1>12 DEF dropRemove
  <2>2. CASE RemoveID(scanID)
    <3>1. CASE UNCHANGED <<dirs, autoscan_timed, timerID>>
      BY <1>1, <2>1, <3>1
    <3>2. CASE /\ {scanID} \subseteq DOMAIN autoscan_timed
               /\ \A i \in {scanID} : autoscan_timed[i] # 0
               /\ RemoveFromList({scanID})
      <4>1. ClearStep({scanID})
        BY <1>12, <2>1, <3>2 DEF ClearStep
      <4>2. QED BY <1>11, <2>2, <4>1
    <3>3. QED BY <1>11, <2>2, <3>1, <3>2
  <2>3. CASE UNCHANGED <<dirs, autoscan_timed, timerID>>
    BY <1>1, <2>1, <2>3
  <2>4. QED BY <1>12, <2>2, <2>3 DEF dropRemove
<1>13. ASSUME NEW o \in DOMAIN dirs, removeAutoscanDirectory(o)
       PROVE  DirsStep /\ \E ids : ClearStep(ids)
  <2> DEFINE ids == ListedAt({dirs[o].location})
  <2>1. RemoveFromList(ids) /\ ui' = ui /\ ListFree
        /\ "removeAutoscan" \in Ops
    BY <1>13 DEF removeAutoscanDirectory, Begin, Idle, ListFree
  <2>2. ids \subseteq DOMAIN autoscan_timed /\ \A i \in ids : autoscan_timed[i] # 0
    <3>1. DOMAIN autoscan_timed = 1 .. Len(autoscan_timed)
      BY <1>0, TypeParts, LenProperties DEF Parts, TimerType
    <3>2. QED BY <3>1 DEF ListedAt
  <2> HIDE DEF ids
  <2>3. ClearStep(ids)
    BY <2>1, <2>2 DEF ClearStep
  <2>4. QED BY <1>0, <2>1, <2>3, RemoveStep
<1>14. CASE \/ \E p \in Paths : addFile(p)
            \/ \E id \in 1 .. taskID : invalidateTask(id)
  BY <1>1, <1>14 DEF addFile, invalidateTask, timerVars
<1>15. ASSUME NEW o \in DOMAIN dirs, editAutoscanDirectory(o)
       PROVE  DirsStep /\ o \in Objects
  BY <1>0, <1>15, SameDirs, ObjectFacts DEF editAutoscanDirectory
<1>16. ASSUME NEW p \in Paths, removeObject(p)
       PROVE  DirsStep /\ Quiet
  <2>1. /\ dirs' = dirs /\ UNCHANGED <<autoscan_timed, timerID>> /\ ui = Idle
        /\ ui' = [Idle EXCEPT !.op = IF SubAutoscans(p) = {} THEN "unsubscribe" ELSE "copy",
                              !.path = p, !.inc = incarnation[p]]
    BY <1>16 DEF removeObject, Begin, timerVars
  <2>2. ui.op = "idle" /\ ui'.op \in {"unsubscribe", "copy"}
    BY <2>1 DEF Idle
  <2>3. QED BY <1>1, <2>1, <2>2 DEF AtList
<1>17. CASE removeTimers \/ invalidateAddTasks \/ addRemoveTask \/ setDone
  <2>1. dirs' = dirs /\ UNCHANGED <<autoscan_timed, timerID>>
    BY <1>17 DEF removeTimers, invalidateAddTasks, addRemoveTask, setDone, timerVars
  <2>2. ui.op \notin AtList
    <3>1. CASE setDone
      <4>1. call["web"].at = "done"
        BY <3>1 DEF setDone, CallEnds
      <4>2. QED BY <1>0, <4>1 DEF Phases, CallPhases, AtList
    <3>2. CASE removeTimers \/ invalidateAddTasks \/ addRemoveTask
      BY <3>2 DEF removeTimers, invalidateAddTasks, addRemoveTask, AtList
    <3>3. QED BY <1>17, <3>1, <3>2
  <2>3. ui'.op \notin AtList
    <3>1. \A o \in {"invalidate", "enqueue"} :
             [ui EXCEPT !.op = o].op = o /\ [ui EXCEPT !.op = o, !.objs = {}, !.n = 0].op = o
      BY <1>0, TypeParts DEF Parts, UiType
    <3>2. CASE removeTimers \/ invalidateAddTasks
      BY <3>1, <3>2 DEF removeTimers, invalidateAddTasks, AtList
    <3>3. CASE addRemoveTask \/ setDone
      BY <3>3 DEF addRemoveTask, setDone, Idle, AtList
    <3>4. QED BY <1>17, <3>2, <3>3
  <2>4. QED BY <1>1, <2>1, <2>2, <2>3
<1>18. CASE setNotify
  BY <1>1, <1>18 DEF setNotify
<1>19. CASE editCopy \/ editAdd
  BY <1>0, <1>19, CopyStep, AddStep
<1>20. CASE editRemove
  <2>1. ui.op = "take" /\ ListFree
    BY <1>20 DEF editRemove, ListFree
  <2>2. CASE RemoveID(dirs[ui.dir].scanID) /\ ui' = [ui EXCEPT !.op = "put"]
    <3> DEFINE id == dirs[ui.dir].scanID
    <3>1. CASE UNCHANGED <<dirs, autoscan_timed, timerID>>
      BY <1>0, <1>20, <3>1, SameDirs
    <3>2. CASE /\ {id} \subseteq DOMAIN autoscan_timed
               /\ \A i \in {id} : autoscan_timed[i] # 0
               /\ RemoveFromList({id})
      <4>1. ClearStep({id})
        BY <2>1, <2>2, <3>2 DEF ClearStep
      <4>2. QED BY <1>11, <2>2, <4>1
    <3>3. QED BY <1>11, <2>2, <3>1, <3>2
  <2>3. CASE UNCHANGED <<dirs, autoscan_timed, timerID, ui>>
    BY <1>1, <2>3
  <2>4. QED BY <1>20, <2>2, <2>3 DEF editRemove
<1>21. CASE copySubdir
  <2>1. dirs' = dirs
    BY <1>21 DEF copySubdir
  <2>2. QED BY <1>0, <1>21, <2>1, SameDirs
<1>22. CASE clearSubdir
  BY <1>0, <1>22, RemoveStep DEF clearSubdir
<1>23. CASE TaskThread
  BY <1>3, <1>4, <1>5, <1>6, <1>7, <1>12, <1>23 DEF TaskThread
<1>24. CASE Request
  BY <1>10, <1>13, <1>14, <1>15, <1>16, <1>24 DEF Request
<1>25. CASE RequestGoesOn
  BY <1>8, <1>17, <1>18, <1>19, <1>20, <1>21, <1>22, <1>25 DEF RequestGoesOn
<1>26. QED BY <1>2, <1>8, <1>9, <1>23, <1>24, <1>25 DEF Next, TimerGoesOn

----------------------------------------------------------------------------
(* The AutoscanList, the scan ids and the timer parameters                 *)

\* Places: an entry of the list knows its place, and so does its timer parameter,
\* except in the moment of removeIfSubdir().
Places ==
    \A i \in DOMAIN autoscan_timed : autoscan_timed[i] # 0 =>
        /\ dirs[autoscan_timed[i]].scanID = i
        /\ \/ timerID[dirs[autoscan_timed[i]].param] = i
           \/ Marked(dirs[autoscan_timed[i]].param)

\* The copy setAutoscanDirectory() has made and not yet put on the list.
Copied(o) == ui.op \in {"take", "put"} /\ o = ui.dir

\* Holders: a directory with a scan id is the entry at this place.
Holders ==
    \A o \in Objects : dirs[o].scanID # 0 /\ ~Copied(o) =>
        /\ dirs[o].scanID \in DOMAIN autoscan_timed
        /\ autoscan_timed[dirs[o].scanID] = o

\* Alone: while a directory is being replaced or given up, no other entry of the
\* list has its timer parameter; only the copy, for a moment, shares the place of
\* its original.
Alone ==
    ui.op \in AtList => \A q \in Objects :
        dirs[q].scanID # 0 /\ dirs[q].param = dirs[ui.dir].param =>
            q = ui.dir \/ (ui.op = "take" /\ dirs[q].scanID = dirs[ui.dir].scanID)

\* Aside: the copy is not on the list; what is given up is.
Aside ==
    /\ \A i \in DOMAIN autoscan_timed : autoscan_timed[i] # 0 => ~Copied(autoscan_timed[i])
    /\ ui.op = "clear" => dirs[ui.dir].scanID # 0 /\ ~dirs[ui.dir].persistent

ListInv == Places /\ Holders /\ ParamFollows /\ Alone /\ Aside

LEMMA TimerFacts ==
    ASSUME TypeOK
    PROVE  /\ autoscan_timed \in Seq(Objects \cup {0}) /\ timerID \in [Objects -> Nat]
           /\ DOMAIN timerID = Objects /\ DOMAIN autoscan_timed \subseteq Nat \ {0}
           /\ \A i \in DOMAIN autoscan_timed : autoscan_timed[i] \in Objects \cup {0}
           /\ 0 \notin Objects
<1>1. autoscan_timed \in Seq(Objects \cup {0}) /\ timerID \in [Objects -> Nat]
  BY TypeParts DEF Parts, TimerType
<1>2. DOMAIN autoscan_timed = 1 .. Len(autoscan_timed) /\ Len(autoscan_timed) \in Nat
      /\ \A i \in 1 .. Len(autoscan_timed) : autoscan_timed[i] \in Objects \cup {0}
  BY <1>1, LenProperties, ElementOfSeq
<1>3. QED BY <1>1, <1>2, ObjectFacts DEF Objects

LEMMA DirOfUi ==
    ASSUME TypeOK, Phases, ui.op \in AtList
    PROVE  ui.dir \in Objects
BY TypeParts DEF Parts, UiType, Phases, RequestPhases, AtList

LEMMA QuietKeepsList ==
    ASSUME TypeOK, Phases, ListInv, Quiet, DirsStep
    PROVE  ListInv'
<1>1. Objects' = Objects
      /\ \A o \in Objects : dirs'[o].scanID = dirs[o].scanID
                             /\ dirs'[o].param = dirs[o].param
                             /\ dirs'[o].persistent = dirs[o].persistent
  BY DEF Quiet, SameScans, Kept, Objects
<1>2. autoscan_timed' = autoscan_timed /\ timerID' = timerID
  BY DEF Quiet
<1>3. \A i \in DOMAIN autoscan_timed : autoscan_timed[i] \in Objects \cup {0}
  BY TimerFacts
<1>4. \A o \in Objects : dirs[o].param \in Objects
  BY ObjectFacts
<1>5. \/ ui.op \in AtList /\ ui' = ui /\ ui.dir \in Objects
      \/ ui.op \notin AtList /\ ui'.op \notin AtList
  BY DirOfUi DEF Quiet
<1>6. /\ \A p : Marked(p)' <=> Marked(p)
      /\ \A o : Copied(o)' <=> Copied(o)
  BY <1>1, <1>5 DEF Marked, Copied, AtList
<1> HIDE DEF Marked, Copied
<1>7. Places'
  BY <1>1, <1>2, <1>3, <1>4, <1>6 DEF ListInv, Places
<1>8. Holders'
  BY <1>1, <1>2, <1>6 DEF ListInv, Holders
<1>9. ParamFollows'
  BY <1>1, <1>2, <1>3, <1>6 DEF ListInv, ParamFollows
<1>10. Alone' /\ Aside'
  <2>1. Alone'
    BY <1>1, <1>5 DEF ListInv, Alone
  <2>2. Aside'
    BY <1>1, <1>2, <1>5, <1>6 DEF ListInv, Aside, AtList
  <2>3. QED BY <2>1, <2>2
<1>11. QED BY <1>7, <1>8, <1>9, <1>10 DEF ListInv

LEMMA TimerAfter ==
    ASSUME TypeOK, NEW os, NEW id
    PROVE  LET tp == SetTimerID(dirs, timerID, os, id) IN
           /\ id \in Nat => tp \in [Objects -> Nat]
           /\ \A p \in Objects :
                /\ (\E o \in os : dirs[o].param = p) => tp[p] = id
                /\ ~(\E o \in os : dirs[o].param = p) => tp[p] = timerID[p]
BY TimerFacts DEF SetTimerID

\* What taking entries off the list needs to know: nothing is marked but what
\* goes, and what is replaced goes too.
Going(ids) ==
    /\ ids \subseteq DOMAIN autoscan_timed /\ \A i \in ids : autoscan_timed[i] # 0
    /\ RemoveFromList(ids)
    /\ \/ ui' = ui /\ ui.op # "clear"
       \/ /\ ui.op = "take" /\ ui'.op = "put" /\ ui'.dir = ui.dir
          /\ ids = {dirs[ui.dir].scanID}
       \/ /\ ui.op = "clear" /\ ui'.op \notin AtList
          /\ ids = {dirs[ui.dir].scanID}

\* Taking entries off the list, by a request or by the scan.
LEMMA ClearKeepsList ==
    ASSUME TypeOK, Phases, ListInv, NEW ids, Going(ids)
    PROVE  ListInv'
<1> DEFINE os == {autoscan_timed[i] : i \in ids}
<1>1. /\ DirsStep /\ Len(dirs') = Len(dirs) /\ Objects' = Objects
      /\ \A o \in Objects : /\ dirs'[o].param = dirs[o].param /\ dirs[o].param \in Objects
                             /\ dirs[o].scanID \in Nat
                             /\ dirs'[o].persistent = dirs[o].persistent
      /\ \A q \in Objects : dirs'[q].scanID = IF q \in os THEN 0 ELSE dirs[q].scanID
  <2>1. /\ DirsStep /\ Len(dirs') = Len(dirs)
        /\ \A q \in Objects : dirs'[q].scanID = IF q \in os THEN 0 ELSE dirs[q].scanID
    BY RemoveStep DEF Going
  <2>2. QED BY <2>1, ObjectFacts DEF DirsStep, Kept, Objects
<1>2. /\ DOMAIN autoscan_timed' \subseteq DOMAIN autoscan_timed
      /\ \A i \in DOMAIN autoscan_timed' :
           autoscan_timed'[i] = IF i \in ids THEN 0 ELSE autoscan_timed[i]
      /\ \A i \in DOMAIN autoscan_timed : i \notin ids => i \in DOMAIN autoscan_timed'
  <2>1. autoscan_timed \in Seq(Objects \cup {0}) /\ autoscan_timed' = Take(autoscan_timed, ids)
    BY TimerFacts DEF Going, RemoveFromList
  <2>2. QED BY <2>1, TakeEmpties
<1>3. \A i \in DOMAIN autoscan_timed : /\ autoscan_timed[i] \in Objects \cup {0}
                                       /\ i # 0
  BY TimerFacts
<1>4. /\ timerID' \in [Objects -> Nat]
      /\ \A p \in Objects : /\ (\E o \in os : dirs[o].param = p) => timerID'[p] = 0
                            /\ ~(\E o \in os : dirs[o].param = p) => timerID'[p] = timerID[p]
  <2>1. timerID' = SetTimerID(dirs, timerID, os, 0)
    BY DEF Going, RemoveFromList
  <2> HIDE DEF os
  <2>2. QED BY <2>1, TimerAfter
<1>5. os \subseteq Objects
  BY <1>3 DEF Going
<1>6. ui.op \in AtList => ui.dir \in Objects
  BY DirOfUi
<1>7. ui.op = "clear" => os = {ui.dir}
  <2>1. ASSUME ui.op = "clear"
        PROVE  dirs[ui.dir].scanID \in DOMAIN autoscan_timed
               /\ autoscan_timed[dirs[ui.dir].scanID] = ui.dir
    BY <1>6, <2>1 DEF ListInv, Holders, Aside, Copied, AtList
  <2>2. ui.op = "clear" => ids = {dirs[ui.dir].scanID}
    BY DEF Going
  <2>3. QED BY <2>1, <2>2
<1>8. \A p : ~Marked(p)'
  BY DEF Marked, Going, AtList
<1>9. \A o : Copied(o)' <=> Copied(o)
  BY DEF Copied, Going, AtList
<1>10. ASSUME NEW i \in DOMAIN autoscan_timed, i \notin ids, autoscan_timed[i] # 0
       PROVE  /\ autoscan_timed[i] \in Objects \ os
              /\ ~(\E o \in os : dirs[o].param = dirs[autoscan_timed[i]].param)
              /\ timerID[dirs[autoscan_timed[i]].param] = i
              /\ dirs[autoscan_timed[i]].scanID = i
  <2> DEFINE x == autoscan_timed[i]
  <2>1. x \in Objects /\ dirs[x].scanID = i /\ i # 0
    BY <1>3, <1>10 DEF ListInv, Places
  <2>2. \A j \in ids : /\ j \in DOMAIN autoscan_timed /\ autoscan_timed[j] # 0 /\ j # i
                        /\ dirs[autoscan_timed[j]].scanID = j
    BY <1>10 DEF ListInv, Places, Going
  <2>3. x \notin os
    BY <2>1, <2>2
  <2>4. CASE ui.op = "clear"
    <3>1. ui.dir \in Objects /\ os = {ui.dir}
      BY <1>6, <1>7, <2>4 DEF AtList
    <3>2. dirs[x].param # dirs[ui.dir].param
      BY <2>1, <2>3, <2>4, <3>1 DEF ListInv, Alone, AtList
    <3>3. timerID[dirs[x].param] = i
      BY <1>10, <3>2 DEF ListInv, Places, Marked
    <3>4. QED BY <2>1, <2>3, <3>1, <3>2, <3>3
  <2>5. CASE ui.op # "clear"
    <3>1. \A p : ~Marked(p)
      BY <2>5 DEF Marked
    <3>2. timerID[dirs[x].param] = i
      BY <1>10, <3>1 DEF ListInv, Places
    <3>3. \A j \in ids : timerID[dirs[autoscan_timed[j]].param] = j
      BY <2>2, <3>1 DEF ListInv, Places
    <3>4. ~(\E o \in os : dirs[o].param = dirs[x].param)
      BY <2>2, <3>2, <3>3
    <3>5. QED BY <2>1, <2>3, <3>2, <3>4
  <2>6. QED BY <2>4, <2>5
<1> HIDE DEF os
<1>11. Places'
  <2> SUFFICES ASSUME NEW i \in DOMAIN autoscan_timed', autoscan_timed'[i] # 0
               PROVE  /\ dirs'[autoscan_timed'[i]].scanID = i
                      /\ timerID'[dirs'[autoscan_timed'[i]].param] = i
    BY DEF Places
  <2>1. i \in DOMAIN autoscan_timed /\ i \notin ids /\ autoscan_timed'[i] = autoscan_timed[i]
    BY <1>2
  <2>2. QED BY <1>1, <1>4, <1>10, <2>1
<1>12. Holders'
  <2> SUFFICES ASSUME NEW o \in Objects, dirs'[o].scanID # 0, ~Copied(o)
               PROVE  /\ dirs'[o].scanID \in DOMAIN autoscan_timed'
                      /\ autoscan_timed'[dirs'[o].scanID] = o
    BY <1>1, <1>9 DEF Holders
  <2>1. o \notin os /\ dirs'[o].scanID = dirs[o].scanID /\ dirs[o].scanID # 0
    BY <1>1
  <2>2. dirs[o].scanID \in DOMAIN autoscan_timed /\ autoscan_timed[dirs[o].scanID] = o
    BY <2>1 DEF ListInv, Holders
  <2>3. dirs[o].scanID \notin ids
    BY <2>1, <2>2 DEF os
  <2>4. QED BY <1>2, <2>1, <2>2, <2>3
<1>13. ParamFollows'
  <2> SUFFICES ASSUME NEW p \in Objects, timerID'[p] # 0
               PROVE  /\ timerID'[p] \in DOMAIN autoscan_timed'
                      /\ autoscan_timed'[timerID'[p]] # 0
                      /\ dirs'[autoscan_timed'[timerID'[p]]].param = p
    BY <1>4 DEF ParamFollows
  <2>1. ~(\E o \in os : dirs[o].param = p) /\ timerID'[p] = timerID[p]
    BY <1>4
  <2>2. ~Marked(p)
    BY <1>7, <2>1 DEF Marked
  <2>3. /\ timerID[p] \in DOMAIN autoscan_timed /\ autoscan_timed[timerID[p]] # 0
        /\ dirs[autoscan_timed[timerID[p]]].param = p
    BY <2>1, <2>2, TimerFacts DEF ListInv, ParamFollows
  <2>4. timerID[p] \notin ids
    BY <2>1, <2>3 DEF os
  <2>5. QED BY <1>1, <1>2, <1>3, <2>1, <2>3, <2>4
<1>14. Alone'
  <2> SUFFICES ASSUME ui'.op \in AtList, NEW q \in Objects, dirs'[q].scanID # 0,
                      dirs'[q].param = dirs'[ui'.dir].param
               PROVE  q = ui'.dir
                      \/ (ui'.op = "take" /\ dirs'[q].scanID = dirs'[ui'.dir].scanID)
    BY <1>1 DEF Alone
  <2>1. ui.op \in AtList /\ ui'.dir = ui.dir /\ ui.dir \in Objects
    BY <1>6 DEF Going, AtList
  <2>2. q \notin os /\ dirs[q].scanID # 0 /\ dirs'[q].scanID = dirs[q].scanID
        /\ dirs[q].param = dirs[ui.dir].param
    BY <1>1, <2>1
  <2>3. q = ui.dir \/ (ui.op = "take" /\ dirs[q].scanID = dirs[ui.dir].scanID)
    BY <2>1, <2>2 DEF ListInv, Alone
  <2>4. CASE q # ui.dir
    <3>1. ui.op = "take" /\ dirs[q].scanID = dirs[ui.dir].scanID
      BY <2>3, <2>4
    <3>2. dirs[q].scanID \in DOMAIN autoscan_timed /\ autoscan_timed[dirs[q].scanID] = q
      BY <2>2, <2>4 DEF ListInv, Holders, Copied
    <3>3. dirs[ui.dir].scanID \notin ids
      BY <2>2, <3>1, <3>2 DEF os
    <3>4. ui' = ui
      BY <3>1, <3>3 DEF Going
    <3>5. ui.dir \notin os
      <4>1. \A i \in ids : autoscan_timed[i] # ui.dir
        BY <3>1 DEF ListInv, Aside, Going, Copied
      <4>2. QED BY <4>1 DEF os
    <3>6. dirs'[ui.dir].scanID = dirs[ui.dir].scanID
      BY <1>1, <2>1, <3>5
    <3>7. QED BY <2>2, <3>1, <3>4, <3>6
  <2>5. QED BY <2>1, <2>4
<1>15. Aside'
  <2>1. ui'.op # "clear"
    BY DEF Going, AtList
  <2>2. ASSUME NEW i \in DOMAIN autoscan_timed', autoscan_timed'[i] # 0
        PROVE  (~Copied(autoscan_timed[i]))'
    <3>1. i \in DOMAIN autoscan_timed /\ autoscan_timed'[i] = autoscan_timed[i]
      BY <1>2, <2>2
    <3>2. ~Copied(autoscan_timed[i])
      BY <2>2, <3>1 DEF ListInv, Aside
    <3>3. Copied(autoscan_timed[i])' => Copied(autoscan_timed[i])
      BY <3>1 DEF Copied, Going, AtList
    <3>4. QED BY <3>2, <3>3
  <2>3. QED BY <2>1, <2>2 DEF Aside
<1>16. QED BY <1>11, <1>12, <1>13, <1>14, <1>15 DEF ListInv

LEMMA AppendTimer ==
    ASSUME TypeOK, NEW tp \in [Objects -> Nat], NEW id, id \in Nat
    PROVE  LET o == Len(dirs) + 1 IN
           /\ DOMAIN Append(tp, id) = Objects \cup {o}
           /\ Append(tp, id) \in [Objects \cup {o} -> Nat]
           /\ \A p \in Objects : Append(tp, id)[p] = tp[p]
           /\ Append(tp, id)[o] = id
<1>1. Len(dirs) \in Nat /\ Objects = 1 .. Len(dirs)
  BY ObjectFacts DEF Objects
<1>2. tp \in Seq(Nat) /\ Len(tp) = Len(dirs)
  BY <1>1, LenProperties
<1>3. /\ Append(tp, id) \in Seq(Nat) /\ Len(Append(tp, id)) = Len(dirs) + 1
      /\ \A p \in 1 .. Len(dirs) : Append(tp, id)[p] = tp[p]
      /\ Append(tp, id)[Len(dirs) + 1] = id
  BY <1>2, AppendProperties
<1>4. DOMAIN Append(tp, id) = 1 .. Len(dirs) + 1
      /\ Append(tp, id) \in [1 .. Len(dirs) + 1 -> Nat]
  BY <1>3, LenProperties
<1>5. 1 .. Len(dirs) + 1 = Objects \cup {Len(dirs) + 1}
  BY <1>1
<1>6. QED BY <1>1, <1>3, <1>4, <1>5

\* An object put on the list.
LEMMA PutFacts ==
    ASSUME TypeOK, NEW o, o # 0
    PROVE  /\ SlotFor(autoscan_timed) \in Nat /\ SlotFor(autoscan_timed) # 0
           /\ SlotFor(autoscan_timed) \in DOMAIN autoscan_timed =>
                 autoscan_timed[SlotFor(autoscan_timed)] = 0
           /\ DOMAIN Put(autoscan_timed, o) = DOMAIN autoscan_timed \cup {SlotFor(autoscan_timed)}
           /\ Put(autoscan_timed, o)[SlotFor(autoscan_timed)] = o
           /\ \A i \in DOMAIN autoscan_timed :
                i # SlotFor(autoscan_timed) => Put(autoscan_timed, o)[i] = autoscan_timed[i]
<1> DEFINE T == Objects \cup {0, o}
           slot == SlotFor(autoscan_timed)
<1>1. autoscan_timed \in Seq(T) /\ o \in T
  BY TimerFacts, SeqMonotonic, Objects \cup {0} \subseteq T
<1> HIDE DEF T
<1>2. /\ slot \in Nat \ {0}
      /\ slot \in DOMAIN autoscan_timed => autoscan_timed[slot] = 0
  BY <1>1, SlotIsNew
<1>3. /\ DOMAIN Put(autoscan_timed, o) = DOMAIN autoscan_timed \cup {slot}
      /\ Put(autoscan_timed, o)[slot] = o
  BY <1>1, PutFills
<1>4. \A i \in DOMAIN autoscan_timed : i # slot => Put(autoscan_timed, o)[i] = autoscan_timed[i]
  BY <1>1, PutKeeps
<1>5. QED BY <1>2, <1>3, <1>4

LEMMA NewTimer ==
    ASSUME TypeOK, NEW id, id \in Nat, timerID' = Append(timerID, id)
    PROVE  LET o == Len(dirs) + 1 IN
           /\ \A q \in Objects : timerID'[q] = timerID[q]
           /\ timerID'[o] = id /\ DOMAIN timerID' = Objects \cup {o}
<1> DEFINE o == Len(dirs) + 1
<1>1. timerID \in [Objects -> Nat]
  BY TimerFacts
<1>2. /\ DOMAIN Append(timerID, id) = Objects \cup {o}
      /\ \A q \in Objects : Append(timerID, id)[q] = timerID[q]
      /\ Append(timerID, id)[o] = id
  BY <1>1, AppendTimer
<1>3. /\ DOMAIN timerID' = Objects \cup {o}
      /\ \A q \in Objects : timerID'[q] = timerID[q]
      /\ timerID'[o] = id
  BY <1>2
<1>4. QED BY <1>3

\* setAutoscanDirectory() of a new directory: it takes a free place, or none.
LEMMA SetKeepsList ==
    ASSUME TypeOK, ListInv, NEW p \in Paths, setAutoscanDirectory(p)
    PROVE  ListInv'
<1> DEFINE o == Len(dirs) + 1
           slot == SlotFor(autoscan_timed)
<1>1. /\ DirsStep /\ Len(dirs') = o
      /\ \A q \in Objects : dirs'[q] = dirs[q]
      /\ dirs'[o].param = o
  BY SetStep
<1>2. \/ /\ dirs'[o].scanID = 0 /\ timerID' = Append(timerID, 0)
         /\ UNCHANGED <<autoscan_timed, ui>>
      \/ /\ dirs'[o].scanID = slot /\ timerID' = Append(timerID, slot)
         /\ slot \in Nat
         /\ autoscan_timed' = Put(autoscan_timed, o)
         /\ ui' = [Idle EXCEPT !.op = "notify", !.dir = o]
  BY SetStep
<1>3. /\ Objects' = Objects \cup {o} /\ o \notin Objects /\ o # 0
      /\ \A q \in Objects : dirs[q].param \in Objects
  BY <1>1, ObjectFacts DEF Objects
<1>4. ui.op = "idle" /\ ui'.op \notin AtList
  <2>1. ui.op = "idle"
    BY DEF setAutoscanDirectory, Begin, Idle
  <2>2. QED BY <1>2, <2>1 DEF Idle, AtList
<1>5. ASSUME NEW id, id \in Nat, timerID' = Append(timerID, id)
      PROVE  /\ \A q \in Objects : timerID'[q] = timerID[q]
             /\ timerID'[o] = id /\ DOMAIN timerID' = Objects \cup {o}
  BY <1>5, NewTimer
<1>6. /\ \A q : ~Marked(q) /\ ~Marked(q)' /\ ~Copied(q) /\ ~Copied(q)'
      /\ Alone' /\ Aside'
  BY <1>4 DEF Marked, Copied, AtList, Alone, Aside
<1> HIDE DEF o, slot
<1>7. \A i \in DOMAIN autoscan_timed : autoscan_timed[i] \in Objects \cup {0} /\ i # 0
  BY TimerFacts
<1>8. Places /\ Holders /\ ParamFollows
  BY DEF ListInv
<1>9. CASE /\ dirs'[o].scanID = 0 /\ timerID' = Append(timerID, 0)
           /\ UNCHANGED <<autoscan_timed, ui>>
  <2>1. /\ \A q \in Objects : timerID'[q] = timerID[q]
        /\ timerID'[o] = 0 /\ DOMAIN timerID' = Objects \cup {o}
    BY <1>5, <1>9, 0 \in Nat
  <2>2. Places'
    BY <1>1, <1>3, <1>6, <1>7, <1>8, <1>9, <2>1 DEF Places
  <2>3. Holders'
    BY <1>1, <1>3, <1>6, <1>8, <1>9 DEF Holders
  <2>4. ParamFollows'
    <3>1. \A q \in Objects \cup {o} : timerID'[q] # 0 => q \in Objects /\ timerID'[q] = timerID[q]
      BY <2>1
    <3>2. \A q \in Objects : timerID[q] # 0 =>
            /\ timerID[q] \in DOMAIN autoscan_timed
            /\ autoscan_timed[timerID[q]] \in Objects
            /\ dirs[autoscan_timed[timerID[q]]].param = q
      BY <1>6, <1>7, <1>8, TimerFacts DEF ParamFollows
    <3>3. autoscan_timed' = autoscan_timed /\ 0 \notin Objects
      BY <1>9, TimerFacts
    <3>4. QED BY <1>1, <2>1, <3>1, <3>2, <3>3 DEF ParamFollows
  <2>5. QED BY <1>6, <2>2, <2>3, <2>4 DEF ListInv
<1>10. CASE /\ dirs'[o].scanID = slot /\ timerID' = Append(timerID, slot)
            /\ slot \in Nat
            /\ autoscan_timed' = Put(autoscan_timed, o)
  <2>1. /\ \A q \in Objects : timerID'[q] = timerID[q]
        /\ timerID'[o] = slot /\ DOMAIN timerID' = Objects \cup {o}
    BY <1>5, <1>10
  <2>2. /\ slot # 0 /\ (slot \in DOMAIN autoscan_timed => autoscan_timed[slot] = 0)
        /\ DOMAIN autoscan_timed' = DOMAIN autoscan_timed \cup {slot}
        /\ autoscan_timed'[slot] = o
        /\ \A i \in DOMAIN autoscan_timed : i # slot => autoscan_timed'[i] = autoscan_timed[i]
    <3>1. /\ SlotFor(autoscan_timed) \in Nat /\ SlotFor(autoscan_timed) # 0
          /\ SlotFor(autoscan_timed) \in DOMAIN autoscan_timed =>
                autoscan_timed[SlotFor(autoscan_timed)] = 0
          /\ DOMAIN Put(autoscan_timed, o) = DOMAIN autoscan_timed \cup {SlotFor(autoscan_timed)}
          /\ Put(autoscan_timed, o)[SlotFor(autoscan_timed)] = o
          /\ \A i \in DOMAIN autoscan_timed :
               i # SlotFor(autoscan_timed) => Put(autoscan_timed, o)[i] = autoscan_timed[i]
      BY <1>3, PutFacts
    <3>2. /\ slot # 0 /\ (slot \in DOMAIN autoscan_timed => autoscan_timed[slot] = 0)
          /\ DOMAIN Put(autoscan_timed, o) = DOMAIN autoscan_timed \cup {slot}
          /\ Put(autoscan_timed, o)[slot] = o
          /\ \A i \in DOMAIN autoscan_timed :
               i # slot => Put(autoscan_timed, o)[i] = autoscan_timed[i]
      BY <3>1 DEF slot
    <3>3. autoscan_timed' = Put(autoscan_timed, o)
      BY <1>10
    <3>4. QED BY <3>2, <3>3, Zenon
  <2>3. Places'
    BY <1>1, <1>3, <1>6, <1>7, <1>8, <1>10, <2>1, <2>2 DEF Places
  <2>4. Holders'
    <3> SUFFICES ASSUME NEW q \in Objects \cup {o}, dirs'[q].scanID # 0
                 PROVE  /\ dirs'[q].scanID \in DOMAIN autoscan_timed'
                        /\ autoscan_timed'[dirs'[q].scanID] = q
      BY <1>3 DEF Holders
    <3>1. CASE q = o
      BY <1>10, <2>2, <3>1
    <3>2. CASE q \in Objects
      <4>1. /\ dirs[q].scanID \in DOMAIN autoscan_timed /\ q # 0
            /\ autoscan_timed[dirs[q].scanID] = q /\ dirs'[q].scanID = dirs[q].scanID
        BY <1>1, <1>6, <1>8, <3>2, TimerFacts DEF Holders
      <4>2. QED BY <2>2, <4>1
    <3>3. QED BY <3>1, <3>2
  <2>5. ParamFollows'
    <3> SUFFICES ASSUME NEW q \in Objects \cup {o}, timerID'[q] # 0
                 PROVE  /\ timerID'[q] \in DOMAIN autoscan_timed'
                        /\ autoscan_timed'[timerID'[q]] # 0
                        /\ dirs'[autoscan_timed'[timerID'[q]]].param = q
      BY <2>1 DEF ParamFollows
    <3>1. CASE q = o
      BY <1>1, <1>3, <2>1, <2>2, <3>1
    <3>2. CASE q \in Objects
      <4>1. timerID'[q] = timerID[q]
        BY <2>1, <3>2
      <4>2. /\ timerID[q] \in DOMAIN autoscan_timed /\ autoscan_timed[timerID[q]] # 0
            /\ dirs[autoscan_timed[timerID[q]]].param = q
        BY <1>6, <1>8, <3>2, <4>1, TimerFacts DEF ParamFollows
      <4>3. autoscan_timed'[timerID[q]] = autoscan_timed[timerID[q]]
            /\ timerID[q] \in DOMAIN autoscan_timed'
        BY <2>2, <4>2
      <4>4. QED BY <1>1, <1>7, <4>1, <4>2, <4>3
    <3>3. QED BY <3>1, <3>2
  <2>6. QED BY <1>6, <2>3, <2>4, <2>5 DEF ListInv
<1>11. QED BY <1>2, <1>9, <1>10

\* The copy of an edited directory shares its place and its timer parameter.
LEMMA CopyKeepsList ==
    ASSUME TypeOK, Phases, ListInv, editCopy
    PROVE  ListInv'
<1> DEFINE copy == Len(dirs) + 1
<1>1. /\ ui.op = "edit" /\ ui.dir \in Objects
      /\ DirsStep /\ Len(dirs') = copy
      /\ \A q \in Objects : dirs'[q] = dirs[q]
      /\ dirs'[copy] = dirs[ui.dir]
      /\ timerID' = Append(timerID, 0) /\ autoscan_timed' = autoscan_timed
      /\ ui' = [ui EXCEPT !.op = "take", !.dir = copy]
  BY CopyStep
<1>2. /\ Objects' = Objects \cup {copy} /\ copy \notin Objects /\ copy # 0
      /\ \A q \in Objects : dirs[q].param \in Objects
  BY <1>1, ObjectFacts DEF Objects
<1>3. /\ \A q \in Objects : timerID'[q] = timerID[q]
      /\ timerID'[copy] = 0 /\ DOMAIN timerID' = Objects \cup {copy}
  BY <1>1, NewTimer, 0 \in Nat
<1> HIDE DEF copy
<1>4. ui'.op = "take" /\ ui'.dir = copy
  BY <1>1, TypeParts DEF Parts, UiType
<1>5. /\ \A q : ~Marked(q) /\ ~Marked(q)' /\ ~Copied(q)
      /\ \A q : Copied(q)' <=> q = copy
  BY <1>1, <1>4 DEF Marked, Copied
<1>6. \A i \in DOMAIN autoscan_timed : autoscan_timed[i] \in Objects \cup {0}
  BY TimerFacts
<1>7. Places'
  BY <1>1, <1>2, <1>3, <1>5, <1>6 DEF ListInv, Places
<1>8. Holders'
  BY <1>1, <1>2, <1>5 DEF ListInv, Holders
<1>9. ParamFollows'
  BY <1>1, <1>2, <1>3, <1>5, <1>6, TimerFacts DEF ListInv, ParamFollows
<1>10. Alone'
  <2>1. \A q \in Objects : dirs[q].scanID # 0 /\ dirs[q].param = dirs[ui.dir].param => q = ui.dir
    BY <1>1 DEF ListInv, Alone, AtList
  <2>2. QED BY <1>1, <1>2, <1>4, <2>1 DEF Alone
<1>11. Aside'
  BY <1>1, <1>2, <1>4, <1>5, <1>6 DEF Aside
<1>12. QED BY <1>7, <1>8, <1>9, <1>10, <1>11 DEF ListInv

\* Put on the list the copy takes over the timer parameter.
LEMMA AddKeepsList ==
    ASSUME TypeOK, Phases, ListInv, editAdd
    PROVE  ListInv'
<1> DEFINE slot == SlotFor(autoscan_timed)
           c == ui.dir
           par == dirs[c].param
<1>1. /\ ui.op = "put" /\ c \in Objects /\ slot \in Nat
      /\ DirsStep /\ Len(dirs') = Len(dirs)
      /\ \A q \in Objects : dirs'[q].scanID = IF q = c THEN slot ELSE dirs[q].scanID
      /\ timerID' = SetTimerID(dirs, timerID, {c}, slot)
      /\ autoscan_timed' = Put(autoscan_timed, c)
      /\ ui' = [ui EXCEPT !.op = "notify"]
  BY AddStep
<1>2. /\ Objects' = Objects /\ c # 0 /\ par \in Objects
      /\ \A q \in Objects : dirs[q].param \in Objects /\ dirs'[q].param = dirs[q].param
  BY <1>1, ObjectFacts, TimerFacts DEF Objects, DirsStep, Kept
<1>3. /\ \A q \in Objects : timerID'[q] = IF q = par THEN slot ELSE timerID[q]
      /\ DOMAIN timerID' = Objects
  <2> DEFINE tp == SetTimerID(dirs, timerID, {c}, slot)
  <2>1. /\ tp \in [Objects -> Nat]
        /\ \A q \in Objects :
             /\ (\E x \in {c} : dirs[x].param = q) => tp[q] = slot
             /\ ~(\E x \in {c} : dirs[x].param = q) => tp[q] = timerID[q]
    BY <1>1, TimerAfter
  <2> HIDE DEF tp, slot
  <2>2. QED BY <1>1, <2>1 DEF tp, slot
<1>4. /\ slot # 0 /\ (slot \in DOMAIN autoscan_timed => autoscan_timed[slot] = 0)
      /\ DOMAIN autoscan_timed' = DOMAIN autoscan_timed \cup {slot}
      /\ autoscan_timed'[slot] = c
      /\ \A i \in DOMAIN autoscan_timed : i # slot => autoscan_timed'[i] = autoscan_timed[i]
  <2>1. /\ SlotFor(autoscan_timed) \in Nat /\ SlotFor(autoscan_timed) # 0
        /\ SlotFor(autoscan_timed) \in DOMAIN autoscan_timed =>
              autoscan_timed[SlotFor(autoscan_timed)] = 0
        /\ DOMAIN Put(autoscan_timed, c) = DOMAIN autoscan_timed \cup {SlotFor(autoscan_timed)}
        /\ Put(autoscan_timed, c)[SlotFor(autoscan_timed)] = c
        /\ \A i \in DOMAIN autoscan_timed :
             i # SlotFor(autoscan_timed) => Put(autoscan_timed, c)[i] = autoscan_timed[i]
    BY <1>2, PutFacts
  <2>2. /\ slot # 0 /\ (slot \in DOMAIN autoscan_timed => autoscan_timed[slot] = 0)
        /\ DOMAIN Put(autoscan_timed, c) = DOMAIN autoscan_timed \cup {slot}
        /\ Put(autoscan_timed, c)[slot] = c
        /\ \A i \in DOMAIN autoscan_timed :
             i # slot => Put(autoscan_timed, c)[i] = autoscan_timed[i]
    BY <2>1 DEF slot
  <2>3. autoscan_timed' = Put(autoscan_timed, c)
    BY <1>1
  <2>4. QED BY <2>2, <2>3, Zenon
<1> HIDE DEF slot
<1>5. ui'.op = "notify"
  BY <1>1, TypeParts DEF Parts, UiType
<1>6. /\ \A q : ~Marked(q) /\ ~Marked(q)' /\ ~Copied(q)'
      /\ \A q : Copied(q) <=> q = c
  BY <1>1, <1>5 DEF Marked, Copied
<1>7. \A i \in DOMAIN autoscan_timed : autoscan_timed[i] \in Objects \cup {0} /\ i # 0
  BY TimerFacts
<1>8. \A i \in DOMAIN autoscan_timed : autoscan_timed[i] # c
  BY <1>2, <1>6 DEF ListInv, Aside
<1>9. \A q \in Objects : q # c /\ dirs[q].scanID # 0 => dirs[q].param # par
  BY <1>1 DEF ListInv, Alone, AtList
<1> HIDE DEF c, par
<1>10. \A i \in DOMAIN autoscan_timed : autoscan_timed[i] # 0 =>
          /\ autoscan_timed[i] \in Objects /\ autoscan_timed[i] # c
          /\ dirs[autoscan_timed[i]].scanID = i /\ dirs[autoscan_timed[i]].param # par
          /\ timerID[dirs[autoscan_timed[i]].param] = i
  BY <1>6, <1>7, <1>8, <1>9 DEF ListInv, Places
<1>11. dirs'[c].scanID = slot /\ dirs'[c].param = par /\ timerID'[par] = slot
  BY <1>1, <1>2, <1>3 DEF c, par
<1>12. Places'
  <2> SUFFICES ASSUME NEW i \in DOMAIN autoscan_timed', autoscan_timed'[i] # 0
               PROVE  /\ dirs'[autoscan_timed'[i]].scanID = i
                      /\ timerID'[dirs'[autoscan_timed'[i]].param] = i
    BY DEF Places
  <2>1. CASE i = slot
    BY <1>4, <1>11, <2>1
  <2>2. CASE i # slot
    <3> DEFINE x == autoscan_timed[i]
    <3>1. i \in DOMAIN autoscan_timed /\ autoscan_timed'[i] = x
      BY <1>4, <2>2
    <3>2. /\ x \in Objects /\ x # c /\ dirs[x].scanID = i /\ dirs[x].param # par
          /\ timerID[dirs[x].param] = i
      BY <1>10, <3>1
    <3> HIDE DEF x
    <3>3. dirs'[x].scanID = i /\ dirs'[x].param = dirs[x].param /\ dirs[x].param \in Objects
      BY <1>1, <1>2, <3>2 DEF c
    <3>4. timerID'[dirs[x].param] = i
      BY <1>3, <3>2, <3>3
    <3>5. QED BY <3>1, <3>3, <3>4
  <2>3. QED BY <2>1, <2>2
<1>13. Holders'
  <2> SUFFICES ASSUME NEW q \in Objects, dirs'[q].scanID # 0
               PROVE  /\ dirs'[q].scanID \in DOMAIN autoscan_timed'
                      /\ autoscan_timed'[dirs'[q].scanID] = q
    BY <1>2 DEF Holders
  <2>1. CASE q = c
    BY <1>4, <1>11, <2>1
  <2>2. CASE q # c
    <3>1. dirs'[q].scanID = dirs[q].scanID /\ q # 0
      BY <1>1, <2>2, TimerFacts
    <3>2. /\ dirs[q].scanID \in DOMAIN autoscan_timed /\ autoscan_timed[dirs[q].scanID] = q
      BY <1>6, <2>2, <3>1 DEF ListInv, Holders
    <3>3. QED BY <1>4, <3>1, <3>2
  <2>3. QED BY <2>1, <2>2
<1>14. ParamFollows'
  <2> SUFFICES ASSUME NEW p \in Objects, timerID'[p] # 0
               PROVE  /\ timerID'[p] \in DOMAIN autoscan_timed'
                      /\ autoscan_timed'[timerID'[p]] # 0
                      /\ dirs'[autoscan_timed'[timerID'[p]]].param = p
    BY <1>3 DEF ParamFollows
  <2>1. CASE p = par
    BY <1>2, <1>4, <1>11, <2>1 DEF c
  <2>2. CASE p # par
    <3>1. timerID'[p] = timerID[p]
      BY <1>3, <2>2
    <3>2. /\ timerID[p] \in DOMAIN autoscan_timed /\ autoscan_timed[timerID[p]] # 0
          /\ dirs[autoscan_timed[timerID[p]]].param = p
      BY <1>6, <3>1, TimerFacts DEF ListInv, ParamFollows
    <3>3. autoscan_timed'[timerID[p]] = autoscan_timed[timerID[p]]
          /\ timerID[p] \in DOMAIN autoscan_timed'
      BY <1>4, <3>2
    <3>4. QED BY <1>2, <1>7, <3>1, <3>2, <3>3
  <2>3. QED BY <2>1, <2>2
<1>15. Alone' /\ Aside'
  BY <1>5, <1>6 DEF Alone, Aside, AtList
<1>16. QED BY <1>12, <1>13, <1>14, <1>15 DEF ListInv

\* Nobody else in the list has the timer parameter of a directory in it.
LEMMA OwnParameter ==
    ASSUME TypeOK, ListInv, ui.op \notin AtList, NEW i \in DOMAIN autoscan_timed,
           autoscan_timed[i] # 0, NEW q \in Objects, dirs[q].scanID # 0,
           dirs[q].param = dirs[autoscan_timed[i]].param
    PROVE  q = autoscan_timed[i]
<1>1. \A x : ~Marked(x) /\ ~Copied(x)
  BY DEF Marked, Copied, AtList
<1>2. /\ dirs[q].scanID \in DOMAIN autoscan_timed /\ autoscan_timed[dirs[q].scanID] = q
      /\ q # 0
  BY <1>1, TimerFacts DEF ListInv, Holders
<1>3. timerID[dirs[q].param] = dirs[q].scanID
  BY <1>1, <1>2 DEF ListInv, Places
<1>4. timerID[dirs[autoscan_timed[i]].param] = i
  BY <1>1 DEF ListInv, Places
<1>5. QED BY <1>2, <1>3, <1>4

\* setAutoscanDirectory() chooses a directory of the list.
LEMMA ChooseKeepsList ==
    ASSUME TypeOK, ListInv, NEW o \in Objects, editAutoscanDirectory(o)
    PROVE  ListInv'
<1>1. /\ dirs' = dirs /\ timerID' = timerID /\ autoscan_timed' = autoscan_timed
      /\ Listed(o) /\ ui'.dir = o /\ ui'.op = "edit" /\ ui.op = "idle"
  BY DEF editAutoscanDirectory, Begin, Idle
<1>2. Objects' = Objects
  BY <1>1 DEF Objects
<1>3. /\ \A q : ~Marked(q) /\ ~Marked(q)' /\ ~Copied(q) /\ ~Copied(q)'
      /\ Aside'
  BY <1>1 DEF Marked, Copied, Aside
<1>4. Places' /\ Holders' /\ ParamFollows'
  <2>1. Places'
    BY <1>1, <1>3 DEF ListInv, Places
  <2>2. Holders' /\ ParamFollows'
    BY <1>1, <1>2, <1>3 DEF ListInv, Holders, ParamFollows
  <2>3. QED BY <2>1, <2>2
<1>5. Alone'
  <2>1. PICK i \in DOMAIN autoscan_timed : autoscan_timed[i] = o
    <3>1. DOMAIN autoscan_timed = 1 .. Len(autoscan_timed)
      BY TimerFacts, LenProperties
    <3>2. QED BY <1>1, <3>1 DEF Listed
  <2>2. \A q \in Objects : dirs[q].scanID # 0 /\ dirs[q].param = dirs[o].param => q = o
    <3>1. ui.op \notin AtList /\ o # 0
      BY <1>1, TimerFacts DEF AtList
    <3>2. QED BY <2>1, <3>1, OwnParameter
  <2>3. QED BY <1>1, <1>2, <2>2 DEF Alone
<1>6. QED BY <1>3, <1>4, <1>5 DEF ListInv

\* removeIfSubdir() copies a directory: its parameter has a place in another list.
LEMMA MarkKeepsList ==
    ASSUME TypeOK, ListInv, copySubdir
    PROVE  ListInv'
<1>1. PICK i \in SubAutoscans(ui.path) :
         /\ timerID' = SetTimerID(dirs, timerID, {autoscan_timed[i]}, ui.n + 1)
         /\ ui' = [ui EXCEPT !.op = "clear", !.dir = autoscan_timed[i],
                             !.objs = @ \cup {autoscan_timed[i]}, !.n = @ + 1]
  BY DEF copySubdir
<1> DEFINE o == autoscan_timed[i]
<1>2. /\ dirs' = dirs /\ autoscan_timed' = autoscan_timed /\ Objects' = Objects
      /\ ui.op = "copy"
  BY DEF copySubdir, Objects
<1>3. ui'.op = "clear" /\ ui'.dir = o /\ ui.n + 1 \in Nat
  BY <1>1, TypeParts DEF Parts, UiType
<1>4. i \in DOMAIN autoscan_timed /\ o # 0 /\ ~dirs[o].persistent /\ o \in Objects /\ i # 0
  <2>1. DOMAIN autoscan_timed = 1 .. Len(autoscan_timed)
    BY TimerFacts, LenProperties
  <2>2. i \in 1 .. Len(autoscan_timed) /\ o # 0 /\ ~dirs[o].persistent
    BY DEF SubAutoscans, ListedAt
  <2>3. QED BY <2>1, <2>2, TimerFacts
<1> HIDE DEF o
<1>5. /\ DOMAIN timerID' = Objects
      /\ \A p \in Objects : p # dirs[o].param => timerID'[p] = timerID[p]
  <2> DEFINE tp == SetTimerID(dirs, timerID, {o}, ui.n + 1)
  <2>1. /\ tp \in [Objects -> Nat]
        /\ \A q \in Objects :
             ~(\E x \in {o} : dirs[x].param = q) => tp[q] = timerID[q]
    BY <1>3, TimerAfter
  <2>2. timerID' = tp
    BY <1>1 DEF o
  <2> HIDE DEF tp
  <2>3. QED BY <2>1, <2>2
<1>6. /\ \A q : ~Marked(q) /\ ~Copied(q) /\ ~Copied(q)'
      /\ \A q : Marked(q)' <=> q = dirs[o].param
  BY <1>2, <1>3 DEF Marked, Copied
<1>7. /\ \A x \in DOMAIN autoscan_timed : autoscan_timed[x] \in Objects \cup {0}
      /\ \A x \in Objects : dirs[x].param \in Objects
  BY TimerFacts, ObjectFacts
<1>8. Places'
  BY <1>2, <1>5, <1>6, <1>7 DEF ListInv, Places
<1>9. Holders'
  BY <1>2, <1>6 DEF ListInv, Holders
<1>10. ParamFollows'
  BY <1>2, <1>5, <1>6, TimerFacts DEF ListInv, ParamFollows
<1>11. Alone'
  <2>1. \A q \in Objects : dirs[q].scanID # 0 /\ dirs[q].param = dirs[o].param => q = o
    BY <1>2, <1>4, OwnParameter DEF AtList, o
  <2>2. QED BY <1>2, <1>3, <2>1 DEF Alone
<1>12. Aside'
  <2>1. dirs[o].scanID # 0
    BY <1>4, <1>6 DEF ListInv, Places, o
  <2>2. QED BY <1>2, <1>3, <1>4, <1>6, <2>1 DEF Aside
<1>13. QED BY <1>8, <1>9, <1>10, <1>11, <1>12 DEF ListInv

LEMMA ListStep ==
    ASSUME ShapeInv, ListInv, [Next]_vars
    PROVE  ListInv'
<1>0. TypeOK /\ Phases /\ DirsStep
  BY StepKinds DEF ShapeInv
<1>1. CASE Quiet
  BY <1>0, <1>1, QuietKeepsList
<1>2. ASSUME NEW o \in Objects, editAutoscanDirectory(o) PROVE ListInv'
  BY <1>0, <1>2, ChooseKeepsList
<1>3. ASSUME NEW p \in Paths, setAutoscanDirectory(p) PROVE ListInv'
  BY <1>0, <1>3, SetKeepsList
<1>4. CASE editCopy \/ editAdd \/ copySubdir
  BY <1>0, <1>4, CopyKeepsList, AddKeepsList, MarkKeepsList
<1>5. CASE clearSubdir
  <2> DEFINE id == dirs[ui.dir].scanID
  <2>1. ui.op = "clear" /\ ui.dir \in Objects
    <3>1. ui.op = "clear"
      BY <1>5 DEF clearSubdir
    <3>2. QED BY <1>0, <3>1, DirOfUi DEF AtList
  <2>2. id \in DOMAIN autoscan_timed /\ autoscan_timed[id] = ui.dir /\ ui.dir # 0
    BY <1>0, <2>1, TimerFacts DEF ListInv, Aside, Holders, Copied
  <2>3. ui'.op \notin AtList
    BY <1>0, <1>5, TypeParts DEF Parts, UiType, clearSubdir, AtList
  <2>4. Going({id})
    BY <1>5, <2>1, <2>2, <2>3 DEF Going, clearSubdir
  <2>5. QED BY <1>0, <2>4, ClearKeepsList
<1>6. ASSUME NEW ids, ClearStep(ids) PROVE ListInv'
  <2>1. ui.op # "clear"
    BY <1>6 DEF ClearStep, ListFree
  <2>2. \/ ui' = ui
        \/ ui.op = "take" /\ ui'.op = "put" /\ ui'.dir = ui.dir /\ ids = {dirs[ui.dir].scanID}
    BY <1>0, <1>6, TypeParts DEF ClearStep, Parts, UiType
  <2>3. Going(ids)
    BY <1>6, <2>1, <2>2 DEF Going, ClearStep
  <2>4. QED BY <1>0, <2>3, ClearKeepsList
<1>7. CASE editRemove /\ UNCHANGED <<dirs, autoscan_timed, timerID>>
  <2>1. ui.op = "take" /\ ui.dir \in Objects
    <3>1. ui.op = "take"
      BY <1>7 DEF editRemove
    <3>2. QED BY <1>0, <3>1, DirOfUi DEF AtList
  <2>2. CASE ui' = ui
    BY <1>0, <1>7, <2>2, SameDirs, QuietKeepsList DEF Quiet
  <2>3. CASE RemoveID(dirs[ui.dir].scanID) /\ ui' = [ui EXCEPT !.op = "put"]
    <3>1. ui'.op = "put" /\ ui'.dir = ui.dir /\ Objects' = Objects
      BY <1>0, <1>7, <2>3, TypeParts DEF Parts, UiType, Objects
    <3>2. /\ \A q : ~Marked(q) /\ ~Marked(q)' /\ (Copied(q)' <=> Copied(q))
      BY <2>1, <3>1 DEF Marked, Copied
    <3>3. Places' /\ Holders' /\ ParamFollows' /\ Aside'
      <4>1. Places' /\ Holders'
        BY <1>7, <3>1, <3>2 DEF ListInv, Places, Holders
      <4>2. ParamFollows' /\ Aside'
        BY <1>7, <3>1, <3>2 DEF ListInv, ParamFollows, Aside
      <4>3. QED BY <4>1, <4>2
    <3>4. ~(dirs[ui.dir].scanID \in DOMAIN autoscan_timed
            /\ autoscan_timed[dirs[ui.dir].scanID] # 0)
      <4>1. SUFFICES ASSUME dirs[ui.dir].scanID \in DOMAIN autoscan_timed,
                            autoscan_timed[dirs[ui.dir].scanID] # 0
                     PROVE  FALSE
        OBVIOUS
      <4> DEFINE i == dirs[ui.dir].scanID
                 x == autoscan_timed[i]
      <4>2. RemoveFromList({i})
        BY <2>3, <4>1 DEF RemoveID
      <4>3. x \in Objects /\ dirs[x].scanID = i /\ i # 0
        BY <1>0, <4>1, TimerFacts DEF ListInv, Places
      <4>4. dirs'[x].scanID = 0
        BY <1>0, <4>2, <4>3, RemoveStep
      <4>5. QED BY <1>7, <4>3, <4>4
    <3>5. Alone'
      <4> SUFFICES ASSUME NEW q \in Objects, dirs[q].scanID # 0,
                          dirs[q].param = dirs[ui.dir].param, q # ui.dir
                   PROVE  FALSE
        BY <1>7, <3>1 DEF Alone
      <4>1. dirs[q].scanID = dirs[ui.dir].scanID
        BY <2>1 DEF ListInv, Alone, AtList
      <4>2. dirs[q].scanID \in DOMAIN autoscan_timed /\ autoscan_timed[dirs[q].scanID] = q
            /\ q # 0
        BY <1>0, TimerFacts DEF ListInv, Holders, Copied
      <4>3. QED BY <3>4, <4>1, <4>2
    <3>6. QED BY <3>3, <3>5 DEF ListInv
  <2>4. QED BY <1>7, <2>2, <2>3 DEF editRemove
<1>8. QED BY <1>1, <1>2, <1>3, <1>4, <1>5, <1>6, <1>7, StepKinds DEF StepKind

----------------------------------------------------------------------------
(* Types                                                                   *)
LEMMA MoreObjects ==
    ASSUME TypeOK, DirsStep
    PROVE  /\ Objects \subseteq Objects' /\ Tasks \subseteq Tasks'
           /\ Len(dirs) \in Nat /\ Len(dirs') \in Nat
<1>1. Objects \subseteq Objects' /\ Len(dirs) \in Nat /\ Len(dirs') \in Nat
  BY ObjectFacts DEF DirsStep, Kept, Objects
<1>2. QED BY <1>1 DEF Tasks

LEMMA ListTypes ==
    ASSUME ShapeInv, [Next]_vars
    PROVE  /\ timerID' \in [Objects' -> Nat]
           /\ autoscan_timed' \in Seq(Objects' \cup {0})
<1>0. TypeOK /\ Phases /\ DirsStep
  BY StepKinds DEF ShapeInv
<1> DEFINE S == Objects \cup {0}
           Timers == timerID' \in [Objects' -> Nat]
           List == autoscan_timed' \in Seq(Objects' \cup {0})
<1>1. autoscan_timed \in Seq(S) /\ timerID \in [Objects -> Nat]
  BY <1>0, TimerFacts
<1>2. ASSUME NEW ids, RemoveFromList(ids)
      PROVE  Timers /\ List
  <2>1. Len(dirs') = Len(dirs) /\ Objects' = Objects
    BY <1>0, <1>2, RemoveStep DEF Objects
  <2>2. /\ autoscan_timed' = Take(autoscan_timed, ids)
        /\ timerID' = SetTimerID(dirs, timerID, {autoscan_timed[i] : i \in ids}, 0)
    BY <1>2 DEF RemoveFromList
  <2>3. autoscan_timed' \in Seq(S)
    <3>1. 0 \in S
      OBVIOUS
    <3> HIDE DEF S
    <3>2. QED BY <1>1, <2>2, <3>1, TakeEmpties
  <2>4. timerID' \in [Objects -> Nat]
    BY <1>0, <2>2, TimerAfter, 0 \in Nat
  <2>5. QED BY <2>1, <2>3, <2>4
<1>3. ASSUME Len(dirs') = Len(dirs) + 1, NEW id, id \in Nat, timerID' = Append(timerID, id)
      PROVE  Timers
  <2>1. Objects' = Objects \cup {Len(dirs) + 1}
    BY <1>0, <1>3, ObjectFacts DEF Objects
  <2>2. QED BY <1>0, <1>1, <1>3, <2>1, AppendTimer
<1>4. ASSUME Len(dirs') = Len(dirs), NEW os, NEW id, id \in Nat,
             timerID' = SetTimerID(dirs, timerID, os, id)
      PROVE  Timers
  BY <1>0, <1>4, TimerAfter DEF Objects
<1>5. ASSUME NEW o, o \in Objects', autoscan_timed' = Put(autoscan_timed, o)
      PROVE  List
  <2> DEFINE T == Objects' \cup {0}
  <2>1. S \subseteq T /\ o \in T
    BY <1>0, <1>5, MoreObjects
  <2> HIDE DEF T, S
  <2>2. autoscan_timed \in Seq(T)
    BY <1>1, <2>1, SeqMonotonic
  <2>3. autoscan_timed' \in Seq(T)
    BY <1>5, <2>1, <2>2, PutIsSeq
  <2>4. QED BY <2>3 DEF T
<1>6. ASSUME autoscan_timed' = autoscan_timed PROVE List
  <2>1. S \subseteq Objects' \cup {0}
    BY <1>0, MoreObjects
  <2> HIDE DEF S
  <2>2. QED BY <1>1, <1>6, <2>1, SeqMonotonic
<1>7. ASSUME Objects' = Objects, timerID' = timerID PROVE Timers
  BY <1>1, <1>7
<1> HIDE DEF Timers, List
<1>8. ASSUME Quiet PROVE Timers /\ List
  <2>1. Objects' = Objects /\ UNCHANGED <<autoscan_timed, timerID>>
    BY <1>8 DEF Quiet, SameScans, Objects
  <2>2. QED BY <1>6, <1>7, <2>1
<1>9. ASSUME NEW o \in Objects, editAutoscanDirectory(o) PROVE Timers /\ List
  <2>1. Objects' = Objects /\ UNCHANGED <<autoscan_timed, timerID>>
    BY <1>9 DEF editAutoscanDirectory, Objects
  <2>2. QED BY <1>6, <1>7, <2>1
<1>10. ASSUME NEW p \in Paths, setAutoscanDirectory(p)
       PROVE  Timers /\ List
  <2>1. Len(dirs') = Len(dirs) + 1 /\ Len(dirs) + 1 \in Objects'
    BY <1>0, <1>10, SetStep, MoreObjects DEF Objects
  <2>2. \/ timerID' = Append(timerID, 0) /\ UNCHANGED autoscan_timed
        \/ /\ timerID' = Append(timerID, SlotFor(autoscan_timed))
           /\ SlotFor(autoscan_timed) \in Nat
           /\ autoscan_timed' = Put(autoscan_timed, Len(dirs) + 1)
    BY <1>0, <1>10, SetStep
  <2>3. Timers
    BY <1>3, <2>1, <2>2, 0 \in Nat
  <2>4. List
    BY <1>5, <1>6, <2>1, <2>2
  <2>5. QED BY <2>3, <2>4
<1>11. ASSUME editCopy PROVE Timers /\ List
  <2>1. /\ Len(dirs') = Len(dirs) + 1
        /\ timerID' = Append(timerID, 0) /\ autoscan_timed' = autoscan_timed
    BY <1>0, <1>11, CopyStep
  <2>2. QED BY <1>3, <1>6, <2>1, 0 \in Nat
<1>12. ASSUME editAdd PROVE Timers /\ List
  <2> DEFINE slot == SlotFor(autoscan_timed)
  <2>1. /\ Len(dirs') = Len(dirs) /\ slot \in Nat /\ ui.dir \in Objects
        /\ timerID' = SetTimerID(dirs, timerID, {ui.dir}, slot)
        /\ autoscan_timed' = Put(autoscan_timed, ui.dir)
    BY <1>0, <1>12, AddStep
  <2> HIDE DEF slot
  <2>2. ui.dir \in Objects'
    BY <1>0, <2>1, MoreObjects
  <2>3. QED BY <1>4, <1>5, <2>1, <2>2
<1>13. ASSUME copySubdir PROVE Timers /\ List
  <2>1. PICK i : timerID' = SetTimerID(dirs, timerID, {autoscan_timed[i]}, ui.n + 1)
    BY <1>13 DEF copySubdir
  <2>2. dirs' = dirs /\ autoscan_timed' = autoscan_timed
    BY <1>13 DEF copySubdir
  <2>3. ui.n + 1 \in Nat
    BY <1>0, TypeParts DEF Parts, UiType
  <2>4. QED BY <1>4, <1>6, <2>1, <2>2, <2>3
<1>14. ASSUME clearSubdir PROVE Timers /\ List
  BY <1>2, <1>14 DEF clearSubdir
<1>15. ASSUME UNCHANGED <<dirs, autoscan_timed, timerID>> PROVE Timers /\ List
  BY <1>6, <1>7, <1>15 DEF Objects
<1>16. ASSUME NEW ids, ClearStep(ids)
       PROVE  Timers /\ List
  BY <1>2, <1>16 DEF ClearStep
<1>17. Timers /\ List
  BY <1>8, <1>9, <1>10, <1>11, <1>12, <1>13, <1>14, <1>15, <1>16, StepKinds DEF StepKind
<1>18. QED BY <1>17 DEF Timers, List

LEMMA TimerTypeStep ==
    ASSUME ShapeInv, [Next]_vars
    PROVE  TimerType'
<1>0. TypeOK /\ Phases /\ DirsStep
  BY StepKinds DEF ShapeInv
<1>1. /\ Objects \subseteq Objects' /\ subscribers \subseteq Objects
      /\ notifying \in subscribers \cup {0}
  BY <1>0, MoreObjects, TypeParts DEF Parts, TimerType
<1> SUFFICES subscribers' \subseteq Objects' /\ notifying' \in subscribers' \cup {0}
  BY ListTypes DEF TimerType
<1>2. CASE UNCHANGED <<subscribers, notifying>>
  BY <1>1, <1>2
<1>3. CASE notifying' = 0 /\ subscribers' \subseteq subscribers
  BY <1>1, <1>3
<1>4. CASE \/ dequeue \/ threadExit \/ skipInvalid \/ runRemove \/ runAdd \/ addEnd
           \/ \E p \in Paths : addEntry(p)
  BY <1>2, <1>4 DEF dequeue, threadExit, skipInvalid, runRemove, runAdd, addEnd, addEntry,
     timerVars
<1>5. CASE \/ runRescan \/ enterScan \/ openScan \/ loadScan \/ dropLookup \/ dropRemove
           \/ rescanEntry \/ addNewEntry \/ scanEnd \/ scanFails \/ rescanDone
           \/ \E p \in Paths : scanEntry(p)
  BY <1>2, <1>5 DEF runRescan, enterScan, openScan, loadScan, dropLookup, dropRemove,
     rescanEntry, addNewEntry, scanEnd, scanFails, rescanDone, scanEntry, timerVars
<1>6. CASE unsubscribe \/ timerNotified \/ removeTimers
  BY <1>3, <1>6 DEF unsubscribe, timerNotified, removeTimers
<1>7. ASSUME NEW o \in DOMAIN dirs, editAutoscanDirectory(o)
      PROVE  subscribers' \subseteq Objects' /\ notifying' \in subscribers' \cup {0}
  BY <1>3, <1>7 DEF editAutoscanDirectory
<1>8. CASE subscribe
  <2>1. dir \in Objects
    BY <1>0, <1>8, TypeParts DEF Phases, ThreadPhases, InRescan, Parts, LocalType, subscribe
  <2>2. dirs[dir].param \in Objects
    BY <1>0, <2>1, ObjectFacts
  <2>3. subscribers' = subscribers \cup {dirs[dir].param} /\ notifying' = 0
    BY <1>8 DEF subscribe
  <2>4. QED BY <1>1, <2>2, <2>3
<1>9. ASSUME NEW p \in DOMAIN dirs, timerFire(p)
      PROVE  subscribers' \subseteq Objects' /\ notifying' \in subscribers' \cup {0}
  BY <1>1, <1>9 DEF timerFire
<1>10. CASE \/ \E p \in Paths : setAutoscanDirectory(p) \/ removeObject(p) \/ addFile(p)
            \/ \E o \in DOMAIN dirs : removeAutoscanDirectory(o)
            \/ \E id \in 1 .. taskID : invalidateTask(id)
  BY <1>2, <1>10 DEF setAutoscanDirectory, removeObject, addFile, removeAutoscanDirectory,
     invalidateTask, timerVars
<1>11. CASE \/ setNotify \/ setDone \/ editCopy \/ editRemove \/ editAdd \/ copySubdir
            \/ clearSubdir
  BY <1>2, <1>11 DEF setNotify, setDone, editCopy, editRemove, editAdd, copySubdir, clearSubdir
<1>12. CASE \/ invalidateAddTasks \/ addRemoveTask \/ shutdown
            \/ \E p \in Paths : changeDisk(p)
            \/ \E c \in {"timer", "web"} : Notification(c)
  BY <1>2, <1>12 DEF invalidateAddTasks, addRemoveTask, shutdown, changeDisk, timerVars,
     Notification, getDir, readDir, queueRescan
<1>13. CASE UNCHANGED vars
  BY <1>2, <1>13 DEF vars, timerVars
<1>14. CASE TaskThread
  BY <1>4, <1>5, <1>6, <1>8, <1>14 DEF TaskThread
<1>15. CASE Request \/ RequestGoesOn
  BY <1>6, <1>7, <1>10, <1>11, <1>12, <1>15 DEF Request, RequestGoesOn
<1>16. QED BY <1>6, <1>9, <1>12, <1>13, <1>14, <1>15 DEF Next, TimerGoesOn

\* The thread and the requests leave the notifications alone.
LEMMA CallTypeStep ==
    ASSUME ShapeInv, [Next]_vars
    PROVE  CallType' /\ CallPhases'
<1>0. TypeOK /\ Phases /\ DirsStep
  BY StepKinds DEF ShapeInv
<1>1. /\ Objects \subseteq Objects' /\ CallType /\ CallPhases
  BY <1>0, MoreObjects, TypeParts DEF Parts, Phases
<1>2. ASSUME UNCHANGED <<call, notifying>>, ui' = ui \/ ui.op # "notify"
      PROVE  CallType' /\ CallPhases'
  BY <1>1, <1>2 DEF CallType, CallPhases
<1>3. ASSUME NEW c \in {"timer", "web"}, NEW r, call' = [call EXCEPT ![c] = r],
             r \in [at : {"none", "get", "read", "queue", "done"}, id : Nat,
                    dir : Objects \cup {0}, inc : Nat, scan : Nat],
             r.at \in {"read", "queue"} => r.dir # 0,
             c = "timer" => ((r.at # "none" <=> notifying' # 0) /\ (ui' = ui \/ ui.op # "notify")),
             c = "web" => notifying' = notifying /\ (r.at # "none" => ui'.op = "notify")
      PROVE  CallType' /\ CallPhases'
  <2>1. \A x \in {"timer", "web"} : call'[x] = IF x = c THEN r ELSE call[x]
    BY <1>1, <1>3 DEF CallType
  <2>2. CallType'
    BY <1>1, <1>3 DEF CallType
  <2>3. CallPhases'
    <3>1. CASE c = "timer"
      BY <1>1, <1>3, <2>1, <3>1 DEF CallPhases
    <3>2. CASE c = "web"
      BY <1>1, <1>3, <2>1, <3>2 DEF CallPhases
    <3>3. QED BY <3>1, <3>2
  <2>4. QED BY <2>2, <2>3
<1>4. CASE \/ dequeue \/ threadExit \/ skipInvalid \/ runRemove \/ runAdd \/ addEnd
           \/ \E p \in Paths : addEntry(p)
  BY <1>2, <1>4 DEF dequeue, threadExit, skipInvalid, runRemove, runAdd, addEnd, addEntry,
     timerVars
<1>5. CASE \/ runRescan \/ enterScan \/ openScan \/ loadScan \/ dropLookup \/ dropRemove
           \/ unsubscribe \/ subscribe
  BY <1>2, <1>5 DEF runRescan, enterScan, openScan, loadScan, dropLookup, dropRemove,
     unsubscribe, subscribe, timerVars
<1>6. CASE \/ rescanEntry \/ addNewEntry \/ scanEnd \/ scanFails \/ rescanDone
           \/ \E p \in Paths : scanEntry(p)
  BY <1>2, <1>6 DEF rescanEntry, addNewEntry, scanEnd, scanFails, rescanDone, scanEntry,
     timerVars
<1>7. ui = Idle => ui.op # "notify"
  BY DEF Idle
<1>8. CASE \/ \E p \in Paths : setAutoscanDirectory(p) \/ removeObject(p) \/ addFile(p)
           \/ \E o \in DOMAIN dirs : editAutoscanDirectory(o) \/ removeAutoscanDirectory(o)
           \/ \E id \in 1 .. taskID : invalidateTask(id)
  BY <1>2, <1>7, <1>8 DEF setAutoscanDirectory, removeObject, addFile, editAutoscanDirectory,
     removeAutoscanDirectory, invalidateTask, timerVars, Begin
<1>9. CASE \/ editCopy \/ editRemove \/ editAdd \/ copySubdir \/ clearSubdir
           \/ removeTimers \/ invalidateAddTasks \/ addRemoveTask
  BY <1>2, <1>9 DEF editCopy, editRemove, editAdd, copySubdir, clearSubdir, removeTimers,
     invalidateAddTasks, addRemoveTask, timerVars
<1>10. CASE shutdown \/ (\E p \in Paths : changeDisk(p)) \/ UNCHANGED vars
  BY <1>2, <1>10 DEF shutdown, changeDisk, vars, timerVars
<1>11. /\ NoCall \in [at : {"none", "get", "read", "queue", "done"}, id : Nat,
                      dir : Objects \cup {0}, inc : Nat, scan : Nat]
       /\ NoCall.at = "none"
  BY DEF NoCall
<1>12. ASSUME NEW c \in {"timer", "web"}, NEW p \in Objects, timerNotify(c, p),
              c = "timer" => notifying' # 0,
              c = "web" => notifying' = notifying /\ ui.op = "notify",
              ui' = ui
       PROVE  CallType' /\ CallPhases'
  <2> DEFINE r == [call[c] EXCEPT !.at = "get", !.id = timerID[p]]
  <2>1. call' = [call EXCEPT ![c] = r]
    BY <1>1, <1>12 DEF timerNotify, CallType
  <2>2. timerID[p] \in Nat
    BY <1>0, TimerFacts
  <2>3. /\ r \in [at : {"none", "get", "read", "queue", "done"}, id : Nat,
                  dir : Objects \cup {0}, inc : Nat, scan : Nat]
        /\ r.at = "get"
    BY <1>1, <2>2 DEF CallType
  <2> HIDE DEF r
  <2>4. QED BY <1>3, <1>12, <2>1, <2>3
<1>13. ASSUME NEW p \in DOMAIN dirs, timerFire(p)
       PROVE  CallType' /\ CallPhases'
  <2>1. p \in Objects /\ p # 0
    BY <1>0, ObjectFacts DEF Objects
  <2>2. timerNotify("timer", p) /\ notifying' = p /\ ui' = ui
    BY <1>13 DEF timerFire
  <2>3. QED BY <1>12, <2>1, <2>2
<1>14. CASE setNotify
  <2>1. ui.op = "notify" /\ ui.dir \in Objects
    BY <1>0, <1>14, TypeParts DEF Parts, UiType, Phases, RequestPhases, setNotify
  <2>2. dirs[ui.dir].param \in Objects
    BY <1>0, <2>1, ObjectFacts
  <2>3. timerNotify("web", dirs[ui.dir].param) /\ UNCHANGED <<notifying, ui>>
    BY <1>14 DEF setNotify
  <2>4. QED BY <1>12, <2>1, <2>2, <2>3
<1>15. CASE timerNotified
  <2>1. call' = [call EXCEPT !["timer"] = NoCall] /\ notifying' = 0 /\ ui' = ui
    BY <1>15 DEF timerNotified, CallEnds
  <2>2. QED BY <1>3, <1>11, <2>1
<1>16. CASE setDone
  <2>1. call' = [call EXCEPT !["web"] = NoCall] /\ notifying' = notifying
    BY <1>16 DEF setDone, CallEnds
  <2>2. QED BY <1>3, <1>11, <2>1
<1>17. ASSUME NEW c \in {"timer", "web"}, Notification(c)
       PROVE  CallType' /\ CallPhases'
  <2>1. /\ call[c].at \in {"get", "read", "queue"} /\ UNCHANGED <<notifying, ui>>
        /\ call[c] \in [at : {"none", "get", "read", "queue", "done"}, id : Nat,
                        dir : Objects \cup {0}, inc : Nat, scan : Nat]
    BY <1>1, <1>17 DEF Notification, getDir, readDir, queueRescan, CallType
  <2>2. /\ c = "timer" => notifying # 0
        /\ c = "web" => ui.op = "notify"
    BY <1>1, <2>1 DEF CallPhases
  <2>3. ASSUME NEW r, call' = [call EXCEPT ![c] = r], r.at \in {"read", "queue", "done"},
               r \in [at : {"none", "get", "read", "queue", "done"}, id : Nat,
                      dir : Objects \cup {0}, inc : Nat, scan : Nat],
               r.at \in {"read", "queue"} => r.dir # 0
        PROVE  CallType' /\ CallPhases'
    BY <1>3, <2>1, <2>2, <2>3
  <2>4. CASE getDir(c)
    <3> DEFINE o == Get(autoscan_timed, call[c].id)
               r == [call[c] EXCEPT !.at = IF o = 0 THEN "done" ELSE "read", !.dir = o]
    <3>1. call' = [call EXCEPT ![c] = r]
      BY <1>1, <2>4 DEF getDir, CallType
    <3>2. o \in Objects \cup {0}
      BY <1>0, <2>1, GetObject
    <3> HIDE DEF o
    <3>3. /\ r \in [at : {"none", "get", "read", "queue", "done"}, id : Nat,
                    dir : Objects \cup {0}, inc : Nat, scan : Nat]
          /\ r.at = (IF o = 0 THEN "done" ELSE "read") /\ r.dir = o
      BY <2>1, <3>2
    <3> HIDE DEF r
    <3>4. QED BY <2>3, <3>1, <3>3
  <2>5. CASE readDir(c)
    <3> DEFINE d == dirs[call[c].dir]
               r == [call[c] EXCEPT !.at = "queue", !.inc = d.objectID, !.scan = d.scanID]
    <3>1. call' = [call EXCEPT ![c] = r] /\ call[c].dir # 0
      BY <1>1, <2>5 DEF readDir, CallType, CallPhases
    <3>2. d.objectID \in Nat /\ d.scanID \in Nat
      BY <1>0, <2>1, <3>1, ObjectFacts
    <3> HIDE DEF d
    <3>3. /\ r \in [at : {"none", "get", "read", "queue", "done"}, id : Nat,
                    dir : Objects \cup {0}, inc : Nat, scan : Nat]
          /\ r.at = "queue" /\ r.dir = call[c].dir
      BY <2>1, <3>2
    <3> HIDE DEF r
    <3>4. QED BY <2>3, <3>1, <3>3
  <2>6. CASE queueRescan(c)
    <3> DEFINE r == [call[c] EXCEPT !.at = "done"]
    <3>1. call' = [call EXCEPT ![c] = r]
      BY <1>1, <2>6 DEF queueRescan, CallType
    <3>2. /\ r \in [at : {"none", "get", "read", "queue", "done"}, id : Nat,
                    dir : Objects \cup {0}, inc : Nat, scan : Nat]
          /\ r.at = "done"
      BY <2>1
    <3> HIDE DEF r
    <3>3. QED BY <2>3, <3>1, <3>2
  <2>7. QED BY <1>17, <2>4, <2>5, <2>6 DEF Notification
<1>18. CASE TaskThread
  BY <1>4, <1>5, <1>6, <1>18 DEF TaskThread
<1>19. CASE Request \/ RequestGoesOn
  BY <1>8, <1>9, <1>14, <1>16, <1>17, <1>19 DEF Request, RequestGoesOn
<1>20. QED BY <1>10, <1>13, <1>15, <1>17, <1>18, <1>19 DEF Next, TimerGoesOn

LEMMA OldestQueued ==
    ASSUME NEW queue, queue # {}, \A t \in queue : t.id \in Nat
    PROVE  Oldest(queue) \in queue /\ \A u \in queue : Oldest(queue).id <= u.id
<1> DEFINE ids == {t.id : t \in queue}
<1>1. ids \subseteq Nat /\ ids # {}
  OBVIOUS
<1>2. PICK n \in ids : \A m \in ids : n <= m
  BY <1>1, SmallestNat
<1>3. \E t \in queue : \A u \in queue : t.id <= u.id
  BY <1>2
<1>4. QED BY <1>3 DEF Oldest

LEMMA InvalidatedIsTask ==
    ASSUME NEW t \in Tasks, NEW meant \in BOOLEAN
    PROVE  Invalidated(t, meant) \in Tasks /\ Invalidated(t, meant).id = t.id
BY DEF Invalidated, Tasks

LEMMA InvalidatedNone ==
    ASSUME NEW meant \in BOOLEAN
    PROVE  Invalidated(NoTask, meant) = NoTask
<1>1. NoTask.valid = FALSE
  BY DEF NoTask
<1>2. Invalidated(NoTask, meant) = [NoTask EXCEPT !.valid = FALSE]
  BY <1>1 DEF Invalidated
<1>3. QED BY <1>2 DEF NoTask

LEMMA TaskFacts ==
    ASSUME TypeOK
    PROVE  /\ taskQueue1 \subseteq Tasks /\ taskQueue2 \subseteq Tasks /\ taskID \in Nat
           /\ currentTask \in Tasks \cup {NoTask} /\ shutdownFlag \in BOOLEAN
           /\ \A t \in taskQueue1 : t.id < taskID
           /\ \A t \in taskQueue2 : t.id < taskID
           /\ \A t \in Tasks : t.id \in Nat /\ t.path \in Paths /\ t.inc \in Nat
                               /\ t.scanID \in Nat /\ t.from \in Objects \cup {0}
BY TypeParts DEF Parts, TaskType, Tasks

\* A queue after one more task.
LEMMA TaskAdded ==
    ASSUME TypeOK, NEW queue, queue \subseteq Tasks, \A t \in queue : t.id < taskID,
           NEW new \in Tasks, new.id = taskID, taskID' = taskID + 1
    PROVE  /\ queue \cup {new} \subseteq Tasks /\ taskID' \in Nat
           /\ \A t \in queue \cup {new} : t.id < taskID'
           /\ \A t \in taskQueue1 \cup taskQueue2 : t.id < taskID'
<1>1. taskID \in Nat /\ \A t \in taskQueue1 \cup taskQueue2 : t.id < taskID
  BY TaskFacts
<1>2. \A t \in Tasks : t.id \in Nat
  BY TaskFacts
<1>3. taskQueue1 \cup taskQueue2 \subseteq Tasks
  BY TaskFacts
<1>4. QED BY <1>1, <1>2, <1>3

\* A queue some of whose tasks were invalidated.
LEMMA TasksInvalidated ==
    ASSUME TypeOK, NEW queue, queue \subseteq Tasks, \A t \in queue : t.id < taskID,
           NEW S, \A s \in S : \E t \in queue, b \in BOOLEAN : s = Invalidated(t, b)
    PROVE  S \subseteq Tasks /\ \A s \in S : s.id < taskID
BY InvalidatedIsTask

\* The queue after rescanDirectory(): nothing, or a task for the directory.
LEMMA RescanTask ==
    ASSUME TypeOK, NEW path \in Paths, NEW inc, inc \in Nat, NEW scan, scan \in Nat,
           rescanDirectory(path, inc, scan)
    PROVE  \/ UNCHANGED <<taskQueue2, taskID>>
           \/ \E new \in Tasks : new.id = taskID /\ taskID' = taskID + 1 /\ new.type = "rescan"
                                 /\ new.valid /\ taskQueue2' = taskQueue2 \cup {new}
<1> DEFINE o == Get(autoscan_timed, scan)
           new == Task("rescan", path, inc, scan, 0, o)
<1>1. CASE o = 0
  BY <1>1 DEF rescanDirectory
<1>2. CASE o # 0
  <2>1. o \in Objects
    BY <1>2, GetObject
  <2>2. taskQueue2' = taskQueue2 \cup {new} /\ taskID' = taskID + 1
    BY <1>2 DEF rescanDirectory
  <2>3. new \in Tasks /\ new.id = taskID /\ new.type = "rescan" /\ new.valid
    <3>1. taskID \in Nat
      BY TaskFacts
    <3>2. QED BY <2>1, <3>1 DEF Task, Tasks
  <2>4. QED BY <2>2, <2>3
<1>3. QED BY <1>1, <1>2

LEMMA TaskTypeStep ==
    ASSUME ShapeInv, [Next]_vars
    PROVE  TaskType'
<1>0. TypeOK /\ Phases /\ DirsStep
  BY StepKinds DEF ShapeInv
<1>1. /\ taskQueue1 \subseteq Tasks /\ taskQueue2 \subseteq Tasks /\ taskID \in Nat
      /\ currentTask \in Tasks \cup {NoTask} /\ shutdownFlag \in BOOLEAN
      /\ \A t \in taskQueue1 : t.id < taskID
      /\ \A t \in taskQueue2 : t.id < taskID
      /\ Tasks \subseteq Tasks'
  BY <1>0, TaskFacts, MoreObjects
<1>2. CASE UNCHANGED <<queueVars, shutdownFlag>>
  BY <1>1, <1>2 DEF TaskType, queueVars
<1>3. ASSUME taskQueue1' \subseteq Tasks, taskQueue2' \subseteq Tasks, taskID' \in Nat,
             \A t \in taskQueue1' : t.id < taskID',
             \A t \in taskQueue2' : t.id < taskID',
             currentTask' \in Tasks \cup {NoTask}, shutdownFlag' = shutdownFlag
      PROVE  TaskType'
  BY <1>1, <1>3 DEF TaskType
<1>4. CASE dequeue
  <2>1. /\ taskQueue1 # {} => Oldest(taskQueue1) \in taskQueue1
        /\ taskQueue2 # {} => Oldest(taskQueue2) \in taskQueue2
    BY <1>0, <1>1, TaskFacts, OldestQueued
  <2>2. /\ taskQueue1' \subseteq taskQueue1 /\ taskQueue2' \subseteq taskQueue2
        /\ taskID' = taskID /\ shutdownFlag' = shutdownFlag
        /\ currentTask' \in taskQueue1 \cup taskQueue2 \cup {NoTask}
    BY <1>4, <2>1 DEF dequeue
  <2>3. QED BY <1>1, <1>3, <2>2
<1>5. ASSUME NEW new \in Tasks, new.id = taskID, taskID' = taskID + 1,
             \/ taskQueue2' = taskQueue2 \cup {new} /\ taskQueue1' = taskQueue1
             \/ taskQueue1' = taskQueue1 \cup {new} /\ taskQueue2' = taskQueue2,
             UNCHANGED <<currentTask, shutdownFlag>>
      PROVE  TaskType'
  <2>1. /\ taskQueue2 \cup {new} \subseteq Tasks /\ taskQueue1 \cup {new} \subseteq Tasks
        /\ taskID' \in Nat
        /\ \A t \in taskQueue1 \cup {new} : t.id < taskID'
        /\ \A t \in taskQueue2 \cup {new} : t.id < taskID'
        /\ \A t \in taskQueue1 \cup taskQueue2 : t.id < taskID'
    BY <1>0, <1>1, <1>5, TaskAdded
  <2>2. QED BY <1>1, <1>3, <1>5, <2>1
<1>6. CASE rescanEntry
  <2>1. entry \in Paths /\ incarnation[entry] \in Nat /\ scanID \in Nat
    BY <1>0, TypeParts DEF Parts, LocalType, DbType
  <2>2. rescanDirectory(entry, incarnation[entry], scanID)
        /\ UNCHANGED <<taskQueue1, currentTask, shutdownFlag>>
    BY <1>6 DEF rescanEntry
  <2>3. QED BY <1>0, <1>2, <1>5, <2>1, <2>2, RescanTask DEF queueVars
<1>7. CASE addNewEntry
  <2>1. entry \in Paths /\ adir \in Objects \cup {0} /\ currentTask.id \in Nat
    <3>1. currentTask \in Tasks
      BY <1>0, <1>7 DEF addNewEntry, Phases, ThreadPhases, InRescan
    <3>2. QED BY <1>0, <3>1, TypeParts, TaskFacts DEF Parts, LocalType
  <2>2. UNCHANGED <<taskQueue1, currentTask, shutdownFlag>>
    BY <1>7 DEF addNewEntry
  <2> DEFINE new == Task("add", entry, 0, 0, currentTask.id, adir)
  <2>3. new \in Tasks /\ new.id = taskID
    BY <1>1, <2>1 DEF Task, Tasks
  <2>4. \/ UNCHANGED <<taskQueue2, taskID>>
        \/ taskQueue2' = taskQueue2 \cup {new} /\ taskID' = taskID + 1
    BY <1>7 DEF addNewEntry
  <2> HIDE DEF new
  <2>5. QED BY <1>2, <1>5, <2>2, <2>3, <2>4 DEF queueVars
<1>8. ASSUME NEW c \in {"timer", "web"}, queueRescan(c) PROVE TaskType'
  <2>1. call[c].at = "queue"
    BY <1>8 DEF queueRescan
  <2>2. /\ call[c].dir \in Objects /\ call[c].inc \in Nat /\ call[c].scan \in Nat
    BY <1>0, <2>1, CallFacts DEF Phases, CallPhases
  <2>3. dirs[call[c].dir].location \in Paths
    BY <1>0, <2>2, ObjectFacts
  <2>4. /\ rescanDirectory(dirs[call[c].dir].location, call[c].inc, call[c].scan)
        /\ UNCHANGED <<taskQueue1, currentTask, shutdownFlag>>
    BY <1>8 DEF queueRescan
  <2>5. QED BY <1>0, <1>2, <1>5, <2>2, <2>3, <2>4, RescanTask DEF queueVars
<1>9. ASSUME NEW c \in {"timer", "web"}, Notification(c) PROVE TaskType'
  <2>1. CASE getDir(c) \/ readDir(c)
    BY <1>2, <2>1 DEF getDir, readDir
  <2>2. QED BY <1>8, <1>9, <2>1 DEF Notification
<1>10. CASE addRemoveTask
  <2> DEFINE new == Task("remove", ui.path, ui.inc, 0, 0, 0)
  <2>1. new \in Tasks /\ new.id = taskID
    <3>1. ui.path \in Paths /\ ui.inc \in Nat
      BY <1>0, TypeParts DEF Parts, UiType
    <3>2. QED BY <1>1, <3>1 DEF Task, Tasks
  <2>2. /\ taskQueue1' = taskQueue1 \cup {new} /\ taskID' = taskID + 1
        /\ UNCHANGED <<taskQueue2, currentTask, shutdownFlag>>
    BY <1>10 DEF addRemoveTask
  <2> HIDE DEF new
  <2>3. QED BY <1>5, <2>1, <2>2
<1>11. ASSUME NEW p \in Paths, addFile(p) PROVE TaskType'
  <2> DEFINE new == Task("add", p, 0, 0, 0, 0)
  <2>1. new \in Tasks /\ new.id = taskID
    BY <1>1 DEF Task, Tasks
  <2>2. /\ taskQueue1' = taskQueue1 \cup {new} /\ taskID' = taskID + 1
        /\ UNCHANGED <<taskQueue2, currentTask, shutdownFlag>>
    BY <1>11 DEF addFile
  <2> HIDE DEF new
  <2>3. QED BY <1>5, <2>1, <2>2
<1>12. ASSUME \A s \in taskQueue1' : \E t \in taskQueue1, b \in BOOLEAN : s = Invalidated(t, b),
              \A s \in taskQueue2' : \E t \in taskQueue2, b \in BOOLEAN : s = Invalidated(t, b),
              \E b \in BOOLEAN : currentTask' = Invalidated(currentTask, b),
              taskID' = taskID, shutdownFlag' = shutdownFlag
       PROVE  TaskType'
  <2>1. taskQueue1' \subseteq Tasks /\ \A s \in taskQueue1' : s.id < taskID
    BY <1>0, <1>1, <1>12, TasksInvalidated
  <2>2. taskQueue2' \subseteq Tasks /\ \A s \in taskQueue2' : s.id < taskID
    BY <1>0, <1>1, <1>12, TasksInvalidated
  <2>3. currentTask' \in Tasks \cup {NoTask}
    BY <1>1, <1>12, InvalidatedIsTask, InvalidatedNone
  <2>4. QED BY <1>1, <1>3, <1>12, <2>1, <2>2, <2>3
<1>13. CASE invalidateAddTasks
  <2>1. \A t : InvalidAdd(t) \in BOOLEAN
    BY DEF InvalidAdd
  <2>2. /\ taskQueue1' = {Invalidated(t, InvalidAdd(t)) : t \in taskQueue1}
        /\ taskQueue2' = {Invalidated(t, InvalidAdd(t)) : t \in taskQueue2}
        /\ currentTask' = Invalidated(currentTask, InvalidAdd(currentTask))
        /\ taskID' = taskID /\ shutdownFlag' = shutdownFlag
    BY <1>13 DEF invalidateAddTasks
  <2>3. QED BY <1>12, <2>1, <2>2
<1>14. ASSUME NEW id \in 1 .. taskID, invalidateTask(id) PROVE TaskType'
  <2> DEFINE hit(t) == t.id = id \/ t.parent = id
  <2>1. \A t : hit(t) \in BOOLEAN
    OBVIOUS
  <2>2. /\ taskQueue1' = {Invalidated(t, hit(t)) : t \in taskQueue1}
        /\ taskQueue2' = {Invalidated(t, hit(t)) : t \in taskQueue2}
        /\ currentTask' = Invalidated(currentTask, hit(currentTask))
        /\ taskID' = taskID /\ shutdownFlag' = shutdownFlag
    BY <1>14 DEF invalidateTask
  <2> HIDE DEF hit
  <2>3. QED BY <1>12, <2>1, <2>2
<1>15. CASE \/ threadExit \/ skipInvalid \/ runRemove \/ runAdd \/ addEnd
            \/ \E p \in Paths : addEntry(p)
  BY <1>2, <1>15 DEF threadExit, skipInvalid, runRemove, runAdd, addEnd, addEntry
<1>16. CASE \/ runRescan \/ enterScan \/ openScan \/ loadScan \/ dropLookup \/ dropRemove
            \/ unsubscribe \/ scanEnd \/ scanFails \/ rescanDone \/ subscribe
            \/ \E p \in Paths : scanEntry(p)
  BY <1>2, <1>16 DEF runRescan, enterScan, openScan, loadScan, dropLookup, dropRemove,
     unsubscribe, scanEnd, scanFails, rescanDone, subscribe, scanEntry
<1>17. CASE \/ \E p \in Paths : setAutoscanDirectory(p) \/ removeObject(p)
            \/ \E o \in DOMAIN dirs : editAutoscanDirectory(o) \/ removeAutoscanDirectory(o)
  BY <1>2, <1>17 DEF setAutoscanDirectory, removeObject, removeAutoscanDirectory,
     editAutoscanDirectory
<1>18. CASE \/ setNotify \/ setDone \/ editCopy \/ editRemove \/ editAdd \/ copySubdir
            \/ clearSubdir \/ removeTimers
  BY <1>2, <1>18 DEF setNotify, setDone, editCopy, editRemove, editAdd, copySubdir, clearSubdir,
     removeTimers
<1>19. CASE shutdown
  BY <1>1, <1>19 DEF shutdown, queueVars, TaskType
<1>20. CASE \/ UNCHANGED vars \/ timerNotified
            \/ \E p \in Paths : changeDisk(p)
            \/ \E p \in DOMAIN dirs : timerFire(p)
  BY <1>2, <1>20 DEF vars, timerNotified, changeDisk, timerFire
<1>21. CASE TaskThread
  BY <1>4, <1>6, <1>7, <1>15, <1>16, <1>21 DEF TaskThread
<1>22. CASE Request \/ RequestGoesOn
  BY <1>9, <1>10, <1>11, <1>13, <1>14, <1>17, <1>18, <1>22 DEF Request, RequestGoesOn
<1>23. QED BY <1>9, <1>19, <1>20, <1>21, <1>22 DEF Next, TimerGoesOn

LEMMA UiTypeStep ==
    ASSUME ShapeInv, [Next]_vars
    PROVE  UiType' /\ RequestPhases'
<1>0. TypeOK /\ Phases /\ DirsStep
  BY StepKinds DEF ShapeInv
<1>1. /\ Objects \subseteq Objects' /\ Len(dirs) \in Nat /\ UiType /\ RequestPhases
      /\ AnyPath \in Paths
  BY <1>0, MoreObjects, TypeParts, AnyPathIsPath DEF Parts, Phases
<1> DEFINE Target == UiType' /\ RequestPhases'
<1>2. ASSUME ui' = ui PROVE Target
  BY <1>1, <1>2 DEF UiType, RequestPhases
<1>3. /\ Idle \in [op : {"idle", "notify", "edit", "take", "put", "copy", "clear",
                         "unsubscribe", "invalidate", "enqueue"},
                   path : Paths, inc : Nat, dir : Objects' \cup {0}, objs : SUBSET Objects',
                   n : Nat]
      /\ Idle.op = "idle"
  BY <1>1 DEF Idle
<1>4. ASSUME ui' = Idle PROVE Target
  BY <1>3, <1>4 DEF UiType, RequestPhases
<1>5. ASSUME NEW o, o \in Objects', NEW op \in {"notify", "edit", "take", "put"},
             \/ ui' = [Idle EXCEPT !.op = op, !.dir = o]
             \/ ui' = [ui EXCEPT !.op = op, !.dir = o]
      PROVE  Target
  <2>1. o # 0
    BY <1>5 DEF Objects
  <2>2. QED BY <1>1, <1>3, <1>5, <2>1 DEF UiType, RequestPhases
<1>6. ASSUME NEW op \in {"put", "notify"}, ui' = [ui EXCEPT !.op = op],
             ui.op \in {"take", "put"}
      PROVE  Target
  BY <1>1, <1>6 DEF UiType, RequestPhases
<1>7. CASE \/ dequeue \/ threadExit \/ skipInvalid \/ runRemove \/ runAdd \/ addEnd
           \/ \E p \in Paths : addEntry(p)
  BY <1>2, <1>7 DEF dequeue, threadExit, skipInvalid, runRemove, runAdd, addEnd, addEntry
<1>8. CASE \/ runRescan \/ enterScan \/ openScan \/ loadScan \/ dropLookup \/ dropRemove
           \/ unsubscribe \/ rescanEntry \/ addNewEntry \/ scanEnd \/ scanFails
           \/ rescanDone \/ subscribe \/ \E p \in Paths : scanEntry(p)
  BY <1>2, <1>8 DEF runRescan, enterScan, openScan, loadScan, dropLookup, dropRemove,
     unsubscribe, rescanEntry, addNewEntry, scanEnd, scanFails, rescanDone, subscribe, scanEntry
<1>9. CASE \/ \E p \in DOMAIN dirs : timerFire(p)
           \/ \E c \in {"timer", "web"} : Notification(c)
           \/ timerNotified \/ shutdown \/ UNCHANGED vars \/ \E p \in Paths : changeDisk(p)
  BY <1>2, <1>9 DEF timerFire, timerNotified, shutdown, changeDisk, Notification, getDir,
     readDir, queueRescan, vars
<1>10. ASSUME NEW p \in Paths, setAutoscanDirectory(p) PROVE Target
  <2>1. /\ Len(dirs') = Len(dirs) + 1
        /\ \/ ui' = ui
           \/ ui' = [Idle EXCEPT !.op = "notify", !.dir = Len(dirs) + 1]
    BY <1>0, <1>10, SetStep
  <2>2. Len(dirs) + 1 \in Objects'
    BY <1>1, <2>1 DEF Objects
  <2>3. QED BY <1>2, <1>5, <2>1, <2>2
<1>11. ASSUME NEW o \in DOMAIN dirs, editAutoscanDirectory(o) PROVE Target
  <2>1. o \in Objects' /\ ui' = [Idle EXCEPT !.op = "edit", !.dir = o]
    BY <1>0, <1>1, <1>11, ObjectFacts DEF editAutoscanDirectory
  <2>2. QED BY <1>5, <2>1
<1>12. ASSUME editCopy PROVE Target
  <2>1. /\ Len(dirs') = Len(dirs) + 1
        /\ ui' = [ui EXCEPT !.op = "take", !.dir = Len(dirs) + 1]
    BY <1>0, <1>12, CopyStep
  <2>2. Len(dirs) + 1 \in Objects'
    BY <1>1, <2>1 DEF Objects
  <2>3. QED BY <1>5, <2>1, <2>2
<1>13. ASSUME editRemove \/ editAdd PROVE Target
  BY <1>2, <1>6, <1>13 DEF editRemove, editAdd
<1>14. CASE \/ \E o \in DOMAIN dirs : removeAutoscanDirectory(o)
            \/ \E p \in Paths : addFile(p)
            \/ \E id \in 1 .. taskID : invalidateTask(id)
            \/ setNotify
  BY <1>2, <1>14 DEF removeAutoscanDirectory, addFile, invalidateTask, setNotify
<1>15. ASSUME NEW p \in Paths, removeObject(p) PROVE Target
  <2>1. PICK op \in {"unsubscribe", "copy"} :
           ui' = [Idle EXCEPT !.op = op, !.path = p, !.inc = incarnation[p]]
    BY <1>15 DEF removeObject
  <2>2. incarnation[p] \in Nat
    BY <1>0, TypeParts DEF Parts, DbType
  <2>3. QED BY <1>1, <1>3, <2>1, <2>2 DEF UiType, RequestPhases
<1>16. ASSUME copySubdir PROVE Target
  <2>1. PICK i \in SubAutoscans(ui.path) :
           ui' = [ui EXCEPT !.op = "clear", !.dir = autoscan_timed[i],
                            !.objs = @ \cup {autoscan_timed[i]}, !.n = @ + 1]
    BY <1>16 DEF copySubdir
  <2> DEFINE o == autoscan_timed[i]
  <2>2. o \in Objects /\ o # 0
    <3>1. i \in 1 .. Len(autoscan_timed) /\ o # 0
      BY DEF SubAutoscans, ListedAt
    <3>2. autoscan_timed \in Seq(Objects \cup {0})
      BY <1>0, TimerFacts
    <3>3. QED BY <3>1, <3>2, ElementOfSeq
  <2> HIDE DEF o
  <2> DEFINE os == ui.objs \cup {o}
  <2>3. ui' = [ui EXCEPT !.op = "clear", !.dir = o, !.objs = os, !.n = ui.n + 1]
    BY <2>1 DEF o
  <2>4. os \in SUBSET Objects' /\ o \in Objects' \cup {0} /\ ui.n + 1 \in Nat
    BY <1>1, <2>2 DEF UiType
  <2> HIDE DEF os
  <2>5. UiType' /\ ui'.dir = o
    BY <1>1, <2>3, <2>4 DEF UiType
  <2>6. QED BY <2>2, <2>5 DEF RequestPhases
<1>17. ASSUME clearSubdir PROVE Target
  <2>1. PICK op \in {"unsubscribe", "copy"} : ui' = [ui EXCEPT !.op = op, !.dir = 0]
    BY <1>17 DEF clearSubdir
  <2>2. QED BY <1>1, <2>1 DEF UiType, RequestPhases
<1>18. ASSUME setDone \/ addRemoveTask PROVE Target
  BY <1>4, <1>18 DEF setDone, addRemoveTask
<1>19. ASSUME removeTimers \/ invalidateAddTasks PROVE Target
  <2>1. CASE removeTimers
    <3> DEFINE none == {}
    <3>1. ui' = [ui EXCEPT !.op = "invalidate", !.objs = none, !.n = 0]
      BY <2>1 DEF removeTimers
    <3>2. none \in SUBSET Objects'
      OBVIOUS
    <3> HIDE DEF none
    <3>3. QED BY <1>1, <3>1, <3>2 DEF UiType, RequestPhases
  <2>2. CASE invalidateAddTasks
    BY <1>1, <2>2 DEF invalidateAddTasks, UiType, RequestPhases
  <2>3. QED BY <1>19, <2>1, <2>2
<1>20. CASE TaskThread
  BY <1>7, <1>8, <1>20 DEF TaskThread
<1>21. CASE Request
  BY <1>10, <1>11, <1>14, <1>15, <1>21 DEF Request
<1>22. CASE RequestGoesOn
  BY <1>9, <1>12, <1>13, <1>14, <1>16, <1>17, <1>18, <1>19, <1>22 DEF RequestGoesOn
<1>23. QED BY <1>9, <1>20, <1>21, <1>22 DEF Next, TimerGoesOn

LEMMA DbTypeStep ==
    ASSUME ShapeInv, [Next]_vars
    PROVE  DbType'
<1>0. TypeOK /\ Phases /\ DirsStep
  BY StepKinds DEF ShapeInv
<1>1. Objects \subseteq Objects' /\ Len(dirs) \in Nat /\ DbType
  BY <1>0, MoreObjects, TypeParts DEF Parts
<1>2. CASE UNCHANGED <<dbVars, onDisk>>
  BY <1>1, <1>2 DEF DbType, dbVars
<1>3. ASSUME NEW paths, RemoveFromDB(paths), onDisk' = onDisk PROVE DbType'
  BY <1>1, <1>3 DEF DbType, RemoveFromDB
<1>4. ASSUME NEW p \in Paths, AddToDB(p), onDisk' = onDisk PROVE DbType'
  BY <1>1, <1>4, ensurePathType DEF DbType, AddToDB
<1>5. CASE runRemove
  BY <1>2, <1>3, <1>5 DEF runRemove
<1>6. ASSUME NEW p \in Paths, addEntry(p) PROVE DbType'
  BY <1>2, <1>4, <1>6 DEF addEntry
<1>7. CASE scanEnd
  BY <1>2, <1>3, <1>7 DEF scanEnd
<1>8. CASE loadScan
  <2>1. adir \in Objects
    BY <1>0, <1>8, TypeParts DEF Phases, ThreadPhases, Parts, LocalType, loadScan
  <2>2. dirs[adir].location \in Paths
    BY <1>0, <2>1, ObjectFacts
  <2>3. onDisk' = onDisk
    BY <1>8 DEF loadScan
  <2>4. CASE openFound
    BY <1>2, <1>3, <2>3, <2>4 DEF openFound
  <2>5. CASE openMissing
    BY <1>2, <1>4, <2>2, <2>3, <2>5 DEF openMissing
  <2>6. QED BY <1>8, <2>4, <2>5 DEF loadScan
<1>9. CASE unsubscribe
  BY <1>1, <1>9 DEF unsubscribe, DbType
<1>10. CASE \/ dequeue \/ threadExit \/ skipInvalid \/ runAdd \/ addEnd
            \/ runRescan \/ enterScan \/ openScan \/ dropLookup \/ dropRemove
  BY <1>2, <1>10 DEF dequeue, threadExit, skipInvalid, runAdd, addEnd, runRescan, enterScan,
     openScan, dropLookup, dropRemove, dbVars
<1>11. CASE \/ rescanEntry \/ addNewEntry \/ scanFails \/ rescanDone \/ subscribe
            \/ \E p \in Paths : scanEntry(p)
  BY <1>2, <1>11 DEF rescanEntry, addNewEntry, scanFails, rescanDone, subscribe, scanEntry
<1>12. ASSUME NEW p \in Paths, setAutoscanDirectory(p) PROVE DbType'
  <2>1. Len(dirs') = Len(dirs) + 1
    BY <1>0, <1>12, SetStep
  <2>2. /\ ensurePathExistence(p) /\ rows' = rows \cup {Len(dirs) + 1} /\ onDisk' = onDisk
    BY <1>12 DEF setAutoscanDirectory
  <2>3. Len(dirs) + 1 \in Objects'
    BY <1>1, <2>1 DEF Objects
  <2>4. QED BY <1>1, <2>2, <2>3, ensurePathType DEF DbType
<1>13. CASE editAdd
  <2>1. ui.dir \in Objects
    BY <1>0, <1>13, AddStep
  <2>2. /\ rows' = {IF o \in SharesParam(ui.dir) THEN ui.dir ELSE o : o \in rows}
        /\ UNCHANGED <<inDB, incarnation, onDisk>>
    BY <1>13 DEF editAdd
  <2>3. QED BY <1>1, <2>1, <2>2 DEF DbType
<1>14. ASSUME NEW o \in DOMAIN dirs, removeAutoscanDirectory(o) PROVE DbType'
  BY <1>1, <1>14 DEF removeAutoscanDirectory, DbType
<1>15. CASE \/ \E p \in Paths : removeObject(p) \/ addFile(p)
            \/ \E o \in DOMAIN dirs : editAutoscanDirectory(o)
            \/ \E id \in 1 .. taskID : invalidateTask(id)
  BY <1>2, <1>15 DEF removeObject, addFile, editAutoscanDirectory, invalidateTask
<1>16. CASE \/ setNotify \/ setDone \/ editCopy \/ editRemove \/ copySubdir \/ clearSubdir
            \/ removeTimers \/ invalidateAddTasks \/ addRemoveTask \/ shutdown
            \/ timerNotified \/ \E p \in DOMAIN dirs : timerFire(p)
            \/ \E c \in {"timer", "web"} : Notification(c)
  BY <1>2, <1>16 DEF setNotify, setDone, editCopy, editRemove, copySubdir, clearSubdir,
     removeTimers, invalidateAddTasks, addRemoveTask, shutdown, timerNotified, timerFire,
     Notification, getDir, readDir, queueRescan
<1>17. ASSUME NEW p \in Paths, changeDisk(p) PROVE DbType'
  BY <1>1, <1>17 DEF changeDisk, DbType, dbVars
<1>18. CASE UNCHANGED vars
  BY <1>2, <1>18 DEF vars
<1>19. CASE TaskThread
  BY <1>5, <1>6, <1>7, <1>8, <1>9, <1>10, <1>11, <1>19 DEF TaskThread
<1>20. CASE Request \/ RequestGoesOn
  BY <1>12, <1>13, <1>14, <1>15, <1>16, <1>20 DEF Request, RequestGoesOn
<1>21. QED BY <1>16, <1>17, <1>18, <1>19, <1>20 DEF Next, TimerGoesOn

LEMMA SubDirsArePaths ==
    ASSUME NEW p \in Paths
    PROVE  SubDirs(p) \subseteq Paths /\ Below[p] \subseteq Paths
BY PathsAssumption DEF SubDirs

LEMMA LocalStep ==
    ASSUME ShapeInv, [Next]_vars
    PROVE  LocalType' /\ ThreadPhases'
<1>0. TypeOK /\ Phases /\ DirsStep
  BY StepKinds DEF ShapeInv
<1>1. /\ Objects \subseteq Objects' /\ Tasks \subseteq Tasks' /\ LocalType /\ ThreadPhases
      /\ AnyPath \in Paths
  BY <1>0, MoreObjects, TypeParts, AnyPathIsPath DEF Parts, Phases
<1>2. ASSUME UNCHANGED locals,
             pc' = pc \/ pc' = Wake(pc),
             currentTask \in Tasks => currentTask' \in Tasks
      PROVE  LocalType' /\ ThreadPhases'
  <2>1. pc' = pc \/ (pc = "wait" /\ pc' = "top")
    BY <1>2 DEF Wake
  <2>2. LocalType'
    BY <1>1, <1>2, <2>1 DEF LocalType, locals
  <2>3. ThreadPhases'
    <3>1. CASE pc' = "top"
      BY <3>1 DEF ThreadPhases, InRescan
    <3>2. CASE pc' = pc
      BY <1>1, <1>2, <3>2 DEF ThreadPhases, locals
    <3>3. QED BY <2>1, <3>1, <3>2
  <2>4. QED BY <2>2, <2>3
<1>3. CASE TaskEnds
  BY <1>1, <1>3 DEF TaskEnds, LocalType, ThreadPhases, InRescan
<1>4. ASSUME UNCHANGED <<locals, currentTask>>, pc' \in {"done", "scan", "subscribe"},
             pc \in {"unsubscribe", "scan", "entry", "done"}, pc' = "scan" => pc = "entry"
      PROVE  LocalType' /\ ThreadPhases'
  BY <1>1, <1>4 DEF LocalType, ThreadPhases, InRescan, locals
<1>5. CASE dequeue
  <2>1. /\ taskQueue1 # {} => Oldest(taskQueue1) \in Tasks
        /\ taskQueue2 # {} => Oldest(taskQueue2) \in Tasks
    BY <1>0, TaskFacts, OldestQueued
  <2>2. \/ pc' = "run" /\ currentTask' \in Tasks
        \/ pc' = "wait"
    BY <1>5, <2>1 DEF dequeue
  <2>3. UNCHANGED locals
    BY <1>5 DEF dequeue
  <2>4. QED BY <1>1, <2>2, <2>3 DEF LocalType, ThreadPhases, InRescan, locals
<1>6. CASE threadExit
  BY <1>1, <1>6 DEF threadExit, LocalType, ThreadPhases, InRescan, locals
<1>7. CASE skipInvalid \/ runRemove \/ addEnd \/ scanFails \/ subscribe
  BY <1>3, <1>7 DEF skipInvalid, runRemove, addEnd, scanFails, subscribe
<1>8. CASE runAdd
  <2>1. pc = "run" /\ pc' = "add" /\ todo' = Below[currentTask.path] \cap onDisk
        /\ UNCHANGED <<dir, adir, scanID, victim, location, stale, entry, currentTask>>
    BY <1>8 DEF runAdd, queueVars
  <2>2. currentTask \in Tasks
    BY <1>1, <2>1 DEF ThreadPhases
  <2>3. Below[currentTask.path] \subseteq Paths
    BY <1>0, <2>2, TaskFacts, SubDirsArePaths
  <2>4. QED BY <1>1, <2>1, <2>2, <2>3 DEF LocalType, ThreadPhases, InRescan
<1>9. ASSUME NEW p \in Paths, addEntry(p) PROVE LocalType' /\ ThreadPhases'
  BY <1>1, <1>9 DEF addEntry, LocalType, ThreadPhases, InRescan, queueVars
<1>10. CASE runRescan
  <2> DEFINE o == Get(autoscan_timed, currentTask.scanID)
  <2>1. pc = "run" /\ currentTask' = currentTask
    BY <1>10 DEF runRescan, queueVars
  <2>2. currentTask \in Tasks
    BY <1>1, <2>1 DEF ThreadPhases
  <2>3. CASE o = 0
    BY <1>3, <1>10, <2>3 DEF runRescan
  <2>4. CASE o # 0
    <3>1. o \in Objects /\ o # 0
      BY <1>0, <2>2, <2>4, TaskFacts, GetObject
    <3>2. pc' = "enter" /\ dir' = o /\ UNCHANGED <<adir, scanID, victim, location, todo, stale, entry>>
      BY <1>10, <2>4 DEF runRescan
    <3> HIDE DEF o
    <3>3. QED BY <1>1, <2>1, <2>2, <3>1, <3>2 DEF LocalType, ThreadPhases, InRescan
  <2>5. QED BY <2>3, <2>4
<1>11. CASE enterScan
  <2>1. /\ pc = "enter" /\ scanID' = dirs[dir].scanID /\ pc' \in {"done", "open"}
        /\ UNCHANGED <<dir, adir, victim, location, todo, stale, entry, currentTask>>
    BY <1>11 DEF enterScan, queueVars
  <2>2. dir \in Objects
    BY <1>1, <2>1 DEF LocalType, ThreadPhases, InRescan
  <2>3. dirs[dir].scanID \in Nat
    BY <1>0, <2>2, ObjectFacts
  <2>4. QED BY <1>1, <2>1, <2>3 DEF LocalType, ThreadPhases, InRescan
<1>12. CASE openScan
  <2> DEFINE o == Get(autoscan_timed, scanID)
  <2>1. pc = "open" /\ currentTask' = currentTask /\ currentTask \in Tasks /\ scanID \in Nat
        /\ dir # 0
    BY <1>1, <1>12 DEF openScan, queueVars, LocalType, ThreadPhases, InRescan
  <2>2. CASE o = 0
    BY <1>3, <1>12, <2>2 DEF openScan
  <2>3. CASE o # 0
    <3>1. o \in Objects /\ o # 0
      BY <1>0, <2>1, <2>3, GetObject
    <3>2. pc' = "load" /\ adir' = o
          /\ UNCHANGED <<dir, scanID, victim, location, todo, stale, entry>>
      BY <1>12, <2>3 DEF openScan
    <3> HIDE DEF o
    <3>3. QED BY <1>1, <2>1, <3>1, <3>2 DEF LocalType, ThreadPhases, InRescan
  <2>4. QED BY <2>2, <2>3
<1>13. CASE loadScan
  <2>1. /\ pc = "load" /\ currentTask' = currentTask /\ currentTask \in Tasks
        /\ dir # 0 /\ adir \in Objects /\ adir # 0
    BY <1>1, <1>13 DEF loadScan, queueVars, LocalType, ThreadPhases, InRescan
  <2>2. dirs[adir].location \in Paths /\ currentTask.path \in Paths
    BY <1>0, <2>1, ObjectFacts, TaskFacts
  <2>3. ASSUME NEW path \in Paths, StartScan(path), incarnation' \in [Paths -> Nat]
        PROVE  LocalType' /\ ThreadPhases'
    <3>1. /\ pc' = "scan" /\ location' = path /\ todo' = SubDirs(path)
          /\ stale' = {<<q, incarnation'[q]>> : q \in SubDirs(path) \cap inDB'}
          /\ UNCHANGED <<dir, adir, scanID, victim, entry>>
      BY <2>3 DEF StartScan
    <3>2. SubDirs(path) \subseteq Paths
      BY SubDirsArePaths
    <3>3. stale' \subseteq Paths \X Nat
      BY <2>3, <3>1, <3>2
    <3>4. LocalType'
      BY <1>1, <2>3, <3>1, <3>2, <3>3 DEF LocalType
    <3>5. ThreadPhases'
      BY <1>1, <2>1, <3>1 DEF ThreadPhases, InRescan
    <3>6. QED BY <3>4, <3>5
  <2>4. ASSUME pc' \in {"done", "drop"}, UNCHANGED locals PROVE LocalType' /\ ThreadPhases'
    BY <1>1, <2>1, <2>4 DEF LocalType, ThreadPhases, InRescan, locals, Objects
  <2>5. ASSUME KeepAutoscan \/ DropAutoscan \/ GiveUp PROVE LocalType' /\ ThreadPhases'
    BY <2>4, <2>5 DEF KeepAutoscan, DropAutoscan, GiveUp
  <2>6. incarnation' \in [Paths -> Nat]
    BY DbTypeStep DEF DbType
  <2>7. CASE openFound
    BY <2>2, <2>3, <2>5, <2>6, <2>7 DEF openFound
  <2>8. CASE openMissing
    BY <2>2, <2>3, <2>5, <2>6, <2>8 DEF openMissing
  <2>9. QED BY <1>13, <2>7, <2>8 DEF loadScan
<1>14. CASE dropLookup
  <2> DEFINE o == Get(autoscan_timed, scanID)
  <2>1. /\ pc = "drop" /\ currentTask' = currentTask /\ currentTask \in Tasks /\ scanID \in Nat
        /\ dir # 0 /\ adir # 0
    BY <1>1, <1>14 DEF dropLookup, queueVars, LocalType, ThreadPhases, InRescan
  <2>2. CASE o = 0
    BY <1>3, <1>14, <2>2 DEF dropLookup
  <2>3. CASE o # 0
    <3>1. o \in Objects /\ o # 0
      BY <1>0, <2>1, <2>3, GetObject
    <3>2. pc' = "remove" /\ victim' = o
          /\ UNCHANGED <<dir, adir, scanID, location, todo, stale, entry>>
      BY <1>14, <2>3 DEF dropLookup
    <3> HIDE DEF o
    <3>3. QED BY <1>1, <2>1, <3>1, <3>2 DEF LocalType, ThreadPhases, InRescan
  <2>4. QED BY <2>2, <2>3
<1>15. CASE dropRemove
  <2>1. pc = "remove" /\ pc' \in {"unsubscribe", "crash"} /\ UNCHANGED <<locals, currentTask>>
    BY <1>15 DEF dropRemove, queueVars
  <2>2. QED BY <1>1, <2>1 DEF LocalType, ThreadPhases, InRescan, locals
<1>16. CASE unsubscribe \/ scanEnd
  BY <1>4, <1>16 DEF unsubscribe, scanEnd, queueVars
<1>17. ASSUME NEW p \in Paths, scanEntry(p) PROVE LocalType' /\ ThreadPhases'
  <2>1. /\ pc = "scan" /\ todo' \subseteq todo
        /\ pc' \in {"scan", "done", "entry"} /\ entry' \in {entry, p}
        /\ UNCHANGED <<dir, adir, scanID, victim, location, stale, currentTask>>
    BY <1>17 DEF scanEntry, queueVars
  <2>2. QED BY <1>1, <2>1 DEF LocalType, ThreadPhases, InRescan
<1>18. CASE rescanEntry
  <2>1. /\ pc = "entry" /\ stale' \subseteq stale /\ pc' = "scan"
        /\ UNCHANGED <<dir, adir, scanID, victim, location, todo, entry, currentTask>>
    BY <1>18 DEF rescanEntry
  <2>2. QED BY <1>1, <2>1 DEF LocalType, ThreadPhases, InRescan
<1>19. CASE addNewEntry
  BY <1>4, <1>19 DEF addNewEntry
<1>20. CASE rescanDone
  BY <1>3, <1>4, <1>20 DEF rescanDone, queueVars
<1>21. CASE UNCHANGED <<locals, pc, currentTask>>
  BY <1>2, <1>21
<1>22. CASE \/ timerNotified
            \/ \E p \in Paths : setAutoscanDirectory(p) \/ removeObject(p) \/ changeDisk(p)
            \/ \E o \in DOMAIN dirs : editAutoscanDirectory(o) \/ removeAutoscanDirectory(o)
            \/ \E p \in DOMAIN dirs : timerFire(p)
  BY <1>21, <1>22 DEF timerNotified, setAutoscanDirectory, removeObject, changeDisk,
     editAutoscanDirectory, removeAutoscanDirectory, timerFire, queueVars
<1>23. CASE \/ setNotify \/ setDone \/ editCopy \/ editAdd \/ copySubdir \/ clearSubdir
            \/ removeTimers \/ UNCHANGED vars
  BY <1>21, <1>23 DEF setNotify, setDone, editCopy, editAdd, copySubdir, clearSubdir,
     removeTimers, vars, queueVars
<1>24. CASE addRemoveTask \/ shutdown \/ \E p \in Paths : addFile(p)
  BY <1>2, <1>24 DEF addRemoveTask, shutdown, addFile, queueVars
<1>25. CASE editRemove
  <2>1. /\ pc' = pc \/ pc' = "crash"
        /\ UNCHANGED <<locals, currentTask>>
    BY <1>25 DEF editRemove, queueVars
  <2>2. CASE pc' = "crash"
    BY <1>1, <2>1, <2>2 DEF LocalType, ThreadPhases, InRescan, locals
  <2>3. QED BY <1>21, <2>1, <2>2
<1>26. ASSUME NEW c \in {"timer", "web"}, Notification(c)
       PROVE  LocalType' /\ ThreadPhases'
  <2>1. UNCHANGED <<locals, currentTask>> /\ (pc' = pc \/ pc' = Wake(pc))
    BY <1>26 DEF Notification, getDir, readDir, queueRescan, queueVars
  <2>2. QED BY <1>2, <2>1
<1>27. CASE invalidateAddTasks
  <2>1. /\ currentTask' = Invalidated(currentTask, InvalidAdd(currentTask))
        /\ UNCHANGED <<pc, locals>>
    BY <1>27 DEF invalidateAddTasks
  <2>2. InvalidAdd(currentTask) \in BOOLEAN
    BY DEF InvalidAdd
  <2>3. QED BY <1>2, <2>1, <2>2, InvalidatedIsTask
<1>28. ASSUME NEW id \in 1 .. taskID, invalidateTask(id) PROVE LocalType' /\ ThreadPhases'
  <2> DEFINE hit == currentTask.id = id \/ currentTask.parent = id
  <2>1. currentTask' = Invalidated(currentTask, hit) /\ UNCHANGED <<pc, locals>>
    BY <1>28 DEF invalidateTask
  <2>2. hit \in BOOLEAN
    OBVIOUS
  <2> HIDE DEF hit
  <2>3. QED BY <1>2, <2>1, <2>2, InvalidatedIsTask
<1>29. CASE TaskThread
  BY <1>5, <1>6, <1>7, <1>8, <1>9, <1>10, <1>11, <1>12, <1>13, <1>14, <1>15, <1>16,
     <1>17, <1>18, <1>19, <1>20,
     <1>29 DEF TaskThread
<1>30. CASE Request \/ RequestGoesOn
  BY <1>22, <1>23, <1>24, <1>27, <1>28, <1>30, <1>25, <1>26 DEF Request, RequestGoesOn
<1>31. QED BY <1>22, <1>23, <1>24, <1>29, <1>30, <1>26 DEF Next, TimerGoesOn

LEMMA ShapeStep ==
    ASSUME ShapeInv, [Next]_vars
    PROVE  ShapeInv'
<1>1. DirsType'
  BY StepKinds DEF DirsStep
<1>2. QED BY <1>1, TimerTypeStep, CallTypeStep, TaskTypeStep, UiTypeStep, DbTypeStep,
             LocalStep, TypePartsNext DEF ShapeInv, Parts, Phases

LEMMA InitDirs ==
    ASSUME Init
    PROVE  LET n == Len(InitialDirs) IN
           /\ n \in Nat /\ Len(dirs) = n /\ Objects = 1 .. n
           /\ dirs \in Seq(DirType(n))
           /\ \A i \in 1 .. n : /\ InitialDirs[i] \in Paths
                                /\ dirs[i].scanID = i /\ dirs[i].param = i
                                /\ dirs[i].taskCount = 1
                                /\ dirs[i].location = InitialDirs[i]
                                /\ dirs[i].persistent = (InitialDirs[i] \in Persistent)
           /\ inDB \subseteq Paths /\ incarnation \in [Paths -> Nat]
<1> DEFINE n == Len(InitialDirs)
           d(i) == NewDir(InitialDirs[i], InitialDirs[i] \in Persistent, i, i, 1,
                          IncarnationOf(InitialDirs[i]))
<1>1. n \in Nat /\ \A i \in 1 .. n : InitialDirs[i] \in Paths
  BY PathsAssumption, LenProperties, ElementOfSeq
<1>2. inDB \subseteq Paths
  BY DEF Init, Above
<1>3. incarnation = [p \in Paths |-> IF p \in inDB THEN 1 ELSE 0]
  BY DEF Init
<1>4. incarnation \in [Paths -> Nat]
  BY <1>3
<1>5. \A i \in 1 .. n : IncarnationOf(InitialDirs[i]) \in Nat
  BY <1>1, <1>4 DEF IncarnationOf
<1>6. dirs = [i \in 1 .. n |-> d(i)]
  BY DEF Init
<1>7. \A i \in 1 .. n : /\ d(i) \in DirType(n) /\ d(i).scanID = i /\ d(i).param = i
                        /\ d(i).taskCount = 1 /\ d(i).location = InitialDirs[i]
                        /\ d(i).persistent = (InitialDirs[i] \in Persistent)
  BY <1>1, <1>5 DEF NewDir, DirType
<1> HIDE DEF d
<1>8. \A i \in 1 .. n : dirs[i] = d(i)
  BY <1>6
<1>9. dirs \in Seq(DirType(n)) /\ Len(dirs) = n
  BY <1>1, <1>6, <1>7, <1>8, IsASeq
<1>10. QED BY <1>1, <1>2, <1>4, <1>7, <1>8, <1>9 DEF Objects

LEMMA InitTypes ==
    ASSUME Init
    PROVE  ShapeInv
<1> DEFINE n == Len(InitialDirs)
<1>1. /\ n \in Nat /\ Len(dirs) = n /\ Objects = 1 .. n /\ dirs \in Seq(DirType(n))
      /\ \A i \in 1 .. n : InitialDirs[i] \in Paths
      /\ inDB \subseteq Paths /\ incarnation \in [Paths -> Nat]
  BY InitDirs
<1> HIDE DEF n
<1>2. DirsType
  BY <1>1 DEF DirsType
<1>3. TimerType
  <2>1. /\ timerID = [i \in 1 .. n |-> i] /\ autoscan_timed = [i \in 1 .. n |-> i]
        /\ subscribers = {} /\ notifying = 0
    BY DEF Init, n
  <2>2. \A i \in 1 .. n : autoscan_timed[i] \in Objects \cup {0}
    BY <1>1, <2>1
  <2>3. autoscan_timed \in Seq(Objects \cup {0})
    BY <1>1, <2>1, <2>2, IsASeq
  <2>4. timerID \in [Objects -> Nat]
    BY <1>1, <2>1
  <2>5. QED BY <2>1, <2>3, <2>4 DEF TimerType
<1>4. TaskType
  <2>1. taskQueue2 = {[id |-> i, type |-> "rescan", path |-> InitialDirs[i],
                       inc |-> IncarnationOf(InitialDirs[i]), scanID |-> i,
                       parent |-> 0, from |-> i, valid |-> TRUE] : i \in 1 .. n}
    BY DEF Init, n
  <2>2. \A i \in 1 .. n : IncarnationOf(InitialDirs[i]) \in Nat
    BY <1>1 DEF IncarnationOf
  <2>3. taskQueue2 \subseteq Tasks /\ \A t \in taskQueue2 : t.id < n + 1
    <3> SUFFICES ASSUME NEW t \in taskQueue2 PROVE t \in Tasks /\ t.id < n + 1
      OBVIOUS
    <3>1. PICK i \in 1 .. n :
             t = [id |-> i, type |-> "rescan", path |-> InitialDirs[i],
                  inc |-> IncarnationOf(InitialDirs[i]), scanID |-> i,
                  parent |-> 0, from |-> i, valid |-> TRUE]
      BY <2>1
    <3>2. t.id = i /\ i < n + 1
      BY <1>1, <3>1
    <3>3. /\ i \in Nat /\ i \in Objects \cup {0} /\ InitialDirs[i] \in Paths
          /\ IncarnationOf(InitialDirs[i]) \in Nat
      BY <1>1, <2>2
    <3>4. t \in Tasks
      BY <3>1, <3>3 DEF Tasks
    <3>5. QED BY <3>2, <3>4
  <2>4. /\ taskQueue1 = {} /\ taskID = n + 1 /\ currentTask = NoTask
        /\ shutdownFlag = FALSE
    BY DEF Init, n
  <2>5. taskID \in Nat /\ \A t \in taskQueue1 \cup taskQueue2 : t.id < taskID
    BY <1>1, <2>3, <2>4
  <2>6. QED BY <2>3, <2>4, <2>5 DEF TaskType
<1>5. LocalType /\ ThreadPhases
  BY AnyPathIsPath DEF Init, LocalType, ThreadPhases, InRescan
<1>6. UiType /\ RequestPhases
  BY AnyPathIsPath DEF Init, Idle, UiType, RequestPhases
<1>7. CallType /\ CallPhases
  BY DEF Init, NoCall, CallType, CallPhases
<1>8. DbType
  <2>1. onDisk \subseteq Paths /\ rows = 1 .. n
    BY PathsAssumption DEF Init, n
  <2>2. QED BY <1>1, <2>1 DEF DbType
<1>9. QED BY <1>2, <1>3, <1>4, <1>5, <1>6, <1>7, <1>8, TypeParts DEF ShapeInv, Parts, Phases

LEMMA InitList ==
    ASSUME Init
    PROVE  ListInv
<1> DEFINE n == Len(InitialDirs)
<1>1. /\ n \in Nat /\ Objects = 1 .. n
      /\ \A i \in 1 .. n : dirs[i].scanID = i /\ dirs[i].param = i
  BY InitDirs
<1>2. timerID = [i \in 1 .. n |-> i] /\ autoscan_timed = [i \in 1 .. n |-> i]
      /\ ui.op = "idle"
  BY DEF Init, Idle
<1> HIDE DEF n
<1>3. DOMAIN autoscan_timed = 1 .. n /\ \A i \in 1 .. n : autoscan_timed[i] = i /\ timerID[i] = i
  BY <1>2
<1>4. DOMAIN timerID = 1 .. n
  BY <1>2
<1>5. Places /\ Holders
  BY <1>1, <1>3 DEF Places, Holders
<1>6. ParamFollows
  BY <1>1, <1>3, <1>4 DEF ParamFollows
<1>7. Alone /\ Aside
  BY <1>2 DEF Alone, Aside, AtList, Copied
<1>8. QED BY <1>5, <1>6, <1>7 DEF ListInv

\* ScanListInvariant: whatever is set, edited, removed or given up while tasks run
\* and the timer fires, every variable has its type, the thread never works
\* without a task or a directory, nor a notification or a request past its lookup
\* without a directory, and the AutoscanList, the scan ids in the directories and
\* the ids in the timer parameters agree.
THEOREM ScanListInvariant == Spec => [](ShapeInv /\ ListInv)
<1>1. Init => ShapeInv /\ ListInv
  BY InitTypes, InitList
<1>2. ShapeInv /\ ListInv /\ [Next]_vars => (ShapeInv /\ ListInv)'
  BY ShapeStep, ListStep
<1>3. QED BY <1>1, <1>2, PTL DEF Spec

\* TimersFollowDirectories: the id in a timer parameter (Timer::Parameter, set by
\* AutoscanDirectory::setScanID) is INVALID_SCAN_ID or the place in the
\* AutoscanList of the directory that has this parameter, for every number of
\* directories and tasks and every order of requests, scans and notifications;
\* but for the parameter that removeIfSubdir() has just given the place of a
\* copy in the list of the removed.  It is about the parameter: a notification
\* that has read its id in that moment, or before the directory left the list
\* and its place was used again, goes on with the id and scans another directory.
THEOREM TimersFollowDirectories == Spec => []ParamFollows
BY ScanListInvariant, PTL DEF ListInv

----------------------------------------------------------------------------
(* What leaves the database                                                *)

LEMMA RemovedBelow ==
    ASSUME NEW paths, paths \subseteq Paths, inDB \subseteq Paths, RemoveFromDB(paths),
           NEW p \in inDB \ inDB'
    PROVE  \E q \in Above(p) : q \in paths
<1>1. PICK q \in paths : p \in Below[q]
  BY DEF RemoveFromDB
<1>2. QED BY <1>1 DEF Above

\* OnlyGone: the step of OnlyGoneRemoved.
OnlyGone ==
    \A p \in inDB \ inDB' : \E q \in Above(p) :
        \/ pc = "run" /\ currentTask.type = "remove" /\ q = currentTask.path
        \/ pc = "load" /\ q = currentTask.path /\ q \notin onDisk
        \/ pc = "scan" /\ q \notin todo /\ <<q, incarnation[q]>> \in stale

LEMMA OnlyGoneStep ==
    ASSUME ShapeInv, [Next]_vars
    PROVE  OnlyGone
<1>0. /\ TypeOK /\ Phases /\ inDB \subseteq Paths
      /\ \A t \in Tasks : t.path \in Paths
  BY TypeParts, TaskFacts DEF ShapeInv, Parts, DbType
<1>1. ASSUME inDB \subseteq inDB' PROVE OnlyGone
  BY <1>1 DEF OnlyGone
<1>2. ASSUME NEW p \in Paths, ensurePathExistence(p) PROVE inDB \subseteq inDB'
  BY <1>2 DEF ensurePathExistence
<1>3. CASE runRemove
  <2>1. pc = "run" /\ currentTask.type = "remove" /\ currentTask \in Tasks
    BY <1>0, <1>3 DEF runRemove, Phases, ThreadPhases
  <2>2. CASE RemoveFromDB({currentTask.path})
    BY <1>0, <2>1, <2>2, RemovedBelow DEF OnlyGone
  <2>3. CASE UNCHANGED dbVars
    BY <1>1, <2>3 DEF dbVars
  <2>4. QED BY <1>3, <2>2, <2>3 DEF runRemove
<1>4. CASE loadScan
  <2>1. pc = "load" /\ currentTask \in Tasks /\ adir \in Objects
    BY <1>0, <1>4, TypeParts DEF loadScan, Phases, ThreadPhases, InRescan, Parts, LocalType
  <2>2. CASE openFound
    <3>1. CASE currentTask.path \notin onDisk /\ RemoveFromDB({currentTask.path})
      BY <1>0, <2>1, <3>1, RemovedBelow DEF OnlyGone
    <3>2. CASE UNCHANGED dbVars
      BY <1>1, <3>2 DEF dbVars
    <3>3. QED BY <2>2, <3>1, <3>2 DEF openFound
  <2>3. CASE openMissing
    <3>1. dirs[adir].location \in Paths
      BY <1>0, <2>1, ObjectFacts
    <3>2. QED BY <1>1, <1>2, <2>3, <3>1 DEF openMissing, AddToDB, dbVars
  <2>4. QED BY <1>4, <2>2, <2>3 DEF loadScan
<1>5. CASE scanEnd
  <2>1. CASE GoesOn
    <3> DEFINE gone == {q \in inDB : <<q, incarnation[q]>> \in stale}
    <3>1. pc = "scan" /\ todo = {} /\ RemoveFromDB(gone)
      BY <1>5, <2>1 DEF scanEnd, ScanComplete
    <3>2. gone \subseteq Paths /\ \A q \in gone : <<q, incarnation[q]>> \in stale
      BY <1>0
    <3> HIDE DEF gone
    <3>3. QED BY <1>0, <3>1, <3>2, RemovedBelow DEF OnlyGone
  <2>2. CASE ~GoesOn
    BY <1>1, <1>5, <2>2 DEF scanEnd, ScanComplete, dbVars
  <2>3. QED BY <2>1, <2>2
<1>6. ASSUME NEW p \in Paths, addEntry(p) \/ setAutoscanDirectory(p) PROVE OnlyGone
  BY <1>1, <1>2, <1>6 DEF addEntry, setAutoscanDirectory, AddToDB, dbVars
<1>7. CASE \/ dequeue \/ threadExit \/ skipInvalid \/ runAdd \/ addEnd
           \/ runRescan \/ enterScan \/ openScan \/ dropLookup \/ dropRemove \/ unsubscribe
  BY <1>1, <1>7 DEF dequeue, threadExit, skipInvalid, runAdd, addEnd, runRescan, enterScan,
     openScan, dropLookup, dropRemove, unsubscribe, dbVars
<1>8. CASE \/ rescanEntry \/ addNewEntry \/ scanFails \/ rescanDone \/ subscribe
           \/ \E p \in Paths : scanEntry(p)
  BY <1>1, <1>8 DEF rescanEntry, addNewEntry, scanFails, rescanDone, subscribe, scanEntry,
     dbVars
<1>9. CASE \/ \E p \in Paths : removeObject(p) \/ addFile(p) \/ changeDisk(p)
           \/ \E o \in DOMAIN dirs : editAutoscanDirectory(o) \/ removeAutoscanDirectory(o)
           \/ \E id \in 1 .. taskID : invalidateTask(id)
  BY <1>1, <1>9 DEF removeObject, addFile, changeDisk, editAutoscanDirectory,
     removeAutoscanDirectory, invalidateTask, dbVars
<1>10. CASE \/ setNotify \/ setDone \/ editCopy \/ editRemove \/ editAdd \/ copySubdir
            \/ clearSubdir \/ removeTimers \/ invalidateAddTasks \/ addRemoveTask
  BY <1>1, <1>10 DEF setNotify, setDone, editCopy, editRemove, editAdd, copySubdir,
     clearSubdir, removeTimers, invalidateAddTasks, addRemoveTask, dbVars
<1>11. CASE \/ shutdown \/ timerNotified \/ \E p \in DOMAIN dirs : timerFire(p)
            \/ \E c \in {"timer", "web"} : Notification(c)
            \/ UNCHANGED vars
  BY <1>1, <1>11 DEF shutdown, timerNotified, timerFire, Notification, getDir, readDir,
     queueRescan, dbVars, vars
<1>12. CASE TaskThread
  BY <1>3, <1>4, <1>5, <1>6, <1>7, <1>8, <1>12 DEF TaskThread
<1>13. CASE Request \/ RequestGoesOn
  BY <1>6, <1>9, <1>10, <1>11, <1>13 DEF Request, RequestGoesOn
<1>14. QED BY <1>9, <1>11, <1>12, <1>13 DEF Next, TimerGoesOn

\* OnlyGoneIsRemoved: CMRemoveObjectTask and _rescanDirectory take a container out
\* of the database only when its removal was asked for, when its directory could
\* not be opened, or when the scan of the directory above has looked for it and
\* not found it; no abort, failure or shutdown makes a scan remove what it has
\* not looked at.
THEOREM OnlyGoneIsRemoved == Spec => OnlyGoneRemoved
<1>1. ShapeInv /\ [Next]_vars => [OnlyGone]_vars
  BY OnlyGoneStep
<1>2. OnlyGoneRemoved <=> [][OnlyGone]_vars
  BY DEF OnlyGoneRemoved, OnlyGone
<1>3. QED BY <1>1, <1>2, ScanListInvariant, PTL DEF Spec

----------------------------------------------------------------------------
(* Removing a container while it is scanned                                *)

\* Doomed(o, p): a directory of the UI inside p.
Doomed(o, p) == ~dirs[o].persistent /\ dirs[o].location \in Below[p]

\* Removing(p): removeObject() of p has taken the autoscan directories off the
\* list and its task has not been run yet.
Removing(p) ==
    PendingRemove(p) \/ (ui.op \in {"unsubscribe", "invalidate"} /\ ui.path = p)

\* RemovalBegins(p): the last of the directories inside p leaves the list.
RemovalBegins(p) ==
    ui'.op = "unsubscribe" /\ (removeObject(p) \/ (clearSubdir /\ ui.path = p))

Edits == {"edit", "take", "put"}

\* RemoveInv: the autoscan directories inside are off the list by then, and no
\* request is about to put a copy of one back.
RemoveInv ==
    \A p \in Paths : Removing(p) => \A o \in Objects : Doomed(o, p) =>
        dirs[o].scanID = 0 /\ ~(ui.op \in Edits /\ ui.dir = o)

\* As long as nobody sets a new directory, a directory has a scan id only if it,
\* or the one an edit copies it from, had one before.
LEMMA ScansOnlyEnd ==
    ASSUME ShapeInv, [Next]_vars, "set" \notin Ops,
           NEW o, o \in Objects', dirs'[o].scanID # 0
    PROVE  \/ o \in Objects /\ dirs[o].scanID # 0
           \/ /\ ui.op \in Edits /\ ui.dir \in Objects
              /\ dirs'[o].location = dirs[ui.dir].location
              /\ dirs'[o].persistent = dirs[ui.dir].persistent
<1>0. TypeOK /\ Phases /\ DirsStep
  BY StepKinds DEF ShapeInv
<1> DEFINE Had == o \in Objects /\ dirs[o].scanID # 0
<1>1. CASE Quiet
  BY <1>1 DEF Quiet, SameScans, Objects
<1>2. ASSUME UNCHANGED dirs PROVE Had
  BY <1>2 DEF Objects
<1>3. ASSUME NEW d \in Objects, editAutoscanDirectory(d) PROVE Had
  BY <1>2, <1>3 DEF editAutoscanDirectory
<1>4. ASSUME NEW p \in Paths, setAutoscanDirectory(p) PROVE FALSE
  BY <1>4 DEF setAutoscanDirectory, Begin
<1>5. CASE editCopy
  <2>1. /\ ui.op = "edit" /\ ui.dir \in Objects /\ Len(dirs') = Len(dirs) + 1
        /\ \A r \in Objects : dirs'[r] = dirs[r]
        /\ dirs'[Len(dirs) + 1] = dirs[ui.dir]
    BY <1>0, <1>5, CopyStep
  <2>2. o \in Objects \/ o = Len(dirs) + 1
    <3>1. PICK n \in Nat : n = Len(dirs)
      BY <1>0, ObjectFacts
    <3>2. o \in 1 .. n + 1 /\ Objects = 1 .. n
      BY <2>1, <3>1 DEF Objects
    <3>3. QED BY <3>1, <3>2
  <2>3. QED BY <2>1, <2>2 DEF Edits
<1>6. CASE editAdd
  <2>1. /\ ui.op = "put" /\ ui.dir \in Objects /\ Len(dirs') = Len(dirs)
        /\ o = ui.dir \/ dirs'[o].scanID = dirs[o].scanID
    BY <1>0, <1>6, AddStep DEF Objects
  <2>2. o \in Objects
    BY <2>1 DEF Objects
  <2>3. dirs'[o].location = dirs[o].location /\ dirs'[o].persistent = dirs[o].persistent
    BY <1>0, <2>2 DEF DirsStep, Kept, Objects
  <2>4. QED BY <2>1, <2>2, <2>3 DEF Edits
<1>7. ASSUME NEW ids, RemoveFromList(ids) PROVE Had
  <2>1. /\ Len(dirs') = Len(dirs)
        /\ \A q \in Objects : dirs'[q].scanID = IF q \in {autoscan_timed[i] : i \in ids}
                                                THEN 0 ELSE dirs[q].scanID
    BY <1>0, <1>7, RemoveStep
  <2>2. QED BY <2>1 DEF Objects
<1>8. ASSUME copySubdir PROVE Had
  BY <1>2, <1>8 DEF copySubdir
<1>9. ASSUME clearSubdir \/ \E ids : ClearStep(ids) PROVE Had
  BY <1>7, <1>9 DEF clearSubdir, ClearStep
<1> HIDE DEF Had
<1>10. CASE Had
  BY <1>10 DEF Had
<1>11. QED BY <1>1, <1>2, <1>3, <1>4, <1>5, <1>6, <1>8, <1>9, <1>10, StepKinds DEF StepKind

\* Only a directory of the list is edited.
LEMMA EditsListed ==
    ASSUME ShapeInv, ListInv, [Next]_vars, ui'.op \in Edits
    PROVE  \/ /\ ui.op \in Edits /\ ui.dir \in Objects
              /\ dirs'[ui'.dir].location = dirs[ui.dir].location
              /\ dirs'[ui'.dir].persistent = dirs[ui.dir].persistent
           \/ ui'.dir \in Objects /\ dirs[ui'.dir].scanID # 0
<1>0. TypeOK /\ Phases /\ DirsStep /\ UiType
  BY StepKinds, TypeParts DEF ShapeInv, Parts
<1> DEFINE Same == /\ ui.op \in Edits /\ ui.dir \in Objects
                   /\ dirs'[ui'.dir].location = dirs[ui.dir].location
                   /\ dirs'[ui'.dir].persistent = dirs[ui.dir].persistent
           IsListed == ui'.dir \in Objects /\ dirs[ui'.dir].scanID # 0
<1>1. ASSUME ui.op \in Edits, ui'.dir = ui.dir PROVE Same
  <2>1. ui.dir \in Objects
    BY <1>0, <1>1 DEF Edits, UiType, Phases, RequestPhases
  <2>2. QED BY <1>0, <1>1, <2>1 DEF DirsStep, Kept, Objects
<1>2. ASSUME ui' = ui PROVE Same
  BY <1>1, <1>2
<1>3. ASSUME ui'.op \in {"notify", "clear", "copy", "unsubscribe"} PROVE FALSE
  BY <1>3 DEF Edits
<1>4. ASSUME Quiet PROVE Same
  <2>1. ui' = ui
    BY <1>4 DEF Quiet, Edits, AtList
  <2>2. QED BY <1>2, <2>1
<1>5. ASSUME NEW d \in Objects, editAutoscanDirectory(d) PROVE IsListed
  <2>1. Listed(d) /\ ui'.dir = d
    BY <1>5 DEF editAutoscanDirectory, Idle
  <2>2. DOMAIN autoscan_timed = 1 .. Len(autoscan_timed) /\ 0 \notin DOMAIN autoscan_timed
        /\ 0 \notin Objects
    BY <1>0, TimerFacts, LenProperties
  <2>3. QED BY <2>1, <2>2 DEF Listed, ListInv, Places
<1>6. ASSUME NEW p \in Paths, setAutoscanDirectory(p) PROVE Same
  <2>1. ui' = ui \/ ui' = [Idle EXCEPT !.op = "notify", !.dir = Len(dirs) + 1]
    BY <1>0, <1>6, SetStep
  <2>2. ui' = ui \/ ui'.op = "notify"
    BY <2>1 DEF Idle
  <2>3. QED BY <1>2, <1>3, <2>2
<1>7. ASSUME editCopy PROVE Same
  <2>1. /\ ui.op = "edit" /\ ui.dir \in Objects
        /\ dirs'[Len(dirs) + 1] = dirs[ui.dir]
        /\ ui' = [ui EXCEPT !.op = "take", !.dir = Len(dirs) + 1]
    BY <1>0, <1>7, CopyStep
  <2>2. ui'.dir = Len(dirs) + 1
    BY <1>0, <2>1 DEF UiType
  <2>3. QED BY <2>1, <2>2 DEF Edits
<1>8. ASSUME editAdd PROVE FALSE
  <2>1. ui'.op = "notify"
    BY <1>0, <1>8 DEF editAdd, UiType
  <2>2. QED BY <1>3, <2>1
<1>9. ASSUME copySubdir \/ clearSubdir PROVE FALSE
  <2>1. ui'.op \in {"clear", "copy", "unsubscribe"}
    BY <1>0, <1>9 DEF copySubdir, clearSubdir, UiType
  <2>2. QED BY <1>3, <2>1
<1>10. ASSUME ui.op = "take", ui' = [ui EXCEPT !.op = "put"] PROVE Same
  <2>1. ui'.dir = ui.dir
    BY <1>0, <1>10 DEF UiType
  <2>2. QED BY <1>1, <1>10, <2>1 DEF Edits
<1>11. ASSUME editRemove PROVE Same
  BY <1>2, <1>10, <1>11 DEF editRemove
<1>12. ASSUME NEW ids, ClearStep(ids) PROVE Same
  BY <1>2, <1>10, <1>12 DEF ClearStep
<1> HIDE DEF Same, IsListed
<1>13. Same \/ IsListed
  BY <1>4, <1>5, <1>6, <1>7, <1>8, <1>9, <1>11, <1>12, StepKinds DEF StepKind
<1>14. QED BY <1>13 DEF Same, IsListed

LEMMA InvalidatedValid ==
    ASSUME NEW t \in Tasks \cup {NoTask}, NEW meant \in BOOLEAN
    PROVE  /\ Invalidated(t, meant).type = t.type /\ Invalidated(t, meant).path = t.path
           /\ Invalidated(t, meant).valid => ~meant /\ Invalidated(t, meant) = t
<1>1. CASE t \in Tasks
  BY <1>1 DEF Invalidated, Tasks
<1>2. CASE t = NoTask
  <2>1. Invalidated(t, meant) = NoTask /\ NoTask.valid = FALSE
    BY <1>2, InvalidatedNone DEF NoTask
  <2>2. QED BY <1>2, <2>1
<1>3. QED BY <1>1, <1>2

\* StillListed(t): the directory that causes task t was in the list.
StillListed(t) == t.from \in Objects /\ dirs[t.from].scanID # 0 /\ dirs' = dirs

\* QueueStep(S): no other tasks than those of S join the queues; they are
\* valid, remove nothing, and add nothing for a directory that is off the list.
QueueStep(S) ==
    /\ taskQueue1' \subseteq taskQueue1 \cup {t \in S : t.type = "add"}
    /\ taskQueue2' \subseteq taskQueue2 \cup S
    /\ currentTask' \in Queued \cup {currentTask, NoTask}
    /\ \A t \in S : t.valid
    /\ \A t \in S : t.type = "rescan" \/ (t.type = "add" /\ (t.from = 0 \/ StillListed(t)))

\* InvalidateStep: the tasks stay, some of them are invalid now.
InvalidateStep ==
    /\ \A s \in taskQueue1' : \E t \in taskQueue1, b \in BOOLEAN : s = Invalidated(t, b)
    /\ \A s \in taskQueue2' : \E t \in taskQueue2, b \in BOOLEAN : s = Invalidated(t, b)
    /\ \E b \in BOOLEAN : currentTask' = Invalidated(currentTask, b)

\* RequestStep: how a request goes on that adds no task and invalidates none.
RequestStep ==
    \/ ui' = ui
    \/ ui'.op \notin {"unsubscribe", "invalidate", "enqueue"}
    \/ ui.op = "unsubscribe" /\ ui'.op = "invalidate" /\ ui'.path = ui.path
    \/ RemovalBegins(ui'.path)

\* What a step does to the tasks, and to the request about them.
LEMMA TaskSteps ==
    ASSUME ShapeInv, [Next]_vars
    PROVE  \/ InvalidateStep /\ ui' = ui /\ "cancel" \in Ops
           \/ invalidateAddTasks
           \/ addRemoveTask
           \/ RequestStep /\ \E S : QueueStep(S)
<1>0. TypeOK /\ Phases
  BY DEF ShapeInv
<1>1. ASSUME UNCHANGED <<taskQueue1, taskQueue2, currentTask>> PROVE \E S : QueueStep(S)
  <2>1. QueueStep({})
    BY <1>1 DEF QueueStep
  <2>2. QED BY <2>1
<1>2. ASSUME UNCHANGED <<taskQueue1, currentTask>>,
             \/ UNCHANGED <<taskQueue2, taskID>>
             \/ \E new \in Tasks : new.id = taskID /\ taskID' = taskID + 1
                                   /\ new.type = "rescan" /\ new.valid
                                   /\ taskQueue2' = taskQueue2 \cup {new}
      PROVE  \E S : QueueStep(S)
  <2>1. CASE UNCHANGED taskQueue2
    BY <1>1, <1>2, <2>1
  <2>2. ASSUME NEW new \in Tasks, new.type = "rescan", new.valid,
               taskQueue2' = taskQueue2 \cup {new}
        PROVE  \E S : QueueStep(S)
    <3>1. QueueStep({new})
      BY <1>2, <2>2 DEF QueueStep
    <3>2. QED BY <3>1
  <2>3. QED BY <1>2, <2>1, <2>2
<1>3. CASE dequeue
  <2>1. taskQueue1 \subseteq Tasks /\ taskQueue2 \subseteq Tasks /\ \A t \in Tasks : t.id \in Nat
    BY <1>0, TaskFacts
  <2>2. /\ taskQueue1 # {} => Oldest(taskQueue1) \in taskQueue1
        /\ taskQueue2 # {} => Oldest(taskQueue2) \in taskQueue2
    BY <2>1, OldestQueued
  <2>3. /\ taskQueue1' \subseteq taskQueue1 /\ taskQueue2' \subseteq taskQueue2
        /\ currentTask' \in taskQueue1 \cup taskQueue2 \cup {NoTask} /\ ui' = ui
    BY <1>3, <2>2 DEF dequeue
  <2>4. QueueStep({})
    BY <2>3 DEF QueueStep, Queued
  <2>5. QED BY <2>3, <2>4 DEF RequestStep
<1>4. CASE \/ threadExit \/ skipInvalid \/ runRemove \/ runAdd \/ addEnd
           \/ \E p \in Paths : addEntry(p)
  BY <1>1, <1>4 DEF threadExit, skipInvalid, runRemove, runAdd, addEnd, addEntry, queueVars,
     RequestStep
<1>5. CASE \/ runRescan \/ enterScan \/ openScan \/ loadScan \/ dropLookup \/ dropRemove
           \/ unsubscribe \/ scanEnd \/ scanFails \/ rescanDone \/ subscribe
           \/ \E p \in Paths : scanEntry(p)
  BY <1>1, <1>5 DEF runRescan, enterScan, openScan, loadScan, dropLookup, dropRemove,
     unsubscribe, scanEnd, scanFails, rescanDone, subscribe, scanEntry, queueVars, RequestStep
<1>6. CASE rescanEntry
  <2>1. entry \in Paths /\ incarnation[entry] \in Nat /\ scanID \in Nat
    BY <1>0, TypeParts DEF Parts, LocalType, DbType
  <2>2. rescanDirectory(entry, incarnation[entry], scanID)
        /\ UNCHANGED <<taskQueue1, currentTask, ui>>
    BY <1>6 DEF rescanEntry
  <2>3. QED BY <1>0, <1>2, <2>1, <2>2, RescanTask DEF RequestStep
<1>7. CASE addNewEntry
  <2> DEFINE new == Task("add", entry, 0, 0, currentTask.id, adir)
  <2>1. adir \in Objects
    BY <1>0, <1>7, TypeParts DEF addNewEntry, Phases, ThreadPhases, Parts, LocalType
  <2>2. new.type = "add" /\ new.from = adir /\ new.valid
    BY DEF Task
  <2>3. /\ UNCHANGED <<taskQueue1, currentTask, ui, dirs>>
        /\ \/ taskQueue2' = taskQueue2
           \/ taskQueue2' = taskQueue2 \cup {new} /\ dirs[adir].scanID # 0
    BY <1>7 DEF addNewEntry, StillAutoscan
  <2> HIDE DEF new
  <2>4. CASE taskQueue2' = taskQueue2
    BY <1>1, <2>3, <2>4 DEF RequestStep
  <2>5. CASE taskQueue2' = taskQueue2 \cup {new} /\ dirs[adir].scanID # 0
    <3>1. QueueStep({new})
      BY <2>1, <2>2, <2>3, <2>5 DEF QueueStep, StillListed
    <3>2. QED BY <2>3, <3>1 DEF RequestStep
  <2>6. QED BY <2>3, <2>4, <2>5
<1>8. ASSUME NEW c \in {"timer", "web"}, Notification(c) PROVE RequestStep /\ \E S : QueueStep(S)
  <2>1. CASE getDir(c) \/ readDir(c)
    BY <1>1, <2>1 DEF getDir, readDir, queueVars, RequestStep
  <2>2. CASE queueRescan(c)
    <3>1. call[c].at = "queue"
      BY <2>2 DEF queueRescan
    <3>2. /\ call[c].dir \in Objects /\ call[c].inc \in Nat /\ call[c].scan \in Nat
      BY <1>0, <3>1, CallFacts DEF Phases, CallPhases
    <3>3. dirs[call[c].dir].location \in Paths
      BY <1>0, <3>2, ObjectFacts
    <3>4. /\ rescanDirectory(dirs[call[c].dir].location, call[c].inc, call[c].scan)
          /\ UNCHANGED <<taskQueue1, currentTask, ui>>
      BY <2>2 DEF queueRescan
    <3>5. QED BY <1>0, <1>2, <3>2, <3>3, <3>4, RescanTask DEF RequestStep
  <2>3. QED BY <1>8, <2>1, <2>2 DEF Notification
<1>9. CASE setNotify \/ setDone
  BY <1>1, <1>9 DEF setNotify, setDone, Idle, queueVars, RequestStep
<1>10. ASSUME NEW p \in Paths, addFile(p) PROVE RequestStep /\ \E S : QueueStep(S)
  <2> DEFINE new == Task("add", p, 0, 0, 0, 0)
  <2>1. new.type = "add" /\ new.from = 0 /\ new.valid
    BY DEF Task
  <2>2. taskQueue1' = taskQueue1 \cup {new} /\ UNCHANGED <<taskQueue2, currentTask, ui>>
    BY <1>10 DEF addFile
  <2> HIDE DEF new
  <2>3. QueueStep({new})
    BY <2>1, <2>2 DEF QueueStep
  <2>4. QED BY <2>2, <2>3 DEF RequestStep
<1>11. ASSUME NEW id \in 1 .. taskID, invalidateTask(id)
       PROVE  InvalidateStep /\ ui' = ui /\ "cancel" \in Ops
  <2> DEFINE hit(t) == t.id = id \/ t.parent = id
  <2>1. \A t : hit(t) \in BOOLEAN
    OBVIOUS
  <2>2. /\ taskQueue1' = {Invalidated(t, hit(t)) : t \in taskQueue1}
        /\ taskQueue2' = {Invalidated(t, hit(t)) : t \in taskQueue2}
        /\ currentTask' = Invalidated(currentTask, hit(currentTask)) /\ ui' = ui
        /\ "cancel" \in Ops
    BY <1>11 DEF invalidateTask, Begin
  <2> HIDE DEF hit
  <2>3. QED BY <2>1, <2>2 DEF InvalidateStep
<1>12. ASSUME NEW p \in Paths, setAutoscanDirectory(p) PROVE RequestStep /\ \E S : QueueStep(S)
  <2>1. ui' = ui \/ ui' = [Idle EXCEPT !.op = "notify", !.dir = Len(dirs) + 1]
    BY <1>0, <1>12, SetStep
  <2>2. ui' = ui \/ ui'.op = "notify"
    BY <2>1 DEF Idle
  <2>3. QED BY <1>1, <1>12, <2>2 DEF setAutoscanDirectory, queueVars, RequestStep
<1>13. ASSUME NEW o \in DOMAIN dirs, editAutoscanDirectory(o) \/ removeAutoscanDirectory(o)
       PROVE  RequestStep /\ \E S : QueueStep(S)
  <2>1. ui' = ui \/ ui'.op = "edit"
    BY <1>13 DEF editAutoscanDirectory, removeAutoscanDirectory, Idle
  <2>2. QED BY <1>1, <1>13, <2>1 DEF editAutoscanDirectory, removeAutoscanDirectory,
               queueVars, RequestStep
<1>14. ASSUME NEW p \in Paths, removeObject(p) PROVE RequestStep /\ \E S : QueueStep(S)
  <2>1. ui'.path = p /\ ui'.op \in {"unsubscribe", "copy"}
    BY <1>14 DEF removeObject, Idle
  <2>2. RequestStep
    BY <1>14, <2>1 DEF RequestStep, RemovalBegins
  <2>3. QED BY <1>1, <1>14, <2>2 DEF removeObject, queueVars
<1>15. CASE editCopy \/ editRemove \/ editAdd \/ copySubdir \/ clearSubdir \/ removeTimers
  <2>1. UNCHANGED <<taskQueue1, taskQueue2, currentTask>>
    BY <1>15 DEF editCopy, editRemove, editAdd, copySubdir, clearSubdir, removeTimers, queueVars
  <2>2. UiType
    BY <1>0, TypeParts DEF Parts
  <2>3. CASE editCopy \/ editRemove \/ editAdd \/ copySubdir
    <3>1. ui' = ui \/ ui'.op \in {"take", "put", "notify", "clear"}
      BY <2>2, <2>3 DEF UiType, editCopy, editRemove, editAdd, copySubdir
    <3>2. QED BY <1>1, <2>1, <3>1 DEF RequestStep
  <2>4. CASE clearSubdir
    <3>1. ui'.path = ui.path /\ ui'.op \in {"unsubscribe", "copy"}
      BY <2>2, <2>4 DEF UiType, clearSubdir
    <3>2. QED BY <1>1, <2>1, <2>4, <3>1 DEF RequestStep, RemovalBegins
  <2>5. CASE removeTimers
    <3>1. ui.op = "unsubscribe" /\ ui'.op = "invalidate" /\ ui'.path = ui.path
      BY <2>2, <2>5 DEF UiType, removeTimers
    <3>2. QED BY <1>1, <2>1, <3>1 DEF RequestStep
  <2>6. QED BY <1>15, <2>3, <2>4, <2>5
<1>16. CASE \/ timerNotified \/ shutdown \/ \E p \in Paths : changeDisk(p)
            \/ \E p \in DOMAIN dirs : timerFire(p)
  BY <1>1, <1>16 DEF timerNotified, shutdown, changeDisk, timerFire, queueVars, RequestStep
<1>17. CASE UNCHANGED vars
  BY <1>1, <1>17 DEF vars, queueVars, RequestStep
<1>18. CASE TaskThread
  BY <1>3, <1>4, <1>5, <1>6, <1>7, <1>18 DEF TaskThread
<1>19. CASE Request \/ RequestGoesOn
  BY <1>8, <1>9, <1>10, <1>11, <1>12, <1>13, <1>14, <1>15, <1>19 DEF Request, RequestGoesOn
<1>20. QED BY <1>8, <1>16, <1>17, <1>18, <1>19 DEF Next, TimerGoesOn

\* A remove task is pending only if it was, or if the tasks that it would run
\* into have just been invalidated.
LEMMA RemovesKnown ==
    ASSUME ShapeInv, [Next]_vars, NEW p \in Paths
    PROVE  /\ PendingRemove(p)' => PendingRemove(p) \/ (invalidateAddTasks /\ ui.path = p)
           /\ Removing(p)' => Removing(p) \/ RemovalBegins(p)
<1>0. TypeOK
  BY DEF ShapeInv
<1>1. taskQueue1 \subseteq Tasks /\ currentTask \in Tasks \cup {NoTask} /\ UiType
  BY <1>0, TaskFacts, TypeParts DEF Parts
<1>2. CASE InvalidateStep /\ ui' = ui
  <2>1. \A s \in taskQueue1' : \E t \in taskQueue1 : t.type = s.type /\ t.path = s.path
    BY <1>1, <1>2, InvalidatedValid DEF InvalidateStep
  <2>2. QED BY <1>2, <2>1 DEF PendingRemove, Removing
<1>3. CASE invalidateAddTasks
  <2>1. \A t : InvalidAdd(t) \in BOOLEAN
    BY DEF InvalidAdd
  <2>2. taskQueue1' = {Invalidated(t, InvalidAdd(t)) : t \in taskQueue1}
    BY <1>3 DEF invalidateAddTasks
  <2>3. \A s \in taskQueue1' : \E t \in taskQueue1 : t.type = s.type /\ t.path = s.path
    BY <1>1, <2>1, <2>2, InvalidatedValid
  <2>4. ui.op = "invalidate" /\ ui'.op = "enqueue" /\ ui'.path = ui.path
    BY <1>1, <1>3 DEF invalidateAddTasks, UiType
  <2>5. QED BY <1>3, <2>3, <2>4 DEF PendingRemove, Removing
<1>4. CASE addRemoveTask
  <2> DEFINE new == Task("remove", ui.path, ui.inc, 0, 0, 0)
  <2>1. new.path = ui.path
    BY DEF Task
  <2>2. taskQueue1' = taskQueue1 \cup {new} /\ ui.op = "enqueue" /\ ui'.op = "idle"
    BY <1>4 DEF addRemoveTask, Idle
  <2> HIDE DEF new
  <2>3. QED BY <2>1, <2>2 DEF PendingRemove, Removing
<1>5. ASSUME RequestStep, NEW S, QueueStep(S)
      PROVE  /\ PendingRemove(p)' => PendingRemove(p)
             /\ Removing(p)' => Removing(p) \/ RemovalBegins(p)
  <2>1. \A s \in taskQueue1' : s.type = "remove" => s \in taskQueue1
    BY <1>5 DEF QueueStep
  <2>2. QED BY <1>5, <2>1 DEF PendingRemove, Removing, RequestStep, RemovalBegins
<1>6. QED BY <1>2, <1>3, <1>4, <1>5, TaskSteps

\* A valid add task was one, or no directory caused it, or one of the list did.
LEMMA AddsKnown ==
    ASSUME ShapeInv, [Next]_vars, NEW t, t \in ValidAdds'
    PROVE  /\ t \in ValidAdds \/ t.from = 0 \/ StillListed(t)
           /\ invalidateAddTasks => ~InvalidAdd(t)
<1>0. TypeOK
  BY DEF ShapeInv
<1>1. /\ taskQueue1 \subseteq Tasks /\ taskQueue2 \subseteq Tasks
      /\ currentTask \in Tasks \cup {NoTask}
  BY <1>0, TaskFacts
<1>2. /\ t \in taskQueue1' \cup taskQueue2' \cup {currentTask'}
      /\ t.valid /\ t.type = "add"
  BY DEF ValidAdds, Queued
<1>3. CASE InvalidateStep /\ ~invalidateAddTasks
  <2>1. PICK s \in taskQueue1 \cup taskQueue2 \cup {currentTask}, b \in BOOLEAN :
           t = Invalidated(s, b)
    BY <1>2, <1>3 DEF InvalidateStep
  <2>2. t = s
    BY <1>1, <1>2, <2>1, InvalidatedValid
  <2>3. QED BY <1>2, <1>3, <2>1, <2>2 DEF ValidAdds, Queued
<1>4. CASE invalidateAddTasks
  <2>1. \A s : InvalidAdd(s) \in BOOLEAN
    BY DEF InvalidAdd
  <2>2. PICK s \in taskQueue1 \cup taskQueue2 \cup {currentTask} :
           t = Invalidated(s, InvalidAdd(s))
    BY <1>2, <1>4 DEF invalidateAddTasks
  <2>3. t = s /\ ~InvalidAdd(s)
    BY <1>1, <1>2, <2>1, <2>2, InvalidatedValid
  <2>4. QED BY <1>2, <2>2, <2>3 DEF ValidAdds, Queued
<1>5. CASE addRemoveTask
  <2> DEFINE new == Task("remove", ui.path, ui.inc, 0, 0, 0)
  <2>1. new.type = "remove"
    BY DEF Task
  <2>2. taskQueue1' = taskQueue1 \cup {new} /\ UNCHANGED <<taskQueue2, currentTask>>
        /\ ui.op = "enqueue"
    BY <1>5 DEF addRemoveTask
  <2> HIDE DEF new
  <2>3. ~invalidateAddTasks
    BY <2>2 DEF invalidateAddTasks
  <2>4. QED BY <1>2, <2>1, <2>2, <2>3 DEF ValidAdds, Queued
<1>6. ASSUME NEW S, QueueStep(S), ~invalidateAddTasks
      PROVE  t \in ValidAdds \/ t.from = 0 \/ StillListed(t)
  <2>1. t # NoTask
    BY <1>2 DEF NoTask
  <2>2. t \in Queued \cup {currentTask} \cup S
    BY <1>2, <1>6, <2>1 DEF QueueStep, Queued
  <2>3. CASE t \in S
    BY <1>2, <1>6, <2>3 DEF QueueStep
  <2>4. CASE t \in Queued \cup {currentTask}
    BY <1>2, <2>4 DEF ValidAdds
  <2>5. QED BY <2>2, <2>3, <2>4
<1>7. QED BY <1>3, <1>4, <1>5, <1>6, TaskSteps

LEMMA RemoveStepInv ==
    ASSUME ShapeInv, ListInv, RemoveInv, [Next]_vars, "set" \notin Ops
    PROVE  RemoveInv'
<1> SUFFICES ASSUME NEW p \in Paths, Removing(p)', NEW o \in Objects', Doomed(o, p)'
             PROVE  dirs'[o].scanID = 0 /\ ~(ui'.op \in Edits /\ ui'.dir = o)
  BY DEF RemoveInv
<1>0. TypeOK /\ DirsStep
  BY StepKinds DEF ShapeInv
<1>1. /\ ~dirs'[o].persistent /\ dirs'[o].location \in Below[p]
      /\ o \in Objects => dirs'[o].persistent = dirs[o].persistent
                          /\ dirs'[o].location = dirs[o].location
  BY <1>0 DEF Doomed, DirsStep, Kept, Objects
<1>2. CASE Removing(p)
  <2>1. \A q \in Objects : Doomed(q, p) => dirs[q].scanID = 0 /\ ~(ui.op \in Edits /\ ui.dir = q)
    BY <1>2 DEF RemoveInv
  <2>2. ASSUME dirs'[o].scanID # 0 PROVE FALSE
    <3>1. CASE o \in Objects /\ dirs[o].scanID # 0
      BY <1>1, <2>1, <3>1 DEF Doomed
    <3>2. CASE /\ ui.op \in Edits /\ ui.dir \in Objects
               /\ dirs'[o].location = dirs[ui.dir].location
               /\ dirs'[o].persistent = dirs[ui.dir].persistent
      BY <1>1, <2>1, <3>2 DEF Doomed
    <3>3. QED BY <2>2, <3>1, <3>2, ScansOnlyEnd
  <2>3. ASSUME ui'.op \in Edits, ui'.dir = o PROVE FALSE
    <3>1. CASE o \in Objects /\ dirs[o].scanID # 0
      BY <1>1, <2>1, <3>1 DEF Doomed
    <3>2. CASE /\ ui.op \in Edits /\ ui.dir \in Objects
               /\ dirs'[o].location = dirs[ui.dir].location
               /\ dirs'[o].persistent = dirs[ui.dir].persistent
      BY <1>1, <2>1, <3>2 DEF Doomed
    <3>3. QED BY <2>3, <3>1, <3>2, EditsListed
  <2>4. QED BY <2>2, <2>3
<1>3. CASE RemovalBegins(p)
  <2>1. ui'.op \notin Edits
    BY <1>3 DEF RemovalBegins, Edits
  <2>2. ~Copied(o) /\ Len(dirs') = Len(dirs)
    <3>1. CASE removeObject(p)
      BY <3>1 DEF removeObject, Begin, Idle, Copied
    <3>2. CASE clearSubdir
      BY <1>0, <3>2, RemoveStep DEF clearSubdir, Copied
    <3>3. QED BY <1>3, <3>1, <3>2 DEF RemovalBegins
  <2>3. o \in Objects
    BY <2>2 DEF Objects
  <2>4. ASSUME dirs[o].scanID # 0
        PROVE  dirs[o].scanID \in SubAutoscans(p) /\ autoscan_timed[dirs[o].scanID] = o
    <3>1. /\ dirs[o].scanID \in DOMAIN autoscan_timed
          /\ autoscan_timed[dirs[o].scanID] = o
      BY <2>2, <2>3, <2>4 DEF ListInv, Holders
    <3>2. DOMAIN autoscan_timed = 1 .. Len(autoscan_timed) /\ o # 0
      BY <1>0, <2>3, TimerFacts, LenProperties
    <3>3. dirs[o].location \in StartsWith[p]
      BY <1>1, <2>3, PathsAssumption
    <3>4. QED BY <1>1, <2>3, <3>1, <3>2, <3>3 DEF ListedAt, SubAutoscans
  <2>5. CASE removeObject(p)
    <3>1. /\ dirs' = dirs
          /\ ui'.op = IF SubAutoscans(p) = {} THEN "unsubscribe" ELSE "copy"
      BY <2>5 DEF removeObject, Idle
    <3>2. SubAutoscans(p) = {}
      BY <1>3, <3>1 DEF RemovalBegins
    <3>3. QED BY <2>1, <2>4, <3>1, <3>2
  <2>6. CASE clearSubdir /\ ui.path = p
    <3> DEFINE id == dirs[ui.dir].scanID
    <3>1. /\ RemoveFromList({id})
          /\ ui'.op = IF SubAutoscans(p) = {id} THEN "unsubscribe" ELSE "copy"
      <4>1. UiType
        BY <1>0, TypeParts DEF Parts
      <4>2. QED BY <2>6, <4>1 DEF clearSubdir, UiType
    <3>2. SubAutoscans(p) = {id}
      BY <1>3, <3>1 DEF RemovalBegins
    <3>3. dirs'[o].scanID = IF o \in {autoscan_timed[i] : i \in {id}} THEN 0 ELSE dirs[o].scanID
      BY <1>0, <2>3, <3>1, RemoveStep
    <3> HIDE DEF id
    <3>4. QED BY <2>1, <2>4, <3>2, <3>3
  <2>7. QED BY <1>3, <2>5, <2>6 DEF RemovalBegins
<1>4. QED BY <1>2, <1>3, RemovesKnown

LEMMA NoAddStep ==
    ASSUME ShapeInv, RemoveInv, NoAddBehindRemove, [Next]_vars
    PROVE  NoAddBehindRemove'
<1> SUFFICES ASSUME NEW p \in Paths, PendingRemove(p)', NEW t \in ValidAdds',
                    t.path \in Below[p], t.from # 0, Doomed(t.from, p)'
             PROVE  FALSE
  BY DEF NoAddBehindRemove, Doomed
<1>0. TypeOK /\ DirsStep
  BY StepKinds DEF ShapeInv
<1>1. PendingRemove(p) \/ (invalidateAddTasks /\ ui.path = p)
  BY RemovesKnown
<1>2. t \in ValidAdds \/ StillListed(t)
  BY AddsKnown
<1>3. t.from \in Objects
  <2>1. CASE t \in ValidAdds
    <3>1. t \in Tasks \cup {NoTask} /\ t.type = "add"
      BY <1>0, <2>1, TaskFacts DEF ValidAdds, Queued
    <3>2. t \in Tasks
      BY <3>1 DEF NoTask
    <3>3. QED BY <1>0, <3>2, TaskFacts
  <2>2. QED BY <1>2, <2>1 DEF StillListed
<1>4. Doomed(t.from, p)
  BY <1>0, <1>3 DEF Doomed, DirsStep, Kept, Objects
<1>5. CASE PendingRemove(p)
  <2>1. CASE t \in ValidAdds
    BY <1>4, <1>5, <2>1 DEF NoAddBehindRemove, Doomed
  <2>2. CASE StillListed(t)
    BY <1>3, <1>4, <1>5, <2>2 DEF RemoveInv, Removing, StillListed
  <2>3. QED BY <1>2, <2>1, <2>2
<1>6. CASE invalidateAddTasks /\ ui.path = p
  <2>1. ~InvalidAdd(t) /\ t.type = "add"
    BY <1>6, AddsKnown DEF ValidAdds
  <2>2. QED BY <1>6, <2>1, PathsAssumption DEF InvalidAdd
<1>7. QED BY <1>1, <1>5, <1>6

\* RemovedStaysRemoved: between removeObject() and the run of its CMRemoveObjectTask
\* no valid CMAddFileTask that the scan of an autoscan directory inside the
\* container has queued for a path inside it is left or appears, however the
\* scan, the timer, edits of the directory and the three locked sections of
\* removeObject() interleave.  Nobody may set a new autoscan directory meanwhile:
\* it can take a scan id that has just become free, and the running scan, which
\* looks its directory up by the id, would go on for the new one.
THEOREM RemovedStaysRemoved ==
    ASSUME "set" \notin Ops
    PROVE  Spec => []NoAddBehindRemove
<1>1. Init => ShapeInv /\ ListInv /\ RemoveInv /\ NoAddBehindRemove
  <2> SUFFICES ASSUME Init PROVE RemoveInv /\ NoAddBehindRemove
    BY InitTypes, InitList
  <2>1. taskQueue1 = {} /\ ui.op = "idle"
    BY DEF Init, Idle
  <2>2. \A p \in Paths : ~Removing(p) /\ ~PendingRemove(p)
    BY <2>1 DEF Removing, PendingRemove
  <2>3. QED BY <2>2 DEF RemoveInv, NoAddBehindRemove
<1>2. ShapeInv /\ ListInv /\ RemoveInv /\ NoAddBehindRemove /\ [Next]_vars
      => (ShapeInv /\ ListInv /\ RemoveInv /\ NoAddBehindRemove)'
  BY ShapeStep, ListStep, RemoveStepInv, NoAddStep
<1>3. QED BY <1>1, <1>2, PTL DEF Spec

----------------------------------------------------------------------------
(* The count of pending scans and the timer of a directory of config.xml   *)

\* Undisturbed: no task is cancelled and none fails, and no request removes or
\* edits anything.  A removal would even reach directories it is not about: for a
\* moment it gives a timer parameter the place of another directory.
Undisturbed == Ops \subseteq {"set", "vanish", "addFile", "shutdown"}

\* OwnTimer: no directory shares the timer parameter of another one.
OwnTimer == \A o \in Objects : dirs[o].param = o

\* StaysListed: a directory of config.xml never loses its scan id.
StaysListed == \A o \in Objects : dirs[o].persistent => dirs[o].scanID # 0

\* UiOnly: a request adds a directory of the UI, or is between two of them.
UiOnly == ui.op \in {"idle", "notify"} /\ (ui.op = "notify" => ~dirs[ui.dir].persistent)

\* RescansValid: rescan tasks are of low priority, and nobody invalidates them.
RescansValid ==
    /\ \A t \in taskQueue1 : t.type # "rescan"
    /\ \A t \in taskQueue2 : t.type = "rescan" => t.valid
    /\ currentTask.type = "rescan" => currentTask.valid

\* ScansOwn: the thread has a directory only in a rescan task; it scans with the id
\* of this directory, finds it again by this id whenever it looks, and gives up
\* directories of the UI only.
ScansOwn ==
    /\ pc \notin InRescan => dir = 0
    /\ pc \in {"open", "load", "drop", "remove", "scan", "entry"} =>
         scanID = dirs[dir].scanID /\ scanID # 0
    /\ pc \in {"load", "drop", "remove", "unsubscribe", "scan", "entry"} => adir = dir
    /\ pc \in {"remove", "unsubscribe"} => victim = dir
    /\ pc \in {"drop", "remove", "unsubscribe"} => ~dirs[dir].persistent

\* CallsOwn: a notification has the id of a directory of config.xml, the directory
\* itself, or once more its id, only if it is the one of its timer.
CallsOwn ==
    \A o \in Objects : dirs[o].persistent =>
        \A c \in {"timer", "web"} : LET own == c = "timer" /\ notifying = o IN
            /\ call[c].at = "get" => (call[c].id = dirs[o].scanID <=> own)
            /\ call[c].at = "read" => (call[c].dir = o <=> own)
            /\ call[c].at = "queue" => (call[c].scan = dirs[o].scanID <=> own)

ConfigInv == OwnTimer /\ StaysListed /\ UiOnly /\ RescansValid /\ ScansOwn /\ CallsOwn

LEMMA AtItsPlace ==
    ASSUME TypeOK, ListInv, OwnTimer, UiOnly, NEW o \in Objects, dirs[o].scanID # 0
    PROVE  /\ dirs[o].scanID \in DOMAIN autoscan_timed
           /\ autoscan_timed[dirs[o].scanID] = o
           /\ Get(autoscan_timed, dirs[o].scanID) = o /\ o # 0
           /\ timerID[o] = dirs[o].scanID
           /\ \A id \in Nat : Get(autoscan_timed, id) = o => id = dirs[o].scanID
<1>1. /\ dirs[o].scanID \in DOMAIN autoscan_timed /\ autoscan_timed[dirs[o].scanID] = o
  BY DEF ListInv, Holders, Copied, UiOnly
<1>2. o # 0 /\ DOMAIN autoscan_timed = 1 .. Len(autoscan_timed)
  BY TimerFacts, LenProperties
<1>3. timerID[o] = dirs[o].scanID
  BY <1>1, <1>2 DEF ListInv, Places, OwnTimer, Marked, UiOnly
<1>4. Get(autoscan_timed, dirs[o].scanID) = o
  BY <1>1, <1>2 DEF Get
<1>5. \A id \in Nat : Get(autoscan_timed, id) = o => id = dirs[o].scanID
  BY <1>2 DEF Get, ListInv, Places
<1>6. QED BY <1>1, <1>2, <1>3, <1>4, <1>5

\* Two directories do not have the same id.
LEMMA OwnPlace ==
    ASSUME TypeOK, ListInv, OwnTimer, UiOnly, NEW d \in Objects, NEW o \in Objects,
           dirs[o].scanID # 0
    PROVE  dirs[d].scanID = dirs[o].scanID <=> d = o
<1>1. ASSUME dirs[d].scanID = dirs[o].scanID PROVE d = o
  <2>1. Get(autoscan_timed, dirs[d].scanID) = d /\ Get(autoscan_timed, dirs[o].scanID) = o
    BY <1>1, AtItsPlace
  <2>2. QED BY <1>1, <2>1
<1>2. QED BY <1>1

\* The scan of a directory that is given up takes this one off the list.
LEMMA DropsOwn ==
    ASSUME ShapeInv, ListInv, ConfigInv, dropRemove
    PROVE  /\ RemoveFromList({dirs[dir].scanID}) /\ pc' = "unsubscribe"
           /\ dir \in Objects /\ ~dirs[dir].persistent
           /\ \A i \in {dirs[dir].scanID} : autoscan_timed[i] = dir
<1>0. TypeOK /\ dir \in Objects /\ scanID = dirs[dir].scanID /\ scanID # 0
      /\ ~dirs[dir].persistent
  BY TypeParts DEF ShapeInv, Phases, ThreadPhases, InRescan, Parts, LocalType, ConfigInv,
     ScansOwn, dropRemove
<1>1. scanID \in DOMAIN autoscan_timed /\ autoscan_timed[scanID] = dir /\ dir # 0
  BY <1>0, AtItsPlace DEF ConfigInv
<1>2. RemoveFromList({scanID}) /\ pc' = "unsubscribe"
  BY <1>1 DEF dropRemove, RemoveID, FollowsNil
<1>3. QED BY <1>0, <1>1, <1>2

\* Nothing else takes a scan id away.
LEMMA ScansKept ==
    ASSUME ShapeInv, UiOnly, Undisturbed, [Next]_vars, ~dropRemove
    PROVE  \A o \in Objects : dirs'[o].scanID = dirs[o].scanID
<1>0. TypeOK /\ StepKind /\ ui.op \in {"idle", "notify"}
  BY StepKinds DEF ShapeInv, UiOnly
<1>1. CASE Quiet
  BY <1>1 DEF Quiet, SameScans, Objects
<1>2. ASSUME NEW d \in Objects, editAutoscanDirectory(d) PROVE FALSE
  BY <1>2 DEF editAutoscanDirectory, Begin, Undisturbed
<1>3. ASSUME NEW p \in Paths, setAutoscanDirectory(p)
      PROVE  \A o \in Objects : dirs'[o].scanID = dirs[o].scanID
  BY <1>0, <1>3, SetStep
<1>4. ~editCopy /\ ~editAdd /\ ~copySubdir /\ ~clearSubdir /\ ~editRemove
  BY <1>0 DEF editCopy, editAdd, copySubdir, clearSubdir, editRemove
<1>5. ASSUME NEW ids, ClearStep(ids) PROVE FALSE
  BY <1>0, <1>5 DEF ClearStep, Undisturbed
<1>6. QED BY <1>0, <1>1, <1>2, <1>3, <1>4, <1>5 DEF StepKind

LEMMA NewDirs ==
    ASSUME ShapeInv, OwnTimer, UiOnly, Undisturbed, [Next]_vars
    PROVE  /\ \A o \in Objects : /\ o \in Objects'
                                 /\ dirs'[o].persistent = dirs[o].persistent
           /\ \A o \in Objects' : dirs'[o].persistent => o \in Objects
           /\ "set" \notin Ops => Objects' = Objects
           /\ OwnTimer'
<1>0. TypeOK /\ DirsStep /\ StepKind /\ ui.op \in {"idle", "notify"}
  BY StepKinds DEF ShapeInv, UiOnly
<1>1. \A o \in Objects : /\ o \in Objects' /\ dirs'[o].persistent = dirs[o].persistent
                         /\ dirs'[o].param = o
  BY <1>0, MoreObjects DEF DirsStep, Kept, Objects, OwnTimer
<1> DEFINE Goal == /\ \A o \in Objects' : dirs'[o].persistent => o \in Objects
                   /\ "set" \notin Ops => Objects' = Objects
                   /\ OwnTimer'
<1>2. ASSUME Len(dirs') = Len(dirs) PROVE Goal
  BY <1>1, <1>2 DEF Objects, OwnTimer
<1>3. ASSUME Quiet PROVE Goal
  BY <1>2, <1>3 DEF Quiet, SameScans
<1>4. ASSUME NEW d \in Objects, editAutoscanDirectory(d) PROVE FALSE
  BY <1>4 DEF editAutoscanDirectory, Begin, Undisturbed
<1>5. ASSUME NEW p \in Paths, setAutoscanDirectory(p) PROVE Goal
  <2>1. PICK n \in Nat : n = Len(dirs)
    BY <1>0, ObjectFacts
  <2>2. /\ Len(dirs') = n + 1 /\ dirs'[n + 1].param = n + 1 /\ ~dirs'[n + 1].persistent
    BY <1>0, <1>5, <2>1, SetStep
  <2>3. Objects' = Objects \cup {n + 1}
    BY <2>1, <2>2 DEF Objects
  <2>4. "set" \in Ops
    BY <1>5 DEF setAutoscanDirectory, Begin
  <2>5. QED BY <1>1, <2>2, <2>3, <2>4 DEF OwnTimer
<1>6. ~editCopy /\ ~editAdd /\ ~copySubdir /\ ~clearSubdir /\ ~editRemove
  BY <1>0 DEF editCopy, editAdd, copySubdir, clearSubdir, editRemove
<1>7. ASSUME NEW ids, ClearStep(ids) PROVE Goal
  BY <1>0, <1>2, <1>7, RemoveStep DEF ClearStep
<1>8. Goal
  BY <1>0, <1>3, <1>4, <1>5, <1>6, <1>7 DEF StepKind
<1>9. QED BY <1>1, <1>8

LEMMA PersistentKept ==
    ASSUME ShapeInv, ListInv, ConfigInv, Undisturbed, [Next]_vars
    PROVE  /\ \A o \in Objects : /\ o \in Objects'
                                 /\ dirs'[o].persistent = dirs[o].persistent
                                 /\ dirs[o].persistent => dirs'[o].scanID = dirs[o].scanID
           /\ \A o \in Objects' : dirs'[o].persistent => o \in Objects
           /\ OwnTimer'
<1>1. CASE dropRemove
  <2>1. TypeOK /\ RemoveFromList({dirs[dir].scanID}) /\ dir \in Objects
        /\ ~dirs[dir].persistent
        /\ {autoscan_timed[i] : i \in {dirs[dir].scanID}} = {dir}
    BY <1>1, DropsOwn DEF ShapeInv
  <2>2. \A q \in Objects : dirs'[q].scanID = IF q \in {dir} THEN 0 ELSE dirs[q].scanID
    BY <2>1, RemoveStep
  <2>3. \A o \in Objects : dirs[o].persistent => dirs'[o].scanID = dirs[o].scanID
    BY <2>1, <2>2
  <2>4. QED BY <2>3, NewDirs DEF ConfigInv
<1>2. CASE ~dropRemove
  BY <1>2, NewDirs, ScansKept DEF ConfigInv
<1>3. QED BY <1>1, <1>2

LEMMA UiOnlyStep ==
    ASSUME ShapeInv, ListInv, ConfigInv, Undisturbed, [Next]_vars
    PROVE  UiOnly'
<1>0. /\ TypeOK /\ ui.op \in {"idle", "notify"} /\ UiType
      /\ ui.op = "notify" => ui.dir \in Objects /\ ~dirs[ui.dir].persistent
  BY TypeParts DEF ShapeInv, Parts, UiType, Phases, RequestPhases, ConfigInv, UiOnly
<1>1. CASE ui' = ui
  <2>1. \A o \in Objects : dirs'[o].persistent = dirs[o].persistent
    BY PersistentKept
  <2>2. QED BY <1>0, <1>1, <2>1 DEF UiOnly
<1>2. CASE ui' = Idle
  BY <1>2 DEF UiOnly, Idle
<1>3. CASE TaskThread
  <2>1. CASE \/ dequeue \/ threadExit \/ skipInvalid \/ runRemove \/ runAdd \/ addEnd
             \/ \E p \in Paths : addEntry(p)
    BY <1>1, <2>1 DEF dequeue, threadExit, skipInvalid, runRemove, runAdd, addEnd, addEntry
  <2>2. CASE runRescan \/ enterScan \/ openScan \/ loadScan \/ dropLookup \/ dropRemove
    BY <1>1, <2>2 DEF runRescan, enterScan, openScan, loadScan, dropLookup, dropRemove
  <2>3. CASE \/ unsubscribe \/ rescanEntry \/ addNewEntry \/ scanEnd \/ scanFails
             \/ rescanDone \/ subscribe \/ \E p \in Paths : scanEntry(p)
    BY <1>1, <2>3 DEF unsubscribe, rescanEntry, addNewEntry, scanEnd, scanFails, rescanDone,
       subscribe, scanEntry
  <2>4. QED BY <1>3, <2>1, <2>2, <2>3 DEF TaskThread
<1>4. ASSUME NEW c \in {"timer", "web"}, Notification(c) PROVE UiOnly'
  BY <1>0, <1>1, <1>4, NotificationStep
<1>5. CASE \/ \E p \in DOMAIN dirs : timerFire(p)
           \/ timerNotified \/ shutdown \/ \E p \in Paths : changeDisk(p)
  BY <1>1, <1>5 DEF timerFire, timerNotified, shutdown, changeDisk
<1>6. ASSUME NEW p \in Paths, setAutoscanDirectory(p) PROVE UiOnly'
  <2> DEFINE n == Len(dirs) + 1
  <2>1. ~dirs'[n].persistent /\ (ui' = ui \/ ui' = [Idle EXCEPT !.op = "notify", !.dir = n])
    BY <1>0, <1>6, SetStep
  <2> HIDE DEF n
  <2>2. ui' = ui \/ (ui'.op = "notify" /\ ui'.dir = n)
    BY <2>1 DEF Idle
  <2>3. CASE ui'.op = "notify" /\ ui'.dir = n
    BY <2>1, <2>3 DEF UiOnly
  <2>4. QED BY <1>1, <2>2, <2>3
<1>7. ASSUME \/ \E p \in Paths : removeObject(p)
             \/ \E o \in DOMAIN dirs : editAutoscanDirectory(o) \/ removeAutoscanDirectory(o)
             \/ \E id \in 1 .. taskID : invalidateTask(id)
      PROVE  FALSE
  BY <1>7 DEF removeObject, editAutoscanDirectory, removeAutoscanDirectory, invalidateTask,
     Begin, Undisturbed
<1>8. CASE \E p \in Paths : addFile(p)
  BY <1>1, <1>8 DEF addFile
<1>9. CASE setNotify \/ setDone
  BY <1>1, <1>2, <1>9 DEF setNotify, setDone
<1>10. /\ ~editCopy /\ ~editRemove /\ ~editAdd /\ ~copySubdir /\ ~clearSubdir
       /\ ~removeTimers /\ ~invalidateAddTasks /\ ~addRemoveTask
  BY <1>0 DEF editCopy, editRemove, editAdd, copySubdir, clearSubdir, removeTimers,
     invalidateAddTasks, addRemoveTask
<1>11. CASE UNCHANGED vars
  BY <1>1, <1>11 DEF vars
<1>12. QED BY <1>3, <1>4, <1>5, <1>6, <1>7, <1>8, <1>9, <1>10, <1>11
           DEF Next, Request, RequestGoesOn, TimerGoesOn

\* Of the requests only these are left.
LEMMA RequestsLeft ==
    ASSUME UiOnly, Undisturbed, Request \/ RequestGoesOn
    PROVE  \/ \E p \in Paths : setAutoscanDirectory(p) \/ addFile(p)
           \/ setNotify \/ Notification("web") \/ setDone
<1>1. ui.op \in {"idle", "notify"}
  BY DEF UiOnly
<1>2. ASSUME \/ \E p \in Paths : removeObject(p)
             \/ \E o \in DOMAIN dirs : editAutoscanDirectory(o) \/ removeAutoscanDirectory(o)
             \/ \E id \in 1 .. taskID : invalidateTask(id)
      PROVE  FALSE
  BY <1>2 DEF removeObject, editAutoscanDirectory, removeAutoscanDirectory, invalidateTask,
     Begin, Undisturbed
<1>3. /\ ~editCopy /\ ~editRemove /\ ~editAdd /\ ~copySubdir /\ ~clearSubdir
      /\ ~removeTimers /\ ~invalidateAddTasks /\ ~addRemoveTask
  BY <1>1 DEF editCopy, editRemove, editAdd, copySubdir, clearSubdir, removeTimers,
     invalidateAddTasks, addRemoveTask
<1>4. QED BY <1>2, <1>3 DEF Request, RequestGoesOn

LEMMA RescansValidStep ==
    ASSUME ShapeInv, UiOnly, RescansValid, Undisturbed, [Next]_vars
    PROVE  RescansValid'
<1>1. "cancel" \notin Ops /\ ~invalidateAddTasks /\ ~addRemoveTask
  BY DEF Undisturbed, UiOnly, invalidateAddTasks, addRemoveTask
<1>2. ASSUME NEW S, QueueStep(S) PROVE RescansValid'
  <2>1. NoTask.type = "none"
    BY DEF NoTask
  <2>2. QED BY <1>2, <2>1 DEF RescansValid, QueueStep, Queued
<1>3. QED BY <1>1, <1>2, TaskSteps

LEMMA WakeKeeps ==
    ASSUME pc' \in {pc, Wake(pc)}
    PROVE  pc' = pc \/ (pc = "wait" /\ pc' = "top")
BY DEF Wake

\* What the threads beside the task thread do to it.
LEMMA OthersKeepThread ==
    ASSUME Undisturbed, UiOnly, [Next]_vars, ~TaskThread
    PROVE  pc' \in {pc, Wake(pc)} /\ UNCHANGED <<locals, currentTask>>
<1>1. ASSUME NEW c \in {"timer", "web"}, Notification(c)
      PROVE  pc' \in {pc, Wake(pc)} /\ UNCHANGED <<locals, currentTask>>
  BY <1>1 DEF Notification, getDir, readDir, queueRescan, queueVars
<1>2. CASE \/ \E p \in DOMAIN dirs : timerFire(p)
           \/ timerNotified \/ shutdown \/ \E p \in Paths : changeDisk(p)
  BY <1>2 DEF timerFire, timerNotified, shutdown, changeDisk, queueVars
<1>3. CASE \E p \in Paths : setAutoscanDirectory(p) \/ addFile(p)
  BY <1>3 DEF setAutoscanDirectory, addFile, queueVars
<1>4. CASE setNotify \/ setDone
  BY <1>4 DEF setNotify, setDone, queueVars
<1>5. CASE UNCHANGED vars
  BY <1>5 DEF vars, queueVars
<1>6. QED BY <1>1, <1>2, <1>3, <1>4, <1>5, RequestsLeft DEF Next, TimerGoesOn

LEMMA ScansOwnStep ==
    ASSUME ShapeInv, ListInv, ConfigInv, Undisturbed, [Next]_vars
    PROVE  ScansOwn'
<1>0. TypeOK
  BY DEF ShapeInv
<1>1. /\ dir \in Objects \cup {0} /\ scanID \in Nat
      /\ pc \in InRescan => dir \in Objects /\ dirs[dir].scanID \in Nat
  BY <1>0, TypeParts, ObjectFacts DEF Parts, LocalType, ShapeInv, Phases, ThreadPhases
<1>2. ~dropRemove => \A o \in Objects : dirs'[o].scanID = dirs[o].scanID
  BY ScansKept DEF ConfigInv
<1>3. \A o \in Objects : dirs'[o].persistent = dirs[o].persistent
  BY PersistentKept
<1>4. ASSUME ~dropRemove, pc' \in {pc, Wake(pc)}, UNCHANGED <<dir, adir, victim, scanID>>
      PROVE  ScansOwn'
  <2>1. pc' = pc \/ (pc = "wait" /\ pc' = "top")
    BY <1>4, WakeKeeps
  <2>2. CASE pc' = pc
    BY <1>1, <1>2, <1>3, <1>4, <2>2 DEF ConfigInv, ScansOwn, InRescan
  <2>3. CASE pc = "wait" /\ pc' = "top"
    BY <1>4, <2>3 DEF ConfigInv, ScansOwn, InRescan
  <2>4. QED BY <2>1, <2>2, <2>3
<1>5. ASSUME pc' \in {"top", "wait", "run", "exit", "add"}, dir' = dir, pc \notin InRescan
      PROVE  ScansOwn'
  BY <1>5 DEF ConfigInv, ScansOwn, InRescan
<1>6. ASSUME TaskEnds PROVE ScansOwn'
  BY <1>6 DEF TaskEnds, ScansOwn, InRescan
<1>7. ASSUME pc' \in {"done", "enter", "subscribe"} PROVE ScansOwn'
  BY <1>7 DEF ScansOwn, InRescan
<1>8. ASSUME ~dropRemove, pc \in {"load", "scan", "entry"}, pc' \in {"scan", "entry"},
             UNCHANGED <<dir, adir, scanID>>
      PROVE  ScansOwn'
  BY <1>1, <1>2, <1>8 DEF ConfigInv, ScansOwn, InRescan
<1>9. CASE dequeue \/ threadExit \/ runAdd
  BY <1>5, <1>9 DEF dequeue, threadExit, runAdd, locals, InRescan
<1>10. CASE skipInvalid \/ runRemove \/ addEnd \/ scanFails \/ subscribe
  BY <1>6, <1>10 DEF skipInvalid, runRemove, addEnd, scanFails, subscribe
<1>11. ASSUME NEW p \in Paths, addEntry(p) PROVE ScansOwn'
  <2>1. ~dropRemove
    BY <1>11 DEF addEntry, dropRemove
  <2>2. QED BY <1>4, <1>11, <2>1 DEF addEntry
<1>12. CASE runRescan
  BY <1>6, <1>7, <1>12 DEF runRescan
<1>13. CASE enterScan
  <2>1. CASE dirs[dir].scanID = 0
    BY <1>7, <1>13, <2>1 DEF enterScan
  <2>2. CASE dirs[dir].scanID # 0
    <3>1. /\ pc' = "open" /\ scanID' = dirs[dir].scanID /\ dir' = dir /\ dirs' = dirs
      BY <1>13, <2>2 DEF enterScan
    <3>2. QED BY <2>2, <3>1 DEF ScansOwn, InRescan
  <2>3. QED BY <2>1, <2>2
<1>14. CASE openScan
  <2>1. CASE Get(autoscan_timed, scanID) = 0
    BY <1>6, <1>14, <2>1 DEF openScan
  <2>2. CASE Get(autoscan_timed, scanID) # 0
    <3>1. /\ pc' = "load" /\ adir' = Get(autoscan_timed, scanID)
          /\ UNCHANGED <<dir, scanID, dirs>> /\ pc = "open"
      BY <1>14, <2>2 DEF openScan
    <3>2. scanID = dirs[dir].scanID /\ scanID # 0 /\ dir \in Objects
      BY <1>1, <3>1 DEF ConfigInv, ScansOwn, InRescan
    <3>3. Get(autoscan_timed, scanID) = dir
      BY <1>0, <3>2, AtItsPlace DEF ConfigInv
    <3>4. QED BY <3>1, <3>2, <3>3 DEF ScansOwn, InRescan
  <2>3. QED BY <2>1, <2>2
<1>15. CASE loadScan
  <2>1. pc = "load" /\ ~dropRemove
    BY <1>15 DEF loadScan, dropRemove
  <2>2. adir = dir /\ dir \in Objects
    BY <1>1, <2>1 DEF ConfigInv, ScansOwn, InRescan
  <2>3. ASSUME NEW path, StartScan(path) PROVE ScansOwn'
    BY <1>8, <2>1, <2>3 DEF StartScan
  <2>4. ASSUME DropAutoscan, ~dirs[dir].persistent PROVE ScansOwn'
    <3>1. pc' = "drop" /\ UNCHANGED <<dir, adir, scanID>>
      BY <2>4 DEF DropAutoscan, locals
    <3>2. QED BY <1>2, <1>3, <2>1, <2>2, <2>4, <3>1 DEF ConfigInv, ScansOwn, InRescan
  <2>5. ASSUME GiveUp PROVE ScansOwn'
    BY <1>7, <2>2, <2>4, <2>5 DEF GiveUp, KeepAutoscan
  <2>6. QED BY <1>15, <2>2, <2>3, <2>4, <2>5 DEF loadScan, openFound, openMissing
<1>16. CASE dropLookup
  <2>1. CASE Get(autoscan_timed, scanID) = 0
    BY <1>6, <1>16, <2>1 DEF dropLookup
  <2>2. CASE Get(autoscan_timed, scanID) # 0
    <3>1. /\ pc' = "remove" /\ victim' = Get(autoscan_timed, scanID)
          /\ UNCHANGED <<dir, adir, scanID, dirs>> /\ pc = "drop"
      BY <1>16, <2>2 DEF dropLookup
    <3>2. /\ scanID = dirs[dir].scanID /\ scanID # 0 /\ dir \in Objects /\ adir = dir
          /\ ~dirs[dir].persistent
      BY <1>1, <3>1 DEF ConfigInv, ScansOwn, InRescan
    <3>3. Get(autoscan_timed, scanID) = dir
      BY <1>0, <3>2, AtItsPlace DEF ConfigInv
    <3>4. QED BY <3>1, <3>2, <3>3 DEF ScansOwn, InRescan
  <2>3. QED BY <2>1, <2>2
<1>17. CASE dropRemove
  <2>1. pc = "remove" /\ UNCHANGED <<dir, adir, victim>>
    BY <1>17 DEF dropRemove, locals
  <2>2. pc' = "unsubscribe" /\ dir \in Objects /\ ~dirs[dir].persistent
    BY <1>17, DropsOwn
  <2>3. QED BY <1>3, <2>1, <2>2 DEF ConfigInv, ScansOwn, InRescan
<1>18. CASE unsubscribe
  BY <1>7, <1>18 DEF unsubscribe
<1>19. ASSUME NEW p \in Paths, scanEntry(p) PROVE ScansOwn'
  <2>1. ~dropRemove
    BY <1>19 DEF scanEntry, dropRemove
  <2>2. QED BY <1>7, <1>8, <1>19, <2>1 DEF scanEntry
<1>20. CASE rescanEntry \/ addNewEntry
  <2>1. ~dropRemove
    BY <1>20 DEF rescanEntry, addNewEntry, dropRemove
  <2>2. QED BY <1>7, <1>8, <1>20, <2>1 DEF rescanEntry, addNewEntry, locals
<1>21. CASE scanEnd
  BY <1>7, <1>21 DEF scanEnd
<1>22. CASE rescanDone
  BY <1>6, <1>7, <1>22 DEF rescanDone
<1>23. CASE TaskThread
  BY <1>9, <1>10, <1>11, <1>12, <1>13, <1>14, <1>15, <1>16, <1>17, <1>18, <1>19, <1>20,
     <1>21, <1>22, <1>23 DEF TaskThread
<1>24. CASE ~TaskThread
  <2>1. ~dropRemove
    BY <1>24 DEF TaskThread
  <2>2. pc' \in {pc, Wake(pc)} /\ UNCHANGED locals
    BY <1>24, OthersKeepThread DEF ConfigInv
  <2>3. QED BY <1>4, <2>1, <2>2 DEF locals
<1>25. QED BY <1>23, <1>24

\* A timer parameter has the id of its own directory only.
LEMMA TimerOwn ==
    ASSUME TypeOK, ListInv, OwnTimer, UiOnly, NEW p \in Objects, NEW o \in Objects,
           dirs[o].scanID # 0
    PROVE  timerID[p] = dirs[o].scanID <=> p = o
<1>1. /\ autoscan_timed[dirs[o].scanID] = o /\ timerID[o] = dirs[o].scanID
  BY AtItsPlace
<1>2. ASSUME timerID[p] = dirs[o].scanID PROVE p = o
  <2>1. p \in DOMAIN timerID /\ timerID[p] # 0 /\ ~Marked(p)
    BY <1>2, TimerFacts DEF Marked, UiOnly
  <2>2. dirs[autoscan_timed[timerID[p]]].param = p
    BY <2>1 DEF ListInv, ParamFollows
  <2>3. QED BY <1>1, <1>2, <2>2 DEF OwnTimer
<1>3. QED BY <1>1, <1>2

\* Who touches the state of a notification.
LEMMA CallsTouched ==
    ASSUME Undisturbed, UiOnly, [Next]_vars
    PROVE  \/ UNCHANGED <<call, notifying>>
           \/ \E p \in DOMAIN dirs : timerFire(p)
           \/ setNotify \/ timerNotified \/ setDone
           \/ \E c \in {"timer", "web"} : Notification(c)
<1>1. CASE TaskThread
  <2>1. CASE \/ dequeue \/ threadExit \/ skipInvalid \/ runRemove \/ runAdd \/ addEnd
             \/ \E p \in Paths : addEntry(p)
    BY <2>1 DEF dequeue, threadExit, skipInvalid, runRemove, runAdd, addEnd, addEntry,
       timerVars
  <2>2. CASE runRescan \/ enterScan \/ openScan \/ loadScan \/ dropLookup \/ dropRemove
    BY <2>2 DEF runRescan, enterScan, openScan, loadScan, dropLookup, dropRemove, timerVars
  <2>3. CASE \/ unsubscribe \/ rescanEntry \/ addNewEntry \/ scanEnd \/ scanFails
             \/ rescanDone \/ subscribe \/ \E p \in Paths : scanEntry(p)
    BY <2>3 DEF unsubscribe, rescanEntry, addNewEntry, scanEnd, scanFails, rescanDone,
       subscribe, scanEntry, timerVars
  <2>4. QED BY <1>1, <2>1, <2>2, <2>3 DEF TaskThread
<1>2. CASE shutdown \/ \E p \in Paths : changeDisk(p)
  BY <1>2 DEF shutdown, changeDisk, timerVars
<1>3. CASE \E p \in Paths : setAutoscanDirectory(p) \/ addFile(p)
  BY <1>3 DEF setAutoscanDirectory, addFile, timerVars
<1>4. CASE UNCHANGED vars
  BY <1>4 DEF vars, timerVars
<1>5. QED BY <1>1, <1>2, <1>3, <1>4, RequestsLeft DEF Next, TimerGoesOn

\* Own(o, c): the notification of the thread c is that of the timer of o.
Own(o, c) == c = "timer" /\ notifying = o

CallOwn(o, c) ==
    /\ call[c].at = "get" => (call[c].id = dirs[o].scanID <=> Own(o, c))
    /\ call[c].at = "read" => (call[c].dir = o <=> Own(o, c))
    /\ call[c].at = "queue" => (call[c].scan = dirs[o].scanID <=> Own(o, c))

LEMMA CallOwnStep ==
    ASSUME ShapeInv, ListInv, ConfigInv, Undisturbed, [Next]_vars,
           NEW o \in Objects, dirs[o].persistent, NEW c \in {"timer", "web"}
    PROVE  CallOwn(o, c)'
<1>0. /\ TypeOK /\ OwnTimer /\ UiOnly /\ dirs[o].scanID # 0 /\ o # 0
      /\ dirs'[o].scanID = dirs[o].scanID /\ CallOwn(o, c)
  BY PersistentKept, ObjectFacts, TimerFacts
     DEF ShapeInv, ConfigInv, StaysListed, CallsOwn, CallOwn, Own
<1>1. /\ call \in [{"timer", "web"} ->
                   [at : {"none", "get", "read", "queue", "done"}, id : Nat,
                    dir : Objects \cup {0}, inc : Nat, scan : Nat]]
  BY <1>0, TypeParts DEF Parts, CallType
<1>2. ASSUME call'[c] = call[c], Own(o, c)' <=> Own(o, c) PROVE CallOwn(o, c)'
  BY <1>0, <1>2 DEF CallOwn
<1>3. ASSUME NEW p \in DOMAIN dirs, timerFire(p) PROVE CallOwn(o, c)'
  <2>1. /\ p \in Objects /\ notifying' = p
        /\ call' = [call EXCEPT !["timer"].at = "get", !["timer"].id = timerID[p]]
    BY <1>0, <1>3, ObjectFacts DEF timerFire, timerNotify
  <2>2. CASE c = "timer"
    <3>1. call'[c].at = "get" /\ call'[c].id = timerID[p]
      BY <1>1, <2>1, <2>2
    <3>2. timerID[p] = dirs[o].scanID <=> p = o
      BY <1>0, <2>1, TimerOwn
    <3>3. QED BY <1>0, <2>1, <2>2, <3>1, <3>2 DEF CallOwn, Own
  <2>3. CASE c # "timer"
    BY <1>1, <1>2, <2>1, <2>3 DEF Own
  <2>4. QED BY <2>2, <2>3
<1>4. CASE setNotify
  <2>1. /\ ui.op = "notify" /\ notifying' = notifying
        /\ call' = [call EXCEPT !["web"].at = "get", !["web"].id = timerID[dirs[ui.dir].param]]
    BY <1>4 DEF setNotify, timerNotify
  <2>2. ui.dir \in Objects /\ ui.dir # o
    BY <1>0, <2>1, TypeParts DEF Parts, UiType, ShapeInv, Phases, RequestPhases, UiOnly
  <2>3. CASE c = "web"
    <3>1. call'[c].at = "get" /\ call'[c].id = timerID[ui.dir]
      BY <1>0, <1>1, <2>1, <2>2, <2>3 DEF OwnTimer
    <3>2. timerID[ui.dir] # dirs[o].scanID
      BY <1>0, <2>2, TimerOwn
    <3>3. QED BY <1>0, <2>3, <3>1, <3>2 DEF CallOwn, Own
  <2>4. CASE c # "web"
    BY <1>1, <1>2, <2>1, <2>4 DEF Own
  <2>5. QED BY <2>3, <2>4
<1>5. ASSUME NEW b \in {"timer", "web"}, getDir(b) PROVE CallOwn(o, c)'
  <2> DEFINE d == Get(autoscan_timed, call[b].id)
  <2>1. /\ call[b].at = "get" /\ notifying' = notifying
        /\ call' = [call EXCEPT ![b].at = IF d = 0 THEN "done" ELSE "read", ![b].dir = d]
    BY <1>5 DEF getDir
  <2>2. CASE c = b
    <3>1. /\ call'[c].at \in {"done", "read"} /\ call'[c].dir = d
      BY <1>1, <2>1, <2>2
    <3>2. call[c].id \in Nat
      BY <1>0, CallFacts
    <3>3. d = o <=> call[c].id = dirs[o].scanID
      BY <1>0, <2>2, <3>2, AtItsPlace
    <3> HIDE DEF d
    <3>4. QED BY <1>0, <2>1, <2>2, <3>1, <3>3 DEF CallOwn, Own
  <2>3. CASE c # b
    BY <1>1, <1>2, <2>1, <2>3 DEF Own
  <2>4. QED BY <2>2, <2>3
<1>6. ASSUME NEW b \in {"timer", "web"}, readDir(b) PROVE CallOwn(o, c)'
  <2>1. /\ call[b].at = "read" /\ notifying' = notifying
        /\ call' = [call EXCEPT ![b].at = "queue", ![b].inc = dirs[call[b].dir].objectID,
                                ![b].scan = dirs[call[b].dir].scanID]
    BY <1>6 DEF readDir
  <2>2. CASE c = b
    <3>1. call'[c].at = "queue" /\ call'[c].scan = dirs[call[c].dir].scanID
      BY <1>1, <2>1, <2>2
    <3>2. call[c].dir \in Objects
      BY <1>0, <2>1, <2>2, CallFacts DEF ShapeInv, Phases, CallPhases
    <3>3. dirs[call[c].dir].scanID = dirs[o].scanID <=> call[c].dir = o
      BY <1>0, <3>2, OwnPlace
    <3>4. QED BY <1>0, <2>1, <2>2, <3>1, <3>3 DEF CallOwn, Own
  <2>3. CASE c # b
    BY <1>1, <1>2, <2>1, <2>3 DEF Own
  <2>4. QED BY <2>2, <2>3
<1>7. ASSUME NEW b \in {"timer", "web"}, queueRescan(b) PROVE CallOwn(o, c)'
  <2>1. call' = [call EXCEPT ![b].at = "done"] /\ notifying' = notifying
    BY <1>7 DEF queueRescan
  <2>2. CASE c = b
    <3>1. call'[c].at = "done"
      BY <1>1, <2>1, <2>2
    <3>2. QED BY <3>1 DEF CallOwn
  <2>3. CASE c # b
    BY <1>1, <1>2, <2>1, <2>3 DEF Own
  <2>4. QED BY <2>2, <2>3
<1>8. CASE timerNotified
  <2>1. call' = [call EXCEPT !["timer"] = NoCall]
    BY <1>8 DEF timerNotified, CallEnds
  <2>2. CASE c = "timer"
    <3>1. call'[c].at = "none"
      BY <1>1, <2>1, <2>2 DEF NoCall
    <3>2. QED BY <3>1 DEF CallOwn
  <2>3. CASE c # "timer"
    BY <1>1, <1>2, <2>1, <2>3 DEF Own
  <2>4. QED BY <2>2, <2>3
<1>9. CASE setDone
  <2>1. call' = [call EXCEPT !["web"] = NoCall] /\ notifying' = notifying
    BY <1>9 DEF setDone, CallEnds
  <2>2. CASE c = "web"
    <3>1. call'[c].at = "none"
      BY <1>1, <2>1, <2>2 DEF NoCall
    <3>2. QED BY <3>1 DEF CallOwn
  <2>3. CASE c # "web"
    BY <1>1, <1>2, <2>1, <2>3 DEF Own
  <2>4. QED BY <2>2, <2>3
<1>10. CASE UNCHANGED <<call, notifying>>
  BY <1>2, <1>10 DEF Own
<1>11. QED BY <1>0, <1>3, <1>4, <1>5, <1>6, <1>7, <1>8, <1>9, <1>10, CallsTouched
           DEF Notification

LEMMA ConfigStep ==
    ASSUME ShapeInv, ListInv, ConfigInv, Undisturbed, [Next]_vars
    PROVE  ConfigInv'
<1>1. OwnTimer' /\ StaysListed'
  BY PersistentKept DEF ConfigInv, StaysListed
<1>2. \A o \in Objects' : dirs'[o].persistent => o \in Objects /\ dirs[o].persistent
  BY PersistentKept
<1>3. CallsOwn'
  BY <1>2, CallOwnStep DEF CallsOwn, CallOwn, Own
<1>4. QED BY <1>1, <1>3, UiOnlyStep, RescansValidStep, ScansOwnStep DEF ConfigInv

\* RescanTasks(o): the queued tasks that will decrement the count of o.
RescanTasks(o) == {t \in taskQueue2 : t.type = "rescan" /\ t.scanID = dirs[o].scanID}

\* Timed(o): the timer will notify for o, or has not yet queued the scan.
Timed(o) == o \in subscribers /\ (notifying = o => call["timer"].at # "done")

\* Due(o): the thread is about to subscribe o.
Due(o) == pc = "subscribe" /\ dir = o

Busy(o) == Scanning(o) \/ Taken(o)

\* Counted(o): CountMatches for o.
Counted(o) ==
    /\ IsFiniteSet(RescanTasks(o))
    /\ dirs[o].taskCount = Cardinality(RescanTasks(o)) + (IF Busy(o) THEN 1 ELSE 0)

\* Paced(o): the directory waits for its timer exactly while no task of it is
\* pending, but for the moment before it is subscribed.
Paced(o) ==
    /\ Timed(o) => dirs[o].taskCount = 0 /\ dir # o
    /\ dirs[o].taskCount = 0 => Timed(o) \/ Due(o)
    /\ Due(o) => dirs[o].taskCount = 0

ConfiguredInv == \A o \in Objects : dirs[o].persistent => Counted(o) /\ Paced(o)

\* rescanDirectory() counts the task it queues, and counts it for the directory
\* whose scan id it was given.
LEMMA RescanCounts ==
    ASSUME TypeOK, ListInv, OwnTimer, UiOnly, NEW o \in Objects, dirs[o].scanID # 0,
           NEW path, NEW inc, NEW scan, scan \in Nat, rescanDirectory(path, inc, scan)
    PROVE  \/ /\ scan # dirs[o].scanID /\ dirs'[o].taskCount = dirs[o].taskCount
              /\ RescanTasks(o)' = RescanTasks(o)
           \/ /\ scan = dirs[o].scanID /\ dirs'[o].taskCount = dirs[o].taskCount + 1
              /\ \E new : new \notin RescanTasks(o)
                          /\ RescanTasks(o)' = RescanTasks(o) \cup {new}
<1> DEFINE d == Get(autoscan_timed, scan)
           new == Task("rescan", path, inc, scan, 0, d)
<1>0. dirs'[o].scanID = dirs[o].scanID
  BY RescanStep DEF SameScans, Objects
<1>1. new.type = "rescan" /\ new.scanID = scan /\ new.id = taskID
  BY DEF Task
<1>2. new \notin taskQueue2
  BY <1>1, TaskFacts
<1>3. CASE d = 0
  <2>1. UNCHANGED <<dirs, taskQueue2>> /\ scan # dirs[o].scanID
    BY <1>3, AtItsPlace DEF rescanDirectory
  <2>2. QED BY <2>1 DEF RescanTasks
<1>4. CASE d # 0
  <2>1. d \in Objects /\ dirs[d].taskCount + 1 \in Int
    BY <1>4, GetObject, ObjectFacts
  <2>2. /\ dirs' = [dirs EXCEPT ![d].taskCount = dirs[d].taskCount + 1]
        /\ taskQueue2' = taskQueue2 \cup {new}
    BY <1>4 DEF rescanDirectory
  <2>3. /\ dirs'[d].taskCount = dirs[d].taskCount + 1
        /\ \A q \in Objects : q # d => dirs'[q].taskCount = dirs[q].taskCount
    BY <2>1, <2>2, CountStep
  <2>4. d = o <=> scan = dirs[o].scanID
    BY AtItsPlace
  <2> HIDE DEF new, d
  <2>5. CASE d = o
    <3>1. RescanTasks(o)' = RescanTasks(o) \cup {new} /\ new \notin RescanTasks(o)
      BY <1>0, <1>1, <1>2, <2>2, <2>4, <2>5 DEF RescanTasks
    <3>2. QED BY <2>3, <2>4, <2>5, <3>1
  <2>6. CASE d # o
    <3>1. RescanTasks(o)' = RescanTasks(o)
      BY <1>0, <1>1, <2>2, <2>4, <2>6 DEF RescanTasks
    <3>2. QED BY <2>3, <2>4, <2>6, <3>1
  <2>7. QED BY <2>5, <2>6
<1>5. QED BY <1>3, <1>4

\* Nothing that Counted and Paced look at has changed for the directory.
LEMMA SameScanState ==
    ASSUME NEW o, Counted(o), Paced(o), dirs'[o].taskCount = dirs[o].taskCount,
           RescanTasks(o)' = RescanTasks(o), Busy(o)' <=> Busy(o),
           dir' = o <=> dir = o, Due(o)' <=> Due(o), Timed(o)' <=> Timed(o)
    PROVE  Counted(o)' /\ Paced(o)'
<1>1. Counted(o)'
  BY DEF Counted
<1>2. Paced(o)'
  BY DEF Paced
<1>3. QED BY <1>1, <1>2

LEMMA CountIsNat ==
    ASSUME NEW o, Counted(o)
    PROVE  /\ Cardinality(RescanTasks(o)) \in Nat
           /\ dirs[o].taskCount \in Nat
           /\ Busy(o) => dirs[o].taskCount # 0
           /\ (\E t : t \in RescanTasks(o)) => dirs[o].taskCount # 0
<1>1. IsFiniteSet(RescanTasks(o))
  BY DEF Counted
<1>2. Cardinality(RescanTasks(o)) \in Nat
  BY <1>1, FS_CardinalityType
<1>3. (\E t : t \in RescanTasks(o)) => Cardinality(RescanTasks(o)) # 0
  BY <1>1, FS_EmptySet
<1>4. dirs[o].taskCount = Cardinality(RescanTasks(o)) + (IF Busy(o) THEN 1 ELSE 0)
  BY DEF Counted
<1>5. QED BY <1>2, <1>3, <1>4

\* One more task is queued and counted while the directory does not wait.
LEMMA CountedMore ==
    ASSUME NEW o, Counted(o), dirs'[o].taskCount = dirs[o].taskCount + 1,
           NEW new, new \notin RescanTasks(o), RescanTasks(o)' = RescanTasks(o) \cup {new},
           Busy(o)' <=> Busy(o), ~Timed(o)', ~Due(o)'
    PROVE  Counted(o)' /\ Paced(o)'
<1>1. IsFiniteSet(RescanTasks(o))
  BY DEF Counted
<1>2. PICK k \in Nat : k = Cardinality(RescanTasks(o))
  BY CountIsNat
<1>3. IsFiniteSet(RescanTasks(o)') /\ Cardinality(RescanTasks(o)') = k + 1
  BY <1>1, <1>2, FS_AddElement
<1>4. PICK c \in Nat : c = dirs[o].taskCount
  BY CountIsNat
<1>5. CASE Busy(o)
  <2>1. c = k + 1
    BY <1>2, <1>4, <1>5 DEF Counted
  <2>2. dirs'[o].taskCount = k + 1 + 1
    BY <1>4, <2>1
  <2>3. Counted(o)'
    BY <1>3, <1>5, <2>2 DEF Counted
  <2>4. dirs'[o].taskCount # 0
    BY <2>2
  <2>5. QED BY <2>3, <2>4 DEF Paced
<1>6. CASE ~Busy(o)
  <2>1. c = k
    BY <1>2, <1>4, <1>6 DEF Counted
  <2>2. dirs'[o].taskCount = k + 1
    BY <1>4, <2>1
  <2>3. Counted(o)'
    BY <1>3, <1>6, <2>2 DEF Counted
  <2>4. dirs'[o].taskCount # 0
    BY <2>2
  <2>5. QED BY <2>3, <2>4 DEF Paced
<1>7. QED BY <1>5, <1>6

\* The thread takes one of the tasks.
LEMMA CountedTaken ==
    ASSUME NEW o, Counted(o), Paced(o), dirs'[o].taskCount = dirs[o].taskCount,
           NEW t \in RescanTasks(o), RescanTasks(o)' = RescanTasks(o) \ {t},
           ~Busy(o), Busy(o)', ~Due(o), ~Due(o)', Timed(o)' <=> Timed(o)
    PROVE  Counted(o)' /\ Paced(o)'
<1>1. IsFiniteSet(RescanTasks(o)) /\ dirs[o].taskCount # 0
  BY CountIsNat DEF Counted
<1>2. PICK k \in Nat : k = Cardinality(RescanTasks(o))
  BY CountIsNat
<1>3. IsFiniteSet(RescanTasks(o)') /\ Cardinality(RescanTasks(o)') = k - 1
  BY <1>1, <1>2, FS_RemoveElement
<1>4. dirs'[o].taskCount = k
  BY <1>2 DEF Counted
<1>5. dirs'[o].taskCount = k - 1 + 1
  BY <1>4
<1>6. Counted(o)'
  BY <1>3, <1>5 DEF Counted
<1>7. ~Timed(o)' /\ dirs'[o].taskCount # 0
  BY <1>1 DEF Paced
<1>8. QED BY <1>6, <1>7 DEF Paced

\* A scan is over.
LEMMA CountedLess ==
    ASSUME NEW o, Counted(o), dirs'[o].taskCount = dirs[o].taskCount - 1,
           RescanTasks(o)' = RescanTasks(o), Busy(o), ~Busy(o)'
    PROVE  Counted(o)'
<1>1. PICK k \in Nat : k = Cardinality(RescanTasks(o))
  BY CountIsNat
<1>2. PICK c \in Nat : c = dirs[o].taskCount
  BY CountIsNat
<1>3. c = k + 1
  BY <1>1, <1>2 DEF Counted
<1>4. dirs'[o].taskCount = k
  BY <1>2, <1>3
<1>5. IsFiniteSet(RescanTasks(o)') /\ Cardinality(RescanTasks(o)') = k
  BY <1>1 DEF Counted
<1>6. dirs'[o].taskCount = k + 0
  BY <1>4
<1>7. QED BY <1>5, <1>6 DEF Counted

\* What the actions of the other threads leave alone for the directory.
LEMMA OutsideStep ==
    ASSUME NEW o, Counted(o), Paced(o), dirs'[o].scanID = dirs[o].scanID,
           dirs'[o].taskCount = dirs[o].taskCount, RescanTasks(o)' = RescanTasks(o),
           pc' \in {pc, Wake(pc)}, dir' = dir,
           currentTask'.type = currentTask.type, currentTask'.scanID = currentTask.scanID,
           Timed(o)' <=> Timed(o)
    PROVE  Counted(o)' /\ Paced(o)'
<1>1. pc' = pc \/ (pc = "wait" /\ pc' = "top")
  BY WakeKeeps
<1>2. (Busy(o)' <=> Busy(o)) /\ (Due(o)' <=> Due(o))
  BY <1>1 DEF Busy, Scanning, Taken, Due
<1>3. QED BY <1>2, SameScanState

\* The thread is not at work for the directory, before and after.
LEMMA ElsewhereStep ==
    ASSUME NEW o, Counted(o), Paced(o), dirs'[o].taskCount = dirs[o].taskCount,
           RescanTasks(o)' = RescanTasks(o), Timed(o)' <=> Timed(o),
           dir # o, dir' # o, ~Taken(o), ~Taken(o)'
    PROVE  Counted(o)' /\ Paced(o)'
<1>1. ~Busy(o) /\ ~Busy(o)' /\ ~Due(o) /\ ~Due(o)'
  BY DEF Busy, Scanning, Due
<1>2. QED BY <1>1, SameScanState

\* The thread goes on with a rescan.
LEMMA InsideStep ==
    ASSUME NEW o, Counted(o), Paced(o), dirs'[o].taskCount = dirs[o].taskCount,
           RescanTasks(o)' = RescanTasks(o), Timed(o)' <=> Timed(o), dir' = dir,
           pc \in InRescan \ {"subscribe"}, pc' \in InRescan \ {"subscribe"}
    PROVE  Counted(o)' /\ Paced(o)'
<1>1. (Busy(o)' <=> Busy(o)) /\ ~Due(o) /\ ~Due(o)'
  BY DEF Busy, Scanning, Taken, Due, InRescan
<1>2. QED BY <1>1, SameScanState

\* The thread's own steps.
LEMMA ThreadScanState ==
    ASSUME ShapeInv, ListInv, ConfigInv, Undisturbed, TaskThread,
           NEW o \in Objects, dirs[o].persistent, Counted(o), Paced(o)
    PROVE  Counted(o)' /\ Paced(o)'
<1>0. TypeOK /\ [Next]_vars
  BY DEF ShapeInv, Next
<1>1. /\ dirs'[o].scanID = dirs[o].scanID /\ dirs[o].scanID # 0 /\ o # 0
      /\ Get(autoscan_timed, dirs[o].scanID) = o
      /\ \A id \in Nat : Get(autoscan_timed, id) = o => id = dirs[o].scanID
  BY <1>0, PersistentKept, AtItsPlace DEF ConfigInv, StaysListed
<1>2. /\ dir \in Objects \cup {0} /\ scanID \in Nat
      /\ pc \notin InRescan => dir = 0
      /\ pc \in {"open", "load", "drop", "remove", "scan", "entry"} =>
           dir \in Objects /\ scanID = dirs[dir].scanID
  BY <1>0, TypeParts DEF Parts, LocalType, ConfigInv, ScansOwn, ShapeInv, Phases,
     ThreadPhases, InRescan
<1>3. ASSUME dirs' = dirs, taskQueue2' = taskQueue2 PROVE
             dirs'[o].taskCount = dirs[o].taskCount /\ RescanTasks(o)' = RescanTasks(o)
  BY <1>3 DEF RescanTasks
<1>4. ASSUME UNCHANGED <<subscribers, notifying, call>> PROVE Timed(o)' <=> Timed(o)
  BY <1>4 DEF Timed
<1>5. pc \in {"open", "load", "drop", "remove", "scan", "entry"} =>
          (scanID = dirs[o].scanID <=> dir = o)
  BY <1>0, <1>1, <1>2, OwnPlace DEF ConfigInv
<1>6. CASE dequeue
  <2>1. /\ dirs' = dirs /\ UNCHANGED <<subscribers, notifying, call>> /\ dir' = dir
        /\ dir # o /\ ~Taken(o) /\ pc = "top"
    BY <1>1, <1>2, <1>6 DEF dequeue, timerVars, locals, Taken, InRescan
  <2>2. CASE taskQueue1 # {} /\ currentTask' = Oldest(taskQueue1) /\ UNCHANGED taskQueue2
    <3>1. \A t \in taskQueue1 : t.id \in Nat
      BY <1>0, TaskFacts
    <3>2. currentTask' \in taskQueue1
      BY <2>2, <3>1, OldestQueued
    <3>3. ~Taken(o)'
      BY <3>2 DEF Taken, ConfigInv, RescansValid
    <3>4. QED BY <1>3, <1>4, <2>1, <2>2, <3>3, ElsewhereStep
  <2>3. CASE /\ taskQueue2 # {} /\ currentTask' = Oldest(taskQueue2) /\ pc' = "run"
             /\ taskQueue2' = taskQueue2 \ {Oldest(taskQueue2)}
    <3> DEFINE t == Oldest(taskQueue2)
    <3>1. \A u \in taskQueue2 : u.id \in Nat
      BY <1>0, TaskFacts
    <3>2. t \in taskQueue2
      BY <2>3, <3>1, OldestQueued
    <3> HIDE DEF t
    <3>3. currentTask' = t /\ taskQueue2' = taskQueue2 \ {t}
      BY <2>3 DEF t
    <3>4. CASE t \in RescanTasks(o)
      <4>1. RescanTasks(o)' = RescanTasks(o) \ {t}
        BY <2>1, <3>3 DEF RescanTasks
      <4>2. Taken(o)'
        BY <2>1, <2>3, <3>3, <3>4 DEF Taken, RescanTasks
      <4>3. ~Busy(o) /\ Busy(o)' /\ ~Due(o) /\ ~Due(o)'
        BY <2>1, <4>2 DEF Busy, Scanning, Due
      <4>4. QED BY <1>4, <2>1, <3>4, <4>1, <4>3, CountedTaken
    <3>5. CASE t \notin RescanTasks(o)
      <4>1. RescanTasks(o)' = RescanTasks(o)
        BY <2>1, <3>3, <3>5 DEF RescanTasks
      <4>2. ~Taken(o)'
        BY <2>1, <3>2, <3>3, <3>5 DEF Taken, RescanTasks
      <4>3. QED BY <1>4, <2>1, <4>1, <4>2, ElsewhereStep
    <3>6. QED BY <3>4, <3>5
  <2>4. CASE pc' = "wait" /\ UNCHANGED taskQueue2
    <3>1. ~Taken(o)'
      BY <2>4 DEF Taken
    <3>2. QED BY <1>3, <1>4, <2>1, <2>4, <3>1, ElsewhereStep
  <2>5. QED BY <1>6, <2>2, <2>3, <2>4 DEF dequeue
<1>7. CASE \/ threadExit \/ runAdd \/ addEnd \/ skipInvalid \/ runRemove
           \/ \E p \in Paths : addEntry(p)
  <2>1. /\ dirs' = dirs /\ taskQueue2' = taskQueue2 /\ UNCHANGED <<subscribers, notifying, call>>
        /\ dir' \in {0, dir} /\ pc \notin InRescan /\ pc' # "run"
    BY <1>7 DEF threadExit, runAdd, addEnd, skipInvalid, runRemove, addEntry, timerVars,
       queueVars, locals, TaskEnds, InRescan
  <2>2. ~Taken(o)
    BY <1>7 DEF threadExit, runAdd, addEnd, skipInvalid, runRemove, addEntry, Taken,
       ConfigInv, RescansValid
  <2>3. ~Taken(o)' /\ dir # o /\ dir' # o
    BY <1>1, <1>2, <2>1 DEF Taken
  <2>4. QED BY <1>3, <1>4, <2>1, <2>2, <2>3, ElsewhereStep
<1>8. CASE runRescan
  <2>1. /\ dirs' = dirs /\ taskQueue2' = taskQueue2 /\ UNCHANGED <<subscribers, notifying, call>>
        /\ dir = 0 /\ pc = "run" /\ currentTask.type = "rescan"
    BY <1>2, <1>8 DEF runRescan, timerVars, queueVars, InRescan
  <2>2. currentTask.scanID \in Nat
    <3>1. currentTask \in Tasks
      BY <2>1 DEF ShapeInv, Phases, ThreadPhases, InRescan
    <3>2. QED BY <1>0, <3>1, TaskFacts
  <2>3. CASE currentTask.scanID = dirs[o].scanID
    <3>1. dir' = o /\ pc' = "enter"
      BY <1>1, <1>8, <2>3 DEF runRescan
    <3>2. Busy(o) /\ Busy(o)' /\ ~Due(o)'
      BY <2>1, <2>3, <3>1 DEF Busy, Scanning, Taken, Due
    <3>3. dirs[o].taskCount # 0 /\ ~Timed(o)
      BY <3>2, CountIsNat DEF Paced
    <3>4. Counted(o)'
      BY <1>3, <2>1, <3>2 DEF Counted
    <3>5. Paced(o)'
      BY <1>4, <2>1, <3>2, <3>3 DEF Paced
    <3>6. QED BY <3>4, <3>5
  <2>4. CASE currentTask.scanID # dirs[o].scanID
    <3>1. dir' # o /\ pc' # "run"
      BY <1>1, <1>8, <2>2, <2>4 DEF runRescan, TaskEnds
    <3>2. ~Taken(o) /\ ~Taken(o)' /\ dir # o
      BY <1>1, <2>1, <2>4, <3>1 DEF Taken
    <3>3. QED BY <1>3, <1>4, <2>1, <3>1, <3>2, ElsewhereStep
  <2>5. QED BY <2>3, <2>4
<1>9. CASE enterScan \/ scanEnd \/ \E p \in Paths : scanEntry(p)
  <2>1. /\ dirs' = dirs /\ taskQueue2' = taskQueue2 /\ UNCHANGED <<subscribers, notifying, call>>
        /\ dir' = dir /\ pc \in InRescan \ {"subscribe"} /\ pc' \in InRescan \ {"subscribe"}
    BY <1>9 DEF enterScan, scanEnd, scanEntry, timerVars, queueVars, locals, InRescan
  <2>2. QED BY <1>3, <1>4, <2>1, InsideStep
<1>10. CASE openScan
  <2>1. /\ pc = "open" /\ taskQueue2' = taskQueue2 /\ dirs' = dirs
        /\ UNCHANGED <<subscribers, notifying, call>>
    BY <1>10 DEF openScan, queueVars, timerVars
  <2>2. CASE Get(autoscan_timed, scanID) = 0
    <3>1. dir' = 0 /\ pc' = "top"
      BY <1>10, <2>2 DEF openScan, TaskEnds
    <3>2. dir # o
      BY <1>1, <1>2, <1>5, <2>1, <2>2
    <3>3. dir' # o /\ ~Taken(o) /\ ~Taken(o)'
      BY <1>1, <2>1, <3>1 DEF Taken
    <3>4. QED BY <1>3, <1>4, <2>1, <3>2, <3>3, ElsewhereStep
  <2>3. CASE Get(autoscan_timed, scanID) # 0
    <3>1. dir' = dir /\ pc' = "load"
      BY <1>10, <2>3 DEF openScan
    <3>2. QED BY <1>3, <1>4, <2>1, <3>1, InsideStep DEF InRescan
  <2>4. QED BY <2>2, <2>3
<1>11. CASE loadScan
  <2>1. /\ pc = "load" /\ taskQueue2' = taskQueue2
        /\ UNCHANGED <<subscribers, notifying, call>>
    BY <1>11 DEF loadScan, queueVars, timerVars
  <2>2. RescanTasks(o)' = RescanTasks(o)
    BY <1>1, <2>1 DEF RescanTasks
  <2>3. adir = dir /\ dir \in Objects /\ o \in DOMAIN dirs
    BY <1>0, <1>2, <2>1, ObjectFacts DEF ConfigInv, ScansOwn
  <2>4. ASSUME NEW c, dirs' = [dirs EXCEPT ![adir].objectID = c]
        PROVE  dirs'[o].taskCount = dirs[o].taskCount
    <3>1. dirs[o] \in DirType(Len(dirs))
      BY <1>0, ObjectFacts
    <3>2. dirs'[o] = IF o = adir THEN [dirs[o] EXCEPT !.objectID = c] ELSE dirs[o]
      BY <2>3, <2>4
    <3>3. QED BY <3>1, <3>2 DEF DirType
  <2>5. ASSUME DropAutoscan, ~dirs[adir].persistent
        PROVE  dirs'[o].taskCount = dirs[o].taskCount /\ dir' = dir /\ pc' = "drop"
    <3>1. dirs' = [dirs EXCEPT ![adir].taskCount = -1] /\ adir # o /\ dir' = dir /\ pc' = "drop"
      BY <2>5 DEF DropAutoscan, locals
    <3>2. dirs'[o] = dirs[o]
      BY <2>3, <3>1
    <3>3. QED BY <3>1, <3>2
  <2>6. ASSUME GiveUp
        PROVE  /\ dirs'[o].taskCount = dirs[o].taskCount
               /\ dir' = dir /\ pc' \in {"drop", "done"}
    BY <2>4, <2>5, <2>6 DEF GiveUp, KeepAutoscan, locals
  <2>7. ASSUME openFound
        PROVE  /\ dirs'[o].taskCount = dirs[o].taskCount
               /\ dir' = dir /\ pc' \in {"drop", "done", "scan"}
    BY <2>6, <2>7 DEF openFound, StartScan
  <2>8. ASSUME openMissing
        PROVE  /\ dirs'[o].taskCount = dirs[o].taskCount
               /\ dir' = dir /\ pc' \in {"drop", "done", "scan"}
    BY <2>4, <2>5, <2>6, <2>8 DEF openMissing, StartScan
  <2>9. QED BY <1>4, <1>11, <2>1, <2>2, <2>7, <2>8, InsideStep DEF loadScan, InRescan
<1>12. CASE dropLookup
  <2>1. /\ pc = "drop" /\ taskQueue2' = taskQueue2 /\ dirs' = dirs
        /\ UNCHANGED <<subscribers, notifying, call>>
    BY <1>12 DEF dropLookup, queueVars, timerVars
  <2>2. CASE Get(autoscan_timed, scanID) = 0
    <3>1. dir' = 0 /\ pc' = "top"
      BY <1>12, <2>2 DEF dropLookup, TaskEnds
    <3>2. dir # o
      BY <1>1, <1>2, <1>5, <2>1, <2>2
    <3>3. dir' # o /\ ~Taken(o) /\ ~Taken(o)'
      BY <1>1, <2>1, <3>1 DEF Taken
    <3>4. QED BY <1>3, <1>4, <2>1, <3>2, <3>3, ElsewhereStep
  <2>3. CASE Get(autoscan_timed, scanID) # 0
    <3>1. dir' = dir /\ pc' = "remove"
      BY <1>12, <2>3 DEF dropLookup
    <3>2. QED BY <1>3, <1>4, <2>1, <3>1, InsideStep DEF InRescan
  <2>4. QED BY <2>2, <2>3
<1>13. CASE dropRemove
  <2>1. /\ pc = "remove" /\ taskQueue2' = taskQueue2 /\ dir' = dir /\ pc' = "unsubscribe"
        /\ UNCHANGED <<subscribers, notifying, call>>
    BY <1>13, DropsOwn DEF dropRemove, queueVars, locals
  <2>2. dirs'[o].taskCount = dirs[o].taskCount
    BY <1>0, <1>13, DropsOwn, RemoveStep
  <2>3. RescanTasks(o)' = RescanTasks(o)
    BY <1>1, <2>1 DEF RescanTasks
  <2>4. QED BY <1>4, <2>1, <2>2, <2>3, InsideStep DEF InRescan
<1>14. CASE unsubscribe
  <2>1. /\ dirs' = dirs /\ taskQueue2' = taskQueue2 /\ dir' = dir /\ pc = "unsubscribe"
        /\ pc' = "done" /\ notifying' = notifying /\ call' = call
        /\ subscribers' = subscribers \ {dirs[victim].param}
    BY <1>14 DEF unsubscribe, queueVars, locals
  <2>2. victim = dir /\ dir \in Objects /\ dir # o
    BY <1>2, <2>1 DEF ShapeInv, Phases, ThreadPhases, InRescan, ConfigInv, ScansOwn
  <2>3. dirs[victim].param = dir
    BY <2>2 DEF ConfigInv, OwnTimer
  <2>4. Timed(o)' <=> Timed(o)
    BY <2>1, <2>2, <2>3 DEF Timed
  <2>5. QED BY <1>3, <2>1, <2>4, InsideStep DEF InRescan
<1>15. CASE rescanEntry
  <2>1. /\ rescanDirectory(entry, incarnation[entry], scanID) /\ pc = "entry"
        /\ pc' = "scan" /\ dir' = dir /\ UNCHANGED <<subscribers, notifying, call>>
    BY <1>15 DEF rescanEntry, timerVars
  <2>2. Busy(o)' <=> Busy(o)
    BY <2>1 DEF Busy, Scanning, Taken
  <2>3. CASE scanID # dirs[o].scanID
    <3>1. dirs'[o].taskCount = dirs[o].taskCount /\ RescanTasks(o)' = RescanTasks(o)
      BY <1>0, <1>1, <1>2, <2>1, <2>3, RescanCounts DEF ConfigInv
    <3>2. QED BY <1>4, <2>1, <3>1, InsideStep DEF InRescan
  <2>4. CASE scanID = dirs[o].scanID
    <3>1. /\ dirs'[o].taskCount = dirs[o].taskCount + 1
          /\ \E new : new \notin RescanTasks(o)
                      /\ RescanTasks(o)' = RescanTasks(o) \cup {new}
      BY <1>0, <1>1, <1>2, <2>1, <2>4, RescanCounts DEF ConfigInv
    <3>2. dir = o
      BY <1>5, <2>1, <2>4
    <3>3. ~Timed(o)' /\ ~Due(o)'
      BY <1>4, <2>1, <3>2 DEF Paced, Due
    <3>4. QED BY <2>2, <3>1, <3>3, CountedMore
  <2>5. QED BY <2>3, <2>4
<1>16. CASE addNewEntry
  <2> DEFINE new == Task("add", entry, 0, 0, currentTask.id, adir)
  <2>1. new.type = "add"
    BY DEF Task
  <2>2. /\ dirs' = dirs /\ (taskQueue2' = taskQueue2 \/ taskQueue2' = taskQueue2 \cup {new})
        /\ dir' = dir /\ pc = "entry" /\ pc' \in {"scan", "done"}
        /\ UNCHANGED <<subscribers, notifying, call>>
    BY <1>16 DEF addNewEntry, locals, timerVars
  <2> HIDE DEF new
  <2>3. RescanTasks(o)' = RescanTasks(o)
    BY <2>1, <2>2 DEF RescanTasks
  <2>4. QED BY <1>4, <2>2, <2>3, InsideStep DEF InRescan
<1>17. CASE scanFails
  BY <1>17 DEF scanFails, Undisturbed
<1>18. CASE rescanDone
  <2>1. dir \in Objects /\ pc = "done"
    BY <1>2, <1>18 DEF rescanDone, ShapeInv, Phases, ThreadPhases, InRescan
  <2>2. /\ dirs' = [dirs EXCEPT ![dir].taskCount = dirs[dir].taskCount - 1]
        /\ taskQueue2' = taskQueue2 /\ UNCHANGED <<subscribers, notifying, call>>
    BY <1>18 DEF rescanDone, queueVars, timerVars
  <2>3. dirs[dir].taskCount - 1 \in Int
    BY <1>0, <2>1, ObjectFacts
  <2>4. /\ dirs'[dir].taskCount = dirs[dir].taskCount - 1
        /\ \A q \in Objects : q # dir => dirs'[q].taskCount = dirs[q].taskCount
    BY <1>0, <2>1, <2>2, <2>3, CountStep
  <2>5. RescanTasks(o)' = RescanTasks(o)
    BY <1>1, <2>2 DEF RescanTasks
  <2>6. \/ dirs[dir].taskCount - 1 = 0 /\ pc' = "subscribe" /\ dir' = dir
        \/ dirs[dir].taskCount - 1 # 0 /\ pc' = "top" /\ dir' = 0
    BY <1>18 DEF rescanDone, LastTask, TaskEnds, locals
  <2>7. CASE dir = o
    <3>1. Busy(o) /\ ~Busy(o)'
      BY <1>1, <2>1, <2>6, <2>7 DEF Busy, Scanning, Taken
    <3>2. Counted(o)'
      BY <2>4, <2>5, <2>7, <3>1, CountedLess
    <3>3. ~Timed(o)'
      BY <1>4, <2>2, <2>7 DEF Paced
    <3>4. Due(o)' <=> dirs'[o].taskCount = 0
      BY <2>4, <2>6, <2>7 DEF Due
    <3>5. QED BY <3>2, <3>3, <3>4 DEF Paced
  <2>8. CASE dir # o
    <3>1. dir' # o /\ ~Taken(o) /\ ~Taken(o)'
      BY <1>1, <2>1, <2>6, <2>8 DEF Taken
    <3>2. QED BY <1>4, <2>2, <2>4, <2>5, <2>8, <3>1, ElsewhereStep
  <2>9. QED BY <2>7, <2>8
<1>19. CASE subscribe
  <2>1. /\ dir \in Objects /\ pc = "subscribe" /\ notifying = 0 /\ notifying' = 0
        /\ subscribers' = subscribers \cup {dirs[dir].param}
        /\ dirs' = dirs /\ taskQueue2' = taskQueue2 /\ dir' = 0 /\ pc' = "top"
    BY <1>2, <1>19 DEF subscribe, ShapeInv, Phases, ThreadPhases, InRescan, TaskEnds, queueVars
  <2>2. dirs[dir].param = dir
    BY <2>1 DEF ConfigInv, OwnTimer
  <2>3. ~Busy(o) /\ ~Busy(o)' /\ ~Due(o)' /\ dir' # o
    BY <1>1, <2>1 DEF Busy, Scanning, Taken, Due
  <2>4. CASE dir = o
    <3>1. dirs[o].taskCount = 0
      BY <2>1, <2>4 DEF Paced, Due
    <3>2. Timed(o)'
      BY <1>1, <2>1, <2>2, <2>4 DEF Timed
    <3>3. Counted(o)'
      BY <1>3, <2>1, <2>3 DEF Counted
    <3>4. QED BY <2>1, <2>3, <3>1, <3>2, <3>3 DEF Paced
  <2>5. CASE dir # o
    <3>1. Timed(o)' <=> Timed(o)
      BY <1>1, <2>1, <2>2, <2>5 DEF Timed
    <3>2. ~Taken(o) /\ ~Taken(o)'
      BY <2>1 DEF Taken
    <3>3. QED BY <1>3, <2>1, <2>3, <2>5, <3>1, <3>2, ElsewhereStep
  <2>6. QED BY <2>4, <2>5
<1>20. QED BY <1>6, <1>7, <1>8, <1>9, <1>10, <1>11, <1>15, <1>16, <1>17, <1>18, <1>19, <1>12,
              <1>13, <1>14 DEF TaskThread

LEMMA ScanStateStep ==
    ASSUME ShapeInv, ListInv, ConfigInv, Undisturbed, [Next]_vars,
           NEW o \in Objects, dirs[o].persistent, Counted(o), Paced(o)
    PROVE  Counted(o)' /\ Paced(o)'
<1>0. TypeOK /\ OwnTimer /\ UiOnly
  BY DEF ShapeInv, ConfigInv
<1>1. dirs'[o].scanID = dirs[o].scanID /\ dirs[o].scanID # 0 /\ o # 0
  BY <1>0, PersistentKept, AtItsPlace DEF ConfigInv, StaysListed
<1>2. /\ call \in [{"timer", "web"} ->
                   [at : {"none", "get", "read", "queue", "done"}, id : Nat,
                    dir : Objects \cup {0}, inc : Nat, scan : Nat]]
      /\ call["timer"].at # "none" <=> notifying # 0
      /\ CallOwn(o, "timer") /\ CallOwn(o, "web")
  BY <1>0, TypeParts DEF Parts, CallType, ShapeInv, Phases, CallPhases, ConfigInv, CallsOwn,
     CallOwn, Own
<1>3. ASSUME dirs'[o].taskCount = dirs[o].taskCount, RescanTasks(o)' = RescanTasks(o),
             Timed(o)' <=> Timed(o), ~TaskThread
      PROVE  Counted(o)' /\ Paced(o)'
  <2>1. pc' \in {pc, Wake(pc)} /\ UNCHANGED <<dir, currentTask>>
    BY <1>0, <1>3, OthersKeepThread DEF locals
  <2>2. QED BY <1>1, <1>3, <2>1, OutsideStep
<1>4. ASSUME dirs'[o].taskCount = dirs[o].taskCount, taskQueue2' = taskQueue2,
             UNCHANGED <<subscribers, notifying>>, call'["timer"] = call["timer"], ~TaskThread
      PROVE  Counted(o)' /\ Paced(o)'
  BY <1>1, <1>3, <1>4 DEF RescanTasks, Timed
<1> DEFINE Goal == Counted(o)' /\ Paced(o)'
<1>5. CASE TaskThread
  BY <1>5, ThreadScanState
<1>6. ASSUME ~TaskThread, NEW p \in DOMAIN dirs, timerFire(p) PROVE Goal
  <2>1. /\ dirs' = dirs /\ taskQueue2' = taskQueue2 /\ subscribers' = subscribers
        /\ notifying = 0
        /\ call' = [call EXCEPT !["timer"].at = "get", !["timer"].id = timerID[p]]
    BY <1>6 DEF timerFire, timerNotify, queueVars
  <2>2. call'["timer"].at = "get"
    BY <1>2, <2>1
  <2>3. Timed(o)' <=> Timed(o)
    BY <1>1, <2>1, <2>2 DEF Timed
  <2>4. QED BY <1>1, <1>3, <1>6, <2>1, <2>3 DEF RescanTasks
<1>7. ASSUME ~TaskThread, timerNotified PROVE Goal
  <2>1. /\ dirs' = dirs /\ taskQueue2' = taskQueue2 /\ notifying' = 0
        /\ subscribers' = subscribers \ {notifying} /\ call["timer"].at = "done"
    BY <1>7 DEF timerNotified, CallEnds, queueVars
  <2>2. Timed(o)' <=> Timed(o)
    BY <1>1, <2>1 DEF Timed
  <2>3. QED BY <1>1, <1>3, <1>7, <2>1, <2>2 DEF RescanTasks
<1>8. ASSUME ~TaskThread, NEW c \in {"timer", "web"}, getDir(c) PROVE Goal
  <2> DEFINE d == Get(autoscan_timed, call[c].id)
  <2>1. /\ dirs' = dirs /\ taskQueue2' = taskQueue2 /\ UNCHANGED <<subscribers, notifying>>
        /\ call[c].at = "get"
        /\ call' = [call EXCEPT ![c].at = IF d = 0 THEN "done" ELSE "read", ![c].dir = d]
    BY <1>8 DEF getDir, queueVars
  <2>2. CASE c = "timer" /\ notifying = o
    <3>1. d = o
      BY <1>0, <1>1, <1>2, <2>1, <2>2, AtItsPlace DEF CallOwn, Own
    <3> HIDE DEF d
    <3>2. call'["timer"].at = "read"
      BY <1>1, <1>2, <2>1, <2>2, <3>1
    <3>3. Timed(o)' <=> Timed(o)
      BY <2>1, <2>2, <3>2 DEF Timed
    <3>4. QED BY <1>1, <1>3, <1>8, <2>1, <3>3 DEF RescanTasks
  <2>3. CASE notifying # o
    <3>1. Timed(o)' <=> Timed(o)
      BY <2>1, <2>3 DEF Timed
    <3>2. QED BY <1>1, <1>3, <1>8, <2>1, <3>1 DEF RescanTasks
  <2>4. CASE c # "timer"
    <3>1. call'["timer"] = call["timer"]
      BY <1>2, <2>1, <2>4
    <3>2. QED BY <1>4, <1>8, <2>1, <3>1
  <2>5. QED BY <2>2, <2>3, <2>4
<1>9. ASSUME ~TaskThread, NEW c \in {"timer", "web"}, readDir(c) PROVE Goal
  <2>1. /\ dirs' = dirs /\ taskQueue2' = taskQueue2 /\ UNCHANGED <<subscribers, notifying>>
        /\ call[c].at = "read"
        /\ call' = [call EXCEPT ![c].at = "queue", ![c].inc = dirs[call[c].dir].objectID,
                                ![c].scan = dirs[call[c].dir].scanID]
    BY <1>9 DEF readDir, queueVars
  <2>2. call'["timer"] = call["timer"]
        \/ (call["timer"].at = "read" /\ call'["timer"].at = "queue")
    BY <1>2, <2>1
  <2>3. Timed(o)' <=> Timed(o)
    BY <2>1, <2>2 DEF Timed
  <2>4. QED BY <1>1, <1>3, <1>9, <2>1, <2>3 DEF RescanTasks
<1>10. ASSUME ~TaskThread, NEW c \in {"timer", "web"}, queueRescan(c) PROVE Goal
  <2>1. /\ rescanDirectory(dirs[call[c].dir].location, call[c].inc, call[c].scan)
        /\ UNCHANGED <<subscribers, notifying>> /\ call[c].at = "queue"
        /\ call' = [call EXCEPT ![c].at = "done"]
    BY <1>10 DEF queueRescan
  <2>2. call[c].scan \in Nat
    BY <1>0, CallFacts
  <2>3. CASE call[c].scan # dirs[o].scanID
    <3>1. dirs'[o].taskCount = dirs[o].taskCount /\ RescanTasks(o)' = RescanTasks(o)
      BY <1>0, <1>1, <2>1, <2>2, <2>3, RescanCounts
    <3>2. ~Own(o, c)
      BY <1>2, <2>1, <2>3 DEF CallOwn
    <3>3. Timed(o)' <=> Timed(o)
      <4>1. CASE c = "timer"
        BY <2>1, <3>2, <4>1 DEF Timed, Own
      <4>2. CASE c # "timer"
        <5>1. call'["timer"] = call["timer"]
          BY <1>2, <2>1, <4>2
        <5>2. QED BY <2>1, <5>1 DEF Timed
      <4>3. QED BY <4>1, <4>2
    <3>4. QED BY <1>3, <1>10, <3>1, <3>3
  <2>4. CASE call[c].scan = dirs[o].scanID
    <3>1. /\ dirs'[o].taskCount = dirs[o].taskCount + 1
          /\ \E new : new \notin RescanTasks(o)
                      /\ RescanTasks(o)' = RescanTasks(o) \cup {new}
      BY <1>0, <1>1, <2>1, <2>2, <2>4, RescanCounts
    <3>2. c = "timer" /\ notifying = o
      BY <1>2, <2>1, <2>4 DEF CallOwn, Own
    <3>3. call'["timer"].at = "done"
      BY <1>2, <2>1, <3>2
    <3>4. Timed(o) /\ ~Timed(o)'
      <4>1. notifying \in subscribers \cup {0}
        BY <1>0, TypeParts DEF Parts, TimerType
      <4>2. QED BY <1>1, <2>1, <3>2, <3>3, <4>1 DEF Timed
    <3>5. dir # o
      BY <3>4 DEF Paced
    <3>6. pc' = pc \/ (pc = "wait" /\ pc' = "top")
      BY <1>0, <1>10, OthersKeepThread, WakeKeeps
    <3>7. UNCHANGED <<dir, currentTask>>
      BY <1>0, <1>10, OthersKeepThread DEF locals
    <3>8. (Busy(o)' <=> Busy(o)) /\ ~Due(o)'
      BY <1>1, <3>5, <3>6, <3>7 DEF Busy, Scanning, Taken, Due
    <3>9. QED BY <3>1, <3>4, <3>8, CountedMore
  <2>5. QED BY <2>3, <2>4
<1>11. ASSUME ~TaskThread, NEW p \in Paths, setAutoscanDirectory(p) PROVE Goal
  <2>1. dirs'[o].taskCount = dirs[o].taskCount
    BY <1>0, <1>11, SetStep
  <2>2. QED BY <1>4, <1>11, <2>1 DEF setAutoscanDirectory, queueVars
<1>12. ASSUME ~TaskThread, shutdown \/ \E p \in Paths : addFile(p) \/ changeDisk(p) PROVE Goal
  BY <1>4, <1>12 DEF shutdown, addFile, changeDisk, timerVars, queueVars
<1>13. ASSUME ~TaskThread, setNotify \/ setDone PROVE Goal
  <2>1. /\ dirs' = dirs /\ taskQueue2' = taskQueue2 /\ UNCHANGED <<subscribers, notifying>>
        /\ \/ call' = [call EXCEPT !["web"] = NoCall]
           \/ call' = [call EXCEPT !["web"].at = "get",
                                   !["web"].id = timerID[dirs[ui.dir].param]]
    BY <1>13 DEF setNotify, setDone, timerNotify, CallEnds, queueVars
  <2>2. call'["timer"] = call["timer"]
    BY <1>2, <2>1
  <2>3. QED BY <1>4, <1>13, <2>1, <2>2
<1>14. ASSUME ~TaskThread, UNCHANGED vars PROVE Goal
  BY <1>4, <1>14 DEF vars, timerVars, queueVars
<1>15. QED BY <1>0, <1>5, <1>6, <1>7, <1>8, <1>9, <1>10, <1>11, <1>12, <1>13, <1>14, RequestsLeft
           DEF Next, Notification, TimerGoesOn

LEMMA InitConfig ==
    ASSUME Init
    PROVE  ConfigInv /\ ConfiguredInv
<1> DEFINE n == Len(InitialDirs)
           task(i) == [id |-> i, type |-> "rescan", path |-> InitialDirs[i],
                       inc |-> IncarnationOf(InitialDirs[i]), scanID |-> i,
                       parent |-> 0, from |-> i, valid |-> TRUE]
<1>1. /\ n \in Nat /\ Objects = 1 .. n
      /\ \A i \in 1 .. n : dirs[i].scanID = i /\ dirs[i].param = i /\ dirs[i].taskCount = 1
  BY InitDirs
<1>2. taskQueue2 = {task(i) : i \in 1 .. n}
  BY DEF Init
<1>3. \A i \in 1 .. n : task(i).type = "rescan" /\ task(i).valid /\ task(i).scanID = i
  OBVIOUS
<1>4. /\ taskQueue1 = {} /\ currentTask.type = "none" /\ pc = "top" /\ dir = 0
      /\ ui.op = "idle" /\ subscribers = {} /\ notifying = 0
      /\ \A c \in {"timer", "web"} : call[c].at = "none"
  BY DEF Init, Idle, NoTask, NoCall
<1> HIDE DEF n, task
<1>5. OwnTimer /\ StaysListed
  BY <1>1 DEF OwnTimer, StaysListed
<1>6. UiOnly /\ RescansValid /\ ScansOwn /\ CallsOwn
  BY <1>2, <1>3, <1>4 DEF UiOnly, RescansValid, ScansOwn, InRescan, CallsOwn
<1>7. ASSUME NEW o \in Objects PROVE Counted(o) /\ Paced(o)
  <2>1. RescanTasks(o) = {task(o)}
    BY <1>1, <1>2, <1>3 DEF RescanTasks
  <2>2. IsFiniteSet(RescanTasks(o)) /\ Cardinality(RescanTasks(o)) = 1
    BY <2>1, FS_Singleton
  <2>3. ~Busy(o) /\ ~Timed(o) /\ ~Due(o)
    BY <1>1, <1>4 DEF Busy, Scanning, Taken, Timed, Due
  <2>4. dirs[o].taskCount = 1 + 0
    BY <1>1
  <2>5. QED BY <2>2, <2>3, <2>4 DEF Counted, Paced
<1>8. QED BY <1>5, <1>6, <1>7 DEF ConfigInv, ConfiguredInv

LEMMA ConfiguredAll ==
    ASSUME Undisturbed
    PROVE  Spec => [](ShapeInv /\ ListInv /\ ConfigInv /\ ConfiguredInv)
<1>1. Init => ShapeInv /\ ListInv /\ ConfigInv /\ ConfiguredInv
  BY InitTypes, InitList, InitConfig
<1>2. ASSUME ShapeInv, ListInv, ConfigInv, ConfiguredInv, [Next]_vars
      PROVE  (ShapeInv /\ ListInv /\ ConfigInv /\ ConfiguredInv)'
  <2>1. \A o \in Objects' : dirs'[o].persistent => o \in Objects /\ dirs[o].persistent
    BY <1>2, PersistentKept
  <2>2. ConfiguredInv'
    BY <1>2, <2>1, ScanStateStep DEF ConfiguredInv
  <2>3. QED BY <1>2, <2>2, ShapeStep, ListStep, ConfigStep
<1>3. QED BY <1>1, <1>2, PTL DEF Spec

\* ConfiguredScans: whatever the disk does, and whatever files and autoscan
\* directories are added in the UI while notifications and scans run, the task
\* count of an autoscan directory of config.xml is the number of its rescan tasks
\* that are queued or running, and it waits for its timer exactly when there is
\* none: it is neither forgotten nor scheduled twice.
THEOREM ConfiguredScans ==
    ASSUME Undisturbed
    PROVE  Spec => []ConfiguredInv
BY ConfiguredAll, PTL

\* ConfigOnly: all autoscan directories come from config.xml.
ConfigOnly ==
    /\ Undisturbed /\ "set" \notin Ops
    /\ \A i \in 1 .. Len(InitialDirs) : InitialDirs[i] \in Persistent

AllConfigured == \A o \in Objects : dirs[o].persistent

LEMMA ConfigOnlyAll ==
    ASSUME ConfigOnly
    PROVE  Spec => [](ShapeInv /\ ConfigInv /\ ConfiguredInv /\ AllConfigured)
<1>1. Undisturbed
  BY DEF ConfigOnly
<1>2. Init => AllConfigured
  BY InitDirs DEF ConfigOnly, AllConfigured
<1>3. ShapeInv /\ ConfigInv /\ AllConfigured /\ [Next]_vars => AllConfigured'
  BY NewDirs DEF ConfigInv, ConfigOnly, AllConfigured
<1>4. QED BY <1>1, <1>2, <1>3, ConfiguredAll, PTL DEF Spec

\* CountsAreRight: in a server whose autoscan directories come from config.xml, and
\* where nothing is removed, cancelled or fails, the count that incTaskCount() and
\* decTaskCount() keep is the number of rescan tasks that will still decrement it.
THEOREM CountsAreRight ==
    ASSUME ConfigOnly
    PROVE  Spec => []CountMatches
<1>1. ConfiguredInv /\ AllConfigured => CountMatches
  BY DEF ConfiguredInv, AllConfigured, CountMatches, Counted, RescanTasks, Busy
<1>2. QED BY <1>1, ConfigOnlyAll, PTL

\* NoneForgotten: there every directory is always subscribed, about to be, or has a
\* valid rescan task, although the timer subscribes once only and only the last
\* task of a directory subscribes it again.
THEOREM NoneForgotten ==
    ASSUME ConfigOnly
    PROVE  Spec => []NeverForgotten
<1>1. ASSUME ConfigInv, ConfiguredInv, AllConfigured PROVE NeverForgotten
  <2> SUFFICES ASSUME NEW o \in Objects
               PROVE  \/ dirs[o].param \in subscribers
                      \/ \E t \in taskQueue2 :
                           t.valid /\ t.type = "rescan" /\ t.scanID = dirs[o].scanID
                      \/ Taken(o) /\ currentTask.valid
                      \/ dir = o
                      \/ ui.op \in {"notify", "edit", "take", "put"} /\ o \in SharesParam(ui.dir)
    BY DEF NeverForgotten
  <2>1. Counted(o) /\ Paced(o) /\ dirs[o].param = o
    BY <1>1 DEF ConfiguredInv, AllConfigured, ConfigInv, OwnTimer
  <2>2. CASE dirs[o].taskCount = 0
    BY <2>1, <2>2 DEF Paced, Timed, Due
  <2>3. CASE Busy(o)
    BY <1>1, <2>3 DEF Busy, Scanning, Taken, ConfigInv, RescansValid
  <2>4. CASE dirs[o].taskCount # 0 /\ ~Busy(o)
    <3>1. Cardinality(RescanTasks(o)) # 0
      BY <2>1, <2>4, CountIsNat DEF Counted
    <3>2. RescanTasks(o) # {}
      BY <3>1, FS_EmptySet
    <3>3. QED BY <1>1, <3>2 DEF RescanTasks, ConfigInv, RescansValid
  <2>5. QED BY <2>2, <2>3, <2>4
<1>2. QED BY <1>1, ConfigOnlyAll, PTL

\* NeverTwice: there addTimerSubscriber() never finds the parameter it is given in
\* the list, so it never throws and no scan of a directory is lost.
THEOREM NeverTwice ==
    ASSUME ConfigOnly
    PROVE  Spec => []NoDoubleTimer
<1>1. ASSUME ShapeInv, ConfigInv, ConfiguredInv, AllConfigured PROVE NoDoubleTimer
  <2> SUFFICES ASSUME pc = "subscribe", notifying = 0 PROVE dirs[dir].param \notin subscribers
    BY DEF NoDoubleTimer
  <2>1. dir \in Objects /\ dir # 0
    BY <1>1, TypeParts DEF ShapeInv, Phases, ThreadPhases, InRescan, Parts, LocalType
  <2>2. Paced(dir) /\ dirs[dir].param = dir
    BY <1>1, <2>1 DEF ConfiguredInv, AllConfigured, ConfigInv, OwnTimer
  <2>3. QED BY <2>1, <2>2 DEF Paced, Timed
<1>2. QED BY <1>1, ConfigOnlyAll, PTL
=============================================================================
