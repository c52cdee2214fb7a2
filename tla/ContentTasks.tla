--------------------------- MODULE ContentTasks ---------------------------
(***************************************************************************)
(* The task queue of ContentManager (src/src/content_manager.cc) and the   *)
(* timed autoscan built on it (src/src/autoscan.cc, src/src/timer.h).      *)
(*                                                                         *)
(* Three actors: the task thread (threadProc), the main thread that runs   *)
(* the timer (Timer::triggerWait), and one web request at a time.  The list *)
(* of autoscans has a mutex of its own: what is one step here holds it, and *)
(* what reads the list twice without it is two steps.                      *)
(*                                                                         *)
(* A path stands for a directory.  A container of the database is a path   *)
(* and the number of its incarnation: a container that is removed and      *)
(* added again has a new object id.  Every directory is taken to hold a    *)
(* file, so that adding it creates its container.  A queue is the set of   *)
(* its tasks: ids are handed out in order under the mutex that also guards *)
(* the queues, so the oldest task is the one with the smallest id.         *)
(***************************************************************************)
EXTENDS Integers, Sequences, FiniteSets

CONSTANTS
    Paths,
    Below,        \* Below[p]: p and the directories in it
    StartsWith,   \* StartsWith[p]: the paths whose string starts with p's
    InitialDirs,  \* locations of the autoscan directories known at the start
    Persistent,   \* the ones of config.xml; the others were set in the UI
    OnDiskFirst,  \* the directories that exist at the start
    Ops,          \* what may happen besides scanning; see Operations
    MaxTasks,     \* bound: no new activity once that many tasks were made
    MaxDirs       \* bound: AutoscanDirectory objects made

Operations == {"set", "edit", "removeAutoscan", "removeObject", "cancel",
               "fail", "vanish", "addFile", "shutdown"}

ASSUME PathsAssumption ==
    /\ Paths # {}
    /\ Below \in [Paths -> SUBSET Paths]
    /\ \A p \in Paths : p \in Below[p]
    /\ StartsWith \in [Paths -> SUBSET Paths]
    /\ \A p \in Paths : Below[p] \subseteq StartsWith[p]
    /\ InitialDirs \in Seq(Paths)
    /\ Persistent \subseteq Paths
    /\ OnDiskFirst \subseteq Paths
    /\ Ops \subseteq Operations
    /\ MaxTasks \in Nat /\ MaxDirs \in Nat

SubDirs(p) == {q \in Below[p] \ {p} :
                 \A m \in Below[p] \ {p, q} : q \notin Below[m]}
Above(p) == {q \in Paths : p \in Below[q]}

VARIABLES
    dirs,            \* AutoscanDirectory objects in the order of creation
    timerID,         \* the ID in the TimerParameter created with each object
    autoscan_timed,  \* the AutoscanList: objects, 0 is nil
    subscribers,     \* timer parameters the timer will notify
    notifying,       \* the parameter whose notification is running, or 0
    call,            \* timerNotify() in the main thread and in the web request
    taskQueue1, taskQueue2, taskID, currentTask,
    shutdownFlag,
    pc,              \* where the task thread is
    dir,             \* local of CMRescanDirectoryTask::run
    adir, scanID,    \* locals of _rescanDirectory
    victim,          \* the adir of removeAutoscanDirectory(scanID)
    location, todo, stale,
    entry,           \* the directory entry _rescanDirectory looks at
    ui,              \* the web request being served
    inDB, incarnation,
    rows,            \* the objects that have a row in mt_autoscan
    onDisk

timerVars == <<timerID, subscribers, notifying, call>>
queueVars == <<taskQueue1, taskQueue2, taskID, currentTask>>
locals    == <<dir, adir, scanID, victim, location, todo, stale, entry>>
dbVars    == <<inDB, incarnation, rows>>
vars == <<dirs, autoscan_timed, timerVars, queueVars, shutdownFlag, pc, locals,
          ui, dbVars, onDisk>>

AnyPath == CHOOSE p \in Paths : TRUE
NoTask == [id |-> 0, type |-> "none", path |-> AnyPath, inc |-> 0, scanID |-> 0,
           parent |-> 0, from |-> 0, valid |-> FALSE]
NoCall == [at |-> "none", id |-> 0, dir |-> 0, inc |-> 0, scan |-> 0]
Idle   == [op |-> "idle", path |-> AnyPath, inc |-> 0, dir |-> 0, objs |-> {}, n |-> 0]

----------------------------------------------------------------------------
(* AutoscanList.  Scan ids are the positions in the list, 0 is             *)
(* INVALID_SCAN_ID.                                                        *)

\* AutoscanList::get
Get(list, id) == IF id \in 1 .. Len(list) THEN list[id] ELSE 0

FreeSlots(list) == {i \in 1 .. Len(list) : list[i] = 0}

\* The slot _add() takes: the last free one, or a new one at the end.
SlotFor(list) ==
    IF FreeSlots(list) = {} THEN Len(list) + 1
    ELSE CHOOSE i \in FreeSlots(list) : \A j \in FreeSlots(list) : j <= i

\* list->set(dir, nil_index) or list->append(dir)
Put(list, o) ==
    LET s == SlotFor(list)
    IN  IF s > Len(list) THEN Append(list, o) ELSE [list EXCEPT ![s] = o]

\* removeUnordered() of the last element, list->set(nil, id) otherwise.
Take(list, ids) ==
    LET cleared == [i \in 1 .. Len(list) |-> IF i \in ids THEN 0 ELSE list[i]]
    IN  IF Len(list) \in ids THEN SubSeq(cleared, 1, Len(list) - 1) ELSE cleared

\* setScanID(): the directory and the timer parameter it shares.  In the mutant
\* SetTimerIDNot the parameter keeps its id.
SetScanID(ds, o, id) == [ds EXCEPT ![o].scanID = id]
SetTimerIDNot(ds, tp, os, id) == tp
SetTimerID(ds, tp, os, id) ==
    [p \in DOMAIN tp |-> IF \E o \in os : ds[o].param = p THEN id ELSE tp[p]]

Listed(o) == \E i \in 1 .. Len(autoscan_timed) : autoscan_timed[i] = o

\* The mutex of the list is free: removeIfSubdir() is not at work.
ListFree == ui.op \notin {"copy", "clear"}

\* The objects leave the list; they and their timer parameters lose the id.
RemoveFromList(ids) ==
    LET os == {autoscan_timed[i] : i \in ids} IN
    /\ autoscan_timed' = Take(autoscan_timed, ids)
    /\ dirs' = [o \in DOMAIN dirs |-> IF o \in os THEN [dirs[o] EXCEPT !.scanID = 0]
                                      ELSE dirs[o]]
    /\ timerID' = SetTimerID(dirs, timerID, os, 0)

\* AutoscanList::remove(id): whatever is at this place goes, an id out of range
\* is ignored, and for nil the pointer is followed nevertheless.
RemoveID(id) ==
    \/ /\ id \notin DOMAIN autoscan_timed
       /\ UNCHANGED <<dirs, autoscan_timed, timerID>>
    \/ /\ id \in DOMAIN autoscan_timed /\ autoscan_timed[id] # 0
       /\ RemoveFromList({id})

FollowsNil(id) == id \in DOMAIN autoscan_timed /\ autoscan_timed[id] = 0

----------------------------------------------------------------------------
(* Tasks.  The field from is history: the directory that caused the task.  *)

Task(type, path, inc, scan, parent, from) ==
    [id |-> taskID, type |-> type, path |-> path, inc |-> inc, scanID |-> scan,
     parent |-> parent, from |-> from, valid |-> TRUE]

\* Mutant of Wake: the signal is missing.
WakeNot(w) == w

\* signal() in addTask() and shutdown().
Wake(w) == IF w = "wait" THEN "top" ELSE w

Exists(path, inc) == path \in inDB /\ incarnation[path] = inc

\* The id of the container a path has now.
IncarnationOf(path) == IF path \in inDB THEN incarnation[path] ELSE 0

\* Storage::ensurePathExistence: the containers of a path and the ones above.
ensurePathExistence(path) ==
    LET new == Above(path) \ inDB
    IN  /\ inDB' = inDB \cup new
        /\ incarnation' = [p \in Paths |-> IF p \in new THEN incarnation[p] + 1
                                           ELSE incarnation[p]]

\* The first file of a directory is added: its containers are created.
AddToDB(path) == ensurePathExistence(path) /\ UNCHANGED rows

\* removeObject() of the storage.  The row of an autoscan directory goes with
\* its container unless it is persistent.
RemoveFromDB(paths) ==
    LET gone == UNION {Below[p] : p \in paths} IN
    /\ inDB' = inDB \ gone
    /\ rows' = {o \in rows : dirs[o].persistent \/ dirs[o].location \notin gone}
    /\ UNCHANGED incarnation

\* Mutant of rescanDirectory: the task is not counted.
rescanDirectoryUncounted(path, inc, scan) ==
    LET o == Get(autoscan_timed, scan) IN
    IF o = 0 THEN UNCHANGED <<dirs, taskQueue2, taskID>>
    ELSE /\ taskQueue2' = taskQueue2 \cup {Task("rescan", path, inc, scan, 0, o)}
         /\ taskID' = taskID + 1
         /\ UNCHANGED dirs

\* rescanDirectory(): one more task for the directory, at low priority.
rescanDirectory(path, inc, scan) ==
    LET o == Get(autoscan_timed, scan) IN
    IF o = 0 THEN UNCHANGED <<dirs, taskQueue2, taskID>>
    ELSE /\ dirs' = [dirs EXCEPT ![o].taskCount = @ + 1]
         /\ taskQueue2' = taskQueue2 \cup {Task("rescan", path, inc, scan, 0, o)}
         /\ taskID' = taskID + 1

\* timerNotify() of an autoscan parameter, in the thread c: the id is read with
\* no mutex, ...
timerNotify(c, param) == call' = [call EXCEPT ![c].at = "get", ![c].id = timerID[param]]

\* ... the directory looked up, ...
getDir(c) ==
    /\ call[c].at = "get" /\ ListFree
    /\ LET o == Get(autoscan_timed, call[c].id) IN
       call' = [call EXCEPT ![c].at = IF o = 0 THEN "done" ELSE "read", ![c].dir = o]
    /\ UNCHANGED <<dirs, autoscan_timed, timerID, subscribers, notifying, queueVars,
                   shutdownFlag, pc, locals, ui, dbVars, onDisk>>

\* ... its object id and its scan id read, ...
readDir(c) ==
    /\ call[c].at = "read"
    /\ call' = [call EXCEPT ![c].at = "queue", ![c].inc = dirs[call[c].dir].objectID,
                            ![c].scan = dirs[call[c].dir].scanID]
    /\ UNCHANGED <<dirs, autoscan_timed, timerID, subscribers, notifying, queueVars,
                   shutdownFlag, pc, locals, ui, dbVars, onDisk>>

\* ... and rescanDirectory() looks up the directory that has this scan id now.
queueRescan(c) ==
    /\ call[c].at = "queue" /\ ListFree
    /\ call' = [call EXCEPT ![c].at = "done"]
    /\ rescanDirectory(dirs[call[c].dir].location, call[c].inc, call[c].scan)
    /\ pc' = IF taskID' # taskID THEN Wake(pc) ELSE pc
    /\ UNCHANGED <<autoscan_timed, timerID, subscribers, notifying, taskQueue1,
                   currentTask, shutdownFlag, locals, ui, dbVars, onDisk>>

Notification(c) == getDir(c) \/ readDir(c) \/ queueRescan(c)

NewDir(loc, persistent, scan, param, count, objectID) ==
    [location |-> loc, persistent |-> persistent, scanID |-> scan, param |-> param,
     taskCount |-> count, objectID |-> objectID]

\* After the constructor and init(): the directories of config.xml are in the
\* list and notifyAll() has queued the first scan of each.
Init ==
    LET n == Len(InitialDirs)
        scanned == {InitialDirs[i] : i \in 1 .. n}
                   \cap (OnDiskFirst \cup (Paths \ Persistent))
    IN
    /\ inDB = UNION {Above(p) : p \in scanned}
    /\ incarnation = [p \in Paths |-> IF p \in inDB THEN 1 ELSE 0]
    /\ onDisk = OnDiskFirst
    /\ dirs = [i \in 1 .. n |-> NewDir(InitialDirs[i], InitialDirs[i] \in Persistent,
                                         i, i, 1, IncarnationOf(InitialDirs[i]))]
    /\ rows = 1 .. n
    /\ timerID = [i \in 1 .. n |-> i]
    /\ autoscan_timed = [i \in 1 .. n |-> i]
    /\ subscribers = {} /\ notifying = 0
    /\ call = [c \in {"timer", "web"} |-> NoCall]
    /\ taskQueue1 = {}
    /\ taskQueue2 = {[id |-> i, type |-> "rescan", path |-> InitialDirs[i],
                      inc |-> IncarnationOf(InitialDirs[i]), scanID |-> i,
                      parent |-> 0, from |-> i, valid |-> TRUE] : i \in 1 .. n}
    /\ taskID = n + 1
    /\ currentTask = NoTask
    /\ shutdownFlag = FALSE
    /\ pc = "top"
    /\ dir = 0 /\ adir = 0 /\ scanID = 0 /\ victim = 0
    /\ location = AnyPath /\ todo = {} /\ stale = {} /\ entry = AnyPath
    /\ ui = Idle
----------------------------------------------------------------------------
(* The task thread *)

Oldest(queue) == CHOOSE t \in queue : \A u \in queue : t.id <= u.id

\* The head of the loop in threadProc.
dequeue ==
    /\ pc = "top" /\ ~shutdownFlag
    /\ \/ /\ taskQueue1 # {}
          /\ currentTask' = Oldest(taskQueue1)
          /\ taskQueue1' = taskQueue1 \ {Oldest(taskQueue1)}
          /\ UNCHANGED taskQueue2
          /\ pc' = "run"
       \/ /\ taskQueue1 = {} /\ taskQueue2 # {}
          /\ currentTask' = Oldest(taskQueue2)
          /\ taskQueue2' = taskQueue2 \ {Oldest(taskQueue2)}
          /\ UNCHANGED taskQueue1
          /\ pc' = "run"
       \/ /\ taskQueue1 = {} /\ taskQueue2 = {}
          /\ currentTask' = NoTask
          /\ UNCHANGED <<taskQueue1, taskQueue2>>
          /\ pc' = "wait"
    /\ UNCHANGED <<dirs, autoscan_timed, timerVars, taskID, shutdownFlag, locals, ui,
                   dbVars, onDisk>>

threadExit ==
    /\ pc = "top" /\ shutdownFlag
    /\ pc' = "exit"
    /\ UNCHANGED <<dirs, autoscan_timed, timerVars, queueVars, shutdownFlag, locals, ui,
                   dbVars, onDisk>>

\* The task is over and its locals are gone.
TaskEnds ==
    /\ pc' = "top"
    /\ dir' = 0 /\ adir' = 0 /\ scanID' = 0 /\ victim' = 0
    /\ location' = AnyPath /\ todo' = {} /\ stale' = {} /\ entry' = AnyPath

skipInvalid ==
    /\ pc = "run" /\ ~currentTask.valid
    /\ TaskEnds
    /\ UNCHANGED <<dirs, autoscan_timed, timerVars, queueVars, shutdownFlag, ui, dbVars,
                   onDisk>>

\* CMRemoveObjectTask::run
runRemove ==
    /\ pc = "run" /\ currentTask.valid /\ currentTask.type = "remove"
    /\ IF Exists(currentTask.path, currentTask.inc)
       THEN RemoveFromDB({currentTask.path}) ELSE UNCHANGED dbVars
    /\ TaskEnds
    /\ UNCHANGED <<dirs, autoscan_timed, timerVars, queueVars, shutdownFlag, ui, onDisk>>

\* CMAddFileTask::run: the whole tree, as long as the task is valid.
runAdd ==
    /\ pc = "run" /\ currentTask.valid /\ currentTask.type = "add"
    /\ pc' = "add"
    /\ todo' = Below[currentTask.path] \cap onDisk
    /\ UNCHANGED <<dirs, autoscan_timed, timerVars, queueVars, shutdownFlag, dir, adir,
                   scanID, victim, location, stale, entry, ui, dbVars, onDisk>>

GoesOn == ~shutdownFlag /\ currentTask.valid

addEntry(p) ==
    /\ pc = "add" /\ p \in todo /\ GoesOn
    /\ todo' = todo \ {p}
    /\ IF p \in onDisk THEN AddToDB(p) ELSE UNCHANGED dbVars
    /\ UNCHANGED <<dirs, autoscan_timed, timerVars, queueVars, shutdownFlag, pc, dir,
                   adir, scanID, victim, location, stale, entry, ui, onDisk>>

addEnd ==
    /\ pc = "add" /\ (todo = {} \/ ~GoesOn)
    /\ TaskEnds
    /\ UNCHANGED <<dirs, autoscan_timed, timerVars, queueVars, shutdownFlag, ui, dbVars,
                   onDisk>>

\* CMRescanDirectoryTask::run finds the directory by the scan id of the task ...
runRescan ==
    /\ pc = "run" /\ currentTask.valid /\ currentTask.type = "rescan" /\ ListFree
    /\ LET o == Get(autoscan_timed, currentTask.scanID) IN
       IF o = 0 THEN TaskEnds
       ELSE /\ pc' = "enter"
            /\ dir' = o
            /\ UNCHANGED <<adir, scanID, victim, location, todo, stale, entry>>
    /\ UNCHANGED <<dirs, autoscan_timed, timerVars, queueVars, shutdownFlag, ui, dbVars,
                   onDisk>>

\* ... and calls _rescanDirectory with the id the directory has by then.
enterScan ==
    /\ pc = "enter"
    /\ scanID' = dirs[dir].scanID
    /\ pc' = IF dirs[dir].scanID = 0 THEN "done" ELSE "open"
    /\ UNCHANGED <<dirs, autoscan_timed, timerVars, queueVars, shutdownFlag, dir, adir,
                   victim, location, todo, stale, entry, ui, dbVars, onDisk>>

\* It looks the directory up once more, by this id.
openScan ==
    /\ pc = "open" /\ ListFree
    /\ LET o == Get(autoscan_timed, scanID) IN
       IF o = 0 \* "ID valid but nil returned? this should never happen"
       THEN TaskEnds
       ELSE /\ pc' = "load"
            /\ adir' = o
            /\ UNCHANGED <<dir, scanID, victim, location, todo, stale, entry>>
    /\ UNCHANGED <<dirs, autoscan_timed, timerVars, queueVars, shutdownFlag, ui, dbVars,
                   onDisk>>

\* _rescanDirectory has opened the directory and asked for the ids of its
\* children.
StartScan(path) ==
    /\ pc' = "scan"
    /\ location' = path
    /\ todo' = SubDirs(path)
    /\ stale' = {<<q, incarnation'[q]>> : q \in SubDirs(path) \cap inDB'}
    /\ UNCHANGED <<dir, adir, scanID, victim, entry>>

\* The directory is gone and comes from config.xml: it is kept for later.
KeepAutoscan ==
    /\ dirs' = [dirs EXCEPT ![adir].objectID = 0]
    /\ pc' = "done"
    /\ UNCHANGED locals

\* The directory is gone and was added in the UI: it is no autoscan any more.
DropAutoscan ==
    /\ dirs' = [dirs EXCEPT ![adir].taskCount = -1]
    /\ pc' = "drop"
    /\ UNCHANGED locals

GiveUp == IF dirs[adir].persistent THEN KeepAutoscan ELSE DropAutoscan

\* The container of the task is there, the directory too or not.
openFound ==
    /\ Exists(currentTask.path, currentTask.inc)
    /\ \/ /\ currentTask.path \in onDisk
          /\ UNCHANGED <<dirs, dbVars>>
          /\ StartScan(currentTask.path)
       \/ /\ currentTask.path \notin onDisk
          /\ RemoveFromDB({currentTask.path})
          /\ GiveUp

\* The container has gone, or there never was one.
openMissing ==
    /\ ~Exists(currentTask.path, currentTask.inc)
    /\ \/ /\ currentTask.inc # 0 /\ ~dirs[adir].persistent
          /\ DropAutoscan
          /\ UNCHANGED dbVars
       \/ /\ currentTask.inc = 0 \/ dirs[adir].persistent
          /\ dirs[adir].location \notin onDisk
          /\ GiveUp
          /\ UNCHANGED dbVars
       \/ /\ currentTask.inc = 0 \/ dirs[adir].persistent
          /\ dirs[adir].location \in onDisk
          /\ AddToDB(dirs[adir].location)
          /\ dirs' = [dirs EXCEPT ![adir].objectID = incarnation'[dirs[adir].location]]
          /\ StartScan(dirs[adir].location)

loadScan ==
    /\ pc = "load"
    /\ openFound \/ openMissing
    /\ UNCHANGED <<autoscan_timed, timerVars, queueVars, shutdownFlag, ui, onDisk>>

\* removeAutoscanDirectory(scanID) throws when there is no directory at this
\* place any more ...
dropLookup ==
    /\ pc = "drop" /\ ListFree
    /\ LET o == Get(autoscan_timed, scanID) IN
       IF o = 0 THEN TaskEnds
       ELSE /\ pc' = "remove"
            /\ victim' = o
            /\ UNCHANGED <<dir, adir, scanID, location, todo, stale, entry>>
    /\ UNCHANGED <<dirs, autoscan_timed, timerVars, queueVars, shutdownFlag, ui, dbVars,
                   onDisk>>

\* ... and removes what is at this place by the time it gets to it.
dropRemove ==
    /\ pc = "remove" /\ ListFree
    /\ \/ RemoveID(scanID) /\ pc' = "unsubscribe"
       \/ /\ FollowsNil(scanID) /\ pc' = "crash"
          /\ UNCHANGED <<dirs, autoscan_timed, timerID>>
    /\ UNCHANGED <<subscribers, notifying, call, queueVars, shutdownFlag, locals, ui,
                   dbVars, onDisk>>

\* The rows of an object and of its copies: they share the storage id.
SharesParam(o) == {x \in DOMAIN dirs : dirs[x].param = dirs[o].param}

\* Its row, the timer, for which it needs the mutex of the timer, and then the
\* row of the directory _rescanDirectory has looked up.
unsubscribe ==
    /\ pc = "unsubscribe" /\ notifying = 0
    /\ subscribers' = subscribers \ {dirs[victim].param}
    /\ rows' = rows \ (SharesParam(victim) \cup SharesParam(adir))
    /\ pc' = "done"
    /\ UNCHANGED <<dirs, autoscan_timed, timerID, notifying, call, queueVars, shutdownFlag,
                   locals, ui, inDB, incarnation, onDisk>>

\* Mutant of StillAutoscan: the check under the mutex is left out.
StillAutoscanUnchecked == TRUE

\* Removing the directory from the list has invalidated its scan id.
StillAutoscan == dirs[adir].scanID # 0

\* readdir() and stat(), and the first look at the scan id.
scanEntry(p) ==
    /\ pc = "scan" /\ p \in todo /\ GoesOn
    /\ todo' = todo \ {p}
    /\ \/ p \notin onDisk /\ UNCHANGED <<pc, entry>>
       \/ p \in onDisk /\ dirs[adir].scanID = 0 /\ pc' = "done" /\ UNCHANGED entry
       \/ p \in onDisk /\ dirs[adir].scanID # 0 /\ pc' = "entry" /\ entry' = p
    /\ UNCHANGED <<dirs, autoscan_timed, timerVars, queueVars, shutdownFlag, dir, adir,
                   scanID, victim, location, stale, ui, dbVars, onDisk>>

\* A known subdirectory gets a rescan task of its own.
rescanEntry ==
    /\ pc = "entry" /\ entry \in inDB /\ ListFree
    /\ stale' = stale \ {<<entry, incarnation[entry]>>}
    /\ rescanDirectory(entry, incarnation[entry], scanID)
    /\ pc' = "scan"
    /\ UNCHANGED <<autoscan_timed, timerVars, taskQueue1, currentTask, shutdownFlag, dir,
                   adir, scanID, victim, location, todo, entry, ui, dbVars, onDisk>>

\* A new one is added, unless the second look, under the mutex, finds the
\* autoscan removed.
addNewEntry ==
    /\ pc = "entry" /\ entry \notin inDB
    /\ IF StillAutoscan
       THEN /\ taskQueue2' = taskQueue2 \cup
                  {Task("add", entry, 0, 0, currentTask.id, adir)}
            /\ taskID' = taskID + 1
            /\ pc' = "scan"
       ELSE pc' = "done" /\ UNCHANGED <<taskQueue2, taskID>>
    /\ UNCHANGED <<dirs, autoscan_timed, timerVars, taskQueue1, currentTask,
                   shutdownFlag, locals, ui, dbVars, onDisk>>

\* Mutant of ScanComplete: the list is worked off even after an abort.
ScanCompleteAlways == TRUE

\* The scan has seen every entry, it was not aborted.
ScanComplete == GoesOn

\* The end of _rescanDirectory: the objects it has not found on disk are removed,
\* the ones that still have the id they had when it asked.
scanEnd ==
    /\ pc = "scan" /\ (todo = {} \/ ~GoesOn)
    /\ pc' = "done"
    /\ IF ScanComplete
       THEN RemoveFromDB({q \in inDB : <<q, incarnation[q]>> \in stale})
       ELSE UNCHANGED dbVars
    /\ UNCHANGED <<dirs, autoscan_timed, timerVars, queueVars, shutdownFlag, locals, ui,
                   onDisk>>

\* Something in _rescanDirectory throws: the storage, the layout script, or
\* createObjectFromFile() on a file that has gone in the meantime.
scanFails ==
    /\ "fail" \in Ops
    /\ pc \in {"load", "scan", "entry"}
    /\ TaskEnds
    /\ UNCHANGED <<dirs, autoscan_timed, timerVars, queueVars, shutdownFlag, ui, dbVars,
                   onDisk>>

\* Mutant of LastTask: the timer waits for one more task.
LastTaskLate(count) == count = -1

LastTask(count) == count = 0

\* The rest of CMRescanDirectoryTask::run; the subscription needs the mutex of
\* the timer.
rescanDone ==
    /\ pc = "done"
    /\ dirs' = [dirs EXCEPT ![dir].taskCount = @ - 1]
    /\ IF LastTask(dirs[dir].taskCount - 1)
       THEN pc' = "subscribe" /\ UNCHANGED locals
       ELSE TaskEnds
    /\ UNCHANGED <<autoscan_timed, timerVars, queueVars, shutdownFlag, ui, dbVars, onDisk>>

\* addTimerSubscriber() throws when the parameter is there already.
subscribe ==
    /\ pc = "subscribe"
    /\ notifying = 0
    /\ subscribers' = subscribers \cup {dirs[dir].param}
    /\ TaskEnds
    /\ UNCHANGED <<dirs, autoscan_timed, timerID, notifying, call, queueVars, shutdownFlag, ui,
                   dbVars, onDisk>>

TaskThread ==
    \/ dequeue \/ threadExit \/ skipInvalid
    \/ runRemove
    \/ runAdd \/ addEnd \/ \E p \in Paths : addEntry(p)
    \/ runRescan \/ enterScan \/ openScan \/ loadScan
    \/ dropLookup \/ dropRemove \/ unsubscribe
    \/ rescanEntry \/ addNewEntry \/ scanEnd \/ scanFails \/ rescanDone \/ subscribe
    \/ \E p \in Paths : scanEntry(p)

----------------------------------------------------------------------------
(* The timer.  Timer::notify runs in the main thread and keeps the mutex of *)
(* the timer while the subscriber is notified and then taken off the list.  *)

Running == pc # "crash"

\* Nothing new is begun after the bound, or once the server shuts down.
Active == Running /\ taskID <= MaxTasks /\ ~shutdownFlag

timerFire(p) ==
    /\ Active
    /\ notifying = 0 /\ p \in subscribers
    /\ notifying' = p
    /\ timerNotify("timer", p)
    /\ UNCHANGED <<dirs, autoscan_timed, timerID, subscribers, queueVars, shutdownFlag, pc,
                   locals, ui, dbVars, onDisk>>

CallEnds(c) == call[c].at = "done" /\ call' = [call EXCEPT ![c] = NoCall]

\* Mutant of timerNotified: the subscription is not "once".
timerNotifiedAgain ==
    /\ CallEnds("timer")
    /\ notifying' = 0
    /\ UNCHANGED <<dirs, autoscan_timed, timerID, subscribers, queueVars, shutdownFlag, pc,
                   locals, ui, dbVars, onDisk>>

timerNotified ==
    /\ CallEnds("timer")
    /\ subscribers' = subscribers \ {notifying}
    /\ notifying' = 0
    /\ UNCHANGED <<dirs, autoscan_timed, timerID, queueVars, shutdownFlag, pc, locals, ui,
                   dbVars, onDisk>>

TimerGoesOn == Running /\ (Notification("timer") \/ timerNotified)

----------------------------------------------------------------------------
(* Web requests *)

Begin(op) == op \in Ops /\ Active /\ ui = Idle

\* checkOverlappingAutoscans() compares object ids: a row whose container has
\* gone does not count.
Overlapping(p) ==
    \E o \in rows : /\ dirs[o].location \in Below[p] \cup Above(p)
                    /\ Exists(dirs[o].location, dirs[o].objectID)

\* web::autoscan and setAutoscanDirectory() for a new directory.
setAutoscanDirectory(p) ==
    LET o == Len(dirs) + 1
        new(scan) == NewDir(p, FALSE, scan, o, 0, incarnation'[p])
    IN
    /\ Begin("set") /\ o <= MaxDirs
    /\ p \in onDisk /\ ~Overlapping(p)
    /\ ensurePathExistence(p)
    /\ rows' = rows \cup {o}
    /\ IF \E i \in DOMAIN dirs : Listed(i) /\ dirs[i].location = p
       THEN \* "Attempted to add same autoscan path twice"
            /\ dirs' = Append(dirs, new(0))
            /\ timerID' = Append(timerID, 0)
            /\ UNCHANGED <<autoscan_timed, ui>>
       ELSE /\ dirs' = Append(dirs, new(SlotFor(autoscan_timed)))
            /\ timerID' = Append(timerID, SlotFor(autoscan_timed))
            /\ autoscan_timed' = Put(autoscan_timed, o)
            /\ ui' = [Idle EXCEPT !.op = "notify", !.dir = o]
    /\ UNCHANGED <<subscribers, notifying, call, queueVars, shutdownFlag, pc, locals, onDisk>>

\* Its last call: timerNotify() of the directory it has added.
setNotify ==
    /\ ui.op = "notify" /\ call["web"] = NoCall
    /\ timerNotify("web", dirs[ui.dir].param)
    /\ UNCHANGED <<dirs, autoscan_timed, timerID, subscribers, notifying, queueVars,
                   shutdownFlag, pc, locals, ui, dbVars, onDisk>>

setDone ==
    /\ CallEnds("web")
    /\ ui' = Idle
    /\ UNCHANGED <<dirs, autoscan_timed, timerID, subscribers, notifying, queueVars,
                   shutdownFlag, pc, locals, dbVars, onDisk>>

\* setAutoscanDirectory() for a directory that is one already: the timer first,
editAutoscanDirectory(o) ==
    /\ Begin("edit") /\ Len(dirs) < MaxDirs
    /\ Listed(o) /\ Exists(dirs[o].location, dirs[o].objectID)
    /\ notifying = 0
    /\ subscribers' = subscribers \ {dirs[o].param}
    /\ ui' = [Idle EXCEPT !.op = "edit", !.dir = o]
    /\ UNCHANGED <<dirs, autoscan_timed, timerID, notifying, call, queueVars, shutdownFlag,
                   pc, locals, dbVars, onDisk>>

\* a copy, with the scan id and the timer parameter of the original, ...
editCopy ==
    /\ ui.op = "edit"
    /\ dirs' = Append(dirs, dirs[ui.dir])
    /\ timerID' = Append(timerID, 0)
    /\ ui' = [ui EXCEPT !.op = "take", !.dir = Len(dirs) + 1]
    /\ UNCHANGED <<autoscan_timed, subscribers, notifying, call, queueVars, shutdownFlag,
                   pc, locals, dbVars, onDisk>>

\* ... what is at this place is taken off the list, ...
editRemove ==
    /\ ui.op = "take"
    /\ \/ RemoveID(dirs[ui.dir].scanID) /\ ui' = [ui EXCEPT !.op = "put"] /\ UNCHANGED pc
       \/ /\ FollowsNil(dirs[ui.dir].scanID) /\ pc' = "crash"
          /\ UNCHANGED <<dirs, autoscan_timed, timerID, ui>>
    /\ UNCHANGED <<subscribers, notifying, call, queueVars, shutdownFlag, locals, dbVars,
                   onDisk>>

\* ... and the copy put on it.
editAdd ==
    /\ ui.op = "put"
    /\ LET slot == SlotFor(autoscan_timed) IN
       /\ dirs' = SetScanID(dirs, ui.dir, slot)
       /\ timerID' = SetTimerID(dirs, timerID, {ui.dir}, slot)
       /\ autoscan_timed' = Put(autoscan_timed, ui.dir)
    /\ rows' = {IF o \in SharesParam(ui.dir) THEN ui.dir ELSE o : o \in rows}
    /\ ui' = [ui EXCEPT !.op = "notify"]
    /\ UNCHANGED <<subscribers, notifying, call, queueVars, shutdownFlag, pc, locals, inDB,
                   incarnation, onDisk>>

ListedAt(paths) ==
    {i \in 1 .. Len(autoscan_timed) :
       autoscan_timed[i] # 0 /\ dirs[autoscan_timed[i]].location \in paths}

\* removeAutoscanDirectory(objectID).  The timer parameter it unsubscribes is
\* that of an object just read from the database, so nothing is unsubscribed.
removeAutoscanDirectory(o) ==
    /\ Begin("removeAutoscan")
    /\ o \in rows /\ Exists(dirs[o].location, dirs[o].objectID)
    /\ RemoveFromList(ListedAt({dirs[o].location}))
    /\ rows' = rows \ {o}
    /\ UNCHANGED <<subscribers, notifying, call, queueVars, shutdownFlag, pc, locals, ui,
                   inDB, incarnation, onDisk>>

\* removeObject(): first, in removeIfSubdir(), the autoscan directories in the
\* container, one after the other under the mutex of the list.
SubAutoscans(p) ==
    {i \in ListedAt(StartsWith[p]) : ~dirs[autoscan_timed[i]].persistent}

removeObject(p) ==
    /\ Begin("removeObject") /\ p \in inDB
    /\ ui' = [Idle EXCEPT !.op = IF SubAutoscans(p) = {} THEN "unsubscribe" ELSE "copy",
                          !.path = p, !.inc = incarnation[p]]
    /\ UNCHANGED <<dirs, autoscan_timed, timerVars, queueVars, shutdownFlag, pc, locals,
                   dbVars, onDisk>>

\* rm_id_list->add(copy): the copy shares the timer parameter, which gets the
\* place of the copy in the list of the copies for the moment.
copySubdir ==
    /\ ui.op = "copy"
    /\ \E i \in SubAutoscans(ui.path) :
         /\ \A j \in SubAutoscans(ui.path) : i <= j
         /\ timerID' = SetTimerID(dirs, timerID, {autoscan_timed[i]}, ui.n + 1)
         /\ ui' = [ui EXCEPT !.op = "clear", !.dir = autoscan_timed[i],
                             !.objs = @ \cup {autoscan_timed[i]}, !.n = @ + 1]
    /\ UNCHANGED <<dirs, autoscan_timed, subscribers, notifying, call, queueVars,
                   shutdownFlag, pc, locals, dbVars, onDisk>>

\* Both lose the id again, and the directory its place.
clearSubdir ==
    /\ ui.op = "clear"
    /\ RemoveFromList({dirs[ui.dir].scanID})
    /\ ui' = [ui EXCEPT !.op = IF SubAutoscans(ui.path) = {dirs[ui.dir].scanID}
                               THEN "unsubscribe" ELSE "copy",
                        !.dir = 0]
    /\ UNCHANGED <<subscribers, notifying, call, queueVars, shutdownFlag, pc, locals,
                   dbVars, onDisk>>

\* Then their timers ...
removeTimers ==
    /\ ui.op = "unsubscribe" /\ notifying = 0
    /\ subscribers' = subscribers \ {dirs[o].param : o \in ui.objs}
    /\ ui' = [ui EXCEPT !.op = "invalidate", !.objs = {}, !.n = 0]
    /\ UNCHANGED <<dirs, autoscan_timed, timerID, notifying, call, queueVars, shutdownFlag, pc,
                   locals, dbVars, onDisk>>

\* invalidate() of the tasks that are meant.
Invalidated(t, meant) == [t EXCEPT !.valid = @ /\ ~meant]

\* ... then, under the mutex, the add tasks for what is in it ...
InvalidAdd(t) == t.type = "add" /\ t.path \in StartsWith[ui.path]

invalidateAddTasks ==
    /\ ui.op = "invalidate"
    /\ taskQueue1' = {Invalidated(t, InvalidAdd(t)) : t \in taskQueue1}
    /\ taskQueue2' = {Invalidated(t, InvalidAdd(t)) : t \in taskQueue2}
    /\ currentTask' = Invalidated(currentTask, InvalidAdd(currentTask))
    /\ ui' = [ui EXCEPT !.op = "enqueue"]
    /\ UNCHANGED <<dirs, autoscan_timed, timerVars, taskID, shutdownFlag, pc, locals,
                   dbVars, onDisk>>

\* ... and, the mutex taken once more, the remove task.
addRemoveTask ==
    /\ ui.op = "enqueue"
    /\ taskQueue1' = taskQueue1 \cup {Task("remove", ui.path, ui.inc, 0, 0, 0)}
    /\ taskID' = taskID + 1
    /\ pc' = Wake(pc)
    /\ ui' = Idle
    /\ UNCHANGED <<dirs, autoscan_timed, timerVars, taskQueue2, currentTask, shutdownFlag,
                   locals, dbVars, onDisk>>

\* invalidateTask(): the task and the tasks it has spawned.
invalidateTask(id) ==
    LET hit(t) == t.id = id \/ t.parent = id IN
    /\ Begin("cancel")
    /\ \E t \in taskQueue1 \cup taskQueue2 \cup {currentTask} : t.id = id
    /\ taskQueue1' = {Invalidated(t, hit(t)) : t \in taskQueue1}
    /\ taskQueue2' = {Invalidated(t, hit(t)) : t \in taskQueue2}
    /\ currentTask' = Invalidated(currentTask, hit(currentTask))
    /\ UNCHANGED <<dirs, autoscan_timed, timerVars, taskID, shutdownFlag, pc, locals, ui,
                   dbVars, onDisk>>

\* addFile(), asynchronous.
addFile(p) ==
    /\ Begin("addFile") /\ p \in onDisk
    /\ taskQueue1' = taskQueue1 \cup {Task("add", p, 0, 0, 0, 0)}
    /\ taskID' = taskID + 1
    /\ pc' = Wake(pc)
    /\ UNCHANGED <<dirs, autoscan_timed, timerVars, taskQueue2, currentTask, shutdownFlag,
                   locals, ui, dbVars, onDisk>>

Request ==
    \/ \E p \in Paths : \/ setAutoscanDirectory(p) \/ removeObject(p) \/ addFile(p)
    \/ \E o \in DOMAIN dirs : editAutoscanDirectory(o) \/ removeAutoscanDirectory(o)
    \/ \E id \in 1 .. taskID : invalidateTask(id)

RequestGoesOn ==
    /\ Running
    /\ \/ setNotify \/ Notification("web") \/ setDone
       \/ editCopy \/ editRemove \/ editAdd
       \/ copySubdir \/ clearSubdir \/ removeTimers
       \/ invalidateAddTasks \/ addRemoveTask

shutdown ==
    /\ "shutdown" \in Ops /\ Running /\ ~shutdownFlag
    /\ shutdownFlag' = TRUE
    /\ pc' = Wake(pc)
    /\ UNCHANGED <<dirs, autoscan_timed, timerVars, queueVars, locals, ui, dbVars, onDisk>>

\* A directory is removed from the disk, or appears there.
changeDisk(p) ==
    /\ "vanish" \in Ops /\ Active
    /\ \/ p \in onDisk /\ onDisk' = onDisk \ Below[p]
       \/ p \notin onDisk /\ Above(p) \ {p} \subseteq onDisk /\ onDisk' = onDisk \cup {p}
    /\ UNCHANGED <<dirs, autoscan_timed, timerVars, queueVars, shutdownFlag, pc, locals,
                   ui, dbVars>>

Next ==
    \/ TaskThread
    \/ \E p \in DOMAIN dirs : timerFire(p)
    \/ TimerGoesOn
    \/ Request \/ RequestGoesOn
    \/ shutdown
    \/ \E p \in Paths : changeDisk(p)

Spec == Init /\ [][Next]_vars

\* Every thread goes on; nobody has to ask for anything, and no time has to pass.
FairSpec == Spec /\ WF_vars(TaskThread) /\ WF_vars(TimerGoesOn) /\ WF_vars(RequestGoesOn)

----------------------------------------------------------------------------
(* Properties *)

Objects == 1 .. Len(dirs)

Tasks == [id : Nat, type : {"add", "remove", "rescan"}, path : Paths, inc : Nat,
          scanID : Nat, parent : Nat, from : Objects \cup {0}, valid : BOOLEAN]

\* The variables have the types of the code: an entry of the list is an object
\* or nil, a scan id of an object is a position in the list, ids are in order.
TypeOK ==
    /\ dirs \in Seq([location : Paths, persistent : BOOLEAN, scanID : Nat,
                     param : Objects, taskCount : Int, objectID : Nat])
    /\ timerID \in [Objects -> Nat]
    /\ autoscan_timed \in Seq(Objects \cup {0})
    /\ subscribers \subseteq Objects /\ notifying \in subscribers \cup {0}
    /\ taskQueue1 \subseteq Tasks /\ taskQueue2 \subseteq Tasks
    /\ currentTask \in Tasks \cup {NoTask}
    /\ taskID \in Nat /\ \A t \in taskQueue1 \cup taskQueue2 : t.id < taskID
    /\ shutdownFlag \in BOOLEAN
    /\ pc \in {"top", "wait", "exit", "run", "add", "enter", "open", "load", "drop",
              "remove", "crash", "unsubscribe", "scan", "entry", "done", "subscribe"}
    /\ dir \in Objects \cup {0} /\ adir \in Objects \cup {0} /\ scanID \in Nat
    /\ victim \in Objects \cup {0}
    /\ location \in Paths /\ entry \in Paths
    /\ todo \subseteq Paths /\ stale \subseteq Paths \X Nat
    /\ call \in [{"timer", "web"} ->
                 [at : {"none", "get", "read", "queue", "done"}, id : Nat,
                  dir : Objects \cup {0}, inc : Nat, scan : Nat]]
    /\ ui \in [op : {"idle", "notify", "edit", "take", "put", "copy", "clear",
                    "unsubscribe", "invalidate", "enqueue"},
               path : Paths, inc : Nat, dir : Objects \cup {0}, objs : SUBSET Objects,
               n : Nat]
    /\ inDB \subseteq Paths /\ incarnation \in [Paths -> Nat]
    /\ rows \subseteq Objects /\ onDisk \subseteq Paths

Queued == taskQueue1 \cup taskQueue2

\* A rescan task the thread has taken and not yet found the directory of.
Taken(o) == pc = "run" /\ currentTask.type = "rescan"
            /\ currentTask.scanID = dirs[o].scanID

\* Scanning(o): the thread is in a rescan task of the directory.
Scanning(o) == dir = o /\ pc # "subscribe"

\* CountMatches: a directory in the list counts exactly the rescan tasks that
\* will decrement its count: the ones in the queue and the one that is running.
\* A directory that is being given up has -1 until it is off the list.  And this
\* is so as long as no scan id is used again: a task queued for a directory that
\* was given up also decrements the count of a directory that takes its id.
CountMatches ==
    \A o \in Objects : Listed(o) /\ ~(pc \in {"drop", "remove"} /\ adir = o) =>
        dirs[o].taskCount =
            Cardinality({t \in taskQueue2 : t.type = "rescan" /\ t.scanID = dirs[o].scanID})
            + (IF Scanning(o) \/ Taken(o) THEN 1 ELSE 0)

\* NeverForgotten: a directory in the list is scanned again: its timer is
\* subscribed, or a valid rescan task of it is queued or running, or a thread
\* is about to subscribe it or to notify for it ("When timer gets to zero, we
\* will resubscribe").
NeverForgotten ==
    \A o \in Objects : Listed(o) /\ ~shutdownFlag =>
        \/ dirs[o].param \in subscribers
        \/ \E t \in taskQueue2 : t.valid /\ t.type = "rescan" /\ t.scanID = dirs[o].scanID
        \/ Taken(o) /\ currentTask.valid
        \/ dir = o
        \/ ui.op \in {"notify", "edit", "take", "put"} /\ o \in SharesParam(ui.dir)

\* NoDoubleTimer: when the task thread gets the mutex of the timer to subscribe a
\* directory, the directory is not subscribed; addTimerSubscriber() would throw
\* "tried to add same timer twice", and the directory would lose the scan.
NoDoubleTimer ==
    pc = "subscribe" /\ notifying = 0 => dirs[dir].param \notin subscribers

\* The parameter of the directory removeIfSubdir() has just copied.
Marked(p) == ui.op = "clear" /\ p = dirs[ui.dir].param

\* ParamFollows: outside one moment, the id in a timer parameter is
\* INVALID_SCAN_ID or the place of the directory that has this parameter,
\* whatever was removed, copied and added in between.  The moment is that of
\* removeIfSubdir(): the parameter has the place of a copy in another list.  A
\* notification that has read the id then, or before its directory was removed
\* and the place used again, scans another directory.
ParamFollows ==
    \A p \in DOMAIN timerID : timerID[p] # 0 /\ ~Marked(p) =>
        /\ timerID[p] \in DOMAIN autoscan_timed
        /\ autoscan_timed[timerID[p]] # 0
        /\ dirs[autoscan_timed[timerID[p]]].param = p

\* A remove task of this path is queued, or is on its way into the queue.
PendingRemove(p) ==
    \/ \E t \in taskQueue1 : t.type = "remove" /\ t.path = p
    \/ ui.op = "enqueue" /\ ui.path = p

ValidAdds == {t \in Queued \cup {currentTask} : t.valid /\ t.type = "add"}

\* NoAddBehindRemove: while a container waits to be removed, no add task of an
\* autoscan directory of the UI inside it is in the queue or running for a path
\* inside it: it would add again what the removal is about to take away.
NoAddBehindRemove ==
    \A p \in Paths : PendingRemove(p) =>
        \A t \in ValidAdds : ~ /\ t.path \in Below[p]
                               /\ t.from # 0
                               /\ ~dirs[t.from].persistent
                               /\ dirs[t.from].location \in Below[p]

\* OnlyGoneRemoved: a container leaves the database only when its removal was
\* asked for, when its directory could not be opened, or when the scan of the
\* directory above has looked for it and not found it; an aborted scan never
\* removes what it has not looked at.
OnlyGoneRemoved ==
    [][\A p \in inDB \ inDB' : \E q \in Above(p) :
          \/ pc = "run" /\ currentTask.type = "remove" /\ q = currentTask.path
          \/ pc = "load" /\ q = currentTask.path /\ q \notin onDisk
          \/ pc = "scan" /\ q \notin todo /\ <<q, incarnation[q]>> \in stale]_vars

\* ScanGoesOn: a directory in the list gets its timer back in the end, or it
\* leaves the list, or the server shuts down.
ScanGoesOn ==
    \A o \in 1 .. MaxDirs :
        (o \in Objects /\ Listed(o)) ~>
            (shutdownFlag \/ ~Listed(o) \/ dirs[o].param \in subscribers)

\* ShutdownEnds: the task thread, which shutdown() joins, ends whatever it was
\* doing or waiting for.
ShutdownEnds == shutdownFlag ~> pc = "exit"
=============================================================================
