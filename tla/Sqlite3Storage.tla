--------------------------- MODULE Sqlite3Storage ---------------------------
(***************************************************************************)
(* The SQLite driver (src/src/storage/sqlite3/sqlite3_storage.cc).  All    *)
(* access to the database goes through one thread: callers queue a task    *)
(* and wait until the thread has answered it.  The main thread starts the  *)
(* driver, restores or recreates an unusable database, asks for a backup   *)
(* from its timer and shuts the driver down.                               *)
(*                                                                         *)
(* A stretch of code that holds sqliteMutex throughout is one action; what *)
(* the thread does to the files while it works on a task is split, so that *)
(* callers, the timer and a crash come in between.                         *)
(***************************************************************************)
EXTENDS Integers, Sequences, FiniteSets

CONSTANTS
    Client,          \* threads that use the storage once it is up
    Restore,         \* <on-error>: TRUE for restore, FALSE for fail
    BackupEnabled,   \* <backup enabled=...>
    MaxCalls,        \* bound: calls made by the clients together
    MaxStarts,       \* bound: times the server is started
    MaxFaults,       \* bound: failures of the file system and of SQL statements
    MaxTimed         \* bound: timed backups waiting at once

Main == "main"
Timer == "timer"
Callers == Client \cup {Main}

ASSUME ConstantsAssumption ==
    /\ Main \notin Client /\ Timer \notin Client
    /\ Restore \in BOOLEAN /\ BackupEnabled \in BOOLEAN
    /\ MaxCalls \in Nat /\ MaxStarts \in Nat /\ MaxFaults \in Nat
    /\ MaxTimed \in Nat

\* The content of a file: Damaged (absent, corrupt, half written) or the
\* number of the change that produced it.
Damaged == 0

VARIABLES
    dbFile, backupFile,     \* persistent: the database and its backup
    stamp,                  \* number of the latest change
    main,                   \* where the main thread is
    registered,             \* Storage::getInstance() hands the storage out
    startupError,
    misread,                \* history: this start has given up a usable database
    thread,                 \* where the sqlite3 thread is
    task, outcome,          \* its task, and what running it came to
    handle,                 \* its sqlite3 *db
    taskQueue, taskQueueOpen, shutdownFlag, dirty,
    pc,                     \* each caller's progress through addTask/waitForTask
    op,                     \* the operation it is about to ask for
    answer,                 \* what its task was answered with
    calls, starts, faults   \* for the bounds

fileVars   == <<dbFile, backupFile, stamp>>
threadVars == <<task, outcome, handle>>
callVars   == <<pc, op, answer>>
countVars  == <<calls, starts, faults>>
vars == <<fileVars, main, registered, startupError, misread, thread, threadVars,
          taskQueue, taskQueueOpen, shutdownFlag, dirty, callVars, countVars>>

-----------------------------------------------------------------------------
NoTask == [by |-> Timer, op |-> "select"]
NoOutcome == [answer |-> "none", effect |-> "none"]

\* contamination and decontamination of a task
Answered(a) == [answer |-> a, effect |-> "none"]
Contaminated == [answer |-> "ok", effect |-> "contaminated"]
Decontaminated == [answer |-> "ok", effect |-> "decontaminated"]

\* Every caller at rest.
NoCalls == [c \in Callers |-> "idle"]
NoAnswers == [c \in Callers |-> "none"]
NoOps == [c \in Callers |-> "select"]

\* A database and an older backup, either of them possibly unusable.
Init ==
    /\ main = "off" /\ registered = FALSE /\ startupError = FALSE /\ misread = FALSE
    /\ thread = "none" /\ task = NoTask /\ outcome = NoOutcome /\ handle = "none"
    /\ taskQueue = <<>> /\ taskQueueOpen = FALSE /\ shutdownFlag = FALSE /\ dirty = FALSE
    /\ pc = NoCalls /\ op = NoOps /\ answer = NoAnswers
    /\ stamp = 2 /\ dbFile \in {Damaged, 2} /\ backupFile \in {Damaged, 1}
    /\ calls = 0 /\ starts = 0 /\ faults = 0

\* cond->signal(): the thread wakes up if it sleeps.
Signalled == IF thread = "asleep" THEN "loop" ELSE thread

\* The part of addTask() that holds the mutex and finds the queue open.
Enqueue(by, o) ==
    /\ taskQueue' = Append(taskQueue, [by |-> by, op |-> o])
    /\ thread' = Signalled

\* A failure the environment causes, up to MaxFaults of them.
Fault == faults < MaxFaults /\ faults' = faults + 1
NoFault == UNCHANGED faults

-----------------------------------------------------------------------------
(* The main thread: init(), the timer and shutdown().                      *)

\* init(), up to the wait for the thread.
init ==
    /\ main = "off" /\ starts < MaxStarts
    /\ starts' = starts + 1
    /\ main' = "starting" /\ thread' = "opening" /\ taskQueueOpen' = TRUE
    /\ UNCHANGED <<fileVars, registered, startupError, misread, threadVars, taskQueue,
                   shutdownFlag, dirty, callVars, calls, faults>>

\* What the main thread asks the sqlite3 thread for, step by step.
MainOp == [version    |-> "select",  restore    |-> "restore",
           restored   |-> "select",  create     |-> "create",
           created    |-> "select",  pragma     |-> "pragma",
           pragma2    |-> "pragma",  backup     |-> "backup",
           lastID     |-> "select",  flush      |-> "exec"]

\* It queues the task and waits for it.
initTask ==
    /\ main \in DOMAIN MainOp /\ pc[Main] = "idle"
    /\ Enqueue(Main, MainOp[main])
    /\ pc' = [pc EXCEPT ![Main] = "waiting"]
    /\ UNCHANGED <<fileVars, main, registered, startupError, misread, threadVars,
                   taskQueueOpen, shutdownFlag, dirty, op, answer, countVars>>

\* access(dbFilePathbackup, R_OK): an unusable backup may be there or not.
BackupReadable == IF backupFile # Damaged THEN {TRUE} ELSE BOOLEAN

\* The database cannot be read: restore it, or create it, or give up.
OnError ==
    IF Restore THEN {IF r THEN "restore" ELSE "create" : r \in BackupReadable}
               ELSE {"giveup"}

\* Where init() (and, for "flush", shutdown()) goes from `at' with answer `a'.
\* "nil": there is a database, but no version in it.  An exception thrown
\* after the version is known leaves init() without a shutdown.
AfterAnswer(at, a) ==
    CASE at = "version"  -> IF a = "ok" THEN {"pragma"}
                            ELSE IF a = "nil" THEN {"giveup"} ELSE OnError
      [] at = "restore"  -> {IF a = "ok" THEN "restored" ELSE "create"}
      [] at = "restored" -> {IF a = "ok" THEN "pragma" ELSE "create"}
      [] at = "create"   -> {IF a = "ok" THEN "created" ELSE "giveup"}
      [] at = "created"  -> {IF a = "ok" THEN "pragma" ELSE "giveup"}
      [] at = "pragma"   -> {IF a = "ok" THEN "pragma2" ELSE "failed"}
      [] at = "pragma2"  -> {IF a # "ok" THEN "failed"
                             ELSE IF BackupEnabled THEN "backup" ELSE "lastID"}
      [] at = "backup"   -> {"lastID"}
      [] at = "lastID"   -> {IF a = "ok" THEN "ready" ELSE "failed"}
      [] at = "flush"    -> {IF a = "ok" THEN "shutdown" ELSE "failed"}

\* waitForTask() returns to the main thread.
initAnswer ==
    /\ main \in DOMAIN MainOp
    /\ pc[Main] = "waiting" /\ answer[Main] # "none"
    /\ main' \in AfterAnswer(main, answer[Main])
    /\ registered' = (registered \/ main' = "ready")
    /\ pc' = [pc EXCEPT ![Main] = "idle"]
    /\ answer' = [answer EXCEPT ![Main] = "none"]
    /\ UNCHANGED <<fileVars, startupError, misread, thread, threadVars, taskQueue,
                   taskQueueOpen, shutdownFlag, dirty, op, countVars>>

Timed == {i \in DOMAIN taskQueue : taskQueue[i].by = Timer}

\* Mutant: the flag is inverted.
BackupWhenClean == ~ dirty

\* addTask(btask, true): only a dirty database is worth a backup.
BackupDue == dirty

\* Sqlite3BackupTimerSubscriber::timerNotify().  The timer runs in the main
\* thread, and nobody waits for the task.
timerNotify ==
    /\ main = "ready" /\ BackupEnabled /\ taskQueueOpen
    /\ BackupDue
    /\ Cardinality(Timed) < MaxTimed
    /\ Enqueue(Timer, "backup")
    /\ UNCHANGED <<fileVars, main, registered, startupError, misread, threadVars,
                   taskQueueOpen, shutdownFlag, dirty, callVars, countVars>>

\* SQLStorage::shutdown(): the insert buffer is flushed if anything is in it.
shutdown ==
    /\ main = "ready"
    /\ main' \in {"flush", "shutdown"}
    /\ UNCHANGED <<fileVars, registered, startupError, misread, thread, threadVars,
                   taskQueue, taskQueueOpen, shutdownFlag, dirty, callVars,
                   countVars>>

\* Mutant: the thread is not signalled.
ShutdownUnsignalled ==
    /\ main \in {"shutdown", "giveup"}
    /\ shutdownFlag' = TRUE /\ main' = "joining"
    /\ UNCHANGED <<fileVars, registered, startupError, misread, thread, threadVars,
                   taskQueue, taskQueueOpen, dirty, callVars, countVars>>

shutdownDriver ==
    /\ main \in {"shutdown", "giveup"}
    /\ shutdownFlag' = TRUE /\ thread' = Signalled
    /\ main' = "joining"
    /\ UNCHANGED <<fileVars, registered, startupError, misread, threadVars, taskQueue,
                   taskQueueOpen, dirty, callVars, countVars>>

\* pthread_join() returns.
shutdownJoined ==
    /\ main = "joining" /\ thread = "exited"
    /\ main' = "down"
    /\ UNCHANGED <<fileVars, registered, startupError, misread, thread, threadVars,
                   taskQueue, taskQueueOpen, shutdownFlag, dirty, callVars,
                   countVars>>

-----------------------------------------------------------------------------
(* The other callers: select() and exec() from any thread of the server.   *)

\* They pass the first, unlocked look at taskQueueOpen in addTask().
call(c, o) ==
    /\ registered /\ pc[c] = "idle" /\ taskQueueOpen
    /\ calls < MaxCalls /\ calls' = calls + 1
    /\ pc' = [pc EXCEPT ![c] = "entered"]
    /\ op' = [op EXCEPT ![c] = o]
    /\ UNCHANGED <<fileVars, main, registered, startupError, misread, thread,
                   threadVars, taskQueue, taskQueueOpen, shutdownFlag, dirty,
                   answer, starts, faults>>

\* Mutant: the second look is left out.
NotChecked == TRUE

\* The second look, under the mutex.
StillOpen == taskQueueOpen

\* They queue the task, or throw because the queue was closed meanwhile.
addTask(c) ==
    /\ pc[c] = "entered"
    /\ \/ /\ StillOpen
          /\ Enqueue(c, op[c])
          /\ pc' = [pc EXCEPT ![c] = "waiting"]
       \/ /\ ~ StillOpen
          /\ pc' = [pc EXCEPT ![c] = "idle"]
          /\ UNCHANGED <<taskQueue, thread>>
    /\ op' = [op EXCEPT ![c] = "select"]
    /\ UNCHANGED <<fileVars, main, registered, startupError, misread, threadVars,
                   taskQueueOpen, shutdownFlag, dirty, answer, countVars>>

\* waitForTask() returns, or throws the error.
waitForTask(c) ==
    /\ pc[c] = "waiting" /\ answer[c] # "none"
    /\ pc' = [pc EXCEPT ![c] = "idle"]
    /\ answer' = [answer EXCEPT ![c] = "none"]
    /\ UNCHANGED <<fileVars, main, registered, startupError, misread, thread,
                   threadVars, taskQueue, taskQueueOpen, shutdownFlag, dirty, op,
                   countVars>>

-----------------------------------------------------------------------------
(* The sqlite3 thread.                                                     *)

\* It opens the database, tells init() and, with an empty queue, sleeps.
threadOpen ==
    /\ thread = "opening"
    /\ handle' = "open" /\ thread' = "asleep"
    /\ main' = "version"
    /\ UNCHANGED <<fileVars, registered, startupError, misread, task, outcome,
                   taskQueue, taskQueueOpen, shutdownFlag, dirty, callVars,
                   countVars>>

\* It cannot open it and leaves without a signal.
threadOpenFails ==
    /\ thread = "opening" /\ Fault
    /\ startupError' = TRUE /\ thread' = "exited"
    /\ UNCHANGED <<fileVars, main, registered, misread, threadVars, taskQueue,
                   taskQueueOpen, shutdownFlag, dirty, callVars, calls, starts>>

\* The next task, or sleep.
threadNext ==
    /\ thread = "loop" /\ ~ shutdownFlag
    /\ \/ /\ taskQueue = <<>>
          /\ thread' = "asleep"
          /\ UNCHANGED <<task, taskQueue>>
       \/ /\ taskQueue # <<>>
          /\ thread' = "run"
          /\ task' = Head(taskQueue) /\ taskQueue' = Tail(taskQueue)
    /\ UNCHANGED <<fileVars, main, registered, startupError, misread, outcome, handle,
                   taskQueueOpen, shutdownFlag, dirty, callVars, countVars>>

\* Mutant: the queue is dropped instead of answered.
Dropped == {}

\* Who is answered when the queue is emptied at the end: everybody in it.
Refused == {taskQueue[i].by : i \in DOMAIN taskQueue}

\* The shutdown: the queue is closed, what is left is answered with an error.
threadExit ==
    /\ thread = "loop" /\ shutdownFlag
    /\ taskQueueOpen' = FALSE /\ taskQueue' = <<>>
    /\ answer' = [c \in Callers |-> IF c \in Refused THEN "error" ELSE answer[c]]
    /\ handle' = "closed" /\ thread' = "exited"
    /\ UNCHANGED <<fileVars, main, registered, startupError, misread, task,
                   outcome, shutdownFlag, dirty, pc, op, countVars>>

\* Mutant: the return code of SQLite is not looked at.
HandleOpen == handle = "open"

Usable == handle = "open" /\ dbFile # Damaged

\* SLSelectTask::run().  Over a usable database a SELECT fails only for a
\* reason of its own (a lock, an I/O error); init() cannot tell that from a
\* database that is corrupt, and misread notes that it has happened there.
runSelect ==
    /\ task.op = "select"
    /\ thread' = "mark"
    /\ \/ /\ Usable /\ NoFault
          /\ outcome' = Answered("ok") /\ UNCHANGED misread
       \/ /\ Usable /\ Fault /\ main = "version"
          /\ outcome' = Answered("error") /\ misread' = TRUE
       \/ /\ Usable /\ Fault /\ main # "version"
          /\ outcome' = Answered("error") /\ UNCHANGED misread
       \/ /\ ~ Usable /\ NoFault
          /\ \/ outcome' = Answered("error")
             \/ handle = "open" /\ outcome' = Answered("nil")
          /\ UNCHANGED misread
    /\ UNCHANGED <<fileVars, handle>>

\* Mutant: a PRAGMA is no change.
PragmaClean(o) == IF o = "pragma" THEN Answered("ok") ELSE Contaminated

\* The effect of a statement that went through; a PRAGMA counts as a change.
ExecEffect(o) == Contaminated

\* SLExecTask::run(): a statement either works or fails without effect.
runExec ==
    /\ task.op \in {"exec", "pragma"}
    /\ thread' = "mark"
    /\ \/ /\ Usable /\ NoFault
          /\ outcome' = ExecEffect(task.op)
          /\ IF task.op = "exec" THEN stamp' = stamp + 1 /\ dbFile' = stamp'
                                 ELSE UNCHANGED <<stamp, dbFile>>
          /\ UNCHANGED <<backupFile, handle>>
       \/ /\ Usable => Fault
          /\ Usable \/ NoFault
          /\ outcome' = Answered("error")
          /\ UNCHANGED <<fileVars, handle>>
    /\ UNCHANGED misread

\* copy_file() opens the source and truncates the target, which may fail.
CopyStarts(failed) ==
    \/ NoFault /\ thread' = "copying" /\ UNCHANGED outcome
    \/ Fault /\ thread' = "mark" /\ outcome' = failed

\* SLBackupTask::run() for a backup; its failures are only logged.
runBackup ==
    /\ task.op = "backup"
    /\ CopyStarts(Answered("ok"))
    /\ backupFile' = IF thread' = "copying" THEN Damaged ELSE backupFile
    /\ UNCHANGED <<dbFile, stamp, handle, misread>>

\* SLBackupTask::run() for a restore: the database is closed and written over.
runRestore ==
    /\ task.op = "restore"
    /\ handle' = "closed"
    /\ CopyStarts(Answered("error"))
    /\ dbFile' = IF thread' = "copying" THEN Damaged ELSE dbFile
    /\ UNCHANGED <<backupFile, stamp, misread>>

\* SLInitTask::run(): the database is closed and unlinked, which may fail.
runCreate ==
    /\ task.op = "create"
    /\ handle' = "closed"
    /\ \/ NoFault /\ thread' = "copying" /\ dbFile' = Damaged /\ UNCHANGED outcome
       \/ Fault /\ thread' = "mark" /\ outcome' = Answered("error") /\ UNCHANGED dbFile
    /\ UNCHANGED <<backupFile, stamp, misread>>

threadRun ==
    /\ thread = "run"
    /\ runSelect \/ runExec \/ runBackup \/ runRestore \/ runCreate
    /\ UNCHANGED <<main, registered, startupError, task, taskQueue, taskQueueOpen,
                   shutdownFlag, dirty, callVars, calls, starts>>

\* The outcome of a backup whose copying failed half way.
BackupFailed == Answered("ok")

\* The second half of a backup.
backupCopied ==
    /\ task.op = "backup"
    /\ \/ NoFault /\ backupFile' = dbFile /\ outcome' = Decontaminated
       \/ Fault /\ outcome' = BackupFailed /\ UNCHANGED backupFile
    /\ UNCHANGED <<dbFile, stamp, handle>>

\* The second half of a restore: copying or reopening may fail.
restoreCopied ==
    /\ task.op = "restore"
    /\ \/ NoFault /\ dbFile' = backupFile /\ handle' = "open" /\ outcome' = Answered("ok")
       \/ Fault /\ dbFile' \in {dbFile, backupFile} /\ outcome' = Answered("error")
          /\ UNCHANGED handle
    /\ UNCHANGED <<backupFile, stamp>>

\* The second half of SLInitTask::run(): open, and create the tables.
tablesCreated ==
    /\ task.op = "create"
    /\ \/ NoFault /\ stamp' = stamp + 1 /\ dbFile' = stamp' /\ handle' = "open"
          /\ outcome' = Contaminated
       \/ Fault /\ handle' \in {"closed", "open"} /\ outcome' = Answered("error")
          /\ UNCHANGED <<stamp, dbFile>>
    /\ UNCHANGED backupFile

threadCopied ==
    /\ thread = "copying"
    /\ backupCopied \/ restoreCopied \/ tablesCreated
    /\ thread' = "mark"
    /\ UNCHANGED <<main, registered, startupError, misread, task, taskQueue,
                   taskQueueOpen, shutdownFlag, dirty, callVars, calls, starts>>

\* dirty is set or reset, without the mutex.
threadMark ==
    /\ thread = "mark"
    /\ dirty' = CASE outcome.effect = "contaminated" -> TRUE
                  [] outcome.effect = "decontaminated" -> FALSE
                  [] OTHER -> dirty
    /\ thread' = "signal"
    /\ UNCHANGED <<fileVars, main, registered, startupError, misread, threadVars,
                   taskQueue, taskQueueOpen, shutdownFlag, callVars, countVars>>

\* SLTask::sendSignal()
threadSignal ==
    /\ thread = "signal"
    /\ answer' = [c \in Callers |-> IF c = task.by THEN outcome.answer ELSE answer[c]]
    /\ task' = NoTask /\ outcome' = NoOutcome
    /\ thread' = "loop"
    /\ UNCHANGED <<fileVars, main, registered, startupError, misread, handle, taskQueue,
                   taskQueueOpen, shutdownFlag, dirty, pc, op, countVars>>

-----------------------------------------------------------------------------
(* The environment.                                                        *)

\* The process dies, or ends after "down" or "failed"; the files stay.
crash ==
    /\ main # "off"
    /\ main' = "off" /\ registered' = FALSE /\ startupError' = FALSE
    /\ misread' = FALSE
    /\ thread' = "none" /\ task' = NoTask /\ outcome' = NoOutcome /\ handle' = "none"
    /\ taskQueue' = <<>> /\ taskQueueOpen' = FALSE /\ shutdownFlag' = FALSE /\ dirty' = FALSE
    /\ pc' = NoCalls /\ op' = NoOps /\ answer' = NoAnswers
    /\ UNCHANGED <<fileVars, countVars>>

\* The database becomes unusable between two runs, while a backup exists.
damage ==
    /\ main = "off" /\ backupFile # Damaged /\ Fault
    /\ dbFile' = Damaged
    /\ UNCHANGED <<backupFile, stamp, main, registered, startupError, misread,
                   thread, threadVars, taskQueue, taskQueueOpen, shutdownFlag,
                   dirty, callVars, calls, starts>>

Thread == \/ threadOpen \/ threadNext \/ threadExit \/ threadRun
          \/ threadCopied \/ threadMark \/ threadSignal

MainSteps == initTask \/ initAnswer \/ shutdownDriver \/ shutdownJoined

Next ==
    \/ Thread \/ threadOpenFails
    \/ init \/ MainSteps \/ timerNotify \/ shutdown
    \/ \E c \in Client : \/ \E o \in {"select", "exec"} : call(c, o)
                         \/ addTask(c) \/ waitForTask(c)
    \/ crash \/ damage

Spec == Init /\ [][Next]_vars

\* Every thread is scheduled, and the timer goes off again and again.  Nobody
\* has to call, start or stop anything, and nothing has to fail.
FairSpec ==
    /\ Spec
    /\ WF_vars(Thread) /\ WF_vars(MainSteps) /\ WF_vars(timerNotify)
    /\ \A c \in Client : WF_vars(addTask(c)) /\ WF_vars(waitForTask(c))
-----------------------------------------------------------------------------
(* Properties.                                                             *)

Contents == Nat
Tasks == [by : Callers \cup {Timer},
          op : {"select", "exec", "pragma", "backup", "restore", "create"}]
Answers == {"none", "ok", "nil", "error"}
Busy == thread \in {"run", "copying", "mark", "signal"}

\* Every variable keeps its type: file contents, tasks, queue, program counters.
TypeOK ==
    /\ dbFile \in 0..stamp /\ backupFile \in 0..stamp /\ stamp \in Contents
    /\ main \in DOMAIN MainOp \cup {"off", "starting", "giveup", "ready", "shutdown",
                                    "joining", "down", "failed"}
    /\ registered \in BOOLEAN /\ startupError \in BOOLEAN
    /\ misread \in BOOLEAN
    /\ thread \in {"none", "opening", "asleep", "loop", "run", "copying", "mark",
                   "signal", "exited"}
    /\ task \in Tasks
    /\ outcome \in [answer : Answers,
                    effect : {"none", "contaminated", "decontaminated"}]
    /\ handle \in {"none", "open", "closed"}
    /\ taskQueue \in Seq(Tasks)
    /\ taskQueueOpen \in BOOLEAN /\ shutdownFlag \in BOOLEAN /\ dirty \in BOOLEAN
    /\ pc \in [Callers -> {"idle", "entered", "waiting"}]
    /\ op \in [Callers -> {"select", "exec"}]
    /\ answer \in [Callers -> Answers]
    /\ calls \in Nat /\ starts \in Nat /\ faults \in Nat

Unanswered(c) == pc[c] = "waiting" /\ answer[c] = "none"
Queued(c) == \E i \in DOMAIN taskQueue : taskQueue[i].by = c
InWork(c) == Busy /\ task.by = c

\* Whoever waits for an answer has its task in the queue or in the hands of a
\* living thread, in one place and once; nobody else has a task there.  So
\* the emptying of the queue at the end of threadProc() forgets nobody,
\* whatever addTask() does meanwhile, and no request is carried out twice.
CallersAccounted ==
    /\ \A c \in Callers :
          /\ Unanswered(c) <=> (Queued(c) \/ InWork(c))
          /\ ~ (Queued(c) /\ InWork(c))
    /\ \A i, j \in DOMAIN taskQueue :
          taskQueue[i].by = taskQueue[j].by => i = j \/ taskQueue[i].by = Timer
    /\ thread = "exited" => taskQueue = <<>>

\* `dirty' can be trusted: when it is FALSE and no task is in work, the backup
\* is the database as it is now, or was spoilt by a backup that failed while
\* there was nothing to back up.  It is never an older state of the database
\* that the timer would take for a current one.
BackupHonest ==
    (registered /\ ~ dirty /\ ~ Busy) => backupFile \in {dbFile, Damaged}

SomeCopy == dbFile # Damaged \/ backupFile # Damaged

\* Whatever fails or dies during a start, a restore, a creation or a backup,
\* the last usable file is not written over: a step that begins with a usable
\* database or backup leaves one, with one exception.  init() takes a failing
\* SELECT of the version for a corrupt database; if it was not, and no usable
\* backup is there, the only copy is unlinked or written over.  (After a
\* restore that failed the copy that is left may be the new, empty database,
\* whose first backup replaces the old one.)
NeverBothLost == [][SomeCopy /\ ~ misread => SomeCopy']_vars

\* select() and exec() come back, also when the driver is shut down meanwhile.
CallsReturn == \A c \in Client : pc[c] = "waiting" ~> pc[c] = "idle"

\* shutdownDriver() gets the thread to exit and joins it.
ShutdownEnds == main = "joining" ~> main \in {"down", "off"}

\* As long as the server runs, a change of the database gets into the backup.
BackedUp == (main = "ready" /\ BackupEnabled /\ dirty) ~> (~ dirty \/ main # "ready")
=============================================================================
