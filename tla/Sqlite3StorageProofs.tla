------------------------ MODULE Sqlite3StorageProofs ------------------------
(***************************************************************************)
(* Proofs about the SQLite driver: no caller is forgotten, `dirty' can be  *)
(* trusted, and no fault costs the last usable copy of the data, for every *)
(* set of clients, every configuration and every number of faults.         *)
(***************************************************************************)
EXTENDS Sqlite3Storage, SequenceTheorems, TLAPS

\* Where the main thread, the sqlite3 thread and the callers are together.
Phases ==
    /\ thread = "none" <=> main = "off"
    /\ main = "off" => /\ ~ registered /\ ~ shutdownFlag /\ taskQueue = <<>>
                       /\ pc[Main] = "idle"
    /\ thread = "opening" => main = "starting" /\ taskQueueOpen
    /\ main = "starting" => /\ thread \in {"opening", "exited"}
                            /\ ~ registered /\ ~ shutdownFlag /\ taskQueue = <<>>
                            /\ pc[Main] = "idle"
    /\ main \in DOMAIN MainOp \cup {"ready", "giveup", "shutdown", "failed"}
          => thread # "exited" /\ taskQueueOpen /\ ~ shutdownFlag
    /\ (thread = "exited" /\ main # "starting") => ~ taskQueueOpen
    /\ registered => main \in {"ready", "flush", "shutdown", "joining", "down", "failed"}
    /\ main = "ready" => registered
    /\ ~ registered => \A c \in Client : pc[c] = "idle"
    /\ pc[Main] # "idle" => main \in DOMAIN MainOp
    /\ thread \in {"mark", "signal"} => outcome.answer # "none"
    /\ \A c \in Callers : pc[c] # "waiting" => answer[c] = "none"

\* Whose tasks there are.
Lawful(t) ==
    \/ t.by = Main /\ main \in DOMAIN MainOp /\ t.op = MainOp[main]
    \/ t.by \in Client /\ registered /\ t.op \in {"select", "exec"}
    \/ t.by = Timer /\ registered /\ t.op = "backup"

Owners ==
    /\ \A i \in DOMAIN taskQueue : Lawful(taskQueue[i])
    /\ Busy => Lawful(task)

\* The storage is handed out, or init() is past its last PRAGMA.
Late == registered \/ main \in {"backup", "lastID"}

DirtyInv ==
    /\ (Late /\ ~ dirty /\ ~ (thread = "mark" /\ outcome.effect = "contaminated"))
          => backupFile \in {dbFile, Damaged}
    /\ (thread = "mark" /\ outcome.effect = "decontaminated") => backupFile = dbFile
    /\ (thread = "mark" /\ task.op = "pragma" /\ outcome.answer = "ok")
          => outcome.effect = "contaminated"
    /\ (thread = "signal" /\ task.op = "pragma" /\ outcome.answer = "ok") => dirty
    /\ (main = "pragma2" /\ answer[Main] = "ok") => dirty

\* The main thread's task came to `a', whether it knows already or not.
Result(a) == \/ answer[Main] = a
             \/ thread \in {"mark", "signal"} /\ task.by = Main /\ outcome.answer = a

Pending == answer[Main] = "none" /\ thread \notin {"mark", "signal"}

CopiesInv ==
    /\ (Late \/ main \in {"pragma", "pragma2"}) => dbFile # Damaged
    /\ (main \in {"version", "restored"} /\ Pending) => handle = "open"
    /\ (main \in {"version", "restored", "created"} /\ Result("ok")) => dbFile # Damaged
    /\ (main = "restore" /\ Result("ok")) => handle = "open"

\* What is known of the files when init() is about to write over them, as
\* long as it has not given up a usable database.
LossInv == ~ misread =>
    /\ (main = "version" /\ (Result("error") \/ Result("nil"))) => dbFile = Damaged
    /\ (main = "restore" /\ Pending) => dbFile = Damaged
    /\ main \in {"restore", "restored"} => dbFile \in {Damaged, backupFile}
    /\ (main = "create" /\ Pending /\ thread # "copying")
          => (dbFile = Damaged \/ backupFile # Damaged)

IInv == TypeOK /\ Phases /\ CallersAccounted /\ Owners /\ DirtyInv /\ CopiesInv /\ LossInv

\* The operations of init() and shutdown(), step by step.
LEMMA MainOps ==
    /\ DOMAIN MainOp = {"version", "restore", "restored", "create", "created", "pragma",
                        "pragma2", "backup", "lastID", "flush"}
    /\ MainOp["version"] = "select" /\ MainOp["restored"] = "select"
    /\ MainOp["created"] = "select" /\ MainOp["lastID"] = "select"
    /\ MainOp["restore"] = "restore" /\ MainOp["create"] = "create"
    /\ MainOp["pragma"] = "pragma" /\ MainOp["pragma2"] = "pragma"
    /\ MainOp["backup"] = "backup" /\ MainOp["flush"] = "exec"
BY DEF MainOp

\* Where init() can go from each of its steps.
LEMMA NextSteps ==
    ASSUME NEW at \in DOMAIN MainOp, NEW a, NEW to \in AfterAnswer(at, a)
    PROVE  /\ to \in DOMAIN MainOp \cup {"giveup", "ready", "shutdown", "failed"}
           /\ to \notin {"version", "flush"}
           /\ to = "ready" => at = "lastID"
           /\ to = "lastID" => at \in {"pragma2", "backup"}
           /\ to = "backup" => at = "pragma2"
           /\ to \in {"lastID", "backup"} /\ at = "pragma2" => a = "ok"
           /\ to = "shutdown" => at = "flush"
           /\ at = "flush" => to \in {"shutdown", "failed"}
           /\ to = "pragma2" => at = "pragma"
           /\ to = "pragma" => at \in {"version", "restored", "created"} /\ a = "ok"
           /\ to = "created" => at = "create"
           /\ to = "restored" => at = "restore" /\ a = "ok"
           /\ to = "restore" => at = "version" /\ a \notin {"ok", "nil"}
           /\ to = "create" => at \in {"version", "restored", "restore"} /\ a # "ok"
<1> USE MainOps
<1>1. CASE at = "version"
  BY <1>1 DEF AfterAnswer, OnError
<1>2. CASE at \in {"restore", "restored", "create", "created", "pragma"}
  BY <1>2 DEF AfterAnswer
<1>3. CASE at \in {"pragma2", "backup", "lastID", "flush"}
  BY <1>3 DEF AfterAnswer
<1> QED
  BY <1>1, <1>2, <1>3

\* The types hold at the start.
LEMMA TypeInit == Init => TypeOK
<1> SUFFICES ASSUME Init PROVE TypeOK
  OBVIOUS
<1>1. dbFile \in 0..stamp /\ backupFile \in 0..stamp /\ stamp \in Contents
  BY DEF Init, Damaged, Contents
<1>2. task \in Tasks
  BY DEF Init, NoTask, Tasks
<1>3. taskQueue \in Seq(Tasks)
  BY DEF Init
<1>4. calls \in Nat /\ starts \in Nat /\ faults \in Nat
  BY DEF Init
<1> QED
  BY <1>1, <1>2, <1>3, <1>4, MainOps
     DEF Init, TypeOK, NoOutcome, NoCalls, NoOps, NoAnswers, Answers

\* Every step keeps the types.
LEMMA TypeStep ==
    TypeOK /\ [Next]_vars => TypeOK'
<1> SUFFICES ASSUME TypeOK, [Next]_vars PROVE TypeOK'
  OBVIOUS
<1>1. CASE UNCHANGED vars
  BY <1>1 DEF TypeOK, vars, fileVars, threadVars, callVars, countVars
<1>2. CASE threadOpen
  BY <1>2, MainOps DEF TypeOK, fileVars, callVars, countVars, threadOpen
<1>3. CASE threadOpenFails
  BY <1>3 DEF TypeOK, fileVars, threadVars, callVars, threadOpenFails, Fault
<1>4. CASE threadNext
  <2>1. CASE taskQueue = <<>>
    BY <1>4, <2>1 DEF threadNext, TypeOK, fileVars, callVars, countVars
  <2>2. CASE taskQueue # <<>>
    <3>1. taskQueue \in Seq(Tasks) /\ task' = Head(taskQueue) /\ taskQueue' = Tail(taskQueue)
      BY <1>4, <2>2 DEF threadNext, TypeOK
    <3>2. taskQueue' \in Seq(Tasks) /\ task' \in Tasks
      BY <2>2, <3>1
    <3> QED
      BY <1>4, <2>2, <3>2 DEF threadNext, TypeOK, fileVars, callVars, countVars
  <2> QED
    BY <2>1, <2>2
<1>5. CASE threadExit
  <2>1. answer' \in [Callers -> Answers]
    BY <1>5 DEF threadExit, TypeOK, Answers
  <2>2. taskQueue' \in Seq(Tasks)
    BY <1>5 DEF threadExit
  <2> QED
    BY <1>5, <2>1, <2>2 DEF threadExit, TypeOK, fileVars, countVars
<1>6. CASE threadMark
  <2>1. dirty' \in BOOLEAN
    BY <1>6 DEF threadMark, TypeOK
  <2>2. thread' = "signal"
    BY <1>6 DEF threadMark
  <2>3. UNCHANGED <<fileVars, main, registered, startupError, misread, threadVars,
                    taskQueue, taskQueueOpen, shutdownFlag, callVars, countVars>>
    BY <1>6 DEF threadMark
  <2> QED
    BY <2>1, <2>2, <2>3 DEF TypeOK, fileVars, threadVars, callVars, countVars
<1>7. CASE threadSignal
  <2>1. answer' \in [Callers -> Answers]
    BY <1>7 DEF threadSignal, TypeOK, Answers
  <2>2. task' \in Tasks
    BY <1>7 DEF threadSignal, NoTask, Tasks
  <2> QED
    BY <1>7, <2>1, <2>2
       DEF threadSignal, NoOutcome, Answers, TypeOK, fileVars, countVars
<1>8. CASE init
  BY <1>8 DEF TypeOK, fileVars, threadVars, callVars, init
<1>9. CASE initTask
  <2>1. [by |-> Main, op |-> MainOp[main]] \in Tasks
    BY <1>9, MainOps DEF initTask, Tasks, Callers
  <2>2. taskQueue' \in Seq(Tasks)
    BY <1>9, <2>1 DEF initTask, Enqueue, TypeOK
  <2> QED
    BY <1>9, <2>2
       DEF initTask, Enqueue, Signalled, TypeOK, fileVars, threadVars, countVars
<1>10. CASE initAnswer
  <2>1. main' \in DOMAIN MainOp \cup {"giveup", "ready", "shutdown", "failed"}
    BY <1>10, NextSteps DEF initAnswer
  <2> QED
    BY <1>10, <2>1
       DEF initAnswer, Callers, Answers, TypeOK, fileVars, threadVars, countVars
<1>11. CASE shutdownDriver
  BY <1>11
     DEF TypeOK, fileVars, threadVars, callVars, countVars, shutdownDriver, Signalled
<1>12. CASE shutdownJoined
  BY <1>12 DEF TypeOK, fileVars, threadVars, callVars, countVars, shutdownJoined
<1>13. CASE timerNotify
  <2>1. [by |-> Timer, op |-> "backup"] \in Tasks
    BY DEF Tasks
  <2>2. taskQueue' \in Seq(Tasks)
    BY <1>13, <2>1 DEF timerNotify, Enqueue, TypeOK
  <2> QED
    BY <1>13, <2>2
       DEF timerNotify, Enqueue, Signalled, TypeOK, fileVars, threadVars, callVars,
           countVars
<1>14. CASE shutdown
  BY <1>14, MainOps DEF TypeOK, fileVars, threadVars, callVars, countVars, shutdown
<1>15. CASE crash
  <2>1. task' \in Tasks
    BY <1>15 DEF crash, NoTask, Tasks
  <2>2. taskQueue' \in Seq(Tasks)
    BY <1>15 DEF crash
  <2>3. /\ pc' \in [Callers -> {"idle", "entered", "waiting"}]
        /\ op' \in [Callers -> {"select", "exec"}]
        /\ answer' \in [Callers -> Answers]
    BY <1>15 DEF crash, NoCalls, NoOps, NoAnswers, Answers
  <2> QED
    BY <1>15, <2>1, <2>2, <2>3
       DEF crash, NoOutcome, Answers, TypeOK, fileVars, countVars
<1>16. CASE damage
  BY <1>16 DEF TypeOK, Contents, Damaged, threadVars, callVars, damage, Fault
<1>17. CASE threadRun
  <2>1. CASE runSelect
    <3>1. outcome' \in {Answered("ok"), Answered("error"), Answered("nil")}
      BY <2>1 DEF runSelect
    <3>2. misread' \in BOOLEAN
      BY <2>1 DEF runSelect, TypeOK
    <3>3. faults' \in Nat
      BY <2>1 DEF runSelect, TypeOK, Fault, NoFault
    <3>4. UNCHANGED <<fileVars, handle>> /\ thread' = "mark"
      BY <2>1 DEF runSelect
    <3> QED
      BY <1>17, <3>1, <3>2, <3>3, <3>4
         DEF TypeOK, Answers, fileVars, callVars, threadRun, Answered
  <2>2. CASE runExec
    BY <1>17, <2>2
       DEF TypeOK, Answers, Contents, fileVars, callVars, threadRun, runExec,
           ExecEffect, Contaminated, Answered, Fault, NoFault
  <2>3. CASE runBackup
    BY <1>17, <2>3
       DEF TypeOK, Answers, Contents, Damaged, callVars, threadRun, runBackup,
           CopyStarts, Answered, Fault, NoFault
  <2>4. CASE runRestore
    BY <1>17, <2>4
       DEF TypeOK, Answers, Contents, Damaged, callVars, threadRun, runRestore,
           CopyStarts, Answered, Fault, NoFault
  <2>5. CASE runCreate
    BY <1>17, <2>5
       DEF TypeOK, Answers, Contents, Damaged, callVars, threadRun, runCreate, Answered,
           Fault, NoFault
  <2> QED
    BY <1>17, <2>1, <2>2, <2>3, <2>4, <2>5 DEF threadRun
<1>18. CASE threadCopied
  <2>1. CASE backupCopied
    BY <1>18, <2>1
       DEF TypeOK, Answers, callVars, threadCopied, backupCopied, Fault, NoFault,
           Decontaminated, BackupFailed, Answered
  <2>2. CASE restoreCopied
    BY <1>18, <2>2
       DEF TypeOK, Answers, callVars, threadCopied, restoreCopied, Fault, NoFault,
           Answered
  <2>3. CASE tablesCreated
    BY <1>18, <2>3
       DEF TypeOK, Answers, Contents, callVars, threadCopied, tablesCreated, Fault,
           NoFault, Contaminated, Answered
  <2> QED
    BY <1>18, <2>1, <2>2, <2>3 DEF threadCopied
<1>19. CASE \E c \in Client : \/ \E o \in {"select", "exec"} : call(c, o)
                             \/ addTask(c) \/ waitForTask(c)
  <2> SUFFICES ASSUME NEW c \in Client,
                      \/ \E o \in {"select", "exec"} : call(c, o)
                      \/ addTask(c) \/ waitForTask(c)
               PROVE TypeOK'
    BY <1>19
  <2>1. CASE \E o \in {"select", "exec"} : call(c, o)
    BY <2>1 DEF TypeOK, Callers, fileVars, threadVars, call
  <2>2. CASE addTask(c)
    <3>1. [by |-> c, op |-> op[c]] \in Tasks
      BY DEF TypeOK, Tasks, Callers
    <3>2. CASE StillOpen
      <4>1. Enqueue(c, op[c]) /\ pc' = [pc EXCEPT ![c] = "waiting"]
        BY <2>2, <3>2 DEF addTask
      <4>2. taskQueue' \in Seq(Tasks)
        BY <3>1, <4>1 DEF Enqueue, TypeOK
      <4>3. thread' \in {"none", "opening", "asleep", "loop", "run", "copying", "mark",
                         "signal", "exited"}
        BY <4>1 DEF Enqueue, Signalled, TypeOK
      <4> QED
        BY <2>2, <4>1, <4>2, <4>3
           DEF addTask, Callers, TypeOK, fileVars, threadVars, countVars
    <3>3. CASE ~ StillOpen
      BY <2>2, <3>3 DEF addTask, Callers, TypeOK, fileVars, threadVars, countVars
    <3> QED
      BY <3>2, <3>3
  <2>3. CASE waitForTask(c)
    BY <2>3 DEF TypeOK, Answers, Callers, fileVars, threadVars, countVars, waitForTask
  <2> QED
    BY <2>1, <2>2, <2>3
<1> QED
  BY <1>1, <1>2, <1>3, <1>4, <1>5, <1>6, <1>7, <1>8, <1>9, <1>10, <1>11, <1>12, <1>13,
     <1>14, <1>15, <1>16, <1>17, <1>18, <1>19
     DEF Next, Thread, MainSteps

\* The phases of the threads fit together after every step.
LEMMA PhasesStep ==
    IInv /\ [Next]_vars => Phases'
<1> SUFFICES ASSUME IInv, [Next]_vars PROVE Phases'
  OBVIOUS
<1>1. CASE UNCHANGED vars
  BY <1>1 DEF IInv, Phases, vars, threadVars, callVars
<1>2. CASE threadOpen
  BY <1>2 DEF IInv, Phases, callVars, threadOpen
<1>3. CASE threadOpenFails
  BY <1>3, MainOps DEF IInv, Phases, callVars, threadOpenFails
<1>4. CASE threadNext
  BY <1>4 DEF IInv, Phases, callVars, threadNext
<1>5. CASE threadExit
  <2>1. \A c \in Callers : c \in Refused => pc[c] = "waiting"
    BY DEF IInv, CallersAccounted, Unanswered, Queued, Refused
  <2>2. \A c \in Callers : pc'[c] # "waiting" => answer'[c] = "none"
    BY <1>5, <2>1 DEF threadExit, IInv, Phases
  <2>3. main \in {"joining", "down"} /\ thread # "none"
    BY <1>5, MainOps DEF threadExit, IInv, TypeOK, Phases
  <2> QED
    BY <1>5, <2>2, <2>3, MainOps DEF threadExit, IInv, Phases
<1>6. CASE threadMark
  BY <1>6 DEF IInv, Phases, threadVars, callVars, threadMark
<1>7. CASE threadSignal
  <2>1. \A c \in Callers : c = task.by => pc[c] = "waiting"
    BY <1>7 DEF IInv, CallersAccounted, Unanswered, InWork, Busy, threadSignal
  <2>2. \A c \in Callers : pc'[c] # "waiting" => answer'[c] = "none"
    BY <1>7, <2>1 DEF threadSignal, IInv, Phases
  <2> QED
    BY <1>7, <2>2, MainOps DEF threadSignal, IInv, Phases, Callers
<1>8. CASE init
  BY <1>8 DEF IInv, Phases, callVars, init
<1>9. CASE initTask
  BY <1>9, ConstantsAssumption, MainOps
     DEF IInv, Phases, threadVars, initTask, Enqueue, Signalled
<1>10. CASE initAnswer
  BY <1>10, NextSteps, MainOps DEF IInv, TypeOK, Phases, Callers, threadVars, initAnswer
<1>11. CASE shutdownDriver
  BY <1>11, MainOps DEF IInv, Phases, threadVars, callVars, shutdownDriver, Signalled
<1>12. CASE shutdownJoined
  BY <1>12, MainOps DEF IInv, Phases, callVars, shutdownJoined
<1>13. CASE timerNotify
  BY <1>13 DEF IInv, Phases, threadVars, callVars, timerNotify, Enqueue, Signalled
<1>14. CASE shutdown
  BY <1>14, MainOps DEF IInv, Phases, threadVars, callVars, shutdown
<1>15. CASE crash
  BY <1>15, MainOps DEF Phases, Callers, crash, NoCalls, NoAnswers
<1>16. CASE damage
  BY <1>16 DEF IInv, Phases, callVars, damage
<1>17. CASE threadRun
  <2>1. CASE runSelect
    BY <1>17, <2>1 DEF IInv, Phases, callVars, threadRun, runSelect, Answered
  <2>2. CASE runExec
    BY <1>17, <2>2
       DEF IInv, Phases, callVars, threadRun, runExec, ExecEffect, Contaminated,
           Answered
  <2>3. CASE runBackup
    BY <1>17, <2>3
       DEF IInv, Phases, callVars, threadRun, runBackup, CopyStarts, Answered
  <2>4. CASE runRestore
    BY <1>17, <2>4
       DEF IInv, Phases, callVars, threadRun, runRestore, CopyStarts, Answered
  <2>5. CASE runCreate
    BY <1>17, <2>5 DEF IInv, Phases, callVars, threadRun, runCreate, Answered
  <2> QED
    BY <1>17, <2>1, <2>2, <2>3, <2>4, <2>5 DEF threadRun
<1>18. CASE threadCopied
  <2>1. CASE backupCopied
    BY <1>18, <2>1
       DEF IInv, Phases, callVars, threadCopied, backupCopied, Decontaminated,
           BackupFailed, Answered
  <2>2. CASE restoreCopied
    BY <1>18, <2>2 DEF IInv, Phases, callVars, threadCopied, restoreCopied, Answered
  <2>3. CASE tablesCreated
    BY <1>18, <2>3
       DEF IInv, Phases, callVars, threadCopied, tablesCreated, Contaminated, Answered
  <2> QED
    BY <1>18, <2>1, <2>2, <2>3 DEF threadCopied
<1>19. CASE \E c \in Client : \/ \E o \in {"select", "exec"} : call(c, o)
                             \/ addTask(c) \/ waitForTask(c)
  <2> SUFFICES ASSUME NEW c \in Client,
                      \/ \E o \in {"select", "exec"} : call(c, o)
                      \/ addTask(c) \/ waitForTask(c)
               PROVE Phases'
    BY <1>19
  <2>1. CASE \E o \in {"select", "exec"} : call(c, o)
    BY <2>1, ConstantsAssumption DEF IInv, Phases, threadVars, call
  <2>2. CASE addTask(c)
    BY <2>2 DEF IInv, TypeOK, Phases, Callers, threadVars, addTask, Enqueue, Signalled
  <2>3. CASE waitForTask(c)
    BY <2>3 DEF IInv, TypeOK, Phases, threadVars, waitForTask
  <2> QED
    BY <2>1, <2>2, <2>3
<1> QED
  BY <1>1, <1>2, <1>3, <1>4, <1>5, <1>6, <1>7, <1>8, <1>9, <1>10, <1>11, <1>12, <1>13,
     <1>14, <1>15, <1>16, <1>17, <1>18, <1>19
     DEF Next, Thread, MainSteps

\* A task put at the end of the queue.
LEMMA Appended ==
    ASSUME NEW q \in Seq(Tasks), NEW t \in Tasks, NEW r, r = Append(q, t)
    PROVE  /\ DOMAIN r = DOMAIN q \cup {Len(q) + 1}
           /\ Len(q) + 1 \notin DOMAIN q
           /\ r[Len(q) + 1] = t
           /\ \A i \in DOMAIN q : r[i] = q[i]
           /\ r # <<>>
OBVIOUS

\* A task taken from the front of it.
LEMMA Taken ==
    ASSUME NEW q \in Seq(Tasks), q # <<>>, NEW r, r = Tail(q)
    PROVE  /\ 1 \in DOMAIN q /\ Head(q) = q[1]
           /\ \A i \in DOMAIN r : i + 1 \in DOMAIN q /\ r[i] = q[i + 1] /\ i + 1 # 1
           /\ \A i \in DOMAIN q : i # 1 => i - 1 \in DOMAIN r /\ r[i - 1] = q[i]
           /\ \A i, j \in DOMAIN r : i + 1 = j + 1 => i = j
OBVIOUS

\* A caller with nothing under way may queue a task; the timer always may.
LEMMA AccountedAppend ==
    ASSUME IInv, NEW t \in Tasks, taskQueue' = Append(taskQueue, t), thread # "exited",
           thread' = Signalled, UNCHANGED <<task, answer>>,
           \/ t.by = Timer /\ UNCHANGED pc
           \/ t.by \in Callers /\ pc[t.by] # "waiting" /\ pc' = [pc EXCEPT ![t.by] = "waiting"]
    PROVE  CallersAccounted'
<1>1. /\ DOMAIN taskQueue' = DOMAIN taskQueue \cup {Len(taskQueue) + 1}
      /\ Len(taskQueue) + 1 \notin DOMAIN taskQueue
      /\ taskQueue'[Len(taskQueue) + 1] = t
      /\ \A i \in DOMAIN taskQueue : taskQueue'[i] = taskQueue[i]
  BY Appended DEF IInv, TypeOK
<1>2. \A c \in Callers : Queued(c)' <=> Queued(c) \/ c = t.by
  BY <1>1 DEF Queued
<1>3. \A c \in Callers : InWork(c)' <=> InWork(c)
  BY DEF InWork, Busy, Signalled
<1>4. Timer \notin Callers
  BY ConstantsAssumption DEF Callers, Main, Timer
<1>5. \A c \in Callers : /\ Unanswered(c)' <=> Unanswered(c) \/ c = t.by
                         /\ c = t.by => ~ Queued(c) /\ ~ InWork(c)
  BY <1>4 DEF IInv, TypeOK, Phases, CallersAccounted, Unanswered
<1>6. \A c \in Callers : /\ Unanswered(c)' <=> (Queued(c)' \/ InWork(c)')
                         /\ ~ (Queued(c)' /\ InWork(c)')
  BY <1>2, <1>3, <1>5 DEF IInv, CallersAccounted
<1>7. ASSUME NEW i \in DOMAIN taskQueue', NEW j \in DOMAIN taskQueue',
             taskQueue'[i].by = taskQueue'[j].by
      PROVE  i = j \/ taskQueue'[i].by = Timer
  <2>1. CASE i \in DOMAIN taskQueue /\ j \in DOMAIN taskQueue
    BY <1>1, <1>7, <2>1 DEF IInv, CallersAccounted
  <2>2. CASE i = Len(taskQueue) + 1 /\ j = Len(taskQueue) + 1
    BY <2>2
  <2>3. ASSUME NEW k \in DOMAIN taskQueue, taskQueue[k].by = t.by
        PROVE  t.by = Timer
    <3>1. t.by \in Callers => Queued(t.by)
      BY <2>3 DEF Queued
    <3>2. t.by \in Callers => ~ Queued(t.by)
      BY <1>5
    <3> QED
      BY <3>1, <3>2
  <2> QED
    BY <1>1, <1>7, <2>1, <2>2, <2>3
<1>8. thread' # "exited"
  BY DEF Signalled
<1> QED
  BY <1>6, <1>7, <1>8 DEF CallersAccounted

\* No step loses a caller.
LEMMA AccountedStep ==
    IInv /\ [Next]_vars => CallersAccounted'
<1> SUFFICES ASSUME IInv, [Next]_vars PROVE CallersAccounted'
  OBVIOUS
<1>1. CASE UNCHANGED vars
  BY <1>1
     DEF IInv, CallersAccounted, Unanswered, Queued, InWork, Busy, vars, threadVars,
         callVars
<1>2. CASE threadOpen
  BY <1>2
     DEF IInv, CallersAccounted, Unanswered, Queued, InWork, Busy, callVars, threadOpen
<1>3. CASE threadOpenFails
  BY <1>3
     DEF threadOpenFails, callVars, Phases, IInv, CallersAccounted, Unanswered, Queued,
         InWork, Busy
<1>4. CASE threadNext
  <2>1. CASE taskQueue = <<>>
    BY <1>4, <2>1
       DEF threadNext, callVars, IInv, CallersAccounted, Unanswered, Queued, InWork,
           Busy
  <2>2. CASE taskQueue # <<>>
    <3>1. /\ taskQueue \in Seq(Tasks) /\ task' = Head(taskQueue) /\ taskQueue' = Tail(taskQueue)
          /\ thread' = "run" /\ ~ Busy /\ UNCHANGED <<pc, answer>>
      BY <1>4, <2>2 DEF threadNext, IInv, TypeOK, Busy, callVars
    <3>2. /\ 1 \in DOMAIN taskQueue /\ task' = taskQueue[1]
          /\ \A i \in DOMAIN taskQueue' : /\ i + 1 \in DOMAIN taskQueue /\ i + 1 # 1
                                          /\ taskQueue'[i] = taskQueue[i + 1]
          /\ \A i \in DOMAIN taskQueue : i # 1 => /\ i - 1 \in DOMAIN taskQueue'
                                                  /\ taskQueue'[i - 1] = taskQueue[i]
          /\ \A i, j \in DOMAIN taskQueue' : i + 1 = j + 1 => i = j
      BY <2>2, <3>1, Taken
    <3>3. Timer \notin Callers
      BY ConstantsAssumption DEF Callers, Main, Timer
    <3>4. \A i, j \in DOMAIN taskQueue' :
             taskQueue'[i].by = taskQueue'[j].by => i = j \/ taskQueue'[i].by = Timer
      BY <3>2 DEF IInv, CallersAccounted
    <3>5. ASSUME NEW c \in Callers
          PROVE  /\ Queued(c) <=> (Queued(c)' \/ InWork(c)')
                 /\ ~ (Queued(c)' /\ InWork(c)')
      <4>1. InWork(c)' <=> taskQueue[1].by = c
        BY <3>1, <3>2 DEF InWork, Busy
      <4>2. Queued(c)' => \E i \in DOMAIN taskQueue : i # 1 /\ taskQueue[i].by = c
        BY <3>2 DEF Queued
      <4>3. \A i \in DOMAIN taskQueue : i # 1 /\ taskQueue[i].by = c => Queued(c)'
        BY <3>2 DEF Queued
      <4>4. \A i \in DOMAIN taskQueue : i # 1 /\ taskQueue[i].by = c => taskQueue[1].by # c
        BY <3>2, <3>3 DEF IInv, CallersAccounted
      <4> QED
        BY <3>2, <4>1, <4>2, <4>3, <4>4 DEF Queued
    <3>6. \A c \in Callers : ~ InWork(c) /\ (Unanswered(c)' <=> Unanswered(c))
      BY <3>1 DEF InWork, Unanswered
    <3> QED
      BY <3>1, <3>4, <3>5, <3>6 DEF IInv, CallersAccounted
  <2> QED
    BY <2>1, <2>2
<1>5. CASE threadExit
  <2>1. \A c \in Callers : ~ InWork(c) /\ ~ InWork(c)' /\ ~ Queued(c)'
    BY <1>5 DEF threadExit, InWork, Busy, Queued
  <2>2. \A c \in Callers : c \in Refused <=> Queued(c)
    BY DEF Refused, Queued
  <2>3. \A c \in Callers : ~ Unanswered(c)'
    BY <1>5, <2>1, <2>2 DEF threadExit, IInv, CallersAccounted, Unanswered
  <2> QED
    BY <1>5, <2>1, <2>3 DEF threadExit, CallersAccounted
<1>6. CASE threadMark
  BY <1>6
     DEF IInv, CallersAccounted, Unanswered, Queued, InWork, Busy, threadVars, callVars,
         threadMark
<1>7. CASE threadSignal
  <2>1. \A c \in Callers : /\ InWork(c) <=> c = task.by
                           /\ ~ InWork(c)' /\ (Queued(c)' <=> Queued(c))
    BY <1>7 DEF threadSignal, InWork, Busy, Queued
  <2>2. \A c \in Callers : Unanswered(c)' <=> (Unanswered(c) /\ c # task.by)
    BY <1>7 DEF threadSignal, IInv, Phases, Unanswered
  <2> QED
    BY <1>7, <2>1, <2>2 DEF threadSignal, IInv, CallersAccounted
<1>8. CASE init
  BY <1>8
     DEF init, callVars, Phases, IInv, CallersAccounted, Unanswered, Queued, InWork,
         Busy
<1>9. CASE initTask
  <2>1. [by |-> Main, op |-> MainOp[main]] \in Tasks
    BY <1>9, MainOps DEF initTask, Tasks, Callers
  <2>2. thread # "exited"
    BY <1>9 DEF initTask, IInv, Phases
  <2> QED
    BY <1>9, <2>1, <2>2, AccountedAppend DEF initTask, Enqueue, threadVars, Callers
<1>10. CASE initAnswer
  BY <1>10
     DEF IInv, TypeOK, CallersAccounted, Unanswered, Queued, InWork, Busy, threadVars,
         initAnswer
<1>11. CASE shutdownDriver
  BY <1>11
     DEF IInv, CallersAccounted, Unanswered, Queued, InWork, Busy, threadVars, callVars,
         shutdownDriver, Signalled
<1>12. CASE shutdownJoined
  BY <1>12
     DEF IInv, CallersAccounted, Unanswered, Queued, InWork, Busy, callVars,
         shutdownJoined
<1>13. CASE timerNotify
  <2>1. [by |-> Timer, op |-> "backup"] \in Tasks
    BY DEF Tasks
  <2>2. thread # "exited"
    BY <1>13 DEF timerNotify, IInv, Phases
  <2> QED
    BY <1>13, <2>1, <2>2, AccountedAppend DEF timerNotify, Enqueue, threadVars, callVars
<1>14. CASE shutdown
  BY <1>14
     DEF IInv, CallersAccounted, Unanswered, Queued, InWork, Busy, threadVars, callVars,
         shutdown
<1>15. CASE crash
  <2>1. \A c \in Callers : ~ Unanswered(c)' /\ ~ Queued(c)' /\ ~ InWork(c)'
    BY <1>15 DEF crash, NoCalls, Unanswered, Queued, InWork, Busy
  <2> QED
    BY <1>15, <2>1 DEF crash, CallersAccounted
<1>16. CASE damage
  BY <1>16
     DEF IInv, CallersAccounted, Unanswered, Queued, InWork, Busy, threadVars, callVars,
         damage
<1>17. CASE threadRun
  <2>1. CASE runSelect
    BY <1>17, <2>1
       DEF IInv, CallersAccounted, Unanswered, Queued, InWork, Busy, callVars,
           threadRun, runSelect
  <2>2. CASE runExec
    BY <1>17, <2>2
       DEF IInv, CallersAccounted, Unanswered, Queued, InWork, Busy, callVars,
           threadRun, runExec
  <2>3. CASE runBackup
    BY <1>17, <2>3
       DEF IInv, CallersAccounted, Unanswered, Queued, InWork, Busy, callVars,
           threadRun, runBackup, CopyStarts
  <2>4. CASE runRestore
    BY <1>17, <2>4
       DEF IInv, CallersAccounted, Unanswered, Queued, InWork, Busy, callVars,
           threadRun, runRestore, CopyStarts
  <2>5. CASE runCreate
    BY <1>17, <2>5
       DEF IInv, CallersAccounted, Unanswered, Queued, InWork, Busy, callVars,
           threadRun, runCreate
  <2> QED
    BY <1>17, <2>1, <2>2, <2>3, <2>4, <2>5 DEF threadRun
<1>18. CASE threadCopied
  <2>1. CASE backupCopied
    BY <1>18, <2>1
       DEF IInv, CallersAccounted, Unanswered, Queued, InWork, Busy, callVars,
           threadCopied
  <2>2. CASE restoreCopied
    BY <1>18, <2>2
       DEF IInv, CallersAccounted, Unanswered, Queued, InWork, Busy, callVars,
           threadCopied
  <2>3. CASE tablesCreated
    BY <1>18, <2>3
       DEF IInv, CallersAccounted, Unanswered, Queued, InWork, Busy, callVars,
           threadCopied
  <2> QED
    BY <1>18, <2>1, <2>2, <2>3 DEF threadCopied
<1>19. CASE \E c \in Client : \/ \E o \in {"select", "exec"} : call(c, o)
                             \/ addTask(c) \/ waitForTask(c)
  <2> SUFFICES ASSUME NEW c \in Client,
                      \/ \E o \in {"select", "exec"} : call(c, o)
                      \/ addTask(c) \/ waitForTask(c)
               PROVE CallersAccounted'
    BY <1>19
  <2>1. CASE \E o \in {"select", "exec"} : call(c, o)
    BY <2>1
       DEF IInv, CallersAccounted, Unanswered, Queued, InWork, Busy, threadVars, call
  <2>2. CASE addTask(c)
    <3>1. CASE StillOpen
      <4>1. [by |-> c, op |-> op[c]] \in Tasks
        BY DEF IInv, TypeOK, Tasks, Callers
      <4>2. registered
        BY <2>2 DEF addTask, IInv, Phases
      <4>3. thread # "exited"
        BY <3>1, <4>2 DEF StillOpen, IInv, Phases
      <4> QED
        BY <2>2, <3>1, <4>1, <4>3, AccountedAppend
           DEF addTask, Enqueue, threadVars, Callers
    <3>2. CASE ~ StillOpen
      BY <2>2, <3>2
         DEF addTask, threadVars, IInv, TypeOK, CallersAccounted, Unanswered, Queued,
             InWork, Busy
    <3> QED
      BY <3>1, <3>2
  <2>3. CASE waitForTask(c)
    BY <2>3
       DEF IInv, TypeOK, CallersAccounted, Unanswered, Queued, InWork, Busy, threadVars,
           waitForTask
  <2> QED
    BY <2>1, <2>2, <2>3
<1> QED
  BY <1>1, <1>2, <1>3, <1>4, <1>5, <1>6, <1>7, <1>8, <1>9, <1>10, <1>11, <1>12, <1>13,
     <1>14, <1>15, <1>16, <1>17, <1>18, <1>19
     DEF Next, Thread, MainSteps

\* After every step each task is one that its owner may have asked for.
LEMMA OwnersStep ==
    IInv /\ [Next]_vars => Owners'
<1> SUFFICES ASSUME IInv, [Next]_vars PROVE Owners'
  OBVIOUS
<1>1. CASE UNCHANGED vars
  BY <1>1 DEF IInv, Owners, Lawful, Busy, vars, threadVars
<1>2. CASE threadOpen
  BY <1>2, MainOps DEF threadOpen, IInv, Phases, Owners, Busy
<1>3. CASE threadOpenFails
  BY <1>3, MainOps DEF threadOpenFails, IInv, Phases, Owners, Busy
<1>4. CASE threadNext
  <2>1. CASE taskQueue = <<>>
    BY <1>4, <2>1 DEF threadNext, IInv, TypeOK, Owners, Lawful, Busy
  <2>2. CASE taskQueue # <<>>
    <3>1. taskQueue \in Seq(Tasks) /\ task' = Head(taskQueue) /\ taskQueue' = Tail(taskQueue)
      BY <1>4, <2>2 DEF threadNext, IInv, TypeOK
    <3>2. /\ 1 \in DOMAIN taskQueue /\ task' = taskQueue[1]
          /\ \A i \in DOMAIN taskQueue' : /\ i + 1 \in DOMAIN taskQueue
                                          /\ taskQueue'[i] = taskQueue[i + 1]
      BY <2>2, <3>1, Taken
    <3> QED
      BY <1>4, <3>2 DEF threadNext, IInv, Owners, Lawful
  <2> QED
    BY <2>1, <2>2
<1>5. CASE threadExit
  BY <1>5 DEF threadExit, Owners, Busy
<1>6. CASE threadMark
  BY <1>6 DEF IInv, Owners, Lawful, Busy, threadVars, threadMark
<1>7. CASE threadSignal
  BY <1>7 DEF IInv, Owners, Lawful, Busy, threadSignal
<1>8. CASE init
  BY <1>8, MainOps DEF init, IInv, Phases, Owners, Busy
<1>9. CASE initTask
  <2>1. [by |-> Main, op |-> MainOp[main]] \in Tasks
    BY <1>9, MainOps DEF initTask, Tasks, Callers
  <2>2. /\ DOMAIN taskQueue' = DOMAIN taskQueue \cup {Len(taskQueue) + 1}
        /\ taskQueue'[Len(taskQueue) + 1] = [by |-> Main, op |-> MainOp[main]]
        /\ \A i \in DOMAIN taskQueue : taskQueue'[i] = taskQueue[i]
    BY <1>9, <2>1, Appended DEF initTask, Enqueue, IInv, TypeOK
  <2> QED
    BY <1>9, <2>2
       DEF initTask, Enqueue, Signalled, threadVars, IInv, Owners, Lawful, Busy
<1>10. CASE initAnswer
  <2>1. ~ Queued(Main) /\ ~ InWork(Main)
    BY <1>10 DEF initAnswer, IInv, CallersAccounted, Unanswered, Callers
  <2>2. \A i \in DOMAIN taskQueue : taskQueue[i].by # Main
    BY <2>1 DEF Queued
  <2>3. Busy => task.by # Main
    BY <2>1 DEF InWork
  <2> QED
    BY <1>10, <2>2, <2>3 DEF initAnswer, threadVars, IInv, Owners, Lawful, Busy
<1>11. CASE shutdownDriver
  BY <1>11, MainOps
     DEF IInv, Owners, Lawful, Busy, threadVars, shutdownDriver, Signalled
<1>12. CASE shutdownJoined
  BY <1>12, MainOps DEF IInv, Owners, Lawful, Busy, shutdownJoined
<1>13. CASE timerNotify
  <2>1. [by |-> Timer, op |-> "backup"] \in Tasks
    BY DEF Tasks
  <2>2. /\ DOMAIN taskQueue' = DOMAIN taskQueue \cup {Len(taskQueue) + 1}
        /\ taskQueue'[Len(taskQueue) + 1] = [by |-> Timer, op |-> "backup"]
        /\ \A i \in DOMAIN taskQueue : taskQueue'[i] = taskQueue[i]
    BY <1>13, <2>1, Appended DEF timerNotify, Enqueue, IInv, TypeOK
  <2> QED
    BY <1>13, <2>2
       DEF timerNotify, Enqueue, Signalled, threadVars, Phases, IInv, Owners, Lawful,
           Busy
<1>14. CASE shutdown
  BY <1>14, MainOps DEF IInv, Owners, Lawful, Busy, threadVars, shutdown
<1>15. CASE crash
  BY <1>15 DEF crash, Owners, Busy
<1>16. CASE damage
  BY <1>16 DEF IInv, Owners, Lawful, Busy, threadVars, damage
<1>17. CASE threadRun
  <2>1. CASE runSelect
    BY <1>17, <2>1 DEF IInv, Owners, Lawful, Busy, threadRun
  <2>2. CASE runExec
    BY <1>17, <2>2 DEF IInv, Owners, Lawful, Busy, threadRun
  <2>3. CASE runBackup
    BY <1>17, <2>3 DEF IInv, Owners, Lawful, Busy, threadRun
  <2>4. CASE runRestore
    BY <1>17, <2>4 DEF IInv, Owners, Lawful, Busy, threadRun
  <2>5. CASE runCreate
    BY <1>17, <2>5 DEF IInv, Owners, Lawful, Busy, threadRun
  <2> QED
    BY <1>17, <2>1, <2>2, <2>3, <2>4, <2>5 DEF threadRun
<1>18. CASE threadCopied
  <2>1. CASE backupCopied
    BY <1>18, <2>1 DEF IInv, Owners, Lawful, Busy, threadCopied
  <2>2. CASE restoreCopied
    BY <1>18, <2>2 DEF IInv, Owners, Lawful, Busy, threadCopied
  <2>3. CASE tablesCreated
    BY <1>18, <2>3 DEF IInv, Owners, Lawful, Busy, threadCopied
  <2> QED
    BY <1>18, <2>1, <2>2, <2>3 DEF threadCopied
<1>19. CASE \E c \in Client : \/ \E o \in {"select", "exec"} : call(c, o)
                             \/ addTask(c) \/ waitForTask(c)
  <2> SUFFICES ASSUME NEW c \in Client,
                      \/ \E o \in {"select", "exec"} : call(c, o)
                      \/ addTask(c) \/ waitForTask(c)
               PROVE Owners'
    BY <1>19
  <2>1. CASE \E o \in {"select", "exec"} : call(c, o)
    BY <2>1 DEF IInv, Owners, Lawful, Busy, threadVars, call
  <2>2. CASE addTask(c)
    <3>1. CASE StillOpen
      <4>1. [by |-> c, op |-> op[c]] \in Tasks /\ op[c] \in {"select", "exec"}
        BY DEF IInv, TypeOK, Tasks, Callers
      <4>0. taskQueue \in Seq(Tasks) /\ taskQueue' = Append(taskQueue, [by |-> c, op |-> op[c]])
        BY <2>2, <3>1 DEF addTask, Enqueue, IInv, TypeOK
      <4>2. /\ DOMAIN taskQueue' = DOMAIN taskQueue \cup {Len(taskQueue) + 1}
            /\ taskQueue'[Len(taskQueue) + 1] = [by |-> c, op |-> op[c]]
            /\ \A i \in DOMAIN taskQueue : taskQueue'[i] = taskQueue[i]
        BY <4>0, <4>1, Appended
      <4>3. registered
        BY <2>2 DEF addTask, IInv, Phases
      <4> QED
        BY <2>2, <3>1, <4>1, <4>2, <4>3
           DEF addTask, Enqueue, Signalled, threadVars, IInv, Owners, Lawful, Busy
    <3>2. CASE ~ StillOpen
      BY <2>2, <3>2 DEF addTask, threadVars, IInv, Owners, Lawful, Busy
    <3> QED
      BY <3>1, <3>2
  <2>3. CASE waitForTask(c)
    BY <2>3 DEF IInv, Owners, Lawful, Busy, threadVars, waitForTask
  <2> QED
    BY <2>1, <2>2, <2>3
<1> QED
  BY <1>1, <1>2, <1>3, <1>4, <1>5, <1>6, <1>7, <1>8, <1>9, <1>10, <1>11, <1>12, <1>13,
     <1>14, <1>15, <1>16, <1>17, <1>18, <1>19
     DEF Next, Thread, MainSteps

\* The dirty flag stays honest.
LEMMA DirtyStep ==
    IInv /\ [Next]_vars => DirtyInv'
<1> SUFFICES ASSUME IInv, [Next]_vars PROVE DirtyInv'
  OBVIOUS
<1>1. CASE UNCHANGED vars
  BY <1>1 DEF IInv, DirtyInv, Late, vars, fileVars, threadVars, callVars
<1>2. CASE threadOpen
  BY <1>2 DEF IInv, Phases, DirtyInv, Late, threadOpen
<1>3. CASE threadOpenFails
  BY <1>3 DEF IInv, Phases, DirtyInv, Late, threadOpenFails
<1>4. CASE threadNext
  BY <1>4 DEF IInv, DirtyInv, Late, fileVars, callVars, threadNext
<1>5. CASE threadExit
  BY <1>5 DEF IInv, TypeOK, Phases, DirtyInv, Late, fileVars, threadExit
<1>6. CASE threadMark
  <2> USE <1>6 DEF threadMark, IInv, TypeOK, DirtyInv, Late, fileVars, threadVars, callVars
  <2>1. CASE outcome.effect = "contaminated"
    <3>1. dirty' = TRUE
      BY <2>1
    <3> QED
      BY <3>1
  <2>2. CASE outcome.effect = "decontaminated"
    <3>1. dirty' = FALSE /\ backupFile = dbFile
      BY <2>2
    <3>2. ~ (main = "pragma2" /\ answer[Main] = "ok")
      <4>1. Lawful(task) /\ Busy
        BY DEF Owners, Busy
      <4>2. ASSUME main = "pragma2" PROVE InWork(Main)
        BY <4>1, <4>2, ConstantsAssumption DEF Lawful, InWork, Phases
      <4> QED
        BY <4>2 DEF CallersAccounted, Unanswered, Callers
    <3> QED
      BY <2>2, <3>1, <3>2
  <2>3. CASE outcome.effect = "none"
    <3>1. dirty' = dirty
      BY <2>3
    <3> QED
      BY <2>3, <3>1
  <2> QED
    BY <2>1, <2>2, <2>3
<1>7. CASE threadSignal
  BY <1>7, MainOps
     DEF IInv, TypeOK, Phases, Owners, Lawful, Busy, DirtyInv, Late, fileVars,
         threadSignal
<1>8. CASE init
  BY <1>8 DEF IInv, Phases, DirtyInv, Late, init
<1>9. CASE initTask
  BY <1>9 DEF IInv, DirtyInv, Late, fileVars, threadVars, initTask, Enqueue, Signalled
<1>10. CASE initAnswer
  BY <1>10, NextSteps
     DEF IInv, TypeOK, DirtyInv, Late, Callers, fileVars, threadVars, initAnswer
<1>11. CASE shutdownDriver
  BY <1>11 DEF IInv, DirtyInv, Late, fileVars, threadVars, shutdownDriver, Signalled
<1>12. CASE shutdownJoined
  BY <1>12 DEF IInv, DirtyInv, Late, fileVars, shutdownJoined
<1>13. CASE timerNotify
  BY <1>13
     DEF IInv, DirtyInv, fileVars, threadVars, timerNotify, Enqueue, Signalled,
         BackupDue
<1>14. CASE shutdown
  BY <1>14 DEF IInv, DirtyInv, Late, fileVars, threadVars, shutdown
<1>15. CASE crash
  BY <1>15 DEF crash, Late, DirtyInv, NoAnswers, Callers
<1>16. CASE damage
  BY <1>16 DEF IInv, Phases, DirtyInv, Late, damage
<1>17. CASE threadRun
  <2>1. CASE runSelect
    BY <1>17, <2>1
       DEF IInv, DirtyInv, Late, fileVars, callVars, threadRun, runSelect, Answered
  <2>2. CASE runExec
    BY <1>17, <2>2
       DEF IInv, DirtyInv, Late, fileVars, callVars, threadRun, runExec, ExecEffect,
           Contaminated, Answered
  <2>3. CASE runBackup
    BY <1>17, <2>3
       DEF IInv, DirtyInv, Late, callVars, threadRun, runBackup, CopyStarts, Answered
  <2>4. CASE runRestore
    BY <1>17, <2>4, MainOps
       DEF IInv, Phases, Owners, Lawful, Busy, DirtyInv, Late, threadRun, runRestore,
           CopyStarts, Answered
  <2>5. CASE runCreate
    BY <1>17, <2>5, MainOps
       DEF IInv, Phases, Owners, Lawful, Busy, DirtyInv, Late, threadRun, runCreate,
           Answered
  <2> QED
    BY <1>17, <2>1, <2>2, <2>3, <2>4, <2>5 DEF threadRun
<1>18. CASE threadCopied
  <2>1. CASE backupCopied
    BY <1>18, <2>1
       DEF IInv, DirtyInv, Late, callVars, threadCopied, backupCopied, BackupFailed,
           Answered
  <2>2. CASE restoreCopied
    BY <1>18, <2>2
       DEF IInv, DirtyInv, Late, callVars, threadCopied, restoreCopied, Answered
  <2>3. CASE tablesCreated
    BY <1>18, <2>3
       DEF IInv, DirtyInv, Late, callVars, threadCopied, tablesCreated, Contaminated,
           Answered
  <2> QED
    BY <1>18, <2>1, <2>2, <2>3 DEF threadCopied
<1>19. CASE \E c \in Client : \/ \E o \in {"select", "exec"} : call(c, o)
                             \/ addTask(c) \/ waitForTask(c)
  <2> SUFFICES ASSUME NEW c \in Client,
                      \/ \E o \in {"select", "exec"} : call(c, o)
                      \/ addTask(c) \/ waitForTask(c)
               PROVE DirtyInv'
    BY <1>19
  <2>1. CASE \E o \in {"select", "exec"} : call(c, o)
    BY <2>1 DEF IInv, DirtyInv, Late, fileVars, threadVars, call
  <2>2. CASE addTask(c)
    BY <2>2 DEF IInv, DirtyInv, Late, fileVars, threadVars, addTask, Enqueue, Signalled
  <2>3. CASE waitForTask(c)
    BY <2>3 DEF IInv, DirtyInv, Late, fileVars, threadVars, waitForTask
  <2> QED
    BY <2>1, <2>2, <2>3
<1> QED
  BY <1>1, <1>2, <1>3, <1>4, <1>5, <1>6, <1>7, <1>8, <1>9, <1>10, <1>11, <1>12, <1>13,
     <1>14, <1>15, <1>16, <1>17, <1>18, <1>19
     DEF Next, Thread, MainSteps

\* What the sqlite3 thread works on: before the storage is handed out, what
\* the main thread waits for; afterwards, nothing that replaces the database.
WorkFacts ==
    /\ ~ registered => task.by = Main
    /\ task.by = Main => /\ main \in DOMAIN MainOp /\ task.op = MainOp[main]
                         /\ answer[Main] = "none"
    /\ task.op \in {"restore", "create", "pragma"} => task.by = Main /\ ~ registered
    /\ task.op = "backup" => registered \/ main = "backup"

LEMMA InWorkIs ==
    ASSUME IInv, Busy
    PROVE  WorkFacts
<1>1. Lawful(task)
  BY DEF IInv, Owners
<1>2. task.by = Main => answer[Main] = "none"
  BY DEF IInv, CallersAccounted, InWork, Unanswered, Callers
<1>3. registered => main \notin {"restore", "create", "pragma", "pragma2"}
  BY DEF IInv, Phases
<1>4. Main \notin Client /\ Timer \notin Client /\ Main # Timer
  BY ConstantsAssumption DEF Main, Timer
<1> QED
  BY <1>1, <1>2, <1>3, <1>4, MainOps DEF Lawful, WorkFacts

\* Once the main thread has its answer, or has asked for nothing, and the
\* storage is not handed out, the thread has nothing to do.
LEMMA NothingInWork ==
    ASSUME IInv, ~ registered, pc[Main] # "waiting" \/ answer[Main] # "none"
    PROVE  ~ Busy
BY InWorkIs DEF WorkFacts, IInv, CallersAccounted, InWork, Unanswered, Callers

\* What start-up has found out about the files stays true.
LEMMA CopiesStep ==
    IInv /\ [Next]_vars => CopiesInv'
<1> SUFFICES ASSUME IInv, [Next]_vars PROVE CopiesInv'
  OBVIOUS
<1>1. CASE UNCHANGED vars
  BY <1>1
     DEF IInv, CopiesInv, Late, Result, Pending, vars, fileVars, threadVars, callVars
<1>2. CASE threadOpen
  BY <1>2 DEF IInv, CopiesInv, Late, Result, Phases, Callers, callVars, threadOpen
<1>3. CASE threadOpenFails
  BY <1>3 DEF IInv, CopiesInv, Late, Phases, threadOpenFails
<1>4. CASE threadNext
  BY <1>4 DEF IInv, CopiesInv, Late, Result, Pending, fileVars, callVars, threadNext
<1>5. CASE threadExit
  BY <1>5 DEF IInv, TypeOK, CopiesInv, Late, Phases, fileVars, threadExit
<1>6. CASE threadMark
  BY <1>6
     DEF IInv, CopiesInv, Late, Result, Pending, fileVars, threadVars, callVars,
         threadMark
<1>7. CASE threadSignal
  <2>0. WorkFacts
    BY <1>7, InWorkIs DEF threadSignal, Busy
  <2>1. CASE registered
    BY <1>7, <2>1 DEF threadSignal, IInv, Phases, CopiesInv, Late, fileVars
  <2>2. CASE ~ registered
    <3>1. answer'[Main] = outcome.answer /\ outcome.answer # "none" /\ answer[Main] = "none"
      BY <1>7, <2>0, <2>2 DEF threadSignal, WorkFacts, IInv, Phases, Callers
    <3>2. ~ Pending'
      BY <3>1 DEF Pending
    <3>3. Result("ok")' => Result("ok")
      BY <1>7, <2>0, <2>2, <3>1 DEF threadSignal, Result, WorkFacts
    <3>4. Result("error")' => Result("error")
      BY <1>7, <2>0, <2>2, <3>1 DEF threadSignal, Result, WorkFacts
    <3>5. Result("nil")' => Result("nil")
      BY <1>7, <2>0, <2>2, <3>1 DEF threadSignal, Result, WorkFacts
    <3>6. UNCHANGED <<main, registered, handle, fileVars>>
      BY <1>7 DEF threadSignal
    <3> QED
      BY <3>2, <3>3, <3>4, <3>5, <3>6 DEF IInv, CopiesInv, Late, fileVars
  <2> QED
    BY <2>1, <2>2
<1>8. CASE init
  BY <1>8 DEF IInv, CopiesInv, Late, Phases, init
<1>9. CASE initTask
  BY <1>9
     DEF IInv, CopiesInv, Late, Result, Pending, fileVars, threadVars, initTask,
         Enqueue, Signalled
<1>10. CASE initAnswer
  <2>0. /\ main \in DOMAIN MainOp /\ main' \in AfterAnswer(main, answer[Main])
        /\ answer'[Main] = "none" /\ answer[Main] \in {"ok", "nil", "error"}
        /\ UNCHANGED <<dbFile, backupFile, thread, task, outcome, handle>>
        /\ registered' = (registered \/ main' = "ready")
    BY <1>10 DEF initAnswer, IInv, TypeOK, Answers, Callers, fileVars, threadVars
  <2>1. CASE registered
    <3>1. main' \in {"shutdown", "failed"}
      BY <2>0, <2>1, NextSteps, MainOps DEF IInv, Phases
    <3> QED
      BY <2>0, <2>1, <3>1 DEF IInv, CopiesInv, Late
  <2>2. CASE ~ registered
    <3>1. ~ Busy
      BY <1>10, <2>2, NothingInWork DEF initAnswer
    <3>2. Pending' /\ ~ Result("ok")' /\ ~ Result("error")' /\ ~ Result("nil")'
      BY <2>0, <3>1 DEF Pending, Result, Busy
    <3>3. answer[Main] = "ok" => Result("ok")
      BY DEF Result
    <3>5. Late' \/ main' \in {"pragma", "pragma2"} => dbFile # Damaged
      <4>1. main' \in {"ready", "lastID", "backup", "pragma2"}
               => main \in {"lastID", "backup", "pragma2", "pragma"}
        BY <2>0, NextSteps
      <4>2. main' = "pragma" => main \in {"version", "restored", "created"} /\ answer[Main] = "ok"
        BY <2>0, NextSteps
      <4> QED
        BY <2>0, <2>2, <3>3, <4>1, <4>2 DEF IInv, CopiesInv, Late
    <3>6. main' \notin {"version", "flush"}
      BY <2>0, NextSteps
    <3>7. main' = "restored" => handle = "open"
      <4>1. main' = "restored" => main = "restore" /\ answer[Main] = "ok"
        BY <2>0, NextSteps
      <4> QED
        BY <3>3, <4>1 DEF IInv, CopiesInv
    <3> QED
      BY <2>0, <3>2, <3>5, <3>6, <3>7 DEF CopiesInv
  <2> QED
    BY <2>1, <2>2
<1>11. CASE shutdownDriver
  BY <1>11 DEF IInv, CopiesInv, Late, fileVars, shutdownDriver
<1>12. CASE shutdownJoined
  BY <1>12 DEF IInv, CopiesInv, Late, fileVars, shutdownJoined
<1>13. CASE timerNotify
  BY <1>13 DEF IInv, CopiesInv, Late, fileVars, timerNotify
<1>14. CASE shutdown
  BY <1>14 DEF IInv, CopiesInv, Late, fileVars, shutdown
<1>15. CASE crash
  BY <1>15 DEF CopiesInv, Late, crash
<1>16. CASE damage
  BY <1>16 DEF IInv, CopiesInv, Late, Phases, damage
<1>17. CASE threadRun
  <2>0. WorkFacts
    BY <1>17, InWorkIs DEF threadRun, Busy
  <2>1. CASE runSelect
    BY <1>17, <2>0, <2>1
       DEF WorkFacts, IInv, CopiesInv, Late, Result, Pending, fileVars, callVars,
           threadRun, runSelect, Usable, Answered
  <2>2. CASE runExec
    <3>1. CASE task.op = "exec" /\ stamp' = stamp + 1 /\ dbFile' = stamp'
      <4>1. dbFile' # Damaged
        BY <3>1 DEF IInv, TypeOK, Contents, Damaged
      <4>2. registered \/ main = "flush"
        BY <1>17, <2>0, <3>1, MainOps DEF WorkFacts
      <4>3. main' = main /\ main \notin {"version", "restored", "created", "restore", "create"}
        BY <1>17, <4>2 DEF threadRun, IInv, Phases
      <4> QED
        BY <4>1, <4>3 DEF CopiesInv
    <3>2. CASE UNCHANGED <<dbFile, backupFile, handle>>
      <4>1. /\ main' = main /\ registered' = registered
            /\ main \notin {"version", "restored", "created", "restore", "create"}
        <5>1. task.op \in {"exec", "pragma"}
          BY <2>2 DEF runExec
        <5>2. task.by = Main => main \in {"flush", "pragma", "pragma2"}
          BY <2>0, <5>1, MainOps DEF WorkFacts
        <5>3. task.by # Main => registered
          BY <2>0 DEF WorkFacts
        <5> QED
          BY <1>17, <5>2, <5>3 DEF threadRun, IInv, Phases
      <4> QED
        BY <3>2, <4>1 DEF IInv, CopiesInv, Late
    <3> QED
      BY <2>2, <3>1, <3>2 DEF runExec, fileVars
  <2>3. CASE runBackup
    BY <1>17, <2>0, <2>3
       DEF WorkFacts, IInv, CopiesInv, Late, Phases, threadRun, runBackup
  <2>4. CASE runRestore
    BY <1>17, <2>0, <2>4, MainOps
       DEF WorkFacts, IInv, CopiesInv, Late, Result, Pending, callVars, threadRun,
           runRestore, CopyStarts, Answered
  <2>5. CASE runCreate
    BY <1>17, <2>0, <2>5, MainOps
       DEF WorkFacts, CopiesInv, Late, Pending, threadRun, runCreate
  <2> QED
    BY <1>17, <2>1, <2>2, <2>3, <2>4, <2>5 DEF threadRun
<1>18. CASE threadCopied
  <2>0. WorkFacts
    BY <1>18, InWorkIs DEF threadCopied, Busy
  <2>1. CASE backupCopied
    BY <1>18, <2>0, <2>1
       DEF WorkFacts, IInv, CopiesInv, Late, Phases, threadCopied, backupCopied
  <2>2. CASE restoreCopied
    BY <1>18, <2>0, <2>2, MainOps
       DEF WorkFacts, IInv, CopiesInv, Late, Result, Pending, callVars, threadCopied,
           restoreCopied, Answered
  <2>3. CASE tablesCreated
    BY <1>18, <2>0, <2>3, MainOps
       DEF WorkFacts, CopiesInv, Late, Pending, threadCopied, tablesCreated
  <2> QED
    BY <1>18, <2>1, <2>2, <2>3 DEF threadCopied
<1>19. CASE \E c \in Client : \/ \E o \in {"select", "exec"} : call(c, o)
                             \/ addTask(c) \/ waitForTask(c)
  <2> SUFFICES ASSUME NEW c \in Client,
                      \/ \E o \in {"select", "exec"} : call(c, o)
                      \/ addTask(c) \/ waitForTask(c)
               PROVE CopiesInv'
    BY <1>19
  <2>1. CASE \E o \in {"select", "exec"} : call(c, o)
    BY <2>1 DEF IInv, CopiesInv, Late, Phases, fileVars, call
  <2>2. CASE addTask(c)
    BY <2>2 DEF IInv, CopiesInv, Late, Phases, fileVars, addTask
  <2>3. CASE waitForTask(c)
    BY <2>3 DEF IInv, CopiesInv, Late, Phases, fileVars, waitForTask
  <2> QED
    BY <2>1, <2>2, <2>3
<1> QED
  BY <1>1, <1>2, <1>3, <1>4, <1>5, <1>6, <1>7, <1>8, <1>9, <1>10, <1>11, <1>12, <1>13,
     <1>14, <1>15, <1>16, <1>17, <1>18, <1>19
     DEF Next, Thread, MainSteps

\* What is known of files about to be written over stays true.
LEMMA LossStep ==
    IInv /\ [Next]_vars => LossInv'
<1> SUFFICES ASSUME IInv, [Next]_vars PROVE LossInv'
  OBVIOUS
<1>1. CASE UNCHANGED vars
  BY <1>1
     DEF IInv, LossInv, Late, Result, Pending, vars, fileVars, threadVars, callVars
<1>2. CASE threadOpen
  BY <1>2 DEF IInv, LossInv, Late, Result, Phases, Callers, callVars, threadOpen
<1>3. CASE threadOpenFails
  BY <1>3 DEF IInv, LossInv, Late, Phases, threadOpenFails
<1>4. CASE threadNext
  BY <1>4 DEF IInv, LossInv, Late, Result, Pending, fileVars, callVars, threadNext
<1>5. CASE threadExit
  BY <1>5 DEF IInv, TypeOK, LossInv, Late, Phases, fileVars, threadExit
<1>6. CASE threadMark
  BY <1>6
     DEF IInv, LossInv, Late, Result, Pending, fileVars, threadVars, callVars,
         threadMark
<1>7. CASE threadSignal
  <2>0. WorkFacts
    BY <1>7, InWorkIs DEF threadSignal, Busy
  <2>1. CASE registered
    BY <1>7, <2>1 DEF threadSignal, IInv, Phases, LossInv, Late, fileVars
  <2>2. CASE ~ registered
    <3>1. answer'[Main] = outcome.answer /\ outcome.answer # "none" /\ answer[Main] = "none"
      BY <1>7, <2>0, <2>2 DEF threadSignal, WorkFacts, IInv, Phases, Callers
    <3>2. ~ Pending'
      BY <3>1 DEF Pending
    <3>3. Result("ok")' => Result("ok")
      BY <1>7, <2>0, <2>2, <3>1 DEF threadSignal, Result, WorkFacts
    <3>4. Result("error")' => Result("error")
      BY <1>7, <2>0, <2>2, <3>1 DEF threadSignal, Result, WorkFacts
    <3>5. Result("nil")' => Result("nil")
      BY <1>7, <2>0, <2>2, <3>1 DEF threadSignal, Result, WorkFacts
    <3>6. UNCHANGED <<main, misread, fileVars>>
      BY <1>7 DEF threadSignal
    <3> QED
      BY <3>2, <3>3, <3>4, <3>5, <3>6 DEF IInv, LossInv, fileVars
  <2> QED
    BY <2>1, <2>2
<1>8. CASE init
  BY <1>8 DEF IInv, LossInv, Late, Phases, init
<1>9. CASE initTask
  BY <1>9
     DEF IInv, LossInv, Late, Result, Pending, fileVars, threadVars, initTask,
         Enqueue, Signalled
<1>10. CASE initAnswer
  <2>0. /\ main \in DOMAIN MainOp /\ main' \in AfterAnswer(main, answer[Main])
        /\ answer'[Main] = "none" /\ answer[Main] \in {"ok", "nil", "error"}
        /\ UNCHANGED <<dbFile, backupFile, thread, task, outcome, handle>>
        /\ registered' = (registered \/ main' = "ready")
    BY <1>10 DEF initAnswer, IInv, TypeOK, Answers, Callers, fileVars, threadVars
  <2>1. CASE registered
    <3>1. main' \in {"shutdown", "failed"}
      BY <2>0, <2>1, NextSteps, MainOps DEF IInv, Phases
    <3> QED
      BY <2>0, <2>1, <3>1 DEF IInv, LossInv
  <2>2. CASE ~ registered /\ ~ misread
    <3>1. ~ Busy
      BY <1>10, <2>2, NothingInWork DEF initAnswer
    <3>2. Pending' /\ ~ Result("error")' /\ ~ Result("nil")'
      BY <2>0, <3>1 DEF Pending, Result, Busy
    <3>3. answer[Main] # "ok" => Result("error") \/ Result("nil")
      BY <2>0 DEF Result
    <3>4. main' = "restored" => dbFile \in {Damaged, backupFile}
      <4>1. main' = "restored" => main = "restore"
        BY <2>0, NextSteps
      <4> QED
        BY <2>2, <4>1 DEF IInv, LossInv
    <3>5. main' = "restore" => dbFile = Damaged
      <4>1. main' = "restore" => main = "version" /\ answer[Main] # "ok"
        BY <2>0, NextSteps
      <4> QED
        BY <2>2, <3>3, <4>1 DEF IInv, LossInv
    <3>6. main' = "create" => dbFile = Damaged \/ backupFile # Damaged
      <4>1. main' = "create" => \/ main = "version" /\ answer[Main] # "ok"
                                \/ main \in {"restored", "restore"}
        BY <2>0, NextSteps
      <4> QED
        BY <2>2, <3>3, <4>1 DEF IInv, LossInv
    <3>7. main' # "version"
      BY <2>0, NextSteps
    <3> QED
      BY <2>0, <2>2, <3>2, <3>4, <3>5, <3>6, <3>7 DEF LossInv
  <2>3. CASE misread
    BY <1>10, <2>3 DEF initAnswer, LossInv
  <2> QED
    BY <2>1, <2>2, <2>3
<1>11. CASE shutdownDriver
  BY <1>11 DEF IInv, LossInv, Late, fileVars, shutdownDriver
<1>12. CASE shutdownJoined
  BY <1>12 DEF IInv, LossInv, Late, fileVars, shutdownJoined
<1>13. CASE timerNotify
  BY <1>13 DEF IInv, LossInv, Late, fileVars, timerNotify
<1>14. CASE shutdown
  BY <1>14 DEF IInv, LossInv, Late, fileVars, shutdown
<1>15. CASE crash
  BY <1>15 DEF LossInv, Late, crash
<1>16. CASE damage
  BY <1>16 DEF IInv, LossInv, Late, Phases, damage
<1>17. CASE threadRun
  <2>0. WorkFacts
    BY <1>17, InWorkIs DEF threadRun, Busy
  <2>1. CASE runSelect
    <3>1. /\ UNCHANGED <<main, dbFile, backupFile>>
          /\ main \notin {"restore", "create"}
          /\ misread => misread'
      <4>1. UNCHANGED <<main, dbFile, backupFile>> /\ (misread => misread')
        BY <1>17, <2>1 DEF threadRun, runSelect, fileVars
      <4>2. task.op = "select"
        BY <2>1 DEF runSelect
      <4>3. task.by = Main => main \notin {"restore", "create"}
        BY <2>0, <4>2, MainOps DEF WorkFacts
      <4>4. task.by # Main => registered
        BY <2>0 DEF WorkFacts
      <4>5. registered => main \notin {"restore", "create"}
        BY DEF IInv, Phases
      <4> QED
        BY <4>1, <4>3, <4>4, <4>5
    <3>2. ASSUME main = "version", ~ misread' PROVE dbFile = Damaged \/ outcome'.answer = "ok"
      <4>1. handle = "open"
        <5>1. ~ registered /\ thread = "run"
          BY <1>17, <3>2 DEF threadRun, IInv, Phases
        <5> QED
          BY <2>0, <3>2, <5>1 DEF WorkFacts, IInv, CopiesInv, Pending
      <4> QED
        BY <2>1, <3>2, <4>1 DEF runSelect, Usable, Answered
    <3>3. main = "version" => answer'[Main] = "none" /\ task' = task
      BY <1>17, <2>0 DEF WorkFacts, threadRun, callVars, IInv, Phases
    <3>4. ASSUME ~ misread', main = "version", Result("error")' \/ Result("nil")'
          PROVE  dbFile' = Damaged
      BY <3>1, <3>2, <3>3, <3>4 DEF Result
    <3>5. ASSUME ~ misread', main = "restored" PROVE dbFile' \in {Damaged, backupFile'}
      BY <3>1, <3>5 DEF IInv, LossInv
    <3> QED
      BY <3>1, <3>4, <3>5 DEF LossInv
  <2>2. CASE runExec
    <3>1. CASE task.op = "exec" /\ stamp' = stamp + 1 /\ dbFile' = stamp'
      <4>1. dbFile' # Damaged
        BY <3>1 DEF IInv, TypeOK, Contents, Damaged
      <4>2. registered \/ main = "flush"
        BY <1>17, <2>0, <3>1, MainOps DEF WorkFacts
      <4>3. main' = main /\ main \notin {"version", "restored", "created", "restore", "create"}
        BY <1>17, <4>2 DEF threadRun, IInv, Phases
      <4> QED
        BY <4>1, <4>3 DEF LossInv
    <3>2. CASE UNCHANGED <<dbFile, backupFile, handle>>
      <4>1. /\ main' = main /\ registered' = registered
            /\ main \notin {"version", "restored", "created", "restore", "create"}
        <5>1. task.op \in {"exec", "pragma"}
          BY <2>2 DEF runExec
        <5>2. task.by = Main => main \in {"flush", "pragma", "pragma2"}
          BY <2>0, <5>1, MainOps DEF WorkFacts
        <5>3. task.by # Main => registered
          BY <2>0 DEF WorkFacts
        <5> QED
          BY <1>17, <5>2, <5>3 DEF threadRun, IInv, Phases
      <4> QED
        BY <3>2, <4>1 DEF IInv, LossInv, Late
    <3> QED
      BY <2>2, <3>1, <3>2 DEF runExec, fileVars
  <2>3. CASE runBackup
    BY <1>17, <2>0, <2>3
       DEF WorkFacts, IInv, LossInv, Late, Phases, threadRun, runBackup
  <2>4. CASE runRestore
    BY <1>17, <2>0, <2>4, MainOps
       DEF WorkFacts, IInv, LossInv, Late, Result, Pending, callVars, threadRun,
           runRestore, CopyStarts, Answered
  <2>5. CASE runCreate
    BY <1>17, <2>0, <2>5, MainOps
       DEF WorkFacts, LossInv, Late, Pending, threadRun, runCreate
  <2> QED
    BY <1>17, <2>1, <2>2, <2>3, <2>4, <2>5 DEF threadRun
<1>18. CASE threadCopied
  <2>0. WorkFacts
    BY <1>18, InWorkIs DEF threadCopied, Busy
  <2>1. CASE backupCopied
    BY <1>18, <2>0, <2>1
       DEF WorkFacts, IInv, LossInv, Late, Phases, threadCopied, backupCopied
  <2>2. CASE restoreCopied
    BY <1>18, <2>0, <2>2, MainOps
       DEF WorkFacts, IInv, LossInv, Late, Result, Pending, callVars, threadCopied,
           restoreCopied, Answered
  <2>3. CASE tablesCreated
    BY <1>18, <2>0, <2>3, MainOps
       DEF WorkFacts, LossInv, Late, Pending, threadCopied, tablesCreated
  <2> QED
    BY <1>18, <2>1, <2>2, <2>3 DEF threadCopied
<1>19. CASE \E c \in Client : \/ \E o \in {"select", "exec"} : call(c, o)
                             \/ addTask(c) \/ waitForTask(c)
  <2> SUFFICES ASSUME NEW c \in Client,
                      \/ \E o \in {"select", "exec"} : call(c, o)
                      \/ addTask(c) \/ waitForTask(c)
               PROVE LossInv'
    BY <1>19
  <2>1. CASE \E o \in {"select", "exec"} : call(c, o)
    BY <2>1 DEF IInv, LossInv, Late, Phases, fileVars, call
  <2>2. CASE addTask(c)
    BY <2>2 DEF IInv, LossInv, Late, Phases, fileVars, addTask
  <2>3. CASE waitForTask(c)
    BY <2>3 DEF IInv, LossInv, Late, Phases, fileVars, waitForTask
  <2> QED
    BY <2>1, <2>2, <2>3
<1> QED
  BY <1>1, <1>2, <1>3, <1>4, <1>5, <1>6, <1>7, <1>8, <1>9, <1>10, <1>11, <1>12, <1>13,
     <1>14, <1>15, <1>16, <1>17, <1>18, <1>19
     DEF Next, Thread, MainSteps

\* The invariant holds before the first start.
LEMMA InitInv == Init => IInv
<1> SUFFICES ASSUME Init PROVE IInv
  OBVIOUS
<1>1. TypeOK
  BY TypeInit
<1>2. Phases
  BY MainOps DEF Init, Phases, NoCalls, NoAnswers, Callers
<1>3. CallersAccounted
  BY DEF Init, CallersAccounted, Unanswered, Queued, InWork, Busy, NoCalls
<1>4. Owners
  BY DEF Init, Owners, Busy
<1>5. DirtyInv
  BY DEF Init, DirtyInv, Late
<1>6. CopiesInv
  BY DEF Init, CopiesInv, Late
<1>7. LossInv
  BY DEF Init, LossInv
<1> QED
  BY <1>1, <1>2, <1>3, <1>4, <1>5, <1>6, <1>7 DEF IInv

\* The invariant is inductive: one lemma for each of its parts.
LEMMA NextInv == IInv /\ [Next]_vars => IInv'
BY TypeStep, PhasesStep, AccountedStep, OwnersStep, DirtyStep, CopiesStep, LossStep
   DEF IInv

\* The inductive invariant holds in every reachable state.
LEMMA Invariance == Spec => []IInv
<1>1. Init => IInv
  BY InitInv
<1>2. IInv /\ [Next]_vars => IInv'
  BY NextInv
<1> QED
  BY <1>1, <1>2, PTL DEF Spec

\* Every variable keeps its type, whatever the callers, the timer, faults
\* and crashes do.
THEOREM TypeCorrect == Spec => []TypeOK
<1>1. IInv => TypeOK
  BY DEF IInv
<1> QED
  BY <1>1, Invariance, PTL

\* Every waiting caller's task is queued or in work, once, as long as it is
\* not answered: addTask() racing with the end of threadProc() loses nobody.
THEOREM NobodyForgotten == Spec => []CallersAccounted
<1>1. IInv => CallersAccounted
  BY DEF IInv
<1> QED
  BY <1>1, Invariance, PTL

\* A clean database has a current backup, or one spoilt by a failed backup.
THEOREM DirtyIsHonest == Spec => []BackupHonest
<1>1. IInv => BackupHonest
  BY DEF IInv, DirtyInv, BackupHonest, Busy, Late
<1> QED
  BY <1>1, Invariance, PTL

\* A step that begins with a usable copy ends with one, unless init() has
\* given up a usable database.
LEMMA CopyStep ==
    IInv /\ [Next]_vars => (SomeCopy /\ ~ misread => SomeCopy')
<1> SUFFICES ASSUME IInv, [Next]_vars, SomeCopy, ~ misread PROVE SomeCopy'
  OBVIOUS
<1>1. CASE UNCHANGED vars
  BY <1>1 DEF SomeCopy, vars, fileVars
<1>2. CASE threadOpen
  BY <1>2 DEF SomeCopy, fileVars, threadOpen
<1>3. CASE threadOpenFails
  BY <1>3 DEF SomeCopy, fileVars, threadOpenFails
<1>4. CASE threadNext
  BY <1>4 DEF SomeCopy, fileVars, threadNext
<1>5. CASE threadExit
  BY <1>5 DEF SomeCopy, fileVars, threadExit
<1>6. CASE threadMark
  BY <1>6 DEF SomeCopy, fileVars, threadMark
<1>7. CASE threadSignal
  BY <1>7 DEF SomeCopy, fileVars, threadSignal
<1>8. CASE init
  BY <1>8 DEF SomeCopy, fileVars, init
<1>9. CASE initTask
  BY <1>9 DEF SomeCopy, fileVars, initTask
<1>10. CASE initAnswer
  BY <1>10 DEF SomeCopy, fileVars, initAnswer
<1>11. CASE shutdownDriver
  BY <1>11 DEF SomeCopy, fileVars, shutdownDriver
<1>12. CASE shutdownJoined
  BY <1>12 DEF SomeCopy, fileVars, shutdownJoined
<1>13. CASE timerNotify
  BY <1>13 DEF SomeCopy, fileVars, timerNotify
<1>14. CASE shutdown
  BY <1>14 DEF SomeCopy, fileVars, shutdown
<1>15. CASE crash
  BY <1>15 DEF SomeCopy, fileVars, crash
<1>16. CASE damage
  BY <1>16 DEF SomeCopy, damage
<1>17. CASE threadRun
  <2>0. WorkFacts
    BY <1>17, InWorkIs DEF threadRun, Busy
  <2>1. CASE runSelect
    BY <1>17, <2>0, <2>1 DEF SomeCopy, fileVars, runSelect
  <2>2. CASE runExec
    BY <1>17, <2>0, <2>2 DEF IInv, TypeOK, Contents, SomeCopy, fileVars, runExec
  <2>3. CASE runBackup
    BY <1>17, <2>0, <2>3 DEF WorkFacts, Late, IInv, CopiesInv, SomeCopy, runBackup
  <2>4. CASE runRestore
    BY <1>17, <2>0, <2>4 DEF WorkFacts, MainOp, IInv, LossInv, Pending, SomeCopy,
       threadRun, runRestore
  <2>5. CASE runCreate
    BY <1>17, <2>0, <2>5
       DEF WorkFacts, Pending, MainOp, IInv, LossInv, SomeCopy, threadRun, runCreate
  <2> QED
    BY <1>17, <2>1, <2>2, <2>3, <2>4, <2>5 DEF threadRun
<1>18. CASE threadCopied
  <2>0. WorkFacts
    BY <1>18, InWorkIs DEF threadCopied, Busy
  <2>1. CASE backupCopied
    BY <1>18, <2>0, <2>1 DEF WorkFacts, Late, IInv, CopiesInv, SomeCopy, backupCopied
  <2>2. CASE restoreCopied
    BY <1>18, <2>0, <2>2 DEF WorkFacts, MainOp, IInv, LossInv, SomeCopy, restoreCopied
  <2>3. CASE tablesCreated
    BY <1>18, <2>0, <2>3 DEF IInv, TypeOK, Contents, SomeCopy, tablesCreated
  <2> QED
    BY <1>18, <2>1, <2>2, <2>3 DEF threadCopied
<1>19. CASE \E c \in Client : \/ \E o \in {"select", "exec"} : call(c, o)
                             \/ addTask(c) \/ waitForTask(c)
  <2> SUFFICES ASSUME NEW c \in Client,
                      \/ \E o \in {"select", "exec"} : call(c, o)
                      \/ addTask(c) \/ waitForTask(c)
               PROVE SomeCopy'
    BY <1>19
  <2>1. CASE \E o \in {"select", "exec"} : call(c, o)
    BY <2>1 DEF SomeCopy, fileVars, call
  <2>2. CASE addTask(c)
    BY <2>2 DEF SomeCopy, fileVars, addTask
  <2>3. CASE waitForTask(c)
    BY <2>3 DEF SomeCopy, fileVars, waitForTask
  <2> QED
    BY <2>1, <2>2, <2>3
<1> QED
  BY <1>1, <1>2, <1>3, <1>4, <1>5, <1>6, <1>7, <1>8, <1>9, <1>10, <1>11, <1>12, <1>13,
     <1>14, <1>15, <1>16, <1>17, <1>18, <1>19
     DEF Next, Thread, MainSteps

\* No fault and no crash costs the last usable copy of the data: the steps of
\* restore, creation and backup never write over it, except in a start whose
\* SELECT of the version failed over a usable database.
THEOREM LastCopyKept == Spec => NeverBothLost
<1>1. IInv /\ [Next]_vars => [SomeCopy /\ ~ misread => SomeCopy']_vars
  BY CopyStep
<1> QED
  BY <1>1, Invariance, PTL DEF Spec, NeverBothLost
=============================================================================
