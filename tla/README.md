# MediaTomb in TLA+

MediaTomb is a UPnP media server written in C++. It keeps a tree of media
objects in an SQL database, fills it by scanning directories, serves the tree
and the files to UPnP renderers, and has a web UI. Most of it is sequential
code; what is hard to get right is what runs in several threads at once. This
project models those parts, checks them with TLC on small instances and proves
the central properties with TLAPS for every value of the constants.

Paths below are relative to `src/src/` of the repository. Every definition that
models code is listed with its lines in `PROJECT.json` under `map`.

## 1. The system

### Threads

| thread | runs | blocked by |
|---|---|---|
| main | start-up, then `Timer::triggerWait()` in a loop, then the shutdown (`main.cc:631-640`) | the timer's condition variable |
| task thread | `ContentManager::threadProc` | the queues of tasks being empty |
| update thread | `UpdateManager::threadProc` | no updates, or the interval between two events |
| sqlite3 thread | `Sqlite3Storage::threadProc` | the queue of SQL tasks being empty |
| buffer threads | one per file read through `BufferedIOHandler` or `CurlIOHandler` | a full buffer |
| inotify thread | `AutoscanInotify::threadProc` | `select()` on inotify and a pipe |
| libupnp threads | UPnP actions, web requests, reads of served files | all of the above |

Because the main thread runs both the timer and the shutdown, a timer callback
and the shutdown never overlap; the models rely on this and have it built in.

### Components

| component | state | operations | interacts with |
|---|---|---|---|
| `UpdateManager` (`update_manager.cc`) | hash of changed container ids, flush policy, last id | `containerChanged`, `containersChanged`, `shutdown`, the thread | called by `ContentManager`; calls `Storage::incrementUpdateIDs` and the CDS event |
| `BufferedIOHandler`, `IOHandlerBufferHelper` | ring buffer, eof/error flags | `open`, `read`, `seek`, `close`, the buffer thread | an underlying `IOHandler`; libupnp's web server |
| `CurlIOHandler` | the same ring, seek request | the same, filled by a libcurl callback | libcurl |
| `ContentManager` (`content_manager.cc`) | two task queues, current task, URL cache | add / rescan / remove / load-accounting / fetch-online tasks, `invalidateTask`, shutdown | `Storage`, `UpdateManager`, `Timer`, `AutoscanInotify` |
| `AutoscanList`, `AutoscanDirectory` (`autoscan.cc`) | slots of directories, task counts, scan ids | add, edit, remove, `removeIfSubdir`, `notifyAll` | `ContentManager`, `Timer` |
| `Timer` (`timer.cc`, `timer.h`) | subscribers, next notification | add, remove, `triggerWait`, `notify` | autoscan, sessions, backups, URL cache |
| `Sqlite3Storage` (`storage/sqlite3/`) | queue of SQL tasks, handle, dirty flag, database and backup files | `init`, `select`, `exec`, `shutdownDriver`, timed backup, the thread | sqlite3, `Timer` |
| `SQLStorage` (`storage/sql_storage.cc`) | last id, insert buffer | add, update, load, find, browse, remove objects, autoscan table | a driver, `StorageCache` |
| `StorageCache` (`storage/storage_cache.cc`) | objects by id and location, children by parent | get, add, remove, clear, fill level | `SQLStorage` |
| `SessionManager` (`session_manager.cc`) | sessions, ids the UI has to reload | create, get, remove, expire, `containerChangedUI` | `Timer`, web handlers |
| `AutoscanInotify` (`autoscan_inotify.cc`) | queues to monitor and unmonitor, watches by descriptor | `monitor`, `unmonitor`, the thread | `ContentManager`, the kernel |
| `ProcessIOHandler`, executors, `IOHandlerChainer` | FIFO, processes | `open`, `read`, `write`, `close` | child processes |
| web handlers, UPnP actions, request handlers | none | one call of a manager per request | everything above |
| layouts, scripting, metadata, configuration, CDS objects, strings, XML | none, or read-only after the start | sequential | |
| `zmm`, `zmmf`, `hash` | reference counts, arrays, ring queue, hash | containers | everything |
| `tombupnp`, `uuid`, `md5`, `mpegdemux` | third-party code in the repository | | |

### What makes each component correct

* **UpdateManager**: a change that was reported is announced, exactly the
  moderation the UPnP standard asks for is applied, the thread is never asleep
  with work to do, the hash never overflows, and shutdown gets its thread back.
* **Ring buffer**: the bytes come out as they went in, although both threads
  touch the memory without the mutex; nobody sleeps through what it waits for;
  the contract of an `IOHandler` is kept (`ByteStream`).
* **Tasks and autoscan**: every directory that is set is scanned again and
  again, once per interval; what is removed is not added again behind the
  removal's back; only what has gone from the disk is removed from the
  database; cancelled and failing tasks leave the bookkeeping right.
* **SQLite driver**: every caller gets an answer, also during shutdown; the
  dirty flag can be trusted; no crash or failed copy costs both the database
  and its backup, unless a usable database was taken for a corrupt one.
* **The tree of objects**: an object that goes takes along what is in it and
  what refers to it, and nothing else but the containers that became empty; the
  clients are told about every container that lost something; no autoscan is
  left without its directory (`CdsTree` is the contract).
* **SQLStorage and StorageCache**: the insert buffer and the cache cannot be
  noticed: every answer is the one that the objects added, changed and removed
  so far give; nothing is added twice; a crash leaves a tree behind.
* **Sessions**: a page hears of every change of what it shows; sessions expire;
  the timer and session mutexes do not block each other.
* **Curl transfers**: a seek goes where it was asked to go, and no thread waits for
  a transfer that is over.
* **Inotify, processes** (not modelled): what is watched is what is set; a dead
  child process ends the read.

The hard behaviours, each at its line, are the `hazards` of `PROJECT.json`.

## 2. Modules

| module | models | checked by | proofs |
|---|---|---|---|
| `UpdateManager` | `update_manager.cc`, capacity of `hash/dbr_hash.h` | `MC_UpdateManager` | `UpdateManagerProofs` |
| `BufferedIO` | `buffered_io_handler.cc`, `io_handler_buffer_helper.cc` | `MC_BufferedIO` | `BufferedIOProofs` |
| `ByteStream` | the abstract contract: an ordered stream with end, error and `CHECK_SOCKET` | refined by `BufferedIO` | `BufferedIOProofs` |
| `CurlIO` | `curl_io_handler.cc`, `io_handler_buffer_helper.cc` with seeking | `MC_CurlIO` | `CurlIOProofs` |
| `ContentTasks` | task queues, timed autoscan, timer | `MC_ContentTasks` | `ContentTasksProofs` |
| `Sqlite3Storage` | the SQLite driver | `MC_Sqlite3Storage` | `Sqlite3StorageProofs` |
| `CdsTree` | the abstract contract of the storage: a tree of objects, additions, changes, removals | implemented by `ObjectTree` and `ObjectStore` | `ObjectStoreProofs` |
| `ObjectTree` | `sql_storage.cc`: the tables, the loops of a removal, the autoscan table | `MC_ObjectTree` | `ObjectTreeProofs` |
| `ObjectStore` | `sql_storage.cc` above the table: insert buffer, `storage_cache.cc`, `cache_object.cc` | `MC_ObjectStore` | `ObjectStoreProofs` |
| `Sessions` | `session_manager.cc`, the mutex of the `Timer` | `MC_Sessions` | `SessionsProofs` |

Conventions: variables, constants and actions have the names of the code. A
stretch of code that holds a mutex throughout is one action; wherever the code
gives the mutex up, waits, or runs without it, an action ends. A condition
variable is the set of places a thread can wait at plus a flag "a signal is on
its way". Each module has its mutated forms (`...Unchecked`, `...Late`,
`NeverSplits`, ...) in front of the definition they replace; they are used only
by the mutants of `PROJECT.json`, which show that each property can fail.

### UpdateManager

State: the hash as the set it implements, `flushPolicy`,
`lastContainerChanged`, the mutex (`lock`), where the thread is (`upd`),
whether the interval is over (`due`), and the ghost `owed`: ids reported and
not yet counted by the storage. `containerChanged` is one action;
`containersChanged` is a begin, one put per id, the polling of a split batch,
and an end, because it gives the mutex up inside its loop. `threadSend` takes
the ids, `threadSent` is the event outside of the mutex, `threadSendFails` the
exception of the storage, after which the ids must still be there.

### BufferedIO and ByteStream

The ring with its two indices, `empty`, the snapshot `bLocal` that `read()`
takes, and both threads. Source bytes are numbers, so that order, loss and
duplication are visible. The copies out of and into the ring are steps of
their own, outside of the mutex, as in the code. The memory both may touch is
`WriterCells` and `ReaderCells`. `ByteStream` says only what a reader may
observe; `BufferedIO` refines it with the state mapping `StreamState`.

### CurlIO

The same ring, filled by a libcurl transfer. `startTransfer` is the head of the
loop of `threadProc()`, `curlCallback` the callback up to its first wait,
`callbackWake` what it does after a wait, `callbackCopy` and `callbackDone` the
rest. A seek is done in the buffer (`SeekInBuffer`) or by giving the transfer up
and starting another one (`SeekByTransfer`). The callback holds the mutex, but
the end of a transfer is noted (`noteEnd`) and signalled (`signalEnd`) without
it, so `read()` and `seek()` test in one step and wait (`wait`) in the next, with
the mutex held in between. The ghosts are `position`, the byte the web server
wants next, and `leftover`: a new transfer began while old bytes were in the
ring. The web server seeks as `http_SendMessage()` does, with `SEEK_CUR`, once,
before it reads; `SEEK_SET` is never asked for. How much libcurl gives to the
callback, and whether the transfer fails, is free. Nobody wakes up without a
signal. The handler for served URLs has no initial fill and seeks
(`url_request_handler.cc:278`), the one for transcoding has a fill size and does
not seek (`transcoding/transcode_ext_handler.cc:187`); the model allows both
together.

### ContentTasks

Three actors: the task thread, the main thread with the timer, one web request
at a time. A path stands for a directory and everything in it; a container of
the database is a path and the number of its incarnation, because an object
that is removed and added again has a new id, and tasks keep the old one. A
queue is the set of its tasks, the smallest id is the oldest. The AutoscanList
has holes, which are reused, as in the code. Abstractions:

* every directory holds at least one file, so adding it creates its container;
  scans are recursive; single files are not modelled;
* a notification, in the main thread (the timer) or in a web request, is four
  steps: it reads the id in the parameter, looks the directory up, reads its ids,
  and lets `rescanDirectory()` look the scan id up once more (`call`). So is the
  task thread when it gives a directory up: it looks the scan id up for itself,
  once more in `removeAutoscanDirectory()`, and then removes what is at that place.
  `removeIfSubdir()` is two steps for each directory, because the timer parameter
  has the place of the copy in another list in between (`Marked`); it holds the
  mutex of the list for all of them (`ListFree`);
* `AutoscanList::remove(id)` follows the pointer it finds even if it is nil; the
  model then stops (`crash`);
* the unprotected increments of `taskCount` as a data race are left out;
* prefix tests on paths are the constant `StartsWith`, which may be larger than
  `Below`, since the code compares strings without a separator
  (`autoscan.cc:274`).

### Sqlite3Storage

A database file's content is the number of the change that produced it, and
`Damaged` (0) when it is absent, corrupt or half written. `init()` is a small
program of its own: read the version, restore the backup or create the tables
if that fails, set the pragmas, make the first backup, load the last id. The
thread takes a task, runs it, marks `dirty`, signals the caller. A copy of a
file is two steps, and a crash, a full disk or a failing statement can come
between them. A statement over a usable database can fail too (a lock, an I/O
error), a `SELECT` included: `init()` takes that for a corrupt database, and
`misread` remembers that it did so in this start. Abstractions: databases of
version 3 only; a statement works or has no effect; of a select only "rows", "no rows" and "error" are kept;
spurious wake-ups are not modelled (`waitForTask` uses `if` where it would need
`while`, `sqlite3_storage.cc:434`); damage happens to the database file only,
while the process is off and a backup exists.

### CdsTree

The contract, written from the declarations in `storage.h`: `objs` is the tree,
`pending` a removal that was asked for. `Doomed` is the smallest set that has
the objects asked for, is closed under children and references and, with `all`,
under what a reference stands for; `Emptied` is the smallest set of containers,
not persistent, that this leaves without children. A removal takes exactly the
two away, in one step.

### ObjectTree

The table `mt_cds_object` as a function from ids to rows, `mt_autoscan` in the
same way, and the local variables of a removal in the record `job`.
`removeObject` and `removeObjects` are the entry points, `_recursiveRemove` the
code in front of its loop, `recurse` one round of the loop, `purge` one round of
`_purgeEmptyContainers`, with `_removeObjects` as the DELETE statements. The
lists of ids the code keeps as text are sets, since they are used in
`id IN (...)` only; `MaxRemove` is the length at which a list is deleted in the
middle of the loop. The exceptions both loops throw after 500 rounds
(`MAX_REMOVE_RECURSION`) are left out: what is shown is about trees less deep than
that. Insertions are the rows `ObjectStore` produces. An autoscan without an
object takes part in no check and is not kept in `scans`: losing the object is
`removeAutoscanDirectory`, finding it again `addAutoscanDirectory`.
`addAbsentDirectory` is the start with a directory of the configuration file that
is not on the disk, which the check for overlaps lets pass. `Cases`
switches on three rarer inputs, which the code handles wrongly: `"mixed"`,
`"link"` and `"root"` (observations below). One thread removes at
a time, and nothing is inserted meanwhile.

### ObjectStore

A call of the storage is a list of steps (`todo`) and the local variables of its
functions (`reg`); a step ends where the code gives up the mutex of the cache or
the storage, or sends a statement. `rows` is the table, `buffer` the insert
buffer, `All` both together. `Fill` is `getObjectDefinitely()` with the limit of
the cache: a full cache is emptied as a whole, and the insert buffer is then
flushed before the cache is unlocked. Locations have their prefixes (`F`, `D`,
`V`), references store only what differs from their original and are completed
by the join (`Object`). Import, link, update and removal are the calls
`ContentManager` and a layout make, in their order. `shutdown` flushes, and the
next start has an empty cache and reads the last id from the table. `Request` is
what the removal under way was asked for, which the contract calls `pending`; the
other half of the refinement mapping is `All`. `PathsAssumption` says what paths are:
of one kind only, with a parent in the same tree, and without cycles. Abstractions:
one value of metadata stands for title, class, metadata and resources; a removal
is one statement (its loops are `ObjectTree`); `browse()` has no paging, and
goes through what it has found in any order; titles are not compared, so a row with
the same parent and original is a duplicate or not (`checkDuplicate`). Left out:
single statements that touch no object (settings, accounting); containers that refer
to a playlist or a DVD image (`refID` of `createContainer()`), which go around the
insert buffer, are edited and are removed in the ways the observations describe, so
that no property here is about them; an edit of a location
(`content_manager.cc:1144`), which can give a file the path of another one, so that
`OneObjectPerPath` is about what scans and layouts add. Statements do not fail.

### Sessions

Requests of pages, threads that report changed containers, and the main thread
with the timer. Both mutexes are variables; the mutex of a session is inside one
action. A page that has loaded its containers has `shown`, and `stale` are the
containers that have changed since and that it has not loaded again: this is
what the ids a session collects are for. A request is the steps of
`check_request()` (`checkRequest`, `access`), the look without the mutex
(`hasUIUpdateIDs`), the taking of the ids (`getUIUpdateIDs`), and what the page
does with them (`reload`). A page waits for an answer before it sends the next
request. `checkTimer` ends an action holding the mutex when it needs the timer's;
in `expire` it enters the recursive mutex that `triggerWait` already has.
Abstractions: accounts are off, so a session is logged in as soon as it exists;
"further back than the timeout" is a flag that becomes true at any time;
session ids are never generated twice.

## 3. Runs

| run | specification, bounds | shows |
|---|---|---|
| `update_single` | `FairSpec`; 3 containers, 2 reporting threads, 3 calls, hash limit 2, batches too short to be split | `NoLostChange` (across repeated ids and failed sends), `NoLostWakeup`, `EveryChangeAnnounced`, `ShutdownJoins` |
| `update_batch` | `FairBatchSpec` (batch calls only); 5 containers, batches longer than the reserve, overload 1 | `CapacityRespected`, `SplitBatchReturns` |
| `update_wakeup` | violation of `NoLostWakeup` as soon as a batch is split | a finding, see below |
| `buffer` | `FairSpec`; ring of 4, chunks up to 3, initial fill 2, reads up to 3, 6 bytes | `DeliveredInOrder`, `NoDataRace`, `NoLostSignal`, `ImplementsStream`, `ReadReturns`, `CloseReturns` |
| `curl_range` | `Spec` with its fairness; ring of 4, pieces up to 3, initial fill 2, file of 8 bytes, ranges from 1, 3 and 6, reads up to 3 | `RightBytes`, `CloseReturns` |
| `autoscan_scan` | `FairSpec`; a tree of two directories and one beside it, 4 tasks, 2 autoscan directories; one can be set, directories come and go, the server stops | `CountMatches`, `NeverForgotten`, `NoDoubleTimer`, `ScanGoesOn`, `ShutdownEnds` |
| `autoscan_remove` | `Spec`; the same tree, two autoscan directories at the start; edit, remove, add, cancel, failing tasks | `ParamFollows`, `NoAddBehindRemove`, `OnlyGoneRemoved` |
| `sqlite_tasks` | `FairSpec`; one client with two calls, two starts, two faults, two timed backups, restore on | `CallersAccounted`, `BackupHonest`, `NeverBothLost`, `CallsReturn`, `ShutdownEnds`, `BackedUp` |
| `tree` | `Spec`; objects up to id 5, lists cut after one id, two kinds of autoscan | `ImplementsTree` (exactly what has to go goes), `ReportsChanged`, `AutoscanAnchored`, `NoOverlap` |
| `store` | `Spec`; one thread and all calls; two files, a directory, a virtual container, ids up to 4, cache of 3, buffer of 1 statement | `AnswersRight`, `CorrectlyInCache`, `OneObjectPerPath`, `BufferLossOrphansNothing`, `ImplementsTree` |
| `store_race` | violation of `CorrectlyInCache` when a client browses during an import | a finding |
| `sessions` | `Spec`; two sessions, two requests at a time, two containers, two reports, limit 3 | `NothingMissed`, `TimerMatches`, `StuckOnlyCrosswise` |

`CHECK_DEADLOCK FALSE` is set everywhere: nobody has to call a server, and a
server that was shut down does nothing any more; in `store` no id is left to hand
out, and in `sessions` the threads can really block each other (see below).

**Why the bounds are enough.** `update_*`: two reporting threads are the least
that can interleave inside a split batch; three calls let one repeat an id
after a flush, and a hash limit of 2 is reached by a single batch. `buffer`: 6
bytes through a ring of 4 wrap both indices around, chunks of 3 meet the end of
the ring in all offsets, and full and empty both occur with `a = b`.
`curl_range`: a range from 1 or 3 may begin inside, at the end of or behind the
buffered bytes, one from 6 always needs a new transfer, and 8 bytes go around
the ring twice; with `initialFillSize = 0` both properties hold as well (1.1
million states). `autoscan`:
a directory in a directory is the smallest recursive scan, so a scan is more
than one task; four tasks let a second scan start while tasks of the first are
queued. `sqlite_tasks`: two faults are a damaged database and a failed restore,
or a failed backup and a crash in the next; a second start sees what the first
left behind. `tree`: four objects besides the two roots are a container in a
container with a file and a reference to it, the smallest tree in which a removal
follows a child, a reference and an emptied parent; a list that is cut after one
id deletes in every round. `store`: a cache of 3 entries and a buffer of one statement overflow in almost every
call (with 2 entries an item never waits in the buffer while a reference to it is
added), and the last addition begins with at most one id handed out, so that an
import or a link, with its container, follows another one; with `MaxId = 4` there
is no error either (1.2 million states). `sessions`: two reports let one come between the
look, the answer and the reload of another; the limit of 3 lets one id and a
batch of two be put, and collapses both together into "all"; with two sessions
the first and the last one are different. Where a theorem exists, it does not depend on the bound.

**Fairness.** Threads that can run keep running: weak fairness of each thread's
steps. In `BufferedIO` the reader has strong fairness: it competes for a mutex
that the buffer thread gives up around every read of the source, and pthread
mutexes do not starve a waiter for ever in practice; the source's `read()` is
assumed to return. In `UpdateManager` time passes (`Tick`) and a batch in
progress goes on; nobody has to report. In `CurlIO` both
threads go on, libcurl among them: a transfer comes to an end. In `ContentTasks` the task thread, the
end of a timer notification and a web request that has begun go on; timers do
not have to fire. In `Sqlite3Storage` the thread, the main thread during start
and stop, the timer, and clients that have begun a call go on; starting,
stopping and calling are free. `ObjectTree`, `ObjectStore` and `Sessions` have
safety properties only. `threadOpenFails` has no fairness: it is a fault.
No property assumes that the environment behaves well beyond this.

**Spurious wake-ups** are a constant of `UpdateManager` and `BufferedIO`. The
runs have `Spurious = FALSE`, which makes lost signals visible; the theorems
hold for both values.

### Findings

* `update_wakeup` (`update_manager.cc:106`): `containersChanged()` computes once
  whether the thread may be idle, but a split batch unlocks in its loop. The
  thread can send, fall asleep without a timeout, and is not signalled for the
  ids put afterwards. The comment in line 104 promises the opposite. The
  changes are announced together with the next report.
* `store_race` (`storage/sql_storage.cc:859`): `getChildCount()` counts in the
  database and puts the number into the cache later. A child that `addObject()`
  has reported to the cache in between is in neither, and the wrong number stays.
  `storage_cache.h:57` says that the number is kept up to date.

### Observations without a run

* `_recursiveRemove()` collects items and containers in the same query buffer,
  runs it for the containers and cuts it back to its prefix
  (`storage/sql_storage.cc:1568`); the items of the list, which are to be removed
  from that buffer only, are forgotten. A rescan that misses a file and a
  directory at once leaves the file in the database, although `storage.h:199`
  says "Remove all objects found in list". `ImplementsTree` fails in
  `MC_ObjectTree` with `Cases = {"mixed"}`.
* When a seek meets the end of a transfer, `threadProc()` starts the next one at
  the new position with the old bytes still in the ring (`curl_io_handler.cc:118`),
  and a seek after the end has no effect at all, because `seek()` does not wait
  then (`io_handler_buffer_helper.cc:185`) and no thread is left to do it. Both
  need a file that fits into the buffer, or a transfer that fails at once.
  `SeekHonoured` of `CurlIO` fails;
  `RightBytes` is the same for all other seeks.
* `ReadReturns` of `CurlIO` fails in three ways, although `httpreadwrite.c:425`
  says "we don't want a read that will block indefinetely". The end of a
  transfer is set and signalled without the mutex (`curl_io_handler.cc:149-154`),
  so that the signal can fall between the test of `read()` and its wait. After a
  seek exactly to the end of the buffered bytes the callback waits again
  (line 223) in front of an empty buffer. And an initial fill size (transcoding has
  one) greater than the buffer without one piece is never reached. `CHECK_SOCKET`, which would let
  the web server look after its connection, is never returned by this handler.
* `CurlIOHandler::close()` frees the curl handle only when it was given from
  outside (`curl_io_handler.cc:80`), not when `open()` made it.
* A rescan task that is cancelled in the UI, or that throws, is over without
  decrementing the count of its directory (`content_manager.cc:1577`), so the
  timer is never subscribed again; `autoscan.h:185` says that the count reaches
  zero. `NeverForgotten` fails in `MC_ContentTasks` with `Ops = {"cancel"}`.
* A scan id is a position in the list and is given to the next directory
  (`autoscan.cc:122`); queued tasks of the old one are then taken for tasks of
  the new one, although `autoscan.h:198` says that the id identifies the scan.
  `CountMatches` fails with `Ops = {"set", "removeAutoscan"}` and `MaxTasks = 5`;
  `NoDoubleTimer` with `Ops = {"set", "vanish"}`, two directories in one,
  `MaxTasks = 8` and `MaxDirs = 2`, where the id of a directory that vanished goes
  to one that is set while tasks of the first are queued; `NoAddBehindRemove` with
  `Ops = {"set", "removeObject", "removeAutoscan"}` and `MaxTasks = 6`, where a
  scan that has been taken from the queue goes on for the new directory. The runs
  stay below these bounds, and the theorems say under which condition each holds.
* `removeIfSubdir()` adds a copy of each directory to a list of its own
  (`autoscan.cc:285`), which writes the place in that list into the timer parameter
  the copy shares, until the directory is taken off two lines below.
  `timerNotify()` reads the id without a mutex (`content_manager.cc:463`); one that
  reads it then, or reads it before its directory is removed and its place used
  again, scans the directory it finds at that place. `ParamFollows` excepts the moment.
  A directory scanned like this while its own timer is subscribed is subscribed a second time:
  `NoDoubleTimer` fails with two directories, `Ops = {"removeObject"}` and `MaxTasks = 7`.
* With the option create-link a container refers to its playlist. When the
  playlist is removed, the container is taken for an item
  (`sql_storage.cc:1604`) and what is in it stays, without a parent.
  `ImplementsTree` fails in `MC_ObjectTree` with `Cases = {"link"}`. Two more things
  about these containers can be read from the code and are not modelled: the
  container is inserted at once with its `ref_id` (`sql_storage.cc:1023`) while the
  playlist may still wait in the insert buffer, so that a crash leaves a reference to
  nothing; and an edit sets the `ref_id` to NULL (line 283), while the object in the
  cache keeps it.
* The check for overlapping autoscans passes whatever has no object id
  (`sql_storage.cc:2168`), as a directory of the configuration file has that is not
  on the disk at the start; `addAutoscanDirectory()` still finds its object by the
  path (line 1975) and stores it without `path_ids`. So a directory that comes
  back can be scanned inside, or around, another recursive autoscan. `NoOverlap`
  is about the autoscans that have passed the check.
* The start deletes the autoscans the configuration file no longer has and leaves
  the persistent flag of their directories set (`sql_storage.cc:1867`), so that
  these are never purged (not modelled).
* Removing an autoscan of the file system's root clears the persistent flag of
  the root (`sql_storage.cc:2121`), which can then be purged when it becomes
  empty (`Cases = {"root"}`).
* The UPDATE that would keep a persistent autoscan without its directory is built
  and never executed (`sql_storage.cc:1444`): the row keeps the id of an object
  that is gone. `AutoscanAnchored` is therefore about autoscans of the web UI.
* With two threads in `MC_ObjectStore` more goes wrong than the finding shows: a
  row read before a removal is put into the cache after it; and a statement
  appended by `addToInsertBuffer()` before it takes the mutex is lost when another
  thread has executed the buffer and is about to clear it (`sql_storage.cc:2349`).
* The check for a duplicate reference looks at the table only and does not flush
  (`sql_storage.cc:433`, with a `#warning`): a reference that is added twice
  before the next flush is there twice.
* A cached reference is not refreshed when the metadata of its original changes;
  `Same` in `ObjectStore` leaves it out. A reference whose metadata is set to
  those of its original is stored without any, and follows it again.
* Directories enter the cache with the prefix of files (`cache_object.cc:68`), so
  that looking for a directory never finds it there, and looking for a file of
  the same path could.
* `StuckOnlyCrosswise` says that there is exactly one way to block: a request has
  the session mutex in `checkTimer()` and waits for the timer's
  (`session_manager.cc:238`), while the timer, with its mutex held, waits in
  `timerNotify()` for the session mutex. The state `Crosswise` is reachable: the
  first login or the last logout at the moment of a check.
* Two windows of a browser that share a session take each other's ids; a session's
  page is one page in the model. The timeout of a session is compared with
  `1000 * timeout` (`session_manager.cc:257`) and documented in milliseconds
  (`session_manager.h:51`).
* Editing an autoscan directory during a scan copies the task count into the
  new object (`autoscan.cc:435`), which the running task does not decrement:
  the timer is not subscribed again. The branch "this should never happen" of
  `content_manager.cc:764` is reachable.
* For a persistent autoscan directory, add tasks may be created below a
  container that is about to be removed (`content_manager.cc:954-970`);
  `NoAddBehindRemove` is therefore about directories set in the UI that lie
  inside the container, and about paths inside it.
* `removeIfSubdir` and `invalidateAddTask` compare path prefixes without a
  separator, so that `/a/bc` counts as being inside `/a/b` (`autoscan.cc:274`).
* `UpdateManager::containerChanged()` has no limit of its own: single reports
  made while an event is being sent can exceed the capacity of the hash
  (`update_manager.cc:156`, `hash/dbr_hash.h:64`). `CapacityRespected` is for the batch call, which does have the limit.
* A split batch that is polling when the thread exits on shutdown polls on for
  ever; `SplitBatchReturns` excludes shutdown.
* If `sqlite3_open()` fails, the thread exits without signalling and `init()`
  waits for ever (`sqlite3_storage.cc:295`).
* Two timed backups can be queued; if the second fails while nothing is dirty,
  the spoilt backup is not repeated. `BackupHonest` allows it.
* With on-error "restore", a restore that fails is followed by a creation, whose
  initial backup overwrites the backup that could not be read back at that
  moment. `NeverBothLost` holds all the same: some usable database exists, an
  empty one.
* `init()` takes any failing `SELECT` of the version for a corrupt database
  (`sqlite3_storage.cc:113`), also one that failed over a usable database. With a
  usable backup the state of the backup is restored and later changes are gone;
  with none the only copy is unlinked, or written over with an unusable backup.
  `NeverBothLost` and `LastCopyKept` except the start in which this happened.

## 4. Proofs

The theorems hold for every value of the constants, assuming only the named `ASSUME` of each module: sets of callers and containers are finite where they are counted, model values are
distinct, sizes are positive, the initial fill fits into the buffer. TLC
evaluates the same assumptions in every run.

**UpdateManager** (`UpdateManagerProofs`). `TypeCorrect`. `NoChangeIsLost` needs
`LastInHash` (the id that is filtered is in the hash) and that idle callers hold
no ids. `UnsplitWakeup`: if no batch is long enough to be split, `NoLostWakeup`
holds; the invariant says who holds the mutex and that whoever holds it over a
sleeping thread is going to signal. It marks exactly what `update_wakeup`
breaks. `BatchesStayBounded` and `BatchesFitTheHash`: a batch that was not split
needs room for its remaining ids (`RoomForRest`), a split one leaves its loop at
the limit, so each polling call adds at most one id; with at most
`MAX_OBJECT_IDS_OVERLOAD + 1` threads the hash never overflows.

**BufferedIO** (`BufferedIOProofs`). The invariant `RingInv` says what is in the
cells between `a` and `b`, that a chunk the thread is reading lies in the free
part (`Room`, `Written`), and what `read()`'s snapshot and copy are (`Snapshot`,
`Copied`). From it `TypeCorrect`, `InOrder` and `NoRace`. `AwakeInv` adds why
nobody sleeps unsignalled: `SignalsArrive`, `NoMutualWait`.
`BufferImplementsStream` is the refinement: every step of the two threads is a
step of `ByteStream` or changes nothing it can see.

**Sqlite3Storage** (`Sqlite3StorageProofs`). One invariant for all theorems,
`IInv`: `Phases` (where main thread, driver thread and callers can be together),
`Owners` (who may have which task), `CallersAccounted`, `DirtyInv` (a
contamination or a backup that is done but not yet marked), `CopiesInv` (when
the database is known to be usable at each point of `init()`) and `LossInv` (what
is known of the two files when one is about to be written over, as long as the
version was not misread). From it `TypeCorrect`, `NobodyForgotten`,
`DirtyIsHonest`, and, with a lemma about single steps, `LastCopyKept`: unless the
`SELECT` of the version failed over a usable database, the creation of tables is
reached only over a damaged database or with a good backup, and a restore only
with a damaged database.

**CdsTree** (at the end of `ObjectStoreProofs`). `NothingOrphaned`: whatever set of
objects is removed, in one step with all the containers and references it
takes along, every object that remains has its parent, and every reference its
original. `Anchored` is the inductive form of `NoOrphans`: references lead to files,
which no emptied container is. The lemma `Surviving` says what a removal leaves
around an object that stays. Both `ObjectTree` and `ObjectStore` implement this
contract by a theorem (below), so this is what their clients get.

**ObjectStore** (`ObjectStoreProofs`). Every theorem has the form
`Spec /\ []Serial => ...`: `Serial` says that calls do not overlap. Without it the
statements are false, as `store_race` shows for two threads; with one thread it holds
by itself (`OneThreadIsSerial`). The number of threads, the paths, the metadata, the
limit of the cache, the size of the buffer and the number of ids are arbitrary; of
the constants only `StoreAssumption` and `PathsAssumption` are used. The invariant
`Inv` is written with operators on values, so that a step is reasoned about once for
whatever table, buffer and cache it is given. Its parts:

* `TableOK`, at all times: each object has the kind of parent, location and original
  that its kind asks for (`Placed`), the two roots stay (`Roots`), no location is
  there twice (`OnePerPath`), and what is in the table never refers to what still
  waits in the buffer (`Ordered`: no container waits, and a reference never goes ahead
  of its file, neither into the table nor in the buffer). `PathsAreUnique` and
  `NothingOrphanedByBufferLoss` follow from it: the latter says for every number of
  statements of the buffer that have been executed when the server dies (MySQL's
  tables are MyISAM, so a flush that is cut off is not undone) that nothing left has
  its parent, and no virtual item its original, among what is lost. It says nothing
  about a crash between the portions of a removal (`sql_storage.cc:1655`), before
  which the buffer has been flushed, and nothing about containers that refer to a
  playlist.
* `Point`, for the thread in a call: what each step may rely on, by the list of steps
  that are still to come. A search of the table for a path is reached only when no
  object of that path waits in the buffer (`search`); a container is created only for
  a path that was looked for and not found (`Waiting`), although the paths of the whole
  chain are looked for before the first is created; `browse` and `remove` go on
  with an empty buffer.
* `CacheOK`: what the cache knows of an object is right, with the exceptions that
  last for a few steps of the call, each with a name: `Owed`, a container whose new
  child is in the table but not counted yet; `Outdated`, an object updated and not yet
  stored again; `Refilling`, a cache emptied because it was full, before the flush
  that has to follow. Outside of these, whatever waits in the buffer is in the cache,
  by its id and its location (`Visible`), which is why `findObjectByPath()` may ask the
  cache and the table and leave out the buffer.
* `BufferOK`: `insertBufferEmpty` can be trusted, but between `append` and the end of
  `addToInsertBuffer()`, and a flush has written everything when it clears the buffer.

From it `CacheIsCorrect` and `AnswersAreRight`. A cached reference may keep the
metadata that its original had (`Right` says so, as `Same` does for the run).
`StoreImplementsTree` is the refinement of `CdsTree`: `append` and `createContainer`
are its additions, `updateRow` its change, the call of a removal and its statement
are `Ask` and `Remove`; everything else stutters. The two flush steps are such
stutters because the rows of the buffer become rows of the table before they are
taken out of the buffer, and `createContainer`, `append` and `updateRow` are shown to
keep the rest of the tree.

**ObjectTree** (`ObjectTreeProofs`). `AutoscansStayAnchored` holds for all inputs;
its invariant `AnchorInv` adds that ids are handed out in order and that the root is
no directory. The rest is about the two loops. While `_recursiveRemove()` runs, what
is collected (deleted already, or in a list to be deleted) is `Sound` (a part of the
doomed set), `Complete` (a child or a reference of something collected is collected,
unless the lists make the next round look for it) and `Noted` (the parents are in
the lists for the clients). With the lists empty, `Complete` says that the collected
set is closed, and as the doomed set is the smallest closed set, the two are equal.
`_purgeEmptyContainers()` keeps `Purged` (the doomed are gone, and of the others only
containers that the contract empties) and `Candidates` (a container that lost a
child is in a list or has been reported), and ends when no candidate is empty. From
this `RemovalReportsChanged` and `TablesImplementTree`: the insertions, the autoscan
calls and the statements of a removal implement `CdsTree`, for every tree and every
`MAX_REMOVE_SIZE`; all statements but the last are stutters of the contract, whose
tree loses all objects at the end. Both have the hypothesis
`Regular` (`Cases` at most `{"root"}`): with playlist links, or with a list of items
and containers, the statement is false, as the observations above say.

**CurlIO** (`CurlIOProofs`). `RightBytes` looks only at what `read()` has copied;
`CurlInv` says why it is right. `RingPart`: as long as nothing was left over, the
cells of the ring hold the bytes from `posRead` on. `Transfer`: the transfer goes on
exactly where the buffered bytes end, and its piece fits behind them, also while the
callback copies without the mutex. `Snapshot`: the reader works on a prefix of what
is in the ring. `Phases`: a seek that has not been done has somebody waiting for it,
or a thread that is past doing it, and nothing but a seek makes `position` and
`posRead` differ. From it `CurlInvariant`, `ReadsRightBytes`, and `CopiesNeverMeet`:
the two copies without the mutex touch different cells.

**ContentTasks** (`ContentTasksProofs`). For all requests, edits, cancelled and
failing tasks: `ScanListInvariant`, in which `Places` and `Holders` tie the places of
the AutoscanList to the scan ids of the directories, `ParamFollows` the ids in the
timer parameters to both, and `Alone` and `Aside` say that an edit, which puts a second
directory object with the same parameter into the list, is alone with it, and so is
the removal that has put a copy into its own list; without them
`ParamFollows` is not inductive. From it `TimersFollowDirectories`, which is about the
parameters at any time but the moment of `removeIfSubdir()`, not about a notification
that has read one, and
`OnlyGoneIsRemoved`, an action property that needs only that the thread never works
without a task or a directory.
`RemovedStaysRemoved` is `NoAddBehindRemove` with the hypothesis that nobody sets a
directory meanwhile; `RemoveInv` carries it: from the first of the three locked
sections of `removeObject()` on, the directories inside are off the list and nobody
is about to put a copy back.
`ConfiguredScans` is about directories of `config.xml`, in a server where no task is
cancelled and none fails and nothing is edited or removed (`Undisturbed`); files and
directories may come and go, and the UI may set directories of its own. The count is the
number of tasks that will decrement it (`Counted`), and the timer is subscribed
exactly while there is none (`Paced`). `ConfigInv` says what keeps tasks of other
directories away from the count: such a directory never loses its place, so its scan
id is never used again; a scan finds its own directory at each of its lookups
(`ScansOwn`), and a notification its own at each of its steps (`CallsOwn`). `CountsAreRight`, `NoneForgotten` and `NeverTwice` are the
properties of the runs, for a server with such directories only (`ConfigOnly`).
Where a scan id can be used again, or a task is cancelled, they are false for large
enough bounds (observations above).

**Sessions** (`SessionsProofs`). One invariant for all theorems: `Locks` (who has
the mutex is where it is held), `TimerInv` (a thread between changing the list
and telling the Timer is the only one that may find them to differ), `PagesInv`
(an id that was not generated is nowhere, a page has one request, a page is shown
after its login), `GotInv` (fetched ids are used before the next request) and
`Heard` (`NothingMissed`, one container at a time). From it `TypeCorrect`,
`TimerFollows` and `NoChangeMissed`. Most steps are quiet (`QuietStep`): they
leave what is on its way where it is; of the others, `OthersKeep` says that a
thread can take away only what comes by itself.

**Only model-checked.** All liveness properties, and `StuckOnlyCrosswise`
(fairness and `ENABLED` are out of the prover's reach). `NoOverlap` of `ObjectTree`,
which is about the path from an object to the root, a recursive function: what it
returns for every tree needs an induction over data. The properties of
`ContentTasks` outside of the hypotheses above: for directories of the UI, TLC
checks them within the bounds of the runs. `ObjectStore` with calls that overlap:
what goes wrong there is the finding and the observations above, and what still holds
is open.

## 5. Not modelled

`PROJECT.json` has the full list with reasons. In short: third-party code
(`tombupnp`, metadata libraries, script interpreters) and online services are
external; configuration, XML, strings, UPnP and web answers are formatting
without state. With state, but left out so far: the inotify watches
(`AutoscanInotify`), the processes of `ProcessIOHandler`, the URL cache, reading the list of autoscans at start, and additions to a tree while
a removal of several statements is under way.

## 6. Plan

Order: what the server's data depends on first.

1. Done: `UpdateManager`, `BufferedIO` with `ByteStream`, `ContentTasks`,
   `Sqlite3Storage`, `CdsTree` with `ObjectTree` and `ObjectStore`, `Sessions`,
   `CurlIO`,
   each with its runs and proofs.
2. `AutoscanInotify`: the two queues and the watches against the set of
   directories that are configured.
3. URL cache and the ring queue of `zmmf/base_queue.h` as pure algorithms against
   reference definitions.
4. Proofs: what is left of the theorems of `ObjectStore` when calls overlap
   (`BufferLossOrphansNothing` first: which statements of two threads keep it); `ConfiguredScans`
   for directories of the UI as long as no id is used again.
5. A run of its own for the scan id that is used again.
