--------------------------- MODULE UpdateManager ---------------------------
(***************************************************************************)
(* The UpdateManager singleton (src/src/update_manager.cc): worker threads *)
(* report changed containers, one update thread collects them in a hash    *)
(* and announces them, at most every SPEC_INTERVAL, as UPnP events.        *)
(*                                                                         *)
(* A stretch of code that holds the mutex throughout is one action.  The   *)
(* batch call containersChanged() gives the mutex up in the middle, so it  *)
(* is a loop of its own and `lock' says who holds the mutex between steps. *)
(***************************************************************************)
EXTENDS Integers, Sequences, FiniteSets

CONSTANTS
    Container,       \* container object ids
    NoContainer,     \* INVALID_OBJECT_ID
    Caller,          \* threads that report changes
    Batches,         \* the id arrays containersChanged() may be called with
    MAX_OBJECT_IDS,
    MAX_OBJECT_IDS_OVERLOAD,
    MaxCalls,        \* bound: calls made by all callers together
    Spurious         \* may pthread_cond_wait return without a signal?

FLUSH_SPEC == 1
FLUSH_ASAP == 2
Policy     == {FLUSH_SPEC, FLUSH_ASAP}

\* Who holds the mutex when no caller does.
Free == "free"
Upd  == "updateThread"

ASSUME ConstantsAssumption ==
    /\ NoContainer \notin Container
    /\ Free \notin Caller /\ Upd \notin Caller
    /\ IsFiniteSet(Container) /\ IsFiniteSet(Caller)
    /\ Batches \subseteq Seq(Container)
    /\ MAX_OBJECT_IDS \in Nat \ {0}
    /\ MAX_OBJECT_IDS_OVERLOAD \in Nat \ {0}
    /\ MaxCalls \in Nat
    /\ Spurious \in BOOLEAN

VARIABLES
    objectIDHash,          \* the set of ids waiting to be announced
    flushPolicy,
    lastContainerChanged,
    shutdownFlag,
    lock,                  \* who holds the mutex: Free, Upd or a caller
    upd,                   \* where the update thread is
    signalled,             \* a cond->signal() reached the waiting thread
    due,                   \* SPEC_INTERVAL has passed since lastUpdate
    sigint,                \* kill(0, SIGINT) was issued
    call,                  \* each caller's containersChanged() activation
    owed,                  \* history: reported and not yet written by the storage
    calls                  \* number of calls made, for MaxCalls

vars == <<objectIDHash, flushPolicy, lastContainerChanged, shutdownFlag, lock,
          upd, signalled, due, sigint, call, owed, calls>>

callerVars == <<lock, call, owed, calls>>

Idle == [pc |-> "idle", ids |-> <<>>, split |-> FALSE, signal |-> FALSE]

IdsOf(ids) == {ids[i] : i \in DOMAIN ids}

haveUpdates == objectIDHash # {}

HashFull == Cardinality(objectIDHash) > MAX_OBJECT_IDS

Waiting == upd \in {"wait", "timedwait"}

\* cond->signal() issued when `cnd' holds; without a waiter it is lost.
SignalIf(cnd) == signalled' = (signalled \/ (cnd /\ Waiting))

Init ==
    /\ objectIDHash = {}
    /\ flushPolicy = FLUSH_SPEC
    /\ lastContainerChanged = NoContainer
    /\ shutdownFlag = FALSE
    /\ lock = Free
    /\ upd = "relock"
    /\ signalled = FALSE
    /\ due = FALSE
    /\ sigint = FALSE
    /\ call = [c \in Caller |-> Idle]
    /\ owed = {}
    /\ calls = 0

----------------------------------------------------------------------------
(* Callers *)

NewCall(c) ==
    /\ call[c].pc = "idle"
    /\ calls < MaxCalls
    /\ calls' = calls + 1

\* The reports containerChanged() drops: no container at all, or the last one
\* again, unless the policy became more urgent.
Ignored(id, policy) ==
    \/ id = NoContainer
    \/ id = lastContainerChanged /\ policy <= flushPolicy

\* Mutant of CouldBeIdle: the first report does not wake the thread.
NeverIdle == FALSE

\* The update thread may sleep without a timeout.
CouldBeIdle == ~haveUpdates

MoreUrgent(policy) == IF policy > flushPolicy THEN policy ELSE flushPolicy

containerChanged(c, id, policy) ==
    /\ NewCall(c)
    /\ lock = Free
    /\ owed' = owed \cup ({id} \ {NoContainer})
    /\ \/ /\ Ignored(id, policy)
          /\ UNCHANGED <<objectIDHash, lastContainerChanged, flushPolicy, signalled>>
       \/ /\ ~Ignored(id, policy)
          /\ objectIDHash' = objectIDHash \cup {id}
          /\ lastContainerChanged' = id
          /\ flushPolicy' = MoreUrgent(policy)
          /\ SignalIf(\/ CouldBeIdle
                      \/ Cardinality(objectIDHash') >= MAX_OBJECT_IDS
                      \/ policy > flushPolicy)
    /\ UNCHANGED <<shutdownFlag, lock, upd, due, sigint, call>>

\* Mutant of MustSplit: no batch is split.
NeverSplits(ids) == FALSE

MustSplit(ids) ==
    Cardinality(objectIDHash) + Len(ids)
        >= MAX_OBJECT_IDS + MAX_OBJECT_IDS_OVERLOAD

\* containersChanged(ids): up to the loop over the ids.
containersChangedBegin(c, ids, policy) ==
    /\ NewCall(c)
    /\ lock = Free
    /\ lock' = c
    /\ owed' = owed \cup IdsOf(ids)
    /\ flushPolicy' = MoreUrgent(policy)
    /\ call' = [call EXCEPT ![c] =
          [pc     |-> "loop",
           ids    |-> ids,
           split  |-> MustSplit(ids),
           signal |-> CouldBeIdle \/ policy > flushPolicy]]
    /\ UNCHANGED <<objectIDHash, lastContainerChanged, shutdownFlag, upd,
                   signalled, due, sigint>>

\* One turn of the loop.  A split call that overfills the hash signals the
\* update thread and lets the mutex go.
containersChangedPut(c) ==
    /\ call[c].pc = "loop"
    /\ call[c].ids # <<>>
    /\ LET id    == Head(call[c].ids)
           new   == IF id # lastContainerChanged
                    THEN objectIDHash \cup {id} ELSE objectIDHash
           spins == /\ id # lastContainerChanged
                    /\ call[c].split
                    /\ Cardinality(new) > MAX_OBJECT_IDS
       IN  /\ objectIDHash' = new
           /\ call' = [call EXCEPT ![c].ids = Tail(@),
                                   ![c].pc  = IF spins THEN "spin" ELSE "loop"]
           /\ lock' = IF spins THEN Free ELSE c
           /\ SignalIf(spins)
    /\ UNCHANGED <<flushPolicy, lastContainerChanged, shutdownFlag, upd, due,
                   sigint, owed, calls>>

\* Mutant of containersChangedSpin: the mutex is not released in between.
SpinHoldingMutex(c) ==
    /\ call[c].pc = "spin"
    /\ lock \in {Free, c}
    /\ SignalIf(HashFull)
    /\ lock' = c
    /\ call' = [call EXCEPT ![c].pc = IF HashFull THEN "spin" ELSE "loop"]
    /\ UNCHANGED <<objectIDHash, flushPolicy, lastContainerChanged, shutdownFlag,
                   upd, due, sigint, owed, calls>>

\* The mutex is taken again; while the hash is still overfull it is signalled
\* and released once more, otherwise the loop goes on.
containersChangedSpin(c) ==
    /\ call[c].pc = "spin"
    /\ lock = Free
    /\ \/ /\ HashFull
          /\ SignalIf(TRUE)
          /\ UNCHANGED <<lock, call>>
       \/ /\ ~HashFull
          /\ lock' = c
          /\ call' = [call EXCEPT ![c].pc = "loop"]
          /\ UNCHANGED signalled
    /\ UNCHANGED <<objectIDHash, flushPolicy, lastContainerChanged, shutdownFlag,
                   upd, due, sigint, owed, calls>>

containersChangedEnd(c) ==
    /\ call[c].pc = "loop"
    /\ call[c].ids = <<>>
    /\ SignalIf(call[c].signal \/ Cardinality(objectIDHash) >= MAX_OBJECT_IDS)
    /\ lock' = Free
    /\ call' = [call EXCEPT ![c] = Idle]
    /\ UNCHANGED <<objectIDHash, flushPolicy, lastContainerChanged, shutdownFlag,
                   upd, due, sigint, owed, calls>>

\* Mutant of shutdown: the sleeping thread is not signalled.
ShutdownUnsignalled ==
    /\ ~shutdownFlag
    /\ lock = Free
    /\ shutdownFlag' = TRUE
    /\ UNCHANGED <<objectIDHash, flushPolicy, lastContainerChanged, upd, due,
                   signalled, sigint, callerVars>>

\* shutdown() up to pthread_join().
shutdown ==
    /\ ~shutdownFlag
    /\ lock = Free
    /\ shutdownFlag' = TRUE
    /\ SignalIf(TRUE)
    /\ UNCHANGED <<objectIDHash, flushPolicy, lastContainerChanged, upd, due,
                   sigint, callerVars>>

----------------------------------------------------------------------------
(* The update thread *)

\* The head of threadProc's loop, when it does not lead to a send.
threadExit ==
    /\ upd = "top"
    /\ shutdownFlag
    /\ lock' = Free
    /\ upd' = "exit"
    /\ UNCHANGED <<objectIDHash, flushPolicy, lastContainerChanged, shutdownFlag,
                   signalled, due, sigint, call, owed, calls>>

threadWait ==
    /\ upd = "top"
    /\ ~shutdownFlag /\ ~haveUpdates
    /\ lock' = Free
    /\ upd' = "wait"
    /\ UNCHANGED <<objectIDHash, flushPolicy, lastContainerChanged, shutdownFlag,
                   signalled, due, sigint, call, owed, calls>>

\* Mutant of MustSleep: an interval that starts anew.
AlwaysSleeps == flushPolicy = FLUSH_SPEC /\ Cardinality(objectIDHash) < MAX_OBJECT_IDS

\* sleepMillis >= MIN_SLEEP and the hash is not full.
MustSleep ==
    /\ flushPolicy = FLUSH_SPEC
    /\ ~due
    /\ Cardinality(objectIDHash) < MAX_OBJECT_IDS

threadTimedwait ==
    /\ upd = "top"
    /\ ~shutdownFlag /\ haveUpdates /\ MustSleep
    /\ lock' = Free
    /\ upd' = "timedwait"
    /\ UNCHANGED <<objectIDHash, flushPolicy, lastContainerChanged, shutdownFlag,
                   signalled, due, sigint, call, owed, calls>>

\* cond->wait() returns; also cond->timedwait() when it sends nothing, because
\* the timeout passed or the server is shutting down.
threadWake ==
    /\ lock = Free
    /\ \/ upd = "wait" /\ (signalled \/ Spurious)
       \/ upd = "timedwait" /\ due
       \/ upd = "timedwait" /\ signalled /\ shutdownFlag
    /\ lock' = Upd
    /\ upd' = "top"
    /\ signalled' = FALSE
    /\ UNCHANGED <<objectIDHash, flushPolicy, lastContainerChanged, shutdownFlag,
                   due, sigint, call, owed, calls>>

\* The two ways to sendUpdates = true: straight from the loop head, or out of
\* cond->timedwait() returning 0.
SendsNow ==
    /\ ~shutdownFlag
    /\ \/ upd = "top" /\ haveUpdates /\ ~MustSleep
       \/ upd = "timedwait" /\ lock = Free /\ (signalled \/ Spurious)

\* Mutant of StartOver: the last container stays remembered.
KeepsLast ==
    /\ flushPolicy' = FLUSH_SPEC
    /\ UNCHANGED lastContainerChanged

\* What precedes every attempt to send.
StartOver ==
    /\ lastContainerChanged' = NoContainer
    /\ flushPolicy' = FLUSH_SPEC

\* incrementUpdateIDs() succeeded: the hash is cleared.  `full' tells whether
\* the update string is non-empty (some id still exists in the database).
threadSend(full) ==
    /\ SendsNow
    /\ StartOver
    /\ owed' = owed \ objectIDHash
    /\ objectIDHash' = {}
    /\ upd' = IF full THEN "sending" ELSE "relock"
    /\ signalled' = FALSE
    /\ lock' = Free
    /\ UNCHANGED <<shutdownFlag, due, sigint, call, calls>>

\* incrementUpdateIDs() threw: the ids stay, SIGINT goes to the process group.
threadSendFails ==
    /\ SendsNow
    /\ StartOver
    /\ sigint' = TRUE
    /\ upd' = "relock"
    /\ signalled' = FALSE
    /\ lock' = Free
    /\ UNCHANGED <<objectIDHash, shutdownFlag, due, call, owed, calls>>

\* Without the mutex: subscription_update() and the new lastUpdate, or the
\* exception that ends the server; then AUTORELOCK.
threadSent(ok) ==
    /\ upd = "sending"
    /\ lock = Free
    /\ lock' = Upd
    /\ upd' = "top"
    /\ due' = IF ok THEN FALSE ELSE due
    /\ sigint' = (sigint \/ ~ok)
    /\ UNCHANGED <<objectIDHash, flushPolicy, lastContainerChanged, shutdownFlag,
                   signalled, call, owed, calls>>

\* AUTOLOCK when the thread starts, AUTORELOCK when there was nothing to send.
threadRelock ==
    /\ upd = "relock"
    /\ lock = Free
    /\ lock' = Upd
    /\ upd' = "top"
    /\ UNCHANGED <<objectIDHash, flushPolicy, lastContainerChanged, shutdownFlag,
                   signalled, due, sigint, call, owed, calls>>

\* SPEC_INTERVAL milliseconds have gone by since lastUpdate.
Tick ==
    /\ ~due
    /\ due' = TRUE
    /\ UNCHANGED <<objectIDHash, flushPolicy, lastContainerChanged, shutdownFlag,
                   upd, signalled, sigint, callerVars>>

----------------------------------------------------------------------------

SingleCall(c) ==
    \E id \in Container \cup {NoContainer}, policy \in Policy :
        containerChanged(c, id, policy)

BatchCall(c) ==
    \/ \E ids \in Batches : containersChangedBegin(c, ids, FLUSH_SPEC)
    \/ containersChangedPut(c)
    \/ containersChangedSpin(c)
    \/ containersChangedEnd(c)

UpdateThread ==
    \/ threadExit
    \/ threadWait
    \/ threadTimedwait
    \/ threadWake
    \/ \E full \in BOOLEAN : threadSend(full)
    \/ threadSendFails
    \/ \E ok \in BOOLEAN : threadSent(ok)
    \/ threadRelock

Next ==
    \/ \E c \in Caller : SingleCall(c) \/ BatchCall(c)
    \/ UpdateThread
    \/ shutdown
    \/ Tick

Spec == Init /\ [][Next]_vars

\* The system without single reports: what the batch call alone may do.
BatchNext ==
    \/ \E c \in Caller : BatchCall(c)
    \/ UpdateThread
    \/ shutdown
    \/ Tick

BatchSpec == Init /\ [][BatchNext]_vars

\* Threads keep running and a waiting thread gets the mutex; time passes.
\* Nobody has to report a change or to stop the server.
Fairness ==
    /\ WF_vars(UpdateThread)
    /\ WF_vars(Tick)
    /\ \A c \in Caller : WF_vars(/\ call[c].pc # "idle"
                                  /\ BatchCall(c))

FairSpec == Spec /\ Fairness

FairBatchSpec == BatchSpec /\ Fairness

----------------------------------------------------------------------------
(* Properties *)

Activation == [pc : {"idle", "loop", "spin"}, ids : Seq(Container),
               split : BOOLEAN, signal : BOOLEAN]

TypeOK ==
    /\ objectIDHash \in SUBSET Container
    /\ flushPolicy \in Policy
    /\ lastContainerChanged \in Container \cup {NoContainer}
    /\ shutdownFlag \in BOOLEAN
    /\ lock \in Caller \cup {Free, Upd}
    /\ upd \in {"relock", "top", "wait", "timedwait", "sending", "exit"}
    /\ signalled \in BOOLEAN
    /\ due \in BOOLEAN
    /\ sigint \in BOOLEAN
    /\ call \in [Caller -> Activation]
    /\ owed \in SUBSET Container
    /\ calls \in Nat

Remaining == UNION {IdsOf(call[c].ids) : c \in Caller}

\* No reported change is lost: until the storage has counted it, its id is in
\* the hash or still ahead of the loop of a containersChanged() call, although
\* repeated ids are filtered by lastContainerChanged.
NoLostChange == owed \subseteq objectIDHash \cup Remaining

\* No lost wake-up: an update thread asleep without a timeout, with no signal
\* on its way and the mutex free, has nothing to announce and no shutdown to
\* obey.  The callers promise it ("signalling thread if it could have been
\* idle, because there were no unprocessed updates").
NoLostWakeup ==
    upd = "wait" /\ ~signalled /\ lock = Free => ~haveUpdates /\ ~shutdownFlag

Spinning == {c \in Caller : call[c].pc = "spin"}

\* What the splitting of batches is for: reported in batches alone, the ids
\* outgrow MAX_OBJECT_IDS + MAX_OBJECT_IDS_OVERLOAD by less than one id for
\* each call that is signalling in between.
BatchBound ==
    Cardinality(objectIDHash)
        < MAX_OBJECT_IDS + MAX_OBJECT_IDS_OVERLOAD + Cardinality(Spinning)

\* dbr_hash.h: the number of stored entries must be <= realCapacity at all
\* times; UpdateManager() asks for MAX_OBJECT_IDS + 2 * MAX_OBJECT_IDS_OVERLOAD.
CapacityRespected ==
    Cardinality(objectIDHash) <= MAX_OBJECT_IDS + 2 * MAX_OBJECT_IDS_OVERLOAD

\* Every reported change is announced, unless the server stops first.
EveryChangeAnnounced ==
    \A id \in Container : id \in owed ~> (id \notin owed \/ shutdownFlag \/ sigint)

\* shutdown() gets its thread back: pthread_join() returns.
ShutdownJoins == shutdownFlag ~> upd = "exit"

\* A caller caught in the in-between signalling of a split batch gets out of
\* it, unless the server stops first.
SplitBatchReturns ==
    \A c \in Caller : call[c].pc = "spin" ~>
        (call[c].pc # "spin" \/ shutdownFlag \/ sigint)
=============================================================================
