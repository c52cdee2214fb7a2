----------------------------- MODULE Sessions -----------------------------
(***************************************************************************)
(* SessionManager: the sessions of the web interface, the ids of changed   *)
(* containers each of them collects until its page asks for them, and the  *)
(* expiry of sessions by the Timer.  The mutex of the SessionManager and   *)
(* that of the Timer are taken in both orders: by requests that create or  *)
(* remove a session, and by the main thread, which notifies subscribers    *)
(* with the Timer locked.                                                  *)
(*                                                                         *)
(* A page shows containers it has loaded.  stale says which of them have   *)
(* changed since; that is what the collected ids are for.                  *)
(***************************************************************************)
EXTENDS Integers, FiniteSets

CONSTANTS
    Session,       \* the session ids that are generated
    Web,           \* threads that serve requests of the web interface
    Reporter,      \* threads that change containers and report them
    Container,
    Batches,       \* the sets of containers that are reported at once
    MAX_UI_UPDATE_IDS,
    MaxReports     \* bound: how often containers change

Main == "main"     \* the thread of Timer::triggerWait()
Nobody == "nobody"
NoSession == "no session"

ASSUME SessionsAssumption ==
    /\ Main \notin Web \union Reporter
    /\ Nobody \notin Web \union Reporter
    /\ Web \intersect Reporter = {}
    /\ NoSession \notin Session
    /\ Batches \subseteq SUBSET Container
    /\ MAX_UI_UPDATE_IDS \in Nat \ {0}
    /\ MaxReports \in Nat

VARIABLES
    sessions,      \* the sessions of the array
    unused,        \* the ids that have not been generated yet
    loggedIn, idle, \* of a session; idle: last access further back than timeout
    uiUpdateIDs, updateAll,
    shown,         \* whether the page of a session has loaded its containers
    stale,         \* the changed containers a page has not loaded again
    timerAdded,    \* SessionManager: whether it has subscribed
    subscribed,    \* Timer: whether the SessionManager is a subscriber
    due,           \* Timer: whether the next notification is due
    mutex,         \* who holds the mutex of the SessionManager
    timerMutex,    \* who holds the mutex of the Timer
    pc,            \* what a thread does next
    at,            \* the session a request is about
    got,           \* the ids a request has fetched, or that are reported
    toTell,        \* the sessions a report has still to go to
    reports

sessionVars == <<loggedIn, uiUpdateIDs, updateAll>>
pageVars == <<shown, stale>>
timerVars == <<timerAdded, subscribed>>
threadVars == <<at, got, toTell>>
vars == <<sessions, unused, sessionVars, idle, pageVars, timerVars, due, mutex,
          timerMutex, pc, threadVars, reports>>

Thread == Web \union Reporter \union {Main}

Init ==
    /\ sessions = {} /\ unused = Session
    /\ loggedIn = [s \in Session |-> FALSE]
    /\ idle = [s \in Session |-> FALSE]
    /\ uiUpdateIDs = [s \in Session |-> {}]
    /\ updateAll = [s \in Session |-> FALSE]
    /\ shown = [s \in Session |-> FALSE]
    /\ stale = [s \in Session |-> {}]
    /\ timerAdded = FALSE /\ subscribed = FALSE /\ due = FALSE
    /\ mutex = Nobody /\ timerMutex = Nobody
    /\ pc = [t \in Thread |-> "idle"]
    /\ at = [t \in Thread |-> NoSession]
    /\ got = [t \in Thread |-> {}]
    /\ toTell = [t \in Thread |-> {}]
    /\ reports = 0

Goto(t, label) == pc' = [pc EXCEPT ![t] = label]

\* A session belongs to one page, which waits for an answer before it asks again.
Waits(s) == \E w \in Web : at[w] = s

\* The last reference to a session goes, and its page with it.
Destroyed(s) ==
    /\ loggedIn' = [loggedIn EXCEPT ![s] = FALSE]
    /\ idle' = [idle EXCEPT ![s] = FALSE]
    /\ uiUpdateIDs' = [uiUpdateIDs EXCEPT ![s] = {}]
    /\ updateAll' = [updateAll EXCEPT ![s] = FALSE]
    /\ shown' = [shown EXCEPT ![s] = FALSE]
    /\ stale' = [stale EXCEPT ![s] = {}]

-----------------------------------------------------------------------------
(* checkTimer(), called with the mutex held, locks the Timer to subscribe  *)
(* or unsubscribe.                                                         *)

MustAdd(list) == list # {} /\ ~timerAdded
MustRemove(list) == list = {} /\ timerAdded

\* Thread w has the mutex; it keeps it if the Timer is needed.
checkTimer(w, list, label) ==
    \/ MustAdd(list)    /\ mutex' = w /\ Goto(w, "subscribe")
    \/ MustRemove(list) /\ mutex' = w /\ Goto(w, "unsubscribe")
    \/ ~MustAdd(list) /\ ~MustRemove(list) /\ UNCHANGED mutex /\ Goto(w, label)

Subscribed(w, yes, label) ==
    /\ timerMutex = Nobody
    /\ subscribed' = yes
    /\ timerAdded' = yes
    /\ mutex' = Nobody
    /\ Goto(w, label)
    /\ UNCHANGED <<sessions, unused, sessionVars, idle, pageVars, due, timerMutex,
                   threadVars, reports>>

addTimerSubscriber(w) == pc[w] = "subscribe" /\ Subscribed(w, TRUE, "logIn")
removeTimerSubscriber(w) == pc[w] = "unsubscribe" /\ Subscribed(w, FALSE, "idle")

-----------------------------------------------------------------------------
(* Requests of a page.                                                     *)

\* auth "get_sid" without a session: createSession().
createSession(w, s) ==
    /\ pc[w] = "idle"
    /\ s \in unused
    /\ mutex = Nobody
    /\ unused' = unused \ {s}
    /\ sessions' = sessions \union {s}
    /\ at' = [at EXCEPT ![w] = s]
    /\ checkTimer(w, sessions', "logIn")
    /\ UNCHANGED <<sessionVars, idle, pageVars, timerVars, due, timerMutex, got, toTell, reports>>

\* auth "get_sid" with a session: the page starts again.
getSid(w, s) ==
    /\ pc[w] = "idle"
    /\ s \in sessions /\ ~Waits(s)
    /\ mutex = Nobody
    /\ at' = [at EXCEPT ![w] = s]
    /\ shown' = [shown EXCEPT ![s] = FALSE]
    /\ stale' = [stale EXCEPT ![s] = {}]
    /\ Goto(w, "clear")
    /\ UNCHANGED <<sessions, unused, sessionVars, idle, timerVars, due, mutex,
                   timerMutex, got, toTell, reports>>

clearUpdateIDs(w) ==
    LET s == at[w]
    IN  /\ pc[w] = "clear"
        /\ uiUpdateIDs' = [uiUpdateIDs EXCEPT ![s] = {}]
        /\ updateAll' = [updateAll EXCEPT ![s] = FALSE]
        /\ Goto(w, "logIn")
        /\ UNCHANGED <<sessions, unused, loggedIn, idle, pageVars, timerVars, due, mutex,
                       timerMutex, threadVars, reports>>

logIn(w) ==
    /\ pc[w] = "logIn"
    /\ loggedIn' = [loggedIn EXCEPT ![at[w]] = TRUE]
    /\ Goto(w, "show")
    /\ UNCHANGED <<sessions, unused, idle, uiUpdateIDs, updateAll, pageVars, timerVars, due,
                   mutex, timerMutex, threadVars, reports>>

\* The page loads the containers it shows.
show(w) ==
    LET s == at[w]
    IN  /\ pc[w] = "show"
        /\ shown' = [shown EXCEPT ![s] = TRUE]
        /\ stale' = [stale EXCEPT ![s] = {}]
        /\ Goto(w, "idle")
        /\ at' = [at EXCEPT ![w] = NoSession]
        /\ UNCHANGED <<sessions, unused, sessionVars, idle, timerVars, due, mutex,
                       timerMutex, got, toTell, reports>>

\* check_request(): the session is looked up and accessed.
checkRequest(w, s) ==
    /\ pc[w] = "idle"
    /\ s \in sessions /\ ~Waits(s)
    /\ loggedIn[s]
    /\ mutex = Nobody
    /\ at' = [at EXCEPT ![w] = s]
    /\ Goto(w, "access")
    /\ UNCHANGED <<sessions, unused, sessionVars, idle, pageVars, timerVars, due, mutex,
                   timerMutex, got, toTell, reports>>

\* The request is one for the update ids or a logout.
access(w) ==
    /\ pc[w] = "access"
    /\ idle' = [idle EXCEPT ![at[w]] = FALSE]
    /\ \/ Goto(w, "has") \/ Goto(w, "logout")
    /\ UNCHANGED <<sessions, unused, sessionVars, pageVars, timerVars, due, mutex,
                   timerMutex, threadVars, reports>>

\* hasUIUpdateIDs() looks without the mutex of the session.
hasUIUpdateIDs(w) ==
    LET s == at[w]
    IN  /\ pc[w] = "has"
        /\ \/ /\ updateAll[s] \/ uiUpdateIDs[s] # {}
              /\ Goto(w, "get")
              /\ UNCHANGED at
           \/ /\ ~updateAll[s] /\ uiUpdateIDs[s] = {}
              /\ Goto(w, "idle")
              /\ at' = [at EXCEPT ![w] = NoSession]
        /\ UNCHANGED <<sessions, unused, sessionVars, idle, pageVars, timerVars, due, mutex,
                       timerMutex, got, toTell, reports>>

\* Mutant of getUIUpdateIDs: the flag is reset, but the ids alone are answered.
GetForgetful(w) ==
    LET s == at[w]
    IN  /\ pc[w] = "get"
        /\ got' = [got EXCEPT ![w] = uiUpdateIDs[s]]
        /\ updateAll' = [updateAll EXCEPT ![s] = FALSE]
        /\ uiUpdateIDs' = [uiUpdateIDs EXCEPT ![s] = {}]
        /\ Goto(w, "reload")
        /\ UNCHANGED <<sessions, unused, loggedIn, idle, pageVars, timerVars, due, mutex,
                       timerMutex, at, toTell, reports>>

getUIUpdateIDs(w) ==
    LET s == at[w]
    IN  /\ pc[w] = "get"
        /\ IF updateAll[s]
           THEN /\ got' = [got EXCEPT ![w] = Container]
                /\ updateAll' = [updateAll EXCEPT ![s] = FALSE]
                /\ UNCHANGED uiUpdateIDs
           ELSE /\ got' = [got EXCEPT ![w] = uiUpdateIDs[s]]
                /\ uiUpdateIDs' = [uiUpdateIDs EXCEPT ![s] = {}]
                /\ UNCHANGED updateAll
        /\ Goto(w, "reload")
        /\ UNCHANGED <<sessions, unused, loggedIn, idle, pageVars, timerVars, due, mutex,
                       timerMutex, at, toTell, reports>>

\* The page loads what it was told.
reload(w) ==
    LET s == at[w]
    IN  /\ pc[w] = "reload"
        /\ stale' = [stale EXCEPT ![s] = @ \ got[w]]
        /\ got' = [got EXCEPT ![w] = {}]
        /\ at' = [at EXCEPT ![w] = NoSession]
        /\ Goto(w, "idle")
        /\ UNCHANGED <<sessions, unused, sessionVars, idle, shown, timerVars, due, mutex,
                       timerMutex, toTell, reports>>

\* A session that has gone meanwhile is not found.
Removed(w) ==
    /\ pc[w] = "logout"
    /\ mutex = Nobody
    /\ sessions' = sessions \ {at[w]}
    /\ Destroyed(at[w])
    /\ at' = [at EXCEPT ![w] = NoSession]
    /\ UNCHANGED <<unused, timerVars, due, timerMutex, got, toTell, reports>>

\* Mutant of removeSession: the timer is not checked.
RemoveUnchecked(w) == Removed(w) /\ Goto(w, "idle") /\ UNCHANGED mutex

removeSession(w) ==
    /\ Removed(w)
    /\ \/ at[w] \in sessions /\ checkTimer(w, sessions', "idle")
       \/ at[w] \notin sessions /\ Goto(w, "idle") /\ UNCHANGED mutex

Request(w) ==
    \E s \in Session : createSession(w, s) \/ getSid(w, s) \/ checkRequest(w, s)
Serve(w) ==
    \/ addTimerSubscriber(w) \/ removeTimerSubscriber(w) \/ clearUpdateIDs(w)
    \/ logIn(w) \/ show(w) \/ access(w) \/ hasUIUpdateIDs(w) \/ getUIUpdateIDs(w)
    \/ reload(w) \/ removeSession(w)

-----------------------------------------------------------------------------
(* Reports.                                                                *)

\* Containers change in the storage, and the change is then reported.
change(r, batch) ==
    /\ pc[r] = "idle"
    /\ reports < MaxReports
    /\ reports' = reports + 1
    /\ stale' = [s \in Session |-> IF shown[s] THEN stale[s] \union batch ELSE stale[s]]
    /\ got' = [got EXCEPT ![r] = batch]
    /\ Goto(r, "report")
    /\ UNCHANGED <<sessions, unused, sessionVars, idle, shown, timerVars, due, mutex,
                   timerMutex, at, toTell>>

Reported(r) == got' = [got EXCEPT ![r] = {}] /\ Goto(r, "idle")

\* SessionManager::containerChangedUI() looks at the size before it locks.
containerChangedUI(r) ==
    /\ pc[r] = "report"
    /\ \/ sessions = {} /\ Reported(r) /\ UNCHANGED <<mutex, toTell>>
       \/ /\ sessions # {}
          /\ Goto(r, "lock")
          /\ UNCHANGED <<mutex, toTell, got>>
    /\ UNCHANGED <<sessions, unused, sessionVars, idle, pageVars, timerVars, due,
                   timerMutex, at, reports>>

lockAndTell(r) ==
    /\ pc[r] = "lock"
    /\ mutex = Nobody
    /\ mutex' = r
    /\ toTell' = [toTell EXCEPT ![r] = sessions]
    /\ Goto(r, "tell")
    /\ UNCHANGED <<sessions, unused, sessionVars, idle, pageVars, timerVars, due,
                   timerMutex, at, got, reports>>

\* Session::containerChangedUI(): one id is put if there is room, several if
\* there is room for all; otherwise the page is to load everything.
Overflow(s, batch) ==
    Cardinality(uiUpdateIDs[s]) + Cardinality(batch)
        >= MAX_UI_UPDATE_IDS + (IF Cardinality(batch) = 1 THEN 1 ELSE 0)

tell(r, s) ==
    LET batch == got[r]
        counts == loggedIn[s] /\ ~updateAll[s]
    IN  /\ pc[r] = "tell"
        /\ s \in toTell[r]
        /\ toTell' = [toTell EXCEPT ![r] = @ \ {s}]
        /\ updateAll' = [updateAll EXCEPT ![s] = @ \/ (counts /\ Overflow(s, batch))]
        /\ uiUpdateIDs' = [uiUpdateIDs EXCEPT ![s] =
                              IF ~counts THEN @
                              ELSE IF Overflow(s, batch) THEN {} ELSE @ \union batch]
        /\ UNCHANGED <<sessions, unused, loggedIn, idle, pageVars, timerVars, due, mutex,
                       timerMutex, pc, at, got, reports>>

told(r) ==
    /\ pc[r] = "tell"
    /\ toTell[r] = {}
    /\ mutex' = Nobody
    /\ Reported(r)
    /\ UNCHANGED <<sessions, unused, sessionVars, idle, pageVars, timerVars, due,
                   timerMutex, at, toTell, reports>>

Report(r) ==
    \/ containerChangedUI(r) \/ lockAndTell(r) \/ told(r)
    \/ \E s \in Session : tell(r, s)

-----------------------------------------------------------------------------
(* The Timer.                                                              *)

Elapse(s) ==
    /\ s \in sessions /\ ~idle[s]
    /\ idle' = [idle EXCEPT ![s] = TRUE]
    /\ UNCHANGED <<sessions, unused, sessionVars, pageVars, timerVars, due, mutex,
                   timerMutex, pc, threadVars, reports>>

TimerDue ==
    /\ subscribed /\ ~due
    /\ due' = TRUE
    /\ UNCHANGED <<sessions, unused, sessionVars, idle, pageVars, timerVars, mutex,
                   timerMutex, pc, threadVars, reports>>

\* triggerWait() wakes up with the mutex of the Timer and keeps it in notify().
triggerWait ==
    /\ pc[Main] = "idle"
    /\ subscribed /\ due
    /\ timerMutex = Nobody
    /\ timerMutex' = Main
    /\ Goto(Main, "notify")
    /\ UNCHANGED <<sessions, unused, sessionVars, idle, pageVars, timerVars, due, mutex,
                   threadVars, reports>>

timerNotify ==
    /\ pc[Main] = "notify"
    /\ mutex = Nobody
    /\ mutex' = Main
    /\ Goto(Main, "expire")
    /\ UNCHANGED <<sessions, unused, sessionVars, idle, pageVars, timerVars, due,
                   timerMutex, threadVars, reports>>

Expired(s) ==
    /\ pc[Main] = "expire"
    /\ s \in sessions /\ idle[s]
    /\ sessions' = sessions \ {s}
    /\ \/ ~Waits(s) /\ Destroyed(s)
       \/ Waits(s) /\ UNCHANGED <<sessionVars, idle, pageVars>>
    /\ UNCHANGED <<unused, due, mutex, timerMutex, pc, threadVars, reports>>

\* Mutant of expire: the mutex of the Timer is not recursive.
ExpireLocking(s) ==
    /\ Expired(s)
    /\ MustRemove(sessions') => timerMutex = Nobody
    /\ subscribed' = (subscribed /\ ~MustRemove(sessions'))
    /\ timerAdded' = (timerAdded /\ ~MustRemove(sessions'))

\* checkTimer() enters the mutex of the Timer a second time.
expire(s) ==
    /\ Expired(s)
    /\ subscribed' = (subscribed /\ ~MustRemove(sessions'))
    /\ timerAdded' = (timerAdded /\ ~MustRemove(sessions'))

notified ==
    /\ pc[Main] = "expire"
    /\ \A s \in sessions : ~idle[s]
    /\ mutex' = Nobody
    /\ timerMutex' = Nobody
    /\ due' = FALSE
    /\ Goto(Main, "idle")
    /\ UNCHANGED <<sessions, unused, sessionVars, idle, pageVars, timerVars, threadVars, reports>>

Tick == triggerWait \/ timerNotify \/ notified \/ \E s \in Session : expire(s)

-----------------------------------------------------------------------------
Next ==
    \/ \E w \in Web : Request(w) \/ Serve(w)
    \/ \E r \in Reporter : Report(r) \/ \E b \in Batches : change(r, b)
    \/ \E s \in Session : Elapse(s)
    \/ TimerDue \/ Tick

Spec == Init /\ [][Next]_vars

-----------------------------------------------------------------------------
(* What makes it correct.                                                  *)

Labels ==
    {"idle", "subscribe", "unsubscribe", "clear", "logIn", "show", "access", "has", "get",
     "reload", "logout", "report", "lock", "tell", "notify", "expire"}

TypeOK ==
    /\ sessions \subseteq Session /\ unused \subseteq Session
    /\ loggedIn \in [Session -> BOOLEAN] /\ idle \in [Session -> BOOLEAN]
    /\ uiUpdateIDs \in [Session -> SUBSET Container]
    /\ updateAll \in [Session -> BOOLEAN]
    /\ shown \in [Session -> BOOLEAN] /\ stale \in [Session -> SUBSET Container]
    /\ timerAdded \in BOOLEAN /\ subscribed \in BOOLEAN /\ due \in BOOLEAN
    /\ mutex \in Thread \union {Nobody} /\ timerMutex \in {Main, Nobody}
    /\ pc \in [Thread -> Labels]
    /\ at \in [Thread -> Session \union {NoSession}]
    /\ got \in [Thread -> SUBSET Container]
    /\ toTell \in [Thread -> SUBSET Session]
    /\ reports \in 0 .. MaxReports

\* What is on its way to the page of s: a report that has not reached s yet, or
\* an answer the page has not used yet.
OnTheWay(s) ==
    (UNION {got[r] : r \in {r \in Reporter : pc[r] \in {"report", "lock"} \/ s \in toTell[r]}})
    \union (UNION {got[w] : w \in {w \in Web : at[w] = s}})

\* However reports, requests and reloads of the page interleave, a container
\* that changed after a page has loaded it is reported to the page: it is among
\* the collected ids, or all are to be loaded, or it is on its way.
NothingMissed ==
    \A s \in sessions :
        shown[s] /\ ~updateAll[s] => stale[s] \subseteq uiUpdateIDs[s] \union OnTheWay(s)

\* Whenever nobody holds the mutex, the SessionManager is subscribed to the Timer
\* exactly as long as there are sessions, and knows it.
TimerMatches ==
    /\ timerAdded = subscribed
    /\ mutex = Nobody => subscribed = (sessions # {})

\* The one way to get stuck: a request has the sessions locked and waits for the
\* Timer, which waits for the sessions.
Crosswise ==
    /\ timerMutex = Main /\ pc[Main] = "notify"
    /\ \E w \in Web : mutex = w /\ pc[w] \in {"subscribe", "unsubscribe"}

\* No thread waits for a mutex for ever but in that state: what is locked is
\* unlocked by a step of its owner.
StuckOnlyCrosswise ==
    /\ mutex # Nobody =>
          \/ Crosswise
          \/ mutex = Main /\ ENABLED Tick
          \/ mutex \in Web /\ ENABLED Serve(mutex)
          \/ mutex \in Reporter /\ ENABLED Report(mutex)
    /\ timerMutex # Nobody => Crosswise \/ ENABLED Tick \/ mutex # Nobody
=============================================================================
