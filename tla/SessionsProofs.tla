--------------------------- MODULE SessionsProofs ---------------------------
(* The proofs about Sessions, for any number of sessions, threads,         *)
(* containers and reports.                                                 *)
EXTENDS Sessions, TLAPS

\* Counting up to a bound stays within it.
LEMMA FirstOne ==
    ASSUME NEW m \in Nat
    PROVE  0 \in 0 .. m
OBVIOUS

\* ... and so does one more below it.
LEMMA OneMore ==
    ASSUME NEW m \in Nat, NEW n \in 0 .. m, n < m
    PROVE  n + 1 \in 0 .. m
OBVIOUS

USE SessionsAssumption DEF Main, Nobody, NoSession

\* Who has the mutex of the SessionManager is at a place where it is held.
Locks ==
    /\ \A w \in Web : pc[w] \in {"subscribe", "unsubscribe"} <=> mutex = w
    /\ \A r \in Reporter : pc[r] = "tell" <=> mutex = r
    /\ pc[Main] = "expire" <=> mutex = Main

\* What a thread that waits for the Timer is about to repair; nobody else has
\* anything to repair.
TimerInv ==
    /\ timerAdded = subscribed
    /\ \A w \in Web : /\ pc[w] = "subscribe" => sessions # {} /\ ~subscribed
                      /\ pc[w] = "unsubscribe" => sessions = {} /\ subscribed
    /\ mutex \notin Web => (subscribed <=> sessions # {})

\* Which session a request is about, and how far its page is.
UnusedInv ==
    \A s \in unused : s \notin sessions /\ ~shown[s] /\ \A w \in Web : at[w] # s
OneEach ==
    \A v, w \in Web : at[v] = at[w] /\ at[v] # NoSession => v = w
AtInv ==
    \A w \in Web : at[w] = NoSession <=> pc[w] \in {"idle", "unsubscribe"}
ShownInv ==
    /\ \A w \in Web :
          /\ pc[w] \in {"subscribe", "clear", "logIn", "show"} => ~shown[at[w]]
          /\ pc[w] = "show" => loggedIn[at[w]]
    /\ \A s \in Session : shown[s] => loggedIn[s]
PagesInv == UnusedInv /\ OneEach /\ AtInv /\ ShownInv

\* What has been reported or fetched is used up.
GotInv ==
    /\ \A w \in Web : pc[w] # "reload" => got[w] = {}
    /\ \A r \in Reporter : pc[r] # "tell" => toTell[r] = {}

\* NothingMissed, one container at a time.
Coming(s, c) ==
    \/ \E r \in Reporter : (pc[r] \in {"report", "lock"} \/ s \in toTell[r]) /\ c \in got[r]
    \/ \E w \in Web : at[w] = s /\ c \in got[w]
Heard ==
    \A s \in sessions, c \in Container :
        shown[s] /\ ~updateAll[s] /\ c \in stale[s] => c \in uiUpdateIDs[s] \/ Coming(s, c)

\* Most steps change nothing that Heard is about: what is on its way stays there,
\* and the pages that are shown have been shown before, with the same ids.
SameComing ==
    /\ \A r \in Reporter :
          /\ got'[r] = got[r] /\ toTell'[r] = toTell[r]
          /\ pc[r] \in {"report", "lock"} => pc'[r] \in {"report", "lock"}
    /\ \A w \in Web : got[w] # {} => got'[w] = got[w] /\ at'[w] = at[w]
SamePages ==
    \A s \in sessions' : shown'[s] /\ stale'[s] # {} =>
        /\ s \in sessions /\ shown[s]
        /\ updateAll'[s] = updateAll[s] /\ uiUpdateIDs'[s] = uiUpdateIDs[s]
        /\ stale'[s] \subseteq stale[s]

Others(t) ==
    \A u \in (Web \union Reporter) \ {t} :
        got'[u] = got[u] /\ toTell'[u] = toTell[u] /\ pc'[u] = pc[u] /\ at'[u] = at[u]

\* While the Timer knows about the sessions, a removal has nothing to add to it.
LEMMA RemovalSubscribesNot ==
    ASSUME TypeOK, TimerInv, NEW w \in Web, removeSession(w)
    PROVE  \/ UNCHANGED mutex /\ Goto(w, "idle")
              /\ (at[w] \in sessions => ~MustRemove(sessions'))
           \/ MustRemove(sessions') /\ mutex' = w /\ Goto(w, "unsubscribe")
<1>1. at[w] \in sessions => timerAdded
    BY DEF removeSession, Removed, TimerInv
<1> QED BY <1>1 DEF removeSession, checkTimer, MustAdd, MustRemove

\* A step that leaves pages and reports alone loses no change.
LEMMA QuietStep ==
    ASSUME Heard, SameComing, SamePages
    PROVE  Heard'
<1> SUFFICES ASSUME NEW s \in sessions', NEW c \in Container,
                    shown'[s], ~updateAll'[s], c \in stale'[s]
             PROVE  c \in uiUpdateIDs'[s] \/ Coming(s, c)'
    BY DEF Heard
<1>1. c \in uiUpdateIDs'[s] \/ Coming(s, c)
    BY DEF Heard, SamePages
<1>2. ASSUME NEW r \in Reporter, pc[r] \in {"report", "lock"} \/ s \in toTell[r], c \in got[r]
      PROVE  Coming(s, c)'
    BY <1>2 DEF SameComing, Coming
<1>3. ASSUME NEW w \in Web, at[w] = s, c \in got[w]
      PROVE  Coming(s, c)'
    BY <1>3 DEF SameComing, Coming
<1> QED BY <1>1, <1>2, <1>3 DEF Coming


\* A thread takes away only what comes by itself.
LEMMA OthersKeep ==
    ASSUME NEW t \in Web \union Reporter, Others(t), NEW s, NEW c, Coming(s, c)
    PROVE  \/ Coming(s, c)'
           \/ t \in Reporter /\ (pc[t] \in {"report", "lock"} \/ s \in toTell[t]) /\ c \in got[t]
           \/ t \in Web /\ at[t] = s /\ c \in got[t]
<1>1. ASSUME NEW r \in Reporter \ {t}, pc[r] \in {"report", "lock"} \/ s \in toTell[r], c \in got[r]
      PROVE  Coming(s, c)'
    BY <1>1 DEF Others, Coming
<1>2. ASSUME NEW w \in Web \ {t}, at[w] = s, c \in got[w]
      PROVE  Coming(s, c)'
    BY <1>2 DEF Others, Coming
<1> QED BY <1>1, <1>2 DEF Coming

\* Every step keeps the types.
LEMMA TypeStep ==
    ASSUME TypeOK, TimerInv, PagesInv, [Next]_vars
    PROVE  TypeOK'
<1>1. ASSUME NEW w \in Web, NEW s \in Session, createSession(w, s) PROVE TypeOK'
    <2>1. CASE MustAdd(sessions') /\ mutex' = w /\ Goto(w, "subscribe")
        BY <1>1, <2>1 DEF createSession, Goto, MustAdd, sessionVars, pageVars, timerVars,
           threadVars, TypeOK, Thread, Labels
    <2>2. CASE ~MustAdd(sessions') /\ UNCHANGED mutex /\ Goto(w, "logIn")
        BY <1>1, <2>2 DEF createSession, Goto, MustAdd, sessionVars, pageVars, timerVars,
           threadVars, TypeOK, Thread, Labels
    <2> QED BY <1>1, <2>1, <2>2 DEF createSession, Goto, checkTimer, MustRemove
<1>2. ASSUME NEW w \in Web, NEW s \in Session, getSid(w, s) PROVE TypeOK'
    BY <1>2 DEF getSid, Goto, Waits, sessionVars, pageVars, timerVars, threadVars, TypeOK, Thread,
       Labels
<1>3. ASSUME NEW w \in Web, NEW s \in Session, checkRequest(w, s) PROVE TypeOK'
    BY <1>3 DEF checkRequest, Goto, Waits, sessionVars, pageVars, timerVars, threadVars, TypeOK,
       Thread, Labels
<1>4. ASSUME NEW w \in Web, addTimerSubscriber(w) PROVE TypeOK'
    BY <1>4 DEF addTimerSubscriber, Subscribed, Goto, sessionVars, pageVars, timerVars,
       threadVars, TypeOK, Thread, Labels
<1>5. ASSUME NEW w \in Web, removeTimerSubscriber(w) PROVE TypeOK'
    BY <1>5 DEF removeTimerSubscriber, Subscribed, Goto, sessionVars, pageVars, timerVars,
       threadVars, TypeOK, Thread, Labels
<1>6. ASSUME NEW w \in Web, clearUpdateIDs(w) PROVE TypeOK'
    BY <1>6 DEF clearUpdateIDs, Goto, sessionVars, pageVars, timerVars, threadVars, TypeOK,
       Thread, Labels
<1>7. ASSUME NEW w \in Web, logIn(w) PROVE TypeOK'
    BY <1>7 DEF logIn, Goto, sessionVars, pageVars, timerVars, threadVars, TypeOK, Thread, Labels
<1>8. ASSUME NEW w \in Web, show(w) PROVE TypeOK'
    BY <1>8 DEF show, Goto, sessionVars, pageVars, timerVars, threadVars, TypeOK, Thread, Labels
<1>9. ASSUME NEW w \in Web, access(w) PROVE TypeOK'
    <2>1. CASE Goto(w, "has")
        BY <1>9, <2>1 DEF access, Goto, sessionVars, pageVars, timerVars, threadVars, TypeOK,
           Thread, Labels
    <2>2. CASE Goto(w, "logout")
        BY <1>9, <2>2 DEF access, Goto, sessionVars, pageVars, timerVars, threadVars, TypeOK,
           Thread, Labels
    <2> QED BY <1>9, <2>1, <2>2 DEF access, Goto
<1>10. ASSUME NEW w \in Web, hasUIUpdateIDs(w) PROVE TypeOK'
    <2>1. CASE Goto(w, "get") /\ UNCHANGED at
        BY <1>10, <2>1 DEF hasUIUpdateIDs, Goto, sessionVars, pageVars, timerVars, threadVars,
           TypeOK, Thread, Labels
    <2>2. CASE Goto(w, "idle") /\ at' = [at EXCEPT ![w] = NoSession]
        BY <1>10, <2>2 DEF hasUIUpdateIDs, Goto, sessionVars, pageVars, timerVars, threadVars,
           TypeOK, Thread, Labels
    <2> QED BY <1>10, <2>1, <2>2 DEF hasUIUpdateIDs, Goto
<1>11. ASSUME NEW w \in Web, getUIUpdateIDs(w) PROVE TypeOK'
    <2>1. at[w] \in Session /\ w \in Thread
        BY <1>11 DEF getUIUpdateIDs, TypeOK, Thread, PagesInv, AtInv
    <2>2. got' \in [Thread -> SUBSET Container]
        <3>1. PICK X : X \subseteq Container /\ got' = [got EXCEPT ![w] = X]
            <4>1. uiUpdateIDs \in [Session -> SUBSET Container]
                BY DEF TypeOK
            <4>2. uiUpdateIDs[at[w]] \subseteq Container
                BY <2>1, <4>1
            <4> QED BY <1>11, <4>2 DEF getUIUpdateIDs
        <3> QED BY <3>1 DEF TypeOK
    <2>3. uiUpdateIDs' \in [Session -> SUBSET Container]
        BY <1>11 DEF getUIUpdateIDs, TypeOK
    <2>4. updateAll' \in [Session -> BOOLEAN]
        BY <1>11 DEF getUIUpdateIDs, TypeOK
    <2>5. pc' \in [Thread -> Labels]
        BY <1>11, <2>1 DEF getUIUpdateIDs, Goto, TypeOK, Labels
    <2> QED BY <1>11, <2>2, <2>3, <2>4, <2>5 DEF getUIUpdateIDs, pageVars, timerVars, TypeOK
<1>12. ASSUME NEW w \in Web, reload(w) PROVE TypeOK'
    BY <1>12 DEF reload, Goto, sessionVars, pageVars, timerVars, threadVars, TypeOK, Thread, Labels
<1>13. ASSUME NEW w \in Web, removeSession(w) PROVE TypeOK'
    <2>1. CASE UNCHANGED mutex /\ Goto(w, "idle")
        BY <1>13, <2>1 DEF removeSession, Removed, Destroyed, Goto, MustRemove, sessionVars,
           pageVars, timerVars, threadVars, TypeOK, Thread, Labels
    <2>2. CASE MustRemove(sessions') /\ mutex' = w /\ Goto(w, "unsubscribe")
        BY <1>13, <2>2 DEF removeSession, Removed, Destroyed, Goto, MustRemove, sessionVars,
           pageVars, timerVars, threadVars, TypeOK, Thread, Labels
    <2> QED BY <1>13, <2>1, <2>2, RemovalSubscribesNot
<1>14. ASSUME NEW r \in Reporter, NEW b \in Batches, change(r, b) PROVE TypeOK'
    <2>1. b \subseteq Container /\ r \in Thread
        BY DEF Thread
    <2>2. stale' \in [Session -> SUBSET Container]
        BY <1>14, <2>1 DEF change, TypeOK
    <2>3. got' \in [Thread -> SUBSET Container]
        BY <1>14, <2>1 DEF change, TypeOK
    <2>4. pc' \in [Thread -> Labels]
        BY <1>14, <2>1 DEF change, Goto, TypeOK, Labels
    <2>5. reports' \in 0 .. MaxReports
        <3>1. reports \in 0 .. MaxReports /\ reports < MaxReports /\ reports' = reports + 1
            BY <1>14 DEF change, TypeOK
        <3> QED BY <3>1, OneMore
    <2> QED BY <1>14, <2>2, <2>3, <2>4, <2>5 DEF change, sessionVars, timerVars, TypeOK
<1>15. ASSUME NEW r \in Reporter, containerChangedUI(r) PROVE TypeOK'
    <2>1. CASE Reported(r)
        BY <1>15, <2>1 DEF containerChangedUI, Reported, Goto, sessionVars, pageVars, timerVars,
           threadVars, TypeOK, Thread, Labels
    <2>2. CASE sessions # {} /\ Goto(r, "lock") /\ UNCHANGED got
        BY <1>15, <2>2 DEF containerChangedUI, Reported, Goto, sessionVars, pageVars, timerVars,
           threadVars, TypeOK, Thread, Labels
    <2> QED BY <1>15, <2>1, <2>2 DEF containerChangedUI, Reported, Goto
<1>16. ASSUME NEW r \in Reporter, lockAndTell(r) PROVE TypeOK'
    BY <1>16 DEF lockAndTell, Goto, sessionVars, pageVars, timerVars, threadVars, TypeOK, Thread,
       Labels
<1>17. ASSUME NEW r \in Reporter, NEW s \in Session, tell(r, s) PROVE TypeOK'
    <2>1. got[r] \subseteq Container /\ r \in Thread
        BY DEF TypeOK, Thread
    <2>2. uiUpdateIDs' \in [Session -> SUBSET Container]
        <3>1. PICK X : uiUpdateIDs' = [uiUpdateIDs EXCEPT ![s] = X]
                       /\ X \in {uiUpdateIDs[s], {}, uiUpdateIDs[s] \union got[r]}
            BY <1>17 DEF tell
        <3>2. uiUpdateIDs \in [Session -> SUBSET Container]
            BY DEF TypeOK
        <3>3. uiUpdateIDs[s] \subseteq Container
            BY <3>2
        <3>4. X \subseteq Container
            BY <2>1, <3>1, <3>3
        <3> QED BY <3>1, <3>2, <3>4
    <2>3. updateAll' \in [Session -> BOOLEAN]
        BY <1>17 DEF tell, TypeOK
    <2>4. toTell' \in [Thread -> SUBSET Session]
        BY <1>17, <2>1 DEF tell, TypeOK
    <2> QED BY <1>17, <2>2, <2>3, <2>4 DEF tell, pageVars, timerVars, TypeOK
<1>18. ASSUME NEW r \in Reporter, told(r) PROVE TypeOK'
    BY <1>18 DEF told, Reported, Goto, sessionVars, pageVars, timerVars, threadVars, TypeOK,
       Thread, Labels
<1>19. ASSUME NEW s \in Session, Elapse(s) PROVE TypeOK'
    BY <1>19 DEF Elapse, sessionVars, pageVars, timerVars, threadVars, TypeOK, Thread, Labels
<1>20. ASSUME TimerDue PROVE TypeOK'
    BY <1>20 DEF TimerDue, sessionVars, pageVars, timerVars, threadVars, TypeOK, Thread, Labels
<1>21. ASSUME triggerWait PROVE TypeOK'
    BY <1>21 DEF triggerWait, Goto, sessionVars, pageVars, timerVars, threadVars, TypeOK, Thread,
       Labels
<1>22. ASSUME timerNotify PROVE TypeOK'
    BY <1>22 DEF timerNotify, Goto, sessionVars, pageVars, timerVars, threadVars, TypeOK, Thread,
       Labels
<1>23. ASSUME NEW s \in Session, expire(s) PROVE TypeOK'
    <2>1. CASE ~Waits(s) /\ Destroyed(s)
        BY <1>23, <2>1 DEF expire, Expired, MustRemove, Waits, Destroyed, sessionVars, pageVars,
           timerVars, threadVars, TypeOK, Thread, Labels
    <2>2. CASE UNCHANGED <<sessionVars, idle, pageVars>>
        BY <1>23, <2>2 DEF expire, Expired, MustRemove, Waits, Destroyed, sessionVars, pageVars,
           timerVars, threadVars, TypeOK, Thread, Labels
    <2> QED BY <1>23, <2>1, <2>2 DEF expire, Expired, MustRemove
<1>24. ASSUME notified PROVE TypeOK'
    BY <1>24 DEF notified, Goto, sessionVars, pageVars, timerVars, threadVars, TypeOK, Thread,
       Labels
<1>25. CASE UNCHANGED vars
    BY <1>25 DEF vars, sessionVars, pageVars, timerVars, threadVars, TypeOK
<1> QED BY <1>1, <1>2, <1>3, <1>4, <1>5, <1>6, <1>7, <1>8, <1>9, <1>10, <1>11, <1>12, <1>13,
       <1>14, <1>15, <1>16, <1>17, <1>18, <1>19, <1>20, <1>21, <1>22, <1>23, <1>24, <1>25 DEF
       Next, Request, Serve, Report, Tick

\* A thread takes the mutex only when nobody has it.
LEMMA LocksStep ==
    ASSUME TypeOK, TimerInv, Locks, [Next]_vars
    PROVE  Locks'
<1>1. ASSUME NEW w \in Web, NEW s \in Session, createSession(w, s) PROVE Locks'
    <2>1. CASE mutex' = w /\ Goto(w, "subscribe")
        <3>1. /\ \A v \in Web \ {w} : pc'[v] = pc[v] /\ mutex # v
              /\ \A r \in Reporter : pc'[r] = pc[r] /\ mutex # r
              /\ pc'[w] = "subscribe" /\ pc'[Main] = pc[Main] /\ mutex # Main
            BY <1>1, <2>1 DEF createSession, Goto, TypeOK, Thread
        <3> QED BY <2>1, <3>1 DEF Locks
    <2>2. CASE UNCHANGED mutex /\ Goto(w, "logIn")
        BY <1>1, <2>2 DEF createSession, Goto, TypeOK, Thread, Labels, Locks
    <2> QED BY <1>1, <2>1, <2>2 DEF createSession, checkTimer, MustRemove
<1>2. ASSUME NEW w \in Web, NEW s \in Session, getSid(w, s) PROVE Locks'
    BY <1>2 DEF getSid, Goto, TypeOK, Thread, Labels, Locks
<1>3. ASSUME NEW w \in Web, NEW s \in Session, checkRequest(w, s) PROVE Locks'
    BY <1>3 DEF checkRequest, Goto, TypeOK, Thread, Labels, Locks
<1>4. ASSUME NEW w \in Web, addTimerSubscriber(w) PROVE Locks'
    BY <1>4 DEF addTimerSubscriber, Subscribed, Goto, TypeOK, Thread, Labels, Locks
<1>5. ASSUME NEW w \in Web, removeTimerSubscriber(w) PROVE Locks'
    BY <1>5 DEF removeTimerSubscriber, Subscribed, Goto, TypeOK, Thread, Labels, Locks
<1>6. ASSUME NEW w \in Web, clearUpdateIDs(w) PROVE Locks'
    BY <1>6 DEF clearUpdateIDs, Goto, TypeOK, Thread, Labels, Locks
<1>7. ASSUME NEW w \in Web, logIn(w) PROVE Locks'
    BY <1>7 DEF logIn, Goto, TypeOK, Thread, Labels, Locks
<1>8. ASSUME NEW w \in Web, show(w) PROVE Locks'
    BY <1>8 DEF show, Goto, TypeOK, Thread, Labels, Locks
<1>9. ASSUME NEW w \in Web, access(w) PROVE Locks'
    <2>1. CASE Goto(w, "has")
        BY <1>9, <2>1 DEF access, Goto, TypeOK, Thread, Labels, Locks
    <2>2. CASE Goto(w, "logout")
        BY <1>9, <2>2 DEF access, Goto, TypeOK, Thread, Labels, Locks
    <2> QED BY <1>9, <2>1, <2>2 DEF access, Goto
<1>10. ASSUME NEW w \in Web, hasUIUpdateIDs(w) PROVE Locks'
    <2>1. CASE Goto(w, "get") /\ UNCHANGED at
        BY <1>10, <2>1 DEF hasUIUpdateIDs, Goto, TypeOK, Thread, Labels, Locks
    <2>2. CASE Goto(w, "idle") /\ at' = [at EXCEPT ![w] = NoSession]
        BY <1>10, <2>2 DEF hasUIUpdateIDs, Goto, TypeOK, Thread, Labels, Locks
    <2> QED BY <1>10, <2>1, <2>2 DEF hasUIUpdateIDs, Goto
<1>11. ASSUME NEW w \in Web, getUIUpdateIDs(w) PROVE Locks'
    <2>1. CASE updateAll[at[w]]
        BY <1>11, <2>1 DEF getUIUpdateIDs, Goto, TypeOK, Thread, Labels, Locks
    <2>2. CASE ~updateAll[at[w]]
        BY <1>11, <2>2 DEF getUIUpdateIDs, Goto, TypeOK, Thread, Labels, Locks
    <2> QED BY <1>11, <2>1, <2>2 DEF getUIUpdateIDs, Goto
<1>12. ASSUME NEW w \in Web, reload(w) PROVE Locks'
    BY <1>12 DEF reload, Goto, TypeOK, Thread, Labels, Locks
<1>13. ASSUME NEW w \in Web, removeSession(w) PROVE Locks'
    <2>0. \/ UNCHANGED mutex /\ Goto(w, "idle")
          \/ mutex' = w /\ Goto(w, "unsubscribe")
        BY <1>13, RemovalSubscribesNot
    <2>1. /\ \A v \in Web \ {w} : pc'[v] = pc[v] /\ mutex # v
          /\ \A r \in Reporter : pc'[r] = pc[r] /\ mutex # r /\ r # w
          /\ pc'[Main] = pc[Main] /\ mutex # Main /\ w # Main /\ mutex # w
        <3>1. mutex = Nobody
            BY <1>13 DEF removeSession, Removed
        <3>2. \A t \in Thread \ {w} : pc'[t] = pc[t]
            BY <2>0 DEF Goto, TypeOK
        <3> QED BY <3>1, <3>2 DEF Thread
    <2>2. \/ mutex' = mutex /\ pc'[w] = "idle"
          \/ mutex' = w /\ pc'[w] = "unsubscribe"
        BY <2>0 DEF Goto, TypeOK, Thread
    <2>3. CASE mutex' = mutex /\ pc'[w] = "idle"
        BY <2>1, <2>3 DEF Locks
    <2>4. CASE mutex' = w /\ pc'[w] = "unsubscribe"
        BY <2>1, <2>4 DEF Locks
    <2> QED BY <2>2, <2>3, <2>4
<1>14. ASSUME NEW r \in Reporter, NEW b \in Batches, change(r, b) PROVE Locks'
    BY <1>14 DEF change, Goto, TypeOK, Thread, Labels, Locks
<1>15. ASSUME NEW r \in Reporter, containerChangedUI(r) PROVE Locks'
    <2>1. CASE Reported(r)
        BY <1>15, <2>1 DEF containerChangedUI, Reported, Goto, TypeOK, Thread, Labels, Locks
    <2>2. CASE sessions # {} /\ Goto(r, "lock") /\ UNCHANGED got
        BY <1>15, <2>2 DEF containerChangedUI, Reported, Goto, TypeOK, Thread, Labels, Locks
    <2> QED BY <1>15, <2>1, <2>2 DEF containerChangedUI, Reported, Goto
<1>16. ASSUME NEW r \in Reporter, lockAndTell(r) PROVE Locks'
    <2>1. /\ \A w \in Web : pc'[w] = pc[w] /\ mutex # w /\ w # r
          /\ \A q \in Reporter \ {r} : pc'[q] = pc[q] /\ mutex # q
          /\ pc'[r] = "tell" /\ pc'[Main] = pc[Main] /\ mutex # Main /\ mutex' = r
        BY <1>16 DEF lockAndTell, Goto, TypeOK, Thread
    <2> QED BY <2>1 DEF Locks
<1>17. ASSUME NEW r \in Reporter, NEW s \in Session, tell(r, s) PROVE Locks'
    BY <1>17 DEF tell, TypeOK, Thread, Labels, Locks
<1>18. ASSUME NEW r \in Reporter, told(r) PROVE Locks'
    BY <1>18 DEF told, Reported, Goto, TypeOK, Thread, Labels, Locks
<1>19. ASSUME NEW s \in Session, Elapse(s) PROVE Locks'
    BY <1>19 DEF Elapse, TypeOK, Thread, Labels, Locks
<1>20. ASSUME TimerDue PROVE Locks'
    BY <1>20 DEF TimerDue, TypeOK, Thread, Labels, Locks
<1>21. ASSUME triggerWait PROVE Locks'
    BY <1>21 DEF triggerWait, Goto, TypeOK, Thread, Labels, Locks
<1>22. ASSUME timerNotify PROVE Locks'
    <2>1. /\ \A w \in Web : pc'[w] = pc[w] /\ mutex # w /\ w # Main
          /\ \A r \in Reporter : pc'[r] = pc[r] /\ mutex # r /\ r # Main
          /\ pc'[Main] = "expire" /\ mutex' = Main
        BY <1>22 DEF timerNotify, Goto, TypeOK, Thread
    <2> QED BY <2>1 DEF Locks
<1>23. ASSUME NEW s \in Session, expire(s) PROVE Locks'
    <2>1. CASE ~Waits(s) /\ Destroyed(s)
        BY <1>23, <2>1 DEF expire, Expired, MustRemove, Waits, Destroyed, TypeOK, Thread, Labels,
           Locks
    <2>2. CASE UNCHANGED <<sessionVars, idle, pageVars>>
        BY <1>23, <2>2 DEF expire, Expired, MustRemove, Waits, Destroyed, TypeOK, Thread, Labels,
           Locks
    <2> QED BY <1>23, <2>1, <2>2 DEF expire, Expired, MustRemove
<1>24. ASSUME notified PROVE Locks'
    BY <1>24 DEF notified, Goto, TypeOK, Thread, Labels, Locks
<1>25. CASE UNCHANGED vars
    BY <1>25 DEF vars, sessionVars, pageVars, timerVars, threadVars, TypeOK, Locks
<1> QED BY <1>1, <1>2, <1>3, <1>4, <1>5, <1>6, <1>7, <1>8, <1>9, <1>10, <1>11, <1>12, <1>13,
       <1>14, <1>15, <1>16, <1>17, <1>18, <1>19, <1>20, <1>21, <1>22, <1>23, <1>24, <1>25 DEF
       Next, Request, Serve, Report, Tick

\* Sessions come and go with the mutex held, until the Timer knows.
LEMMA TimerStep ==
    ASSUME TypeOK, Locks, TimerInv, [Next]_vars
    PROVE  TimerInv'
<1>1. ASSUME NEW w \in Web, NEW s \in Session, createSession(w, s) PROVE TimerInv'
    <2>1. CASE MustAdd(sessions') /\ mutex' = w /\ Goto(w, "subscribe")
        BY <1>1, <2>1 DEF createSession, Goto, MustAdd, timerVars, TypeOK, Thread, Labels, Locks,
           TimerInv
    <2>2. CASE ~MustAdd(sessions') /\ UNCHANGED mutex /\ Goto(w, "logIn")
        BY <1>1, <2>2 DEF createSession, Goto, MustAdd, timerVars, TypeOK, Thread, Labels, Locks,
           TimerInv
    <2> QED BY <1>1, <2>1, <2>2 DEF createSession, Goto, checkTimer, MustRemove
<1>2. ASSUME NEW w \in Web, NEW s \in Session, getSid(w, s) PROVE TimerInv'
    BY <1>2 DEF getSid, Goto, timerVars, TypeOK, Thread, Labels, Locks, TimerInv
<1>3. ASSUME NEW w \in Web, NEW s \in Session, checkRequest(w, s) PROVE TimerInv'
    BY <1>3 DEF checkRequest, Goto, timerVars, TypeOK, Thread, Labels, Locks, TimerInv
<1>4. ASSUME NEW w \in Web, addTimerSubscriber(w) PROVE TimerInv'
    BY <1>4 DEF addTimerSubscriber, Subscribed, Goto, timerVars, TypeOK, Thread, Labels, Locks,
       TimerInv
<1>5. ASSUME NEW w \in Web, removeTimerSubscriber(w) PROVE TimerInv'
    BY <1>5 DEF removeTimerSubscriber, Subscribed, Goto, timerVars, TypeOK, Thread, Labels, Locks,
       TimerInv
<1>6. ASSUME NEW w \in Web, clearUpdateIDs(w) PROVE TimerInv'
    BY <1>6 DEF clearUpdateIDs, Goto, timerVars, TypeOK, Thread, Labels, Locks, TimerInv
<1>7. ASSUME NEW w \in Web, logIn(w) PROVE TimerInv'
    BY <1>7 DEF logIn, Goto, timerVars, TypeOK, Thread, Labels, Locks, TimerInv
<1>8. ASSUME NEW w \in Web, show(w) PROVE TimerInv'
    BY <1>8 DEF show, Goto, timerVars, TypeOK, Thread, Labels, Locks, TimerInv
<1>9. ASSUME NEW w \in Web, access(w) PROVE TimerInv'
    <2>1. CASE Goto(w, "has")
        BY <1>9, <2>1 DEF access, Goto, timerVars, TypeOK, Thread, Labels, Locks, TimerInv
    <2>2. CASE Goto(w, "logout")
        BY <1>9, <2>2 DEF access, Goto, timerVars, TypeOK, Thread, Labels, Locks, TimerInv
    <2> QED BY <1>9, <2>1, <2>2 DEF access, Goto
<1>10. ASSUME NEW w \in Web, hasUIUpdateIDs(w) PROVE TimerInv'
    <2>1. CASE Goto(w, "get") /\ UNCHANGED at
        BY <1>10, <2>1 DEF hasUIUpdateIDs, Goto, timerVars, TypeOK, Thread, Labels, Locks, TimerInv
    <2>2. CASE Goto(w, "idle") /\ at' = [at EXCEPT ![w] = NoSession]
        BY <1>10, <2>2 DEF hasUIUpdateIDs, Goto, timerVars, TypeOK, Thread, Labels, Locks, TimerInv
    <2> QED BY <1>10, <2>1, <2>2 DEF hasUIUpdateIDs, Goto
<1>11. ASSUME NEW w \in Web, getUIUpdateIDs(w) PROVE TimerInv'
    <2>1. CASE updateAll[at[w]]
        BY <1>11, <2>1 DEF getUIUpdateIDs, Goto, timerVars, TypeOK, Thread, Labels, Locks, TimerInv
    <2>2. CASE ~updateAll[at[w]]
        BY <1>11, <2>2 DEF getUIUpdateIDs, Goto, timerVars, TypeOK, Thread, Labels, Locks, TimerInv
    <2> QED BY <1>11, <2>1, <2>2 DEF getUIUpdateIDs, Goto
<1>12. ASSUME NEW w \in Web, reload(w) PROVE TimerInv'
    BY <1>12 DEF reload, Goto, timerVars, TypeOK, Thread, Labels, Locks, TimerInv
<1>13. ASSUME NEW w \in Web, removeSession(w) PROVE TimerInv'
    <2>1. CASE UNCHANGED mutex /\ Goto(w, "idle") /\ at[w] \notin sessions
        <3>1. sessions' = sessions
            BY <1>13, <2>1 DEF removeSession, Removed
        <3> QED BY <1>13, <2>1, <3>1
                DEF removeSession, Removed, Goto, timerVars, TypeOK, Thread, Labels, Locks, TimerInv
    <2>2. CASE UNCHANGED mutex /\ Goto(w, "idle") /\ at[w] \in sessions /\ ~MustRemove(sessions')
        BY <1>13, <2>2 DEF removeSession, Removed, Goto, MustRemove, timerVars, TypeOK, Thread,
                           Labels, Locks, TimerInv
    <2>3. CASE MustRemove(sessions') /\ mutex' = w /\ Goto(w, "unsubscribe")
        BY <1>13, <2>3 DEF removeSession, Removed, Goto, MustRemove, timerVars, TypeOK, Thread,
                           Labels, Locks, TimerInv
    <2> QED BY <1>13, <2>1, <2>2, <2>3, RemovalSubscribesNot
<1>14. ASSUME NEW r \in Reporter, NEW b \in Batches, change(r, b) PROVE TimerInv'
    BY <1>14 DEF change, Goto, timerVars, TypeOK, Thread, Labels, Locks, TimerInv
<1>15. ASSUME NEW r \in Reporter, containerChangedUI(r) PROVE TimerInv'
    <2>1. CASE Reported(r)
        BY <1>15, <2>1 DEF containerChangedUI, Reported, Goto, timerVars, TypeOK, Thread, Labels,
           Locks, TimerInv
    <2>2. CASE sessions # {} /\ Goto(r, "lock") /\ UNCHANGED got
        BY <1>15, <2>2 DEF containerChangedUI, Reported, Goto, timerVars, TypeOK, Thread, Labels,
           Locks, TimerInv
    <2> QED BY <1>15, <2>1, <2>2 DEF containerChangedUI, Reported, Goto
<1>16. ASSUME NEW r \in Reporter, lockAndTell(r) PROVE TimerInv'
    BY <1>16 DEF lockAndTell, Goto, timerVars, TypeOK, Thread, Labels, Locks, TimerInv
<1>17. ASSUME NEW r \in Reporter, NEW s \in Session, tell(r, s) PROVE TimerInv'
    BY <1>17 DEF tell, timerVars, TypeOK, Thread, Labels, Locks, TimerInv
<1>18. ASSUME NEW r \in Reporter, told(r) PROVE TimerInv'
    BY <1>18 DEF told, Reported, Goto, timerVars, TypeOK, Thread, Labels, Locks, TimerInv
<1>19. ASSUME NEW s \in Session, Elapse(s) PROVE TimerInv'
    BY <1>19 DEF Elapse, timerVars, TypeOK, Thread, Labels, Locks, TimerInv
<1>20. ASSUME TimerDue PROVE TimerInv'
    BY <1>20 DEF TimerDue, timerVars, TypeOK, Thread, Labels, Locks, TimerInv
<1>21. ASSUME triggerWait PROVE TimerInv'
    BY <1>21 DEF triggerWait, Goto, timerVars, TypeOK, Thread, Labels, Locks, TimerInv
<1>22. ASSUME timerNotify PROVE TimerInv'
    BY <1>22 DEF timerNotify, Goto, timerVars, TypeOK, Thread, Labels, Locks, TimerInv
<1>23. ASSUME NEW s \in Session, expire(s) PROVE TimerInv'
    <2>1. CASE ~Waits(s) /\ Destroyed(s)
        BY <1>23, <2>1 DEF expire, Expired, MustRemove, Waits, Destroyed, timerVars, TypeOK,
           Thread, Labels, Locks, TimerInv
    <2>2. CASE UNCHANGED <<sessionVars, idle, pageVars>>
        BY <1>23, <2>2 DEF expire, Expired, MustRemove, Waits, Destroyed, timerVars, TypeOK,
           Thread, Labels, Locks, TimerInv
    <2> QED BY <1>23, <2>1, <2>2 DEF expire, Expired, MustRemove
<1>24. ASSUME notified PROVE TimerInv'
    BY <1>24 DEF notified, Goto, timerVars, TypeOK, Thread, Labels, Locks, TimerInv
<1>25. CASE UNCHANGED vars
    BY <1>25 DEF vars, sessionVars, pageVars, timerVars, threadVars, TypeOK, Locks, TimerInv
<1> QED BY <1>1, <1>2, <1>3, <1>4, <1>5, <1>6, <1>7, <1>8, <1>9, <1>10, <1>11, <1>12, <1>13,
       <1>14, <1>15, <1>16, <1>17, <1>18, <1>19, <1>20, <1>21, <1>22, <1>23, <1>24, <1>25 DEF
       Next, Request, Serve, Report, Tick

\* A session id that has not been generated is nowhere.
LEMMA UnusedInvStep ==
    ASSUME TypeOK, TimerInv, PagesInv, [Next]_vars
    PROVE  UnusedInv'
<1>1. ASSUME NEW w \in Web, NEW s \in Session, createSession(w, s) PROVE UnusedInv'
    <2>1. CASE MustAdd(sessions') /\ mutex' = w /\ Goto(w, "subscribe")
        BY <1>1, <2>1 DEF createSession, MustAdd, pageVars, threadVars, TypeOK, Thread, PagesInv,
           UnusedInv
    <2>2. CASE ~MustAdd(sessions') /\ UNCHANGED mutex /\ Goto(w, "logIn")
        BY <1>1, <2>2 DEF createSession, MustAdd, pageVars, threadVars, TypeOK, Thread, PagesInv,
           UnusedInv
    <2> QED BY <1>1, <2>1, <2>2 DEF createSession, checkTimer, MustRemove
<1>2. ASSUME NEW w \in Web, NEW s \in Session, getSid(w, s) PROVE UnusedInv'
    BY <1>2 DEF getSid, pageVars, threadVars, TypeOK, Thread, PagesInv, UnusedInv
<1>3. ASSUME NEW w \in Web, NEW s \in Session, checkRequest(w, s) PROVE UnusedInv'
    BY <1>3 DEF checkRequest, pageVars, threadVars, TypeOK, Thread, PagesInv, UnusedInv
<1>4. ASSUME NEW w \in Web, addTimerSubscriber(w) PROVE UnusedInv'
    BY <1>4 DEF addTimerSubscriber, Subscribed, pageVars, threadVars, TypeOK, Thread, PagesInv,
       UnusedInv
<1>5. ASSUME NEW w \in Web, removeTimerSubscriber(w) PROVE UnusedInv'
    BY <1>5 DEF removeTimerSubscriber, Subscribed, pageVars, threadVars, TypeOK, Thread, PagesInv,
       UnusedInv
<1>6. ASSUME NEW w \in Web, clearUpdateIDs(w) PROVE UnusedInv'
    BY <1>6 DEF clearUpdateIDs, pageVars, threadVars, TypeOK, Thread, PagesInv, UnusedInv
<1>7. ASSUME NEW w \in Web, logIn(w) PROVE UnusedInv'
    BY <1>7 DEF logIn, pageVars, threadVars, TypeOK, Thread, PagesInv, UnusedInv
<1>8. ASSUME NEW w \in Web, show(w) PROVE UnusedInv'
    BY <1>8 DEF show, pageVars, threadVars, TypeOK, Thread, PagesInv, UnusedInv
<1>9. ASSUME NEW w \in Web, access(w) PROVE UnusedInv'
    <2>1. CASE Goto(w, "has")
        BY <1>9, <2>1 DEF access, pageVars, threadVars, TypeOK, Thread, PagesInv, UnusedInv
    <2>2. CASE Goto(w, "logout")
        BY <1>9, <2>2 DEF access, pageVars, threadVars, TypeOK, Thread, PagesInv, UnusedInv
    <2> QED BY <1>9, <2>1, <2>2 DEF access
<1>10. ASSUME NEW w \in Web, hasUIUpdateIDs(w) PROVE UnusedInv'
    <2>1. CASE Goto(w, "get") /\ UNCHANGED at
        BY <1>10, <2>1 DEF hasUIUpdateIDs, pageVars, threadVars, TypeOK, Thread, PagesInv, UnusedInv
    <2>2. CASE Goto(w, "idle") /\ at' = [at EXCEPT ![w] = NoSession]
        BY <1>10, <2>2 DEF hasUIUpdateIDs, pageVars, threadVars, TypeOK, Thread, PagesInv, UnusedInv
    <2> QED BY <1>10, <2>1, <2>2 DEF hasUIUpdateIDs
<1>11. ASSUME NEW w \in Web, getUIUpdateIDs(w) PROVE UnusedInv'
    <2>1. CASE updateAll[at[w]]
        BY <1>11, <2>1 DEF getUIUpdateIDs, pageVars, threadVars, TypeOK, Thread, PagesInv, UnusedInv
    <2>2. CASE ~updateAll[at[w]]
        BY <1>11, <2>2 DEF getUIUpdateIDs, pageVars, threadVars, TypeOK, Thread, PagesInv, UnusedInv
    <2> QED BY <1>11, <2>1, <2>2 DEF getUIUpdateIDs
<1>12. ASSUME NEW w \in Web, reload(w) PROVE UnusedInv'
    BY <1>12 DEF reload, pageVars, threadVars, TypeOK, Thread, PagesInv, UnusedInv
<1>13. ASSUME NEW w \in Web, removeSession(w) PROVE UnusedInv'
    <2>1. ASSUME NEW s \in unused
          PROVE  s \notin sessions' /\ ~shown'[s] /\ \A v \in Web : at'[v] # s
        <3>1. /\ s \in Session /\ s # NoSession /\ s \notin sessions /\ ~shown[s]
              /\ \A v \in Web : at[v] # s
            BY <2>1 DEF TypeOK, PagesInv, UnusedInv
        <3>2. s \notin sessions' /\ ~shown'[s]
            BY <1>13, <3>1 DEF removeSession, Removed, Destroyed, TypeOK
        <3>3. \A v \in Web : at'[v] # s
            BY <1>13, <3>1 DEF removeSession, Removed, TypeOK, Thread
        <3> QED BY <3>2, <3>3
    <2>2. unused' = unused
        BY <1>13 DEF removeSession, Removed
    <2> QED BY <2>1, <2>2 DEF UnusedInv
<1>14. ASSUME NEW r \in Reporter, NEW b \in Batches, change(r, b) PROVE UnusedInv'
    BY <1>14 DEF change, pageVars, threadVars, TypeOK, Thread, PagesInv, UnusedInv
<1>15. ASSUME NEW r \in Reporter, containerChangedUI(r) PROVE UnusedInv'
    <2>1. CASE Reported(r)
        BY <1>15, <2>1 DEF containerChangedUI, Reported, pageVars, threadVars, TypeOK, Thread,
           PagesInv, UnusedInv
    <2>2. CASE sessions # {} /\ Goto(r, "lock") /\ UNCHANGED got
        BY <1>15, <2>2 DEF containerChangedUI, Reported, pageVars, threadVars, TypeOK, Thread,
           PagesInv, UnusedInv
    <2> QED BY <1>15, <2>1, <2>2 DEF containerChangedUI, Reported
<1>16. ASSUME NEW r \in Reporter, lockAndTell(r) PROVE UnusedInv'
    BY <1>16 DEF lockAndTell, pageVars, threadVars, TypeOK, Thread, PagesInv, UnusedInv
<1>17. ASSUME NEW r \in Reporter, NEW s \in Session, tell(r, s) PROVE UnusedInv'
    BY <1>17 DEF tell, pageVars, threadVars, TypeOK, Thread, PagesInv, UnusedInv
<1>18. ASSUME NEW r \in Reporter, told(r) PROVE UnusedInv'
    BY <1>18 DEF told, Reported, pageVars, threadVars, TypeOK, Thread, PagesInv, UnusedInv
<1>19. ASSUME NEW s \in Session, Elapse(s) PROVE UnusedInv'
    BY <1>19 DEF Elapse, pageVars, threadVars, TypeOK, Thread, PagesInv, UnusedInv
<1>20. ASSUME TimerDue PROVE UnusedInv'
    BY <1>20 DEF TimerDue, pageVars, threadVars, TypeOK, Thread, PagesInv, UnusedInv
<1>21. ASSUME triggerWait PROVE UnusedInv'
    BY <1>21 DEF triggerWait, pageVars, threadVars, TypeOK, Thread, PagesInv, UnusedInv
<1>22. ASSUME timerNotify PROVE UnusedInv'
    BY <1>22 DEF timerNotify, pageVars, threadVars, TypeOK, Thread, PagesInv, UnusedInv
<1>23. ASSUME NEW s \in Session, expire(s) PROVE UnusedInv'
    <2>1. CASE ~Waits(s) /\ Destroyed(s)
        BY <1>23, <2>1 DEF expire, Expired, MustRemove, Waits, Destroyed, pageVars, threadVars,
           TypeOK, Thread, PagesInv, UnusedInv
    <2>2. CASE UNCHANGED <<sessionVars, idle, pageVars>>
        BY <1>23, <2>2 DEF expire, Expired, MustRemove, Waits, Destroyed, pageVars, threadVars,
           TypeOK, Thread, PagesInv, UnusedInv
    <2> QED BY <1>23, <2>1, <2>2 DEF expire, Expired, MustRemove
<1>24. ASSUME notified PROVE UnusedInv'
    BY <1>24 DEF notified, pageVars, threadVars, TypeOK, Thread, PagesInv, UnusedInv
<1>25. CASE UNCHANGED vars
    BY <1>25 DEF vars, sessionVars, pageVars, timerVars, threadVars, TypeOK, PagesInv, UnusedInv
<1> QED BY <1>1, <1>2, <1>3, <1>4, <1>5, <1>6, <1>7, <1>8, <1>9, <1>10, <1>11, <1>12, <1>13,
       <1>14, <1>15, <1>16, <1>17, <1>18, <1>19, <1>20, <1>21, <1>22, <1>23, <1>24, <1>25 DEF
       Next, Request, Serve, Report, Tick

\* A page has one request at a time.
LEMMA OneEachStep ==
    ASSUME TypeOK, TimerInv, PagesInv, [Next]_vars
    PROVE  OneEach'
<1>1. ASSUME NEW w \in Web, NEW s \in Session, createSession(w, s) PROVE OneEach'
    <2>1. CASE MustAdd(sessions') /\ mutex' = w /\ Goto(w, "subscribe")
        BY <1>1, <2>1 DEF createSession, MustAdd, threadVars, TypeOK, Thread, PagesInv, UnusedInv,
           OneEach
    <2>2. CASE ~MustAdd(sessions') /\ UNCHANGED mutex /\ Goto(w, "logIn")
        BY <1>1, <2>2 DEF createSession, MustAdd, threadVars, TypeOK, Thread, PagesInv, UnusedInv,
           OneEach
    <2> QED BY <1>1, <2>1, <2>2 DEF createSession, checkTimer, MustRemove
<1>2. ASSUME NEW w \in Web, NEW s \in Session, getSid(w, s) PROVE OneEach'
    BY <1>2 DEF getSid, Waits, threadVars, TypeOK, Thread, PagesInv, UnusedInv, OneEach
<1>3. ASSUME NEW w \in Web, NEW s \in Session, checkRequest(w, s) PROVE OneEach'
    BY <1>3 DEF checkRequest, Waits, threadVars, TypeOK, Thread, PagesInv, UnusedInv, OneEach
<1>4. ASSUME NEW w \in Web, addTimerSubscriber(w) PROVE OneEach'
    BY <1>4 DEF addTimerSubscriber, Subscribed, threadVars, TypeOK, Thread, PagesInv, UnusedInv,
       OneEach
<1>5. ASSUME NEW w \in Web, removeTimerSubscriber(w) PROVE OneEach'
    BY <1>5 DEF removeTimerSubscriber, Subscribed, threadVars, TypeOK, Thread, PagesInv,
       UnusedInv, OneEach
<1>6. ASSUME NEW w \in Web, clearUpdateIDs(w) PROVE OneEach'
    BY <1>6 DEF clearUpdateIDs, threadVars, TypeOK, Thread, PagesInv, UnusedInv, OneEach
<1>7. ASSUME NEW w \in Web, logIn(w) PROVE OneEach'
    BY <1>7 DEF logIn, threadVars, TypeOK, Thread, PagesInv, UnusedInv, OneEach
<1>8. ASSUME NEW w \in Web, show(w) PROVE OneEach'
    BY <1>8 DEF show, threadVars, TypeOK, Thread, PagesInv, UnusedInv, OneEach
<1>9. ASSUME NEW w \in Web, access(w) PROVE OneEach'
    <2>1. CASE Goto(w, "has")
        BY <1>9, <2>1 DEF access, threadVars, TypeOK, Thread, PagesInv, UnusedInv, OneEach
    <2>2. CASE Goto(w, "logout")
        BY <1>9, <2>2 DEF access, threadVars, TypeOK, Thread, PagesInv, UnusedInv, OneEach
    <2> QED BY <1>9, <2>1, <2>2 DEF access
<1>10. ASSUME NEW w \in Web, hasUIUpdateIDs(w) PROVE OneEach'
    <2>1. CASE Goto(w, "get") /\ UNCHANGED at
        BY <1>10, <2>1 DEF hasUIUpdateIDs, threadVars, TypeOK, Thread, PagesInv, UnusedInv, OneEach
    <2>2. CASE Goto(w, "idle") /\ at' = [at EXCEPT ![w] = NoSession]
        BY <1>10, <2>2 DEF hasUIUpdateIDs, threadVars, TypeOK, Thread, PagesInv, UnusedInv, OneEach
    <2> QED BY <1>10, <2>1, <2>2 DEF hasUIUpdateIDs
<1>11. ASSUME NEW w \in Web, getUIUpdateIDs(w) PROVE OneEach'
    <2>1. CASE updateAll[at[w]]
        BY <1>11, <2>1 DEF getUIUpdateIDs, threadVars, TypeOK, Thread, PagesInv, UnusedInv, OneEach
    <2>2. CASE ~updateAll[at[w]]
        BY <1>11, <2>2 DEF getUIUpdateIDs, threadVars, TypeOK, Thread, PagesInv, UnusedInv, OneEach
    <2> QED BY <1>11, <2>1, <2>2 DEF getUIUpdateIDs
<1>12. ASSUME NEW w \in Web, reload(w) PROVE OneEach'
    BY <1>12 DEF reload, threadVars, TypeOK, Thread, PagesInv, UnusedInv, OneEach
<1>13. ASSUME NEW w \in Web, removeSession(w) PROVE OneEach'
    <2>1. CASE UNCHANGED mutex /\ Goto(w, "idle")
        BY <1>13, <2>1 DEF removeSession, Removed, MustRemove, threadVars, TypeOK, Thread,
           PagesInv, UnusedInv, OneEach
    <2>2. CASE MustRemove(sessions') /\ mutex' = w /\ Goto(w, "unsubscribe")
        BY <1>13, <2>2 DEF removeSession, Removed, MustRemove, threadVars, TypeOK, Thread,
           PagesInv, UnusedInv, OneEach
    <2> QED BY <1>13, <2>1, <2>2, RemovalSubscribesNot
<1>14. ASSUME NEW r \in Reporter, NEW b \in Batches, change(r, b) PROVE OneEach'
    BY <1>14 DEF change, threadVars, TypeOK, Thread, PagesInv, UnusedInv, OneEach
<1>15. ASSUME NEW r \in Reporter, containerChangedUI(r) PROVE OneEach'
    <2>1. CASE Reported(r)
        BY <1>15, <2>1 DEF containerChangedUI, Reported, threadVars, TypeOK, Thread, PagesInv,
           UnusedInv, OneEach
    <2>2. CASE sessions # {} /\ Goto(r, "lock") /\ UNCHANGED got
        BY <1>15, <2>2 DEF containerChangedUI, Reported, threadVars, TypeOK, Thread, PagesInv,
           UnusedInv, OneEach
    <2> QED BY <1>15, <2>1, <2>2 DEF containerChangedUI, Reported
<1>16. ASSUME NEW r \in Reporter, lockAndTell(r) PROVE OneEach'
    BY <1>16 DEF lockAndTell, threadVars, TypeOK, Thread, PagesInv, UnusedInv, OneEach
<1>17. ASSUME NEW r \in Reporter, NEW s \in Session, tell(r, s) PROVE OneEach'
    BY <1>17 DEF tell, threadVars, TypeOK, Thread, PagesInv, UnusedInv, OneEach
<1>18. ASSUME NEW r \in Reporter, told(r) PROVE OneEach'
    BY <1>18 DEF told, Reported, threadVars, TypeOK, Thread, PagesInv, UnusedInv, OneEach
<1>19. ASSUME NEW s \in Session, Elapse(s) PROVE OneEach'
    BY <1>19 DEF Elapse, threadVars, TypeOK, Thread, PagesInv, UnusedInv, OneEach
<1>20. ASSUME TimerDue PROVE OneEach'
    BY <1>20 DEF TimerDue, threadVars, TypeOK, Thread, PagesInv, UnusedInv, OneEach
<1>21. ASSUME triggerWait PROVE OneEach'
    BY <1>21 DEF triggerWait, threadVars, TypeOK, Thread, PagesInv, UnusedInv, OneEach
<1>22. ASSUME timerNotify PROVE OneEach'
    BY <1>22 DEF timerNotify, threadVars, TypeOK, Thread, PagesInv, UnusedInv, OneEach
<1>23. ASSUME NEW s \in Session, expire(s) PROVE OneEach'
    <2>1. CASE ~Waits(s) /\ Destroyed(s)
        BY <1>23, <2>1 DEF expire, Expired, MustRemove, Waits, Destroyed, threadVars, TypeOK,
           Thread, PagesInv, UnusedInv, OneEach
    <2>2. CASE UNCHANGED <<sessionVars, idle, pageVars>>
        BY <1>23, <2>2 DEF expire, Expired, MustRemove, Waits, Destroyed, threadVars, TypeOK,
           Thread, PagesInv, UnusedInv, OneEach
    <2> QED BY <1>23, <2>1, <2>2 DEF expire, Expired, MustRemove
<1>24. ASSUME notified PROVE OneEach'
    BY <1>24 DEF notified, threadVars, TypeOK, Thread, PagesInv, UnusedInv, OneEach
<1>25. CASE UNCHANGED vars
    BY <1>25 DEF vars, sessionVars, pageVars, timerVars, threadVars, TypeOK, PagesInv, UnusedInv,
       OneEach
<1> QED BY <1>1, <1>2, <1>3, <1>4, <1>5, <1>6, <1>7, <1>8, <1>9, <1>10, <1>11, <1>12, <1>13,
       <1>14, <1>15, <1>16, <1>17, <1>18, <1>19, <1>20, <1>21, <1>22, <1>23, <1>24, <1>25 DEF
       Next, Request, Serve, Report, Tick

\* A request that is served is about a session.
LEMMA AtInvStep ==
    ASSUME TypeOK, TimerInv, PagesInv, [Next]_vars
    PROVE  AtInv'
<1>1. ASSUME NEW w \in Web, NEW s \in Session, createSession(w, s) PROVE AtInv'
    <2>1. CASE MustAdd(sessions') /\ mutex' = w /\ Goto(w, "subscribe")
        BY <1>1, <2>1 DEF createSession, Goto, MustAdd, threadVars, TypeOK, Thread, Labels,
           PagesInv, AtInv
    <2>2. CASE ~MustAdd(sessions') /\ UNCHANGED mutex /\ Goto(w, "logIn")
        BY <1>1, <2>2 DEF createSession, Goto, MustAdd, threadVars, TypeOK, Thread, Labels,
           PagesInv, AtInv
    <2> QED BY <1>1, <2>1, <2>2 DEF createSession, Goto, checkTimer, MustRemove
<1>2. ASSUME NEW w \in Web, NEW s \in Session, getSid(w, s) PROVE AtInv'
    BY <1>2 DEF getSid, Goto, threadVars, TypeOK, Thread, Labels, PagesInv, AtInv
<1>3. ASSUME NEW w \in Web, NEW s \in Session, checkRequest(w, s) PROVE AtInv'
    BY <1>3 DEF checkRequest, Goto, threadVars, TypeOK, Thread, Labels, PagesInv, AtInv
<1>4. ASSUME NEW w \in Web, addTimerSubscriber(w) PROVE AtInv'
    BY <1>4 DEF addTimerSubscriber, Subscribed, Goto, threadVars, TypeOK, Thread, Labels,
       PagesInv, AtInv
<1>5. ASSUME NEW w \in Web, removeTimerSubscriber(w) PROVE AtInv'
    BY <1>5 DEF removeTimerSubscriber, Subscribed, Goto, threadVars, TypeOK, Thread, Labels,
       PagesInv, AtInv
<1>6. ASSUME NEW w \in Web, clearUpdateIDs(w) PROVE AtInv'
    BY <1>6 DEF clearUpdateIDs, Goto, threadVars, TypeOK, Thread, Labels, PagesInv, AtInv
<1>7. ASSUME NEW w \in Web, logIn(w) PROVE AtInv'
    BY <1>7 DEF logIn, Goto, threadVars, TypeOK, Thread, Labels, PagesInv, AtInv
<1>8. ASSUME NEW w \in Web, show(w) PROVE AtInv'
    BY <1>8 DEF show, Goto, threadVars, TypeOK, Thread, Labels, PagesInv, AtInv
<1>9. ASSUME NEW w \in Web, access(w) PROVE AtInv'
    <2>1. CASE Goto(w, "has")
        BY <1>9, <2>1 DEF access, Goto, threadVars, TypeOK, Thread, Labels, PagesInv, AtInv
    <2>2. CASE Goto(w, "logout")
        BY <1>9, <2>2 DEF access, Goto, threadVars, TypeOK, Thread, Labels, PagesInv, AtInv
    <2> QED BY <1>9, <2>1, <2>2 DEF access, Goto
<1>10. ASSUME NEW w \in Web, hasUIUpdateIDs(w) PROVE AtInv'
    <2>1. CASE Goto(w, "get") /\ UNCHANGED at
        BY <1>10, <2>1 DEF hasUIUpdateIDs, Goto, threadVars, TypeOK, Thread, Labels, PagesInv, AtInv
    <2>2. CASE Goto(w, "idle") /\ at' = [at EXCEPT ![w] = NoSession]
        BY <1>10, <2>2 DEF hasUIUpdateIDs, Goto, threadVars, TypeOK, Thread, Labels, PagesInv, AtInv
    <2> QED BY <1>10, <2>1, <2>2 DEF hasUIUpdateIDs, Goto
<1>11. ASSUME NEW w \in Web, getUIUpdateIDs(w) PROVE AtInv'
    <2>1. CASE updateAll[at[w]]
        BY <1>11, <2>1 DEF getUIUpdateIDs, Goto, threadVars, TypeOK, Thread, Labels, PagesInv, AtInv
    <2>2. CASE ~updateAll[at[w]]
        BY <1>11, <2>2 DEF getUIUpdateIDs, Goto, threadVars, TypeOK, Thread, Labels, PagesInv, AtInv
    <2> QED BY <1>11, <2>1, <2>2 DEF getUIUpdateIDs, Goto
<1>12. ASSUME NEW w \in Web, reload(w) PROVE AtInv'
    BY <1>12 DEF reload, Goto, threadVars, TypeOK, Thread, Labels, PagesInv, AtInv
<1>13. ASSUME NEW w \in Web, removeSession(w) PROVE AtInv'
    <2>1. CASE UNCHANGED mutex /\ Goto(w, "idle")
        BY <1>13, <2>1 DEF removeSession, Removed, Goto, MustRemove, threadVars, TypeOK, Thread,
           Labels, PagesInv, AtInv
    <2>2. CASE MustRemove(sessions') /\ mutex' = w /\ Goto(w, "unsubscribe")
        BY <1>13, <2>2 DEF removeSession, Removed, Goto, MustRemove, threadVars, TypeOK, Thread,
           Labels, PagesInv, AtInv
    <2> QED BY <1>13, <2>1, <2>2, RemovalSubscribesNot
<1>14. ASSUME NEW r \in Reporter, NEW b \in Batches, change(r, b) PROVE AtInv'
    BY <1>14 DEF change, Goto, threadVars, TypeOK, Thread, Labels, PagesInv, AtInv
<1>15. ASSUME NEW r \in Reporter, containerChangedUI(r) PROVE AtInv'
    <2>1. CASE Reported(r)
        BY <1>15, <2>1 DEF containerChangedUI, Reported, Goto, threadVars, TypeOK, Thread, Labels,
           PagesInv, AtInv
    <2>2. CASE sessions # {} /\ Goto(r, "lock") /\ UNCHANGED got
        BY <1>15, <2>2 DEF containerChangedUI, Reported, Goto, threadVars, TypeOK, Thread, Labels,
           PagesInv, AtInv
    <2> QED BY <1>15, <2>1, <2>2 DEF containerChangedUI, Reported, Goto
<1>16. ASSUME NEW r \in Reporter, lockAndTell(r) PROVE AtInv'
    BY <1>16 DEF lockAndTell, Goto, threadVars, TypeOK, Thread, Labels, PagesInv, AtInv
<1>17. ASSUME NEW r \in Reporter, NEW s \in Session, tell(r, s) PROVE AtInv'
    BY <1>17 DEF tell, threadVars, TypeOK, Thread, Labels, PagesInv, AtInv
<1>18. ASSUME NEW r \in Reporter, told(r) PROVE AtInv'
    BY <1>18 DEF told, Reported, Goto, threadVars, TypeOK, Thread, Labels, PagesInv, AtInv
<1>19. ASSUME NEW s \in Session, Elapse(s) PROVE AtInv'
    BY <1>19 DEF Elapse, threadVars, TypeOK, Thread, Labels, PagesInv, AtInv
<1>20. ASSUME TimerDue PROVE AtInv'
    BY <1>20 DEF TimerDue, threadVars, TypeOK, Thread, Labels, PagesInv, AtInv
<1>21. ASSUME triggerWait PROVE AtInv'
    BY <1>21 DEF triggerWait, Goto, threadVars, TypeOK, Thread, Labels, PagesInv, AtInv
<1>22. ASSUME timerNotify PROVE AtInv'
    BY <1>22 DEF timerNotify, Goto, threadVars, TypeOK, Thread, Labels, PagesInv, AtInv
<1>23. ASSUME NEW s \in Session, expire(s) PROVE AtInv'
    <2>1. CASE ~Waits(s) /\ Destroyed(s)
        BY <1>23, <2>1 DEF expire, Expired, MustRemove, Waits, Destroyed, threadVars, TypeOK,
           Thread, Labels, PagesInv, AtInv
    <2>2. CASE UNCHANGED <<sessionVars, idle, pageVars>>
        BY <1>23, <2>2 DEF expire, Expired, MustRemove, Waits, Destroyed, threadVars, TypeOK,
           Thread, Labels, PagesInv, AtInv
    <2> QED BY <1>23, <2>1, <2>2 DEF expire, Expired, MustRemove
<1>24. ASSUME notified PROVE AtInv'
    BY <1>24 DEF notified, Goto, threadVars, TypeOK, Thread, Labels, PagesInv, AtInv
<1>25. CASE UNCHANGED vars
    BY <1>25 DEF vars, sessionVars, pageVars, timerVars, threadVars, TypeOK, PagesInv, AtInv
<1> QED BY <1>1, <1>2, <1>3, <1>4, <1>5, <1>6, <1>7, <1>8, <1>9, <1>10, <1>11, <1>12, <1>13,
       <1>14, <1>15, <1>16, <1>17, <1>18, <1>19, <1>20, <1>21, <1>22, <1>23, <1>24, <1>25 DEF
       Next, Request, Serve, Report, Tick

\* Pages are shown after the login.
LEMMA ShownInvStep ==
    ASSUME TypeOK, TimerInv, PagesInv, [Next]_vars
    PROVE  ShownInv'
<1>1. ASSUME NEW w \in Web, NEW s \in Session, createSession(w, s) PROVE ShownInv'
    <2>1. CASE MustAdd(sessions') /\ mutex' = w /\ Goto(w, "subscribe")
        BY <1>1, <2>1 DEF createSession, Goto, MustAdd, sessionVars, pageVars, threadVars, TypeOK,
           Thread, Labels, PagesInv, UnusedInv, OneEach, AtInv, ShownInv
    <2>2. CASE ~MustAdd(sessions') /\ UNCHANGED mutex /\ Goto(w, "logIn")
        BY <1>1, <2>2 DEF createSession, Goto, MustAdd, sessionVars, pageVars, threadVars, TypeOK,
           Thread, Labels, PagesInv, UnusedInv, OneEach, AtInv, ShownInv
    <2> QED BY <1>1, <2>1, <2>2 DEF createSession, Goto, checkTimer, MustRemove
<1>2. ASSUME NEW w \in Web, NEW s \in Session, getSid(w, s) PROVE ShownInv'
    BY <1>2 DEF getSid, Goto, Waits, sessionVars, pageVars, threadVars, TypeOK, Thread, Labels,
       PagesInv, UnusedInv, OneEach, AtInv, ShownInv
<1>3. ASSUME NEW w \in Web, NEW s \in Session, checkRequest(w, s) PROVE ShownInv'
    BY <1>3 DEF checkRequest, Goto, Waits, sessionVars, pageVars, threadVars, TypeOK, Thread,
       Labels, PagesInv, UnusedInv, OneEach, AtInv, ShownInv
<1>4. ASSUME NEW w \in Web, addTimerSubscriber(w) PROVE ShownInv'
    BY <1>4 DEF addTimerSubscriber, Subscribed, Goto, sessionVars, pageVars, threadVars, TypeOK,
       Thread, Labels, PagesInv, UnusedInv, OneEach, AtInv, ShownInv
<1>5. ASSUME NEW w \in Web, removeTimerSubscriber(w) PROVE ShownInv'
    BY <1>5 DEF removeTimerSubscriber, Subscribed, Goto, sessionVars, pageVars, threadVars,
       TypeOK, Thread, Labels, PagesInv, UnusedInv, OneEach, AtInv, ShownInv
<1>6. ASSUME NEW w \in Web, clearUpdateIDs(w) PROVE ShownInv'
    BY <1>6 DEF clearUpdateIDs, Goto, sessionVars, pageVars, threadVars, TypeOK, Thread, Labels,
       PagesInv, UnusedInv, OneEach, AtInv, ShownInv
<1>7. ASSUME NEW w \in Web, logIn(w) PROVE ShownInv'
    <2>1. /\ shown' = shown /\ at' = at /\ pc[w] = "logIn" /\ pc'[w] = "show"
          /\ \A v \in Web \ {w} : pc'[v] = pc[v]
        BY <1>7 DEF logIn, Goto, pageVars, threadVars, TypeOK, Thread
    <2>2. \A v \in Web : pc[v] \in {"logIn", "show"} => at[v] \in Session
        BY DEF TypeOK, Thread, PagesInv, AtInv
    <2>3. loggedIn'[at[w]] /\ \A s \in Session : loggedIn[s] => loggedIn'[s]
        BY <1>7, <2>1, <2>2 DEF logIn, TypeOK
    <2> QED BY <2>1, <2>2, <2>3 DEF PagesInv, ShownInv
<1>8. ASSUME NEW w \in Web, show(w) PROVE ShownInv'
    <2>1. at[w] \in Session /\ \A v \in Web \ {w} : at[v] # at[w]
        BY <1>8 DEF show, TypeOK, Thread, PagesInv, OneEach, AtInv
    <2>2. loggedIn[at[w]]
        BY <1>8 DEF show, PagesInv, ShownInv
    <2>3. /\ shown' = [shown EXCEPT ![at[w]] = TRUE]
          /\ pc' = [pc EXCEPT ![w] = "idle"]
          /\ at' = [at EXCEPT ![w] = NoSession]
          /\ loggedIn' = loggedIn
        BY <1>8 DEF show, Goto, sessionVars
    <2>4. \A v \in Web \ {w} :
              /\ pc'[v] = pc[v] /\ at'[v] = at[v]
              /\ at[v] # NoSession => shown'[at[v]] = shown[at[v]]
        BY <2>1, <2>3 DEF TypeOK, Thread
    <2>5. pc'[w] = "idle"
        BY <2>3 DEF TypeOK, Thread
    <2>6. \A s \in Session : shown'[s] => loggedIn'[s]
        BY <2>1, <2>2, <2>3 DEF TypeOK, PagesInv, ShownInv
    <2>7. ASSUME NEW v \in Web
          PROVE  /\ pc'[v] \in {"subscribe", "clear", "logIn", "show"} => ~shown'[at'[v]]
                 /\ pc'[v] = "show" => loggedIn'[at'[v]]
        <3>1. CASE v = w
            BY <2>5, <3>1
        <3>2. CASE v # w
            <4>1. /\ pc'[v] = pc[v] /\ at'[v] = at[v] /\ loggedIn' = loggedIn
                  /\ at[v] # NoSession => shown'[at[v]] = shown[at[v]]
                BY <2>3, <2>4, <3>2
            <4>2. pc[v] \in {"subscribe", "clear", "logIn", "show"} => at[v] # NoSession
                BY DEF PagesInv, AtInv
            <4> QED BY <4>1, <4>2 DEF PagesInv, ShownInv
        <3> QED BY <3>1, <3>2
    <2> QED BY <2>6, <2>7 DEF ShownInv
<1>9. ASSUME NEW w \in Web, access(w) PROVE ShownInv'
    <2>1. CASE Goto(w, "has")
        BY <1>9, <2>1 DEF access, Goto, sessionVars, pageVars, threadVars, TypeOK, Thread, Labels,
           PagesInv, UnusedInv, OneEach, AtInv, ShownInv
    <2>2. CASE Goto(w, "logout")
        BY <1>9, <2>2 DEF access, Goto, sessionVars, pageVars, threadVars, TypeOK, Thread, Labels,
           PagesInv, UnusedInv, OneEach, AtInv, ShownInv
    <2> QED BY <1>9, <2>1, <2>2 DEF access, Goto
<1>10. ASSUME NEW w \in Web, hasUIUpdateIDs(w) PROVE ShownInv'
    <2>1. CASE Goto(w, "get") /\ UNCHANGED at
        BY <1>10, <2>1 DEF hasUIUpdateIDs, Goto, sessionVars, pageVars, threadVars, TypeOK,
           Thread, Labels, PagesInv, UnusedInv, OneEach, AtInv, ShownInv
    <2>2. CASE Goto(w, "idle") /\ at' = [at EXCEPT ![w] = NoSession]
        BY <1>10, <2>2 DEF hasUIUpdateIDs, Goto, sessionVars, pageVars, threadVars, TypeOK,
           Thread, Labels, PagesInv, UnusedInv, OneEach, AtInv, ShownInv
    <2> QED BY <1>10, <2>1, <2>2 DEF hasUIUpdateIDs, Goto
<1>11. ASSUME NEW w \in Web, getUIUpdateIDs(w) PROVE ShownInv'
    <2>1. CASE updateAll[at[w]]
        BY <1>11, <2>1 DEF getUIUpdateIDs, Goto, sessionVars, pageVars, threadVars, TypeOK,
           Thread, Labels, PagesInv, UnusedInv, OneEach, AtInv, ShownInv
    <2>2. CASE ~updateAll[at[w]]
        BY <1>11, <2>2 DEF getUIUpdateIDs, Goto, sessionVars, pageVars, threadVars, TypeOK,
           Thread, Labels, PagesInv, UnusedInv, OneEach, AtInv, ShownInv
    <2> QED BY <1>11, <2>1, <2>2 DEF getUIUpdateIDs, Goto
<1>12. ASSUME NEW w \in Web, reload(w) PROVE ShownInv'
    BY <1>12 DEF reload, Goto, sessionVars, pageVars, threadVars, TypeOK, Thread, Labels,
       PagesInv, UnusedInv, OneEach, AtInv, ShownInv
<1>13. ASSUME NEW w \in Web, removeSession(w) PROVE ShownInv'
    <2>0. \/ UNCHANGED mutex /\ Goto(w, "idle")
          \/ mutex' = w /\ Goto(w, "unsubscribe")
        BY <1>13, RemovalSubscribesNot
    <2>1. at[w] \in Session /\ \A v \in Web \ {w} : at[v] # at[w]
        BY <1>13 DEF removeSession, Removed, TypeOK, Thread, PagesInv, OneEach, AtInv
    <2>2. /\ \A s \in Session \ {at[w]} : shown'[s] = shown[s] /\ loggedIn'[s] = loggedIn[s]
          /\ ~shown'[at[w]]
        BY <1>13, <2>1 DEF removeSession, Removed, Destroyed, TypeOK
    <2>3. pc'[w] \in {"idle", "unsubscribe"} /\ \A v \in Web \ {w} : pc'[v] = pc[v]
        BY <2>0 DEF Goto, TypeOK, Thread
    <2>4. \A v \in Web \ {w} : at'[v] = at[v]
        BY <1>13 DEF removeSession, Removed, TypeOK, Thread
    <2>5. \A v \in Web : at[v] \in Session \/ pc[v] \in {"idle", "unsubscribe"}
        BY DEF TypeOK, Thread, PagesInv, AtInv
    <2> QED BY <2>1, <2>2, <2>3, <2>4, <2>5 DEF PagesInv, ShownInv
<1>14. ASSUME NEW r \in Reporter, NEW b \in Batches, change(r, b) PROVE ShownInv'
    BY <1>14 DEF change, Goto, sessionVars, pageVars, threadVars, TypeOK, Thread, Labels,
       PagesInv, UnusedInv, OneEach, AtInv, ShownInv
<1>15. ASSUME NEW r \in Reporter, containerChangedUI(r) PROVE ShownInv'
    <2>1. CASE Reported(r)
        BY <1>15, <2>1 DEF containerChangedUI, Reported, Goto, sessionVars, pageVars, threadVars,
           TypeOK, Thread, Labels, PagesInv, UnusedInv, OneEach, AtInv, ShownInv
    <2>2. CASE sessions # {} /\ Goto(r, "lock") /\ UNCHANGED got
        BY <1>15, <2>2 DEF containerChangedUI, Reported, Goto, sessionVars, pageVars, threadVars,
           TypeOK, Thread, Labels, PagesInv, UnusedInv, OneEach, AtInv, ShownInv
    <2> QED BY <1>15, <2>1, <2>2 DEF containerChangedUI, Reported, Goto
<1>16. ASSUME NEW r \in Reporter, lockAndTell(r) PROVE ShownInv'
    BY <1>16 DEF lockAndTell, Goto, sessionVars, pageVars, threadVars, TypeOK, Thread, Labels,
       PagesInv, UnusedInv, OneEach, AtInv, ShownInv
<1>17. ASSUME NEW r \in Reporter, NEW s \in Session, tell(r, s) PROVE ShownInv'
    BY <1>17 DEF tell, sessionVars, pageVars, threadVars, TypeOK, Thread, Labels, PagesInv,
       UnusedInv, OneEach, AtInv, ShownInv
<1>18. ASSUME NEW r \in Reporter, told(r) PROVE ShownInv'
    BY <1>18 DEF told, Reported, Goto, sessionVars, pageVars, threadVars, TypeOK, Thread, Labels,
       PagesInv, UnusedInv, OneEach, AtInv, ShownInv
<1>19. ASSUME NEW s \in Session, Elapse(s) PROVE ShownInv'
    BY <1>19 DEF Elapse, sessionVars, pageVars, threadVars, TypeOK, Thread, Labels, PagesInv,
       UnusedInv, OneEach, AtInv, ShownInv
<1>20. ASSUME TimerDue PROVE ShownInv'
    BY <1>20 DEF TimerDue, sessionVars, pageVars, threadVars, TypeOK, Thread, Labels, PagesInv,
       UnusedInv, OneEach, AtInv, ShownInv
<1>21. ASSUME triggerWait PROVE ShownInv'
    BY <1>21 DEF triggerWait, Goto, sessionVars, pageVars, threadVars, TypeOK, Thread, Labels,
       PagesInv, UnusedInv, OneEach, AtInv, ShownInv
<1>22. ASSUME timerNotify PROVE ShownInv'
    BY <1>22 DEF timerNotify, Goto, sessionVars, pageVars, threadVars, TypeOK, Thread, Labels,
       PagesInv, UnusedInv, OneEach, AtInv, ShownInv
<1>23. ASSUME NEW s \in Session, expire(s) PROVE ShownInv'
    <2>1. CASE ~Waits(s) /\ Destroyed(s)
        BY <1>23, <2>1 DEF expire, Expired, MustRemove, Waits, Destroyed, sessionVars, pageVars,
           threadVars, TypeOK, Thread, Labels, PagesInv, UnusedInv, OneEach, AtInv, ShownInv
    <2>2. CASE UNCHANGED <<sessionVars, idle, pageVars>>
        BY <1>23, <2>2 DEF expire, Expired, MustRemove, Waits, Destroyed, sessionVars, pageVars,
           threadVars, TypeOK, Thread, Labels, PagesInv, UnusedInv, OneEach, AtInv, ShownInv
    <2> QED BY <1>23, <2>1, <2>2 DEF expire, Expired, MustRemove
<1>24. ASSUME notified PROVE ShownInv'
    BY <1>24 DEF notified, Goto, sessionVars, pageVars, threadVars, TypeOK, Thread, Labels,
       PagesInv, UnusedInv, OneEach, AtInv, ShownInv
<1>25. CASE UNCHANGED vars
    BY <1>25 DEF vars, sessionVars, pageVars, timerVars, threadVars, TypeOK, PagesInv, UnusedInv,
       OneEach, AtInv, ShownInv
<1> QED BY <1>1, <1>2, <1>3, <1>4, <1>5, <1>6, <1>7, <1>8, <1>9, <1>10, <1>11, <1>12, <1>13,
       <1>14, <1>15, <1>16, <1>17, <1>18, <1>19, <1>20, <1>21, <1>22, <1>23, <1>24, <1>25 DEF
       Next, Request, Serve, Report, Tick

\* Ids that were fetched are used before the next request.
LEMMA GotStep ==
    ASSUME TypeOK, TimerInv, GotInv, [Next]_vars
    PROVE  GotInv'
<1>1. ASSUME NEW w \in Web, NEW s \in Session, createSession(w, s) PROVE GotInv'
    <2>1. CASE MustAdd(sessions') /\ mutex' = w /\ Goto(w, "subscribe")
        BY <1>1, <2>1 DEF createSession, Goto, MustAdd, threadVars, TypeOK, Thread, Labels, GotInv
    <2>2. CASE ~MustAdd(sessions') /\ UNCHANGED mutex /\ Goto(w, "logIn")
        BY <1>1, <2>2 DEF createSession, Goto, MustAdd, threadVars, TypeOK, Thread, Labels, GotInv
    <2> QED BY <1>1, <2>1, <2>2 DEF createSession, Goto, checkTimer, MustRemove
<1>2. ASSUME NEW w \in Web, NEW s \in Session, getSid(w, s) PROVE GotInv'
    BY <1>2 DEF getSid, Goto, threadVars, TypeOK, Thread, Labels, GotInv
<1>3. ASSUME NEW w \in Web, NEW s \in Session, checkRequest(w, s) PROVE GotInv'
    BY <1>3 DEF checkRequest, Goto, threadVars, TypeOK, Thread, Labels, GotInv
<1>4. ASSUME NEW w \in Web, addTimerSubscriber(w) PROVE GotInv'
    BY <1>4 DEF addTimerSubscriber, Subscribed, Goto, threadVars, TypeOK, Thread, Labels, GotInv
<1>5. ASSUME NEW w \in Web, removeTimerSubscriber(w) PROVE GotInv'
    BY <1>5 DEF removeTimerSubscriber, Subscribed, Goto, threadVars, TypeOK, Thread, Labels, GotInv
<1>6. ASSUME NEW w \in Web, clearUpdateIDs(w) PROVE GotInv'
    BY <1>6 DEF clearUpdateIDs, Goto, threadVars, TypeOK, Thread, Labels, GotInv
<1>7. ASSUME NEW w \in Web, logIn(w) PROVE GotInv'
    BY <1>7 DEF logIn, Goto, threadVars, TypeOK, Thread, Labels, GotInv
<1>8. ASSUME NEW w \in Web, show(w) PROVE GotInv'
    BY <1>8 DEF show, Goto, threadVars, TypeOK, Thread, Labels, GotInv
<1>9. ASSUME NEW w \in Web, access(w) PROVE GotInv'
    <2>1. CASE Goto(w, "has")
        BY <1>9, <2>1 DEF access, Goto, threadVars, TypeOK, Thread, Labels, GotInv
    <2>2. CASE Goto(w, "logout")
        BY <1>9, <2>2 DEF access, Goto, threadVars, TypeOK, Thread, Labels, GotInv
    <2> QED BY <1>9, <2>1, <2>2 DEF access, Goto
<1>10. ASSUME NEW w \in Web, hasUIUpdateIDs(w) PROVE GotInv'
    <2>1. CASE Goto(w, "get") /\ UNCHANGED at
        BY <1>10, <2>1 DEF hasUIUpdateIDs, Goto, threadVars, TypeOK, Thread, Labels, GotInv
    <2>2. CASE Goto(w, "idle") /\ at' = [at EXCEPT ![w] = NoSession]
        BY <1>10, <2>2 DEF hasUIUpdateIDs, Goto, threadVars, TypeOK, Thread, Labels, GotInv
    <2> QED BY <1>10, <2>1, <2>2 DEF hasUIUpdateIDs, Goto
<1>11. ASSUME NEW w \in Web, getUIUpdateIDs(w) PROVE GotInv'
    <2>1. CASE updateAll[at[w]]
        BY <1>11, <2>1 DEF getUIUpdateIDs, Goto, threadVars, TypeOK, Thread, Labels, GotInv
    <2>2. CASE ~updateAll[at[w]]
        BY <1>11, <2>2 DEF getUIUpdateIDs, Goto, threadVars, TypeOK, Thread, Labels, GotInv
    <2> QED BY <1>11, <2>1, <2>2 DEF getUIUpdateIDs, Goto
<1>12. ASSUME NEW w \in Web, reload(w) PROVE GotInv'
    BY <1>12 DEF reload, Goto, threadVars, TypeOK, Thread, Labels, GotInv
<1>13. ASSUME NEW w \in Web, removeSession(w) PROVE GotInv'
    <2>1. CASE UNCHANGED mutex /\ Goto(w, "idle")
        BY <1>13, <2>1 DEF removeSession, Removed, Goto, MustRemove, threadVars, TypeOK, Thread,
           Labels, GotInv
    <2>2. CASE MustRemove(sessions') /\ mutex' = w /\ Goto(w, "unsubscribe")
        BY <1>13, <2>2 DEF removeSession, Removed, Goto, MustRemove, threadVars, TypeOK, Thread,
           Labels, GotInv
    <2> QED BY <1>13, <2>1, <2>2, RemovalSubscribesNot
<1>14. ASSUME NEW r \in Reporter, NEW b \in Batches, change(r, b) PROVE GotInv'
    BY <1>14 DEF change, Goto, threadVars, TypeOK, Thread, Labels, GotInv
<1>15. ASSUME NEW r \in Reporter, containerChangedUI(r) PROVE GotInv'
    <2>1. CASE Reported(r)
        BY <1>15, <2>1 DEF containerChangedUI, Reported, Goto, threadVars, TypeOK, Thread, Labels,
           GotInv
    <2>2. CASE sessions # {} /\ Goto(r, "lock") /\ UNCHANGED got
        BY <1>15, <2>2 DEF containerChangedUI, Reported, Goto, threadVars, TypeOK, Thread, Labels,
           GotInv
    <2> QED BY <1>15, <2>1, <2>2 DEF containerChangedUI, Reported, Goto
<1>16. ASSUME NEW r \in Reporter, lockAndTell(r) PROVE GotInv'
    BY <1>16 DEF lockAndTell, Goto, threadVars, TypeOK, Thread, Labels, GotInv
<1>17. ASSUME NEW r \in Reporter, NEW s \in Session, tell(r, s) PROVE GotInv'
    BY <1>17 DEF tell, threadVars, TypeOK, Thread, Labels, GotInv
<1>18. ASSUME NEW r \in Reporter, told(r) PROVE GotInv'
    BY <1>18 DEF told, Reported, Goto, threadVars, TypeOK, Thread, Labels, GotInv
<1>19. ASSUME NEW s \in Session, Elapse(s) PROVE GotInv'
    BY <1>19 DEF Elapse, threadVars, TypeOK, Thread, Labels, GotInv
<1>20. ASSUME TimerDue PROVE GotInv'
    BY <1>20 DEF TimerDue, threadVars, TypeOK, Thread, Labels, GotInv
<1>21. ASSUME triggerWait PROVE GotInv'
    BY <1>21 DEF triggerWait, Goto, threadVars, TypeOK, Thread, Labels, GotInv
<1>22. ASSUME timerNotify PROVE GotInv'
    BY <1>22 DEF timerNotify, Goto, threadVars, TypeOK, Thread, Labels, GotInv
<1>23. ASSUME NEW s \in Session, expire(s) PROVE GotInv'
    <2>1. CASE ~Waits(s) /\ Destroyed(s)
        BY <1>23, <2>1 DEF expire, Expired, MustRemove, Waits, Destroyed, threadVars, TypeOK,
           Thread, Labels, GotInv
    <2>2. CASE UNCHANGED <<sessionVars, idle, pageVars>>
        BY <1>23, <2>2 DEF expire, Expired, MustRemove, Waits, Destroyed, threadVars, TypeOK,
           Thread, Labels, GotInv
    <2> QED BY <1>23, <2>1, <2>2 DEF expire, Expired, MustRemove
<1>24. ASSUME notified PROVE GotInv'
    BY <1>24 DEF notified, Goto, threadVars, TypeOK, Thread, Labels, GotInv
<1>25. CASE UNCHANGED vars
    BY <1>25 DEF vars, sessionVars, pageVars, timerVars, threadVars, TypeOK, GotInv
<1> QED BY <1>1, <1>2, <1>3, <1>4, <1>5, <1>6, <1>7, <1>8, <1>9, <1>10, <1>11, <1>12, <1>13,
       <1>14, <1>15, <1>16, <1>17, <1>18, <1>19, <1>20, <1>21, <1>22, <1>23, <1>24, <1>25 DEF
       Next, Request, Serve, Report, Tick

\* No step loses a change.
LEMMA HeardStep ==
    ASSUME TypeOK, TimerInv, PagesInv, GotInv, Heard, [Next]_vars
    PROVE  Heard'
<1>1. ASSUME NEW w \in Web, NEW s \in Session, createSession(w, s) PROVE Heard'
    <2>1. SameComing
        <3>1. \/ Goto(w, "subscribe") \/ Goto(w, "unsubscribe") \/ Goto(w, "logIn")
            BY <1>1 DEF createSession, checkTimer
        <3> QED BY <1>1, <3>1 DEF SameComing, createSession, Goto, TypeOK, Thread, GotInv
    <2>2. SamePages
        BY <1>1 DEF SamePages, createSession, sessionVars, pageVars, PagesInv, UnusedInv
    <2> QED BY <2>1, <2>2, QuietStep
<1>2. ASSUME NEW w \in Web, NEW s \in Session, getSid(w, s) PROVE Heard'
    <2>1. SameComing
        BY <1>2 DEF SameComing, getSid, Goto, Waits, sessionVars, pageVars, timerVars, threadVars,
           TypeOK, Thread, Labels, GotInv
    <2>2. SamePages
        BY <1>2 DEF SamePages, getSid, Goto, Waits, sessionVars, pageVars, timerVars, threadVars,
           TypeOK, Thread, Labels, PagesInv, UnusedInv, ShownInv
    <2> QED BY <2>1, <2>2, QuietStep
<1>3. ASSUME NEW w \in Web, NEW s \in Session, checkRequest(w, s) PROVE Heard'
    <2>1. SameComing
        BY <1>3 DEF SameComing, checkRequest, Goto, Waits, sessionVars, pageVars, timerVars,
           threadVars, TypeOK, Thread, Labels, GotInv
    <2>2. SamePages
        BY <1>3 DEF SamePages, checkRequest, Goto, Waits, sessionVars, pageVars, timerVars,
           threadVars, TypeOK, Thread, Labels, PagesInv, UnusedInv, ShownInv
    <2> QED BY <2>1, <2>2, QuietStep
<1>4. ASSUME NEW w \in Web, addTimerSubscriber(w) PROVE Heard'
    <2>1. SameComing
        BY <1>4 DEF SameComing, addTimerSubscriber, Subscribed, Goto, sessionVars, pageVars,
           timerVars, threadVars, TypeOK, Thread, Labels, GotInv
    <2>2. SamePages
        BY <1>4 DEF SamePages, addTimerSubscriber, Subscribed, Goto, sessionVars, pageVars,
           timerVars, threadVars, TypeOK, Thread, Labels, PagesInv, UnusedInv, ShownInv
    <2> QED BY <2>1, <2>2, QuietStep
<1>5. ASSUME NEW w \in Web, removeTimerSubscriber(w) PROVE Heard'
    <2>1. SameComing
        BY <1>5 DEF SameComing, removeTimerSubscriber, Subscribed, Goto, sessionVars, pageVars,
           timerVars, threadVars, TypeOK, Thread, Labels, GotInv
    <2>2. SamePages
        BY <1>5 DEF SamePages, removeTimerSubscriber, Subscribed, Goto, sessionVars, pageVars,
           timerVars, threadVars, TypeOK, Thread, Labels, PagesInv, UnusedInv, ShownInv
    <2> QED BY <2>1, <2>2, QuietStep
<1>6. ASSUME NEW w \in Web, clearUpdateIDs(w) PROVE Heard'
    <2>1. SameComing
        BY <1>6 DEF SameComing, clearUpdateIDs, Goto, threadVars, TypeOK, Thread
    <2>2. /\ at[w] \in Session /\ ~shown[at[w]]
          /\ sessions' = sessions /\ shown' = shown /\ stale' = stale
        BY <1>6 DEF clearUpdateIDs, pageVars, TypeOK, Thread, PagesInv, AtInv, ShownInv
    <2>3. \A s \in sessions : s # at[w] =>
              updateAll'[s] = updateAll[s] /\ uiUpdateIDs'[s] = uiUpdateIDs[s]
        BY <1>6 DEF clearUpdateIDs, TypeOK
    <2>4. SamePages
        BY <2>2, <2>3 DEF SamePages
    <2> QED BY <2>1, <2>4, QuietStep
<1>7. ASSUME NEW w \in Web, logIn(w) PROVE Heard'
    <2>1. SameComing
        BY <1>7 DEF SameComing, logIn, Goto, sessionVars, pageVars, timerVars, threadVars, TypeOK,
           Thread, Labels, GotInv
    <2>2. SamePages
        BY <1>7 DEF SamePages, logIn, Goto, sessionVars, pageVars, timerVars, threadVars, TypeOK,
           Thread, Labels, PagesInv, UnusedInv, ShownInv
    <2> QED BY <2>1, <2>2, QuietStep
<1>8. ASSUME NEW w \in Web, show(w) PROVE Heard'
    <2>1. SameComing
        BY <1>8 DEF SameComing, show, Goto, sessionVars, pageVars, timerVars, threadVars, TypeOK,
           Thread, Labels, GotInv
    <2>2. SamePages
        BY <1>8 DEF SamePages, show, Goto, sessionVars, pageVars, timerVars, threadVars, TypeOK,
           Thread, Labels, PagesInv, UnusedInv, ShownInv
    <2> QED BY <2>1, <2>2, QuietStep
<1>9. ASSUME NEW w \in Web, access(w) PROVE Heard'
    <2>1. SameComing
        BY <1>9 DEF SameComing, access, Goto, sessionVars, pageVars, timerVars, threadVars,
           TypeOK, Thread, Labels, GotInv
    <2>2. SamePages
        BY <1>9 DEF SamePages, access, Goto, sessionVars, pageVars, timerVars, threadVars, TypeOK,
           Thread, Labels, PagesInv, UnusedInv, ShownInv
    <2> QED BY <2>1, <2>2, QuietStep
<1>10. ASSUME NEW w \in Web, hasUIUpdateIDs(w) PROVE Heard'
    <2>1. SameComing
        BY <1>10 DEF SameComing, hasUIUpdateIDs, Goto, sessionVars, pageVars, timerVars,
           threadVars, TypeOK, Thread, Labels, GotInv
    <2>2. SamePages
        BY <1>10 DEF SamePages, hasUIUpdateIDs, Goto, sessionVars, pageVars, timerVars,
           threadVars, TypeOK, Thread, Labels, PagesInv, UnusedInv, ShownInv
    <2> QED BY <2>1, <2>2, QuietStep
<1>11. ASSUME NEW w \in Web, getUIUpdateIDs(w) PROVE Heard'
    <2> SUFFICES ASSUME NEW x \in sessions', NEW c \in Container,
                        shown'[x], ~updateAll'[x], c \in stale'[x]
                 PROVE  c \in uiUpdateIDs'[x] \/ Coming(x, c)'
        BY DEF Heard
    <2>1. Others(w)
        BY <1>11 DEF Others, getUIUpdateIDs, Goto, TypeOK, Thread, threadVars
    <2>2. ASSUME Coming(x, c)
          PROVE  \/ Coming(x, c)'
                 \/ at[w] = x /\ c \in got[w]
        BY <2>1, <2>2, OthersKeep
    <2>3. got[w] = {} /\ at'[w] = at[w]
        BY <1>11 DEF getUIUpdateIDs, GotInv
    <2>4. x \in sessions /\ shown[x] /\ c \in stale[x]
        BY <1>11 DEF getUIUpdateIDs, pageVars
    <2>5. CASE x # at[w]
        <3>1. ~updateAll[x] /\ uiUpdateIDs'[x] = uiUpdateIDs[x]
            BY <1>11, <2>4, <2>5 DEF getUIUpdateIDs, TypeOK
        <3> QED BY <2>2, <2>3, <2>4, <3>1 DEF Heard
    <2>6. CASE x = at[w] /\ updateAll[x]
        <3>1. got' = [got EXCEPT ![w] = Container]
            BY <1>11, <2>6 DEF getUIUpdateIDs
        <3>2. got'[w] = Container
            BY <3>1 DEF TypeOK, Thread
        <3> QED BY <2>3, <2>6, <3>2 DEF Coming
    <2>7. CASE x = at[w] /\ ~updateAll[x]
        <3>1. got'[w] = uiUpdateIDs[x]
            BY <1>11, <2>7 DEF getUIUpdateIDs, TypeOK, Thread
        <3>2. c \in uiUpdateIDs[x] \/ Coming(x, c)
            BY <2>4, <2>7 DEF Heard
        <3>3. ASSUME c \in uiUpdateIDs[x] PROVE Coming(x, c)'
            BY <2>3, <2>7, <3>1, <3>3 DEF Coming
        <3> QED BY <2>2, <2>3, <3>2, <3>3
    <2> QED BY <2>5, <2>6, <2>7
<1>12. ASSUME NEW w \in Web, reload(w) PROVE Heard'
    <2> SUFFICES ASSUME NEW x \in sessions', NEW c \in Container,
                        shown'[x], ~updateAll'[x], c \in stale'[x]
                 PROVE  c \in uiUpdateIDs'[x] \/ Coming(x, c)'
        BY DEF Heard
    <2>1. Others(w)
        BY <1>12 DEF Others, reload, Goto, TypeOK, Thread, threadVars
    <2>2. ASSUME Coming(x, c)
          PROVE  \/ Coming(x, c)'
                 \/ at[w] = x /\ c \in got[w]
        BY <2>1, <2>2, OthersKeep
    <2>3. /\ x \in sessions /\ shown[x] /\ ~updateAll[x] /\ uiUpdateIDs'[x] = uiUpdateIDs[x]
          /\ c \in stale[x] /\ (x = at[w] => c \notin got[w])
        BY <1>12 DEF reload, sessionVars, TypeOK
    <2> QED BY <2>2, <2>3 DEF Heard
<1>13. ASSUME NEW w \in Web, removeSession(w) PROVE Heard'
    <2>1. SameComing
        BY <1>13 DEF SameComing, removeSession, Removed, Destroyed, Goto, checkTimer, sessionVars,
           pageVars, timerVars, threadVars, TypeOK, Thread, Labels, GotInv
    <2>2. SamePages
        BY <1>13 DEF SamePages, removeSession, Removed, Destroyed, Goto, checkTimer, sessionVars,
           pageVars, timerVars, threadVars, TypeOK, Thread, Labels, PagesInv, UnusedInv, ShownInv
    <2> QED BY <2>1, <2>2, QuietStep
<1>14. ASSUME NEW r \in Reporter, NEW b \in Batches, change(r, b) PROVE Heard'
    <2> SUFFICES ASSUME NEW x \in sessions', NEW c \in Container,
                        shown'[x], ~updateAll'[x], c \in stale'[x]
                 PROVE  c \in uiUpdateIDs'[x] \/ Coming(x, c)'
        BY DEF Heard
    <2>1. Others(r)
        BY <1>14 DEF Others, change, Goto, TypeOK, Thread, threadVars
    <2>2. ASSUME Coming(x, c)
          PROVE  \/ Coming(x, c)'
                 \/ (pc[r] \in {"report", "lock"} \/ x \in toTell[r]) /\ c \in got[r]
        BY <2>1, <2>2, OthersKeep
    <2>3. pc[r] = "idle" /\ toTell[r] = {} /\ pc'[r] = "report" /\ got'[r] = b
        BY <1>14 DEF change, Goto, GotInv, TypeOK, Thread
    <2>4. /\ x \in sessions /\ shown[x] /\ ~updateAll[x] /\ uiUpdateIDs'[x] = uiUpdateIDs[x]
          /\ c \in stale[x] \union b
        BY <1>14 DEF change, sessionVars, TypeOK
    <2>5. ASSUME c \in b PROVE Coming(x, c)'
        BY <2>3, <2>5 DEF Coming
    <2> QED BY <2>2, <2>3, <2>4, <2>5 DEF Heard
<1>15. ASSUME NEW r \in Reporter, containerChangedUI(r) PROVE Heard'
    <2>1. CASE sessions = {}
        BY <1>15, <2>1 DEF containerChangedUI, Heard
    <2>2. CASE Goto(r, "lock") /\ UNCHANGED <<mutex, toTell, got>>
        <3>1. SameComing
            BY <1>15, <2>2 DEF SameComing, containerChangedUI, Goto, TypeOK, Thread
        <3>2. SamePages
            BY <1>15 DEF SamePages, containerChangedUI, sessionVars, pageVars
        <3> QED BY <3>1, <3>2, QuietStep
    <2> QED BY <1>15, <2>1, <2>2 DEF containerChangedUI
<1>16. ASSUME NEW r \in Reporter, lockAndTell(r) PROVE Heard'
    <2> SUFFICES ASSUME NEW x \in sessions', NEW c \in Container,
                        shown'[x], ~updateAll'[x], c \in stale'[x]
                 PROVE  c \in uiUpdateIDs'[x] \/ Coming(x, c)'
        BY DEF Heard
    <2>1. Others(r)
        BY <1>16 DEF Others, lockAndTell, Goto, TypeOK, Thread, threadVars
    <2>2. ASSUME Coming(x, c)
          PROVE  \/ Coming(x, c)'
                 \/ (pc[r] \in {"report", "lock"} \/ x \in toTell[r]) /\ c \in got[r]
        BY <2>1, <2>2, OthersKeep
    <2>3. /\ x \in sessions /\ shown[x] /\ ~updateAll[x] /\ c \in stale[x]
          /\ uiUpdateIDs'[x] = uiUpdateIDs[x]
        BY <1>16 DEF lockAndTell, sessionVars, pageVars
    <2>4. x \in toTell'[r] /\ got'[r] = got[r]
        BY <1>16, <2>3 DEF lockAndTell, TypeOK, Thread
    <2>5. ASSUME c \in got[r] PROVE Coming(x, c)'
        BY <2>4, <2>5 DEF Coming
    <2> QED BY <2>2, <2>3, <2>5 DEF Heard
<1>17. ASSUME NEW r \in Reporter, NEW s \in Session, tell(r, s) PROVE Heard'
    <2> SUFFICES ASSUME NEW x \in sessions', NEW c \in Container,
                        shown'[x], ~updateAll'[x], c \in stale'[x]
                 PROVE  c \in uiUpdateIDs'[x] \/ Coming(x, c)'
        BY DEF Heard
    <2>1. Others(r)
        BY <1>17 DEF Others, tell, TypeOK, Thread, threadVars
    <2>2. ASSUME Coming(x, c)
          PROVE  \/ Coming(x, c)'
                 \/ (pc[r] \in {"report", "lock"} \/ x \in toTell[r]) /\ c \in got[r]
        BY <2>1, <2>2, OthersKeep
    <2>3. x \in sessions /\ shown[x] /\ c \in stale[x] /\ pc[r] = "tell"
        BY <1>17 DEF tell, pageVars
    <2>4. CASE x # s
        <3>1. ~updateAll[x] /\ uiUpdateIDs'[x] = uiUpdateIDs[x]
            BY <1>17, <2>3, <2>4 DEF tell, TypeOK
        <3>2. got'[r] = got[r] /\ (x \in toTell[r] => x \in toTell'[r])
            BY <1>17, <2>4 DEF tell, TypeOK, Thread
        <3>3. ASSUME x \in toTell[r], c \in got[r] PROVE Coming(x, c)'
            BY <3>2, <3>3 DEF Coming
        <3> QED BY <2>2, <2>3, <3>1, <3>3 DEF Heard
    <2>5. CASE x = s
        <3>1. loggedIn[s]
            BY <2>3, <2>5 DEF PagesInv, ShownInv
        <3>2. ~updateAll[s] /\ ~Overflow(s, got[r])
            BY <1>17, <2>5, <3>1 DEF tell, TypeOK
        <3>3. uiUpdateIDs'[s] = uiUpdateIDs[s] \union got[r]
            BY <1>17, <3>1, <3>2 DEF tell, TypeOK
        <3> QED BY <2>2, <2>3, <2>5, <3>2, <3>3 DEF Heard
    <2> QED BY <2>4, <2>5
<1>18. ASSUME NEW r \in Reporter, told(r) PROVE Heard'
    <2> SUFFICES ASSUME NEW x \in sessions', NEW c \in Container,
                        shown'[x], ~updateAll'[x], c \in stale'[x]
                 PROVE  c \in uiUpdateIDs'[x] \/ Coming(x, c)'
        BY DEF Heard
    <2>1. Others(r)
        BY <1>18 DEF Others, told, Reported, Goto, TypeOK, Thread, threadVars
    <2>2. ASSUME Coming(x, c)
          PROVE  \/ Coming(x, c)'
                 \/ (pc[r] \in {"report", "lock"} \/ x \in toTell[r]) /\ c \in got[r]
        BY <2>1, <2>2, OthersKeep
    <2>3. /\ x \in sessions /\ shown[x] /\ ~updateAll[x] /\ c \in stale[x]
          /\ uiUpdateIDs'[x] = uiUpdateIDs[x]
        BY <1>18 DEF told, sessionVars, pageVars
    <2>4. pc[r] = "tell" /\ toTell[r] = {}
        BY <1>18 DEF told
    <2> QED BY <2>2, <2>3, <2>4 DEF Heard
<1>19. ASSUME NEW s \in Session, Elapse(s) PROVE Heard'
    <2>1. SameComing
        BY <1>19 DEF SameComing, Elapse, sessionVars, pageVars, timerVars, threadVars, TypeOK,
           Thread, Labels, GotInv
    <2>2. SamePages
        BY <1>19 DEF SamePages, Elapse, sessionVars, pageVars, timerVars, threadVars, TypeOK,
           Thread, Labels, PagesInv, UnusedInv, ShownInv
    <2> QED BY <2>1, <2>2, QuietStep
<1>20. ASSUME TimerDue PROVE Heard'
    <2>1. SameComing
        BY <1>20 DEF SameComing, TimerDue, sessionVars, pageVars, timerVars, threadVars, TypeOK,
           Thread, Labels, GotInv
    <2>2. SamePages
        BY <1>20 DEF SamePages, TimerDue, sessionVars, pageVars, timerVars, threadVars, TypeOK,
           Thread, Labels, PagesInv, UnusedInv, ShownInv
    <2> QED BY <2>1, <2>2, QuietStep
<1>21. ASSUME triggerWait PROVE Heard'
    <2>1. SameComing
        BY <1>21 DEF SameComing, triggerWait, Goto, sessionVars, pageVars, timerVars, threadVars,
           TypeOK, Thread, Labels, GotInv
    <2>2. SamePages
        BY <1>21 DEF SamePages, triggerWait, Goto, sessionVars, pageVars, timerVars, threadVars,
           TypeOK, Thread, Labels, PagesInv, UnusedInv, ShownInv
    <2> QED BY <2>1, <2>2, QuietStep
<1>22. ASSUME timerNotify PROVE Heard'
    <2>1. SameComing
        BY <1>22 DEF SameComing, timerNotify, Goto, sessionVars, pageVars, timerVars, threadVars,
           TypeOK, Thread, Labels, GotInv
    <2>2. SamePages
        BY <1>22 DEF SamePages, timerNotify, Goto, sessionVars, pageVars, timerVars, threadVars,
           TypeOK, Thread, Labels, PagesInv, UnusedInv, ShownInv
    <2> QED BY <2>1, <2>2, QuietStep
<1>23. ASSUME NEW s \in Session, expire(s) PROVE Heard'
    <2>1. SameComing
        BY <1>23 DEF SameComing, expire, Expired, threadVars
    <2>2. sessions' = sessions \ {s}
        BY <1>23 DEF expire, Expired
    <2>3. \A x \in Session \ {s} :
              /\ shown'[x] = shown[x] /\ stale'[x] = stale[x]
              /\ updateAll'[x] = updateAll[x] /\ uiUpdateIDs'[x] = uiUpdateIDs[x]
        <3>1. CASE Destroyed(s)
            BY <3>1 DEF Destroyed, TypeOK
        <3>2. CASE UNCHANGED <<sessionVars, idle, pageVars>>
            BY <3>2 DEF sessionVars, pageVars
        <3> QED BY <1>23, <3>1, <3>2 DEF expire, Expired
    <2>4. SamePages
        BY <2>2, <2>3 DEF SamePages, TypeOK
    <2> QED BY <2>1, <2>4, QuietStep
<1>24. ASSUME notified PROVE Heard'
    <2>1. SameComing
        BY <1>24 DEF SameComing, notified, Goto, sessionVars, pageVars, timerVars, threadVars,
           TypeOK, Thread, Labels, GotInv
    <2>2. SamePages
        BY <1>24 DEF SamePages, notified, Goto, sessionVars, pageVars, timerVars, threadVars,
           TypeOK, Thread, Labels, PagesInv, UnusedInv, ShownInv
    <2> QED BY <2>1, <2>2, QuietStep
<1>25. CASE UNCHANGED vars
    BY <1>25, QuietStep DEF SameComing, SamePages, vars, sessionVars, pageVars, threadVars
<1> QED BY <1>1, <1>2, <1>3, <1>4, <1>5, <1>6, <1>7, <1>8, <1>9, <1>10, <1>11, <1>12, <1>13,
       <1>14, <1>15, <1>16, <1>17, <1>18, <1>19, <1>20, <1>21, <1>22, <1>23, <1>24, <1>25 DEF
       Next, Request, Serve, Report, Tick

\* What Heard says one container at a time, NothingMissed says of them all.
LEMMA HeardSuffices ==
    ASSUME TypeOK, Heard
    PROVE  NothingMissed
<1> SUFFICES ASSUME NEW s \in sessions, shown[s], ~updateAll[s], NEW c \in stale[s]
             PROVE  c \in uiUpdateIDs[s] \union OnTheWay(s)
    BY DEF NothingMissed
<1>1. c \in uiUpdateIDs[s] \/ Coming(s, c)
    BY DEF Heard, TypeOK
<1>2. ASSUME NEW r \in Reporter, pc[r] \in {"report", "lock"} \/ s \in toTell[r], c \in got[r]
      PROVE  c \in OnTheWay(s)
    <2>1. r \in {q \in Reporter : pc[q] \in {"report", "lock"} \/ s \in toTell[q]}
        BY <1>2
    <2>2. got[r] \in {got[p] : p \in {q \in Reporter : pc[q] \in {"report", "lock"} \/ s \in toTell[q]}}
        BY <2>1
    <2> QED BY <1>2, <2>2 DEF OnTheWay
<1>3. ASSUME NEW w \in Web, at[w] = s, c \in got[w]
      PROVE  c \in OnTheWay(s)
    <2>1. w \in {v \in Web : at[v] = s}
        BY <1>3
    <2>2. got[w] \in {got[p] : p \in {v \in Web : at[v] = s}}
        BY <2>1
    <2>3. c \in UNION {got[p] : p \in {v \in Web : at[v] = s}}
        BY <1>3, <2>2
    <2> QED BY <2>3 DEF OnTheWay
<1> QED BY <1>1, <1>2, <1>3 DEF Coming

IInv == TypeOK /\ Locks /\ TimerInv /\ PagesInv /\ GotInv /\ Heard

\* Nobody is there yet.
LEMMA Initially ==
    ASSUME Init
    PROVE  IInv
<1>1. TypeOK
    <2>1. /\ loggedIn \in [Session -> BOOLEAN] /\ idle \in [Session -> BOOLEAN]
          /\ updateAll \in [Session -> BOOLEAN] /\ shown \in [Session -> BOOLEAN]
        BY DEF Init
    <2>2. uiUpdateIDs \in [Session -> SUBSET Container] /\ stale \in [Session -> SUBSET Container]
        BY DEF Init
    <2>3. /\ pc \in [Thread -> Labels] /\ at \in [Thread -> Session \union {NoSession}]
          /\ got \in [Thread -> SUBSET Container] /\ toTell \in [Thread -> SUBSET Session]
        BY DEF Init, Labels
    <2>4. reports \in 0 .. MaxReports
        BY FirstOne DEF Init
    <2> QED BY <2>1, <2>2, <2>3, <2>4 DEF Init, TypeOK
<1>2. Locks /\ TimerInv
    BY DEF Init, Locks, TimerInv, Thread
<1>3. PagesInv
    BY DEF Init, PagesInv, UnusedInv, OneEach, AtInv, ShownInv, Thread
<1>4. GotInv /\ Heard
    BY DEF Init, GotInv, Heard, Thread
<1> QED BY <1>1, <1>2, <1>3, <1>4 DEF IInv

\* The invariant all three theorems follow from.
LEMMA Inductive == Spec => []IInv
<1>1. IInv /\ [Next]_vars => IInv'
    BY TypeStep, LocksStep, TimerStep, UnusedInvStep, OneEachStep, AtInvStep, ShownInvStep,
       GotStep, HeardStep DEF IInv, PagesInv
<1> QED BY <1>1, Initially, PTL DEF Spec

-----------------------------------------------------------------------------
\* The state of the sessions, of the Timer and of every thread keeps its type;
\* in particular a request that is past the check has a session to work on.
THEOREM TypeCorrect == Spec => []TypeOK
<1>1. IInv => TypeOK
    BY DEF IInv
<1> QED BY <1>1, Inductive, PTL

\* SessionManager::checkTimer(): whenever nobody holds the mutex, the
\* SessionManager is a subscriber of the Timer exactly as long as there is a
\* session that may expire, and timerAdded says so.
THEOREM TimerFollows == Spec => []TimerMatches
<1>1. IInv => TimerMatches
    BY DEF IInv, TypeOK, TimerInv, TimerMatches
<1> QED BY <1>1, Inductive, PTL

\* Session::containerChangedUI(), getUIUpdateIDs(): a container that changed
\* after a page has loaded it is among the collected ids of its session, or the
\* page is to load everything, or the change is on its way to it, for any size
\* of the list of collected ids.
THEOREM NoChangeMissed == Spec => []NothingMissed
<1>1. IInv => NothingMissed
    BY HeardSuffices DEF IInv
<1> QED BY <1>1, Inductive, PTL
=============================================================================
