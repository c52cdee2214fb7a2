------------------------ MODULE UpdateManagerProofs ------------------------
(***************************************************************************)
(* Proofs about UpdateManager, for any containers, callers, batches and    *)
(* limits.                                                                 *)
(***************************************************************************)
EXTENDS UpdateManager, FiniteSetTheorems, TLAPS

\* Facts about the arguments that TypeOK rests on.
LEMMA CallTypes ==
    ASSUME TypeOK, NEW c \in Caller
    PROVE  /\ call[c].pc \in {"idle", "loop", "spin"}
           /\ call[c].ids \in Seq(Container)
           /\ call[c].split \in BOOLEAN
           /\ call[c].signal \in BOOLEAN
BY DEF TypeOK, Activation

LEMMA IdsOfType ==
    ASSUME NEW ids \in Seq(Container)
    PROVE  IdsOf(ids) \subseteq Container
BY DEF IdsOf

\* The ids of a non-empty sequence are its head and the ids of its tail.
LEMMA IdsOfHeadTail ==
    ASSUME NEW ids \in Seq(Container), ids # <<>>
    PROVE  /\ Head(ids) \in Container
           /\ Tail(ids) \in Seq(Container)
           /\ IdsOf(ids) = {Head(ids)} \cup IdsOf(Tail(ids))
<1>1. Head(ids) \in Container /\ Tail(ids) \in Seq(Container)
  OBVIOUS
<1>2. IdsOf(ids) \subseteq {Head(ids)} \cup IdsOf(Tail(ids))
  <2> SUFFICES ASSUME NEW i \in DOMAIN ids, i # 1
               PROVE  ids[i] \in IdsOf(Tail(ids))
    BY DEF IdsOf
  <2>1. i - 1 \in DOMAIN Tail(ids) /\ Tail(ids)[i - 1] = ids[i]
    OBVIOUS
  <2> QED  BY <2>1 DEF IdsOf
<1>3. {Head(ids)} \cup IdsOf(Tail(ids)) \subseteq IdsOf(ids)
  <2>1. 1 \in DOMAIN ids /\ Head(ids) = ids[1]
    OBVIOUS
  <2>2. ASSUME NEW i \in DOMAIN Tail(ids)
        PROVE  i + 1 \in DOMAIN ids /\ Tail(ids)[i] = ids[i + 1]
    OBVIOUS
  <2> QED  BY <2>1, <2>2 DEF IdsOf
<1> QED  BY <1>1, <1>2, <1>3

LEMMA TypeInit == Init => TypeOK
<1>1. Idle \in Activation
  BY DEF Idle, Activation
<1>2. ASSUME Init PROVE call \in [Caller -> Activation]
  BY <1>1, <1>2 DEF Init
<1>3. ASSUME Init PROVE calls \in Nat
  BY <1>3 DEF Init
<1> QED  BY <1>2, <1>3 DEF Init, TypeOK, Policy

LEMMA TypeSingle ==
    ASSUME TypeOK, NEW c \in Caller, SingleCall(c)
    PROVE  TypeOK'
<1> PICK id \in Container \cup {NoContainer}, policy \in Policy :
        containerChanged(c, id, policy)
  BY DEF SingleCall
<1>1. CASE Ignored(id, policy)
  BY <1>1 DEF containerChanged, NewCall, TypeOK
<1>2. CASE ~Ignored(id, policy)
  <2>1. id \in Container
    BY <1>2 DEF Ignored
  <2>2. MoreUrgent(policy) \in Policy
    BY DEF MoreUrgent, TypeOK
  <2>3. objectIDHash' \subseteq Container /\ owed' \subseteq Container
    BY <1>2, <2>1 DEF containerChanged, TypeOK
  <2>4. signalled' \in BOOLEAN
    BY <1>2 DEF containerChanged, SignalIf, TypeOK
  <2>5. calls' \in Nat
    BY DEF containerChanged, NewCall, TypeOK
  <2> QED  BY <1>2, <2>1, <2>2, <2>3, <2>4, <2>5 DEF containerChanged, TypeOK
<1> QED  BY <1>1, <1>2

LEMMA TypeBatch ==
    ASSUME TypeOK, NEW c \in Caller, BatchCall(c)
    PROVE  TypeOK'
<1>1. ASSUME NEW ids \in Batches, containersChangedBegin(c, ids, FLUSH_SPEC)
      PROVE  TypeOK'
  <2>1. ids \in Seq(Container) /\ IdsOf(ids) \subseteq Container
    BY ConstantsAssumption, IdsOfType
  <2>2. MustSplit(ids) \in BOOLEAN /\ CouldBeIdle \in BOOLEAN
    BY DEF MustSplit, CouldBeIdle
  <2>3. call' \in [Caller -> Activation]
    BY <1>1, <2>1, <2>2 DEF containersChangedBegin, TypeOK, Activation
  <2> QED  BY <1>1, <2>1, <2>3, ConstantsAssumption
           DEF containersChangedBegin, MoreUrgent, NewCall, TypeOK, Policy,
               FLUSH_SPEC, FLUSH_ASAP
<1>2. CASE containersChangedPut(c)
  <2>1. /\ Head(call[c].ids) \in Container
        /\ Tail(call[c].ids) \in Seq(Container)
    BY <1>2, CallTypes, IdsOfHeadTail DEF containersChangedPut
  <2>2. objectIDHash' \subseteq Container
    BY <1>2, <2>1 DEF containersChangedPut, TypeOK
  <2>3. call' \in [Caller -> Activation]
    BY <1>2, <2>1, CallTypes DEF containersChangedPut, TypeOK, Activation
  <2> QED  BY <1>2, <2>2, <2>3 DEF containersChangedPut, SignalIf, Waiting, TypeOK
<1>3. CASE containersChangedSpin(c)
  BY <1>3 DEF containersChangedSpin, SignalIf, TypeOK, Activation
<1>4. CASE containersChangedEnd(c)
  BY <1>4 DEF containersChangedEnd, SignalIf, TypeOK, Activation, Idle
<1> QED  BY <1>1, <1>2, <1>3, <1>4 DEF BatchCall

LEMMA TypeThread ==
    ASSUME TypeOK, UpdateThread \/ shutdown \/ Tick
    PROVE  TypeOK'
<1>1. CASE threadExit     BY <1>1 DEF threadExit, TypeOK
<1>2. CASE threadWait     BY <1>2 DEF threadWait, TypeOK
<1>3. CASE threadTimedwait  BY <1>3 DEF threadTimedwait, TypeOK
<1>4. CASE threadWake     BY <1>4 DEF threadWake, TypeOK
<1>5. ASSUME NEW full \in BOOLEAN, threadSend(full) PROVE TypeOK'
  BY <1>5 DEF threadSend, StartOver, TypeOK, Policy
<1>6. CASE threadSendFails  BY <1>6 DEF threadSendFails, StartOver, TypeOK, Policy
<1>7. ASSUME NEW ok \in BOOLEAN, threadSent(ok) PROVE TypeOK'
  BY <1>7 DEF threadSent, TypeOK
<1>8. CASE threadRelock   BY <1>8 DEF threadRelock, TypeOK
<1>9. CASE shutdown       BY <1>9 DEF shutdown, SignalIf, callerVars, TypeOK
<1>10. CASE Tick          BY <1>10 DEF Tick, callerVars, TypeOK
<1> QED  BY <1>1, <1>2, <1>3, <1>4, <1>5, <1>6, <1>7, <1>8, <1>9, <1>10
         DEF UpdateThread

LEMMA TypeNext ==
    ASSUME TypeOK, [Next]_vars
    PROVE  TypeOK'
<1>1. CASE UNCHANGED vars
  BY <1>1 DEF vars, TypeOK
<1> QED  BY <1>1, TypeSingle, TypeBatch, TypeThread DEF Next

\* The state of the UpdateManager keeps its types for every instance.
THEOREM TypeCorrect == Spec => []TypeOK
BY TypeInit, TypeNext, PTL DEF Spec

----------------------------------------------------------------------------
(* NoLostChange.  What makes it inductive: a report may be dropped only     *)
(* because its id is already in the hash.                                   *)

LastInHash ==
    lastContainerChanged # NoContainer => lastContainerChanged \in objectIDHash

IdleHasNoIds == \A c \in Caller : call[c].pc = "idle" => call[c].ids = <<>>

ChangeInv == TypeOK /\ NoLostChange /\ LastInHash /\ IdleHasNoIds

\* Remaining after a step of caller c alone.
LEMMA RemainingStep ==
    ASSUME NEW c \in Caller, NEW added,
           \A d \in Caller \ {c} : call'[d].ids = call[d].ids,
           IdsOf(call[c].ids) \subseteq IdsOf(call'[c].ids) \cup added
    PROVE  Remaining \subseteq Remaining' \cup added
BY DEF Remaining

LEMMA ChangeInit == Init => ChangeInv
<1>1. Init => NoLostChange /\ LastInHash /\ IdleHasNoIds
  BY DEF Init, NoLostChange, LastInHash, IdleHasNoIds, Idle
<1> QED  BY <1>1, TypeInit DEF ChangeInv

LEMMA ChangeSingle ==
    ASSUME ChangeInv, NEW c \in Caller, SingleCall(c)
    PROVE  NoLostChange' /\ LastInHash' /\ IdleHasNoIds'
<1> PICK id \in Container \cup {NoContainer}, policy \in Policy :
        containerChanged(c, id, policy)
  BY DEF SingleCall
<1>0. Remaining' = Remaining /\ IdleHasNoIds'
  BY DEF containerChanged, Remaining, IdsOf, ChangeInv, IdleHasNoIds
<1>1. CASE Ignored(id, policy)
  <2>1. id # NoContainer => id \in objectIDHash
    BY <1>1 DEF Ignored, ChangeInv, LastInHash
  <2> QED  BY <1>0, <1>1, <2>1 DEF containerChanged, ChangeInv, NoLostChange, LastInHash
<1>2. CASE ~Ignored(id, policy)
  BY <1>0, <1>2 DEF containerChanged, ChangeInv, NoLostChange, LastInHash
<1> QED  BY <1>1, <1>2

LEMMA ChangeBatch ==
    ASSUME ChangeInv, NEW c \in Caller, BatchCall(c)
    PROVE  NoLostChange' /\ LastInHash' /\ IdleHasNoIds'
<1> USE DEF ChangeInv
<1>e. IdsOf(<<>>) = {}
  BY DEF IdsOf
<1>1. ASSUME NEW ids \in Batches, containersChangedBegin(c, ids, FLUSH_SPEC)
      PROVE  NoLostChange' /\ LastInHash' /\ IdleHasNoIds'
  <2>1. /\ call'[c].pc = "loop" /\ call'[c].ids = ids
        /\ \A d \in Caller \ {c} : call'[d] = call[d]
    BY <1>1 DEF containersChangedBegin, TypeOK
  <2>2. IdsOf(ids) \subseteq Remaining'
    BY <2>1 DEF Remaining
  <2>3. IdsOf(call[c].ids) = {}
    BY <1>1, <1>e DEF containersChangedBegin, NewCall, IdleHasNoIds
  <2>4. Remaining \subseteq Remaining' \cup {}
    BY <2>1, <2>3, RemainingStep
  <2>5. IdleHasNoIds'
    BY <2>1 DEF IdleHasNoIds
  <2> QED  BY <1>1, <2>2, <2>4, <2>5 DEF containersChangedBegin, NoLostChange, LastInHash
<1>2. CASE containersChangedPut(c)
  <2> DEFINE id == Head(call[c].ids)
  <2>1. /\ call'[c].ids = Tail(call[c].ids) /\ call'[c].pc # "idle"
        /\ \A d \in Caller \ {c} : call'[d] = call[d]
    BY <1>2, CallTypes DEF containersChangedPut, TypeOK, Activation
  <2>2. id \in Container /\ IdsOf(call[c].ids) = {id} \cup IdsOf(Tail(call[c].ids))
    BY <1>2, CallTypes, IdsOfHeadTail DEF containersChangedPut
  <2>3. Remaining \subseteq Remaining' \cup {id}
    BY <2>1, <2>2, RemainingStep
  <2>4. id \in objectIDHash' /\ objectIDHash \subseteq objectIDHash'
    BY <1>2, <2>2, ConstantsAssumption DEF containersChangedPut, LastInHash
  <2>5. IdleHasNoIds'
    BY <2>1 DEF IdleHasNoIds
  <2> QED  BY <1>2, <2>3, <2>4, <2>5 DEF containersChangedPut, NoLostChange, LastInHash
<1>3. CASE containersChangedSpin(c)
  <2>1. /\ call'[c].ids = call[c].ids /\ call'[c].pc # "idle"
        /\ \A d \in Caller \ {c} : call'[d] = call[d]
    <3>1. call' = call \/ call' = [call EXCEPT ![c].pc = "loop"]
      BY <1>3 DEF containersChangedSpin
    <3>2. call[c].pc = "spin"
      BY <1>3 DEF containersChangedSpin
    <3> QED  BY <3>1, <3>2 DEF TypeOK, Activation
  <2>2. Remaining \subseteq Remaining' \cup {}
    BY <2>1, RemainingStep
  <2>3. IdleHasNoIds'
    BY <2>1 DEF IdleHasNoIds
  <2> QED  BY <1>3, <2>2, <2>3 DEF containersChangedSpin, NoLostChange, LastInHash
<1>4. CASE containersChangedEnd(c)
  <2>1. /\ call'[c].ids = <<>> /\ call[c].ids = <<>>
        /\ \A d \in Caller \ {c} : call'[d] = call[d]
    BY <1>4 DEF containersChangedEnd, TypeOK, Idle
  <2>2. Remaining \subseteq Remaining' \cup {}
    BY <2>1, <1>e, RemainingStep
  <2>3. IdleHasNoIds'
    BY <2>1 DEF IdleHasNoIds
  <2> QED  BY <1>4, <2>2, <2>3 DEF containersChangedEnd, NoLostChange, LastInHash
<1> QED  BY <1>1, <1>2, <1>3, <1>4 DEF BatchCall

LEMMA ChangeThread ==
    ASSUME ChangeInv, UpdateThread \/ shutdown \/ Tick \/ UNCHANGED vars
    PROVE  NoLostChange' /\ LastInHash' /\ IdleHasNoIds'
<1>1. call' = call
  BY DEF UpdateThread, threadExit, threadWait, threadTimedwait, threadWake, threadSend,
         threadSendFails, threadSent, threadRelock, shutdown, Tick, callerVars, vars
<1>2. Remaining' = Remaining /\ IdleHasNoIds'
  BY <1>1 DEF Remaining, IdsOf, ChangeInv, IdleHasNoIds
<1>3. ASSUME NEW full \in BOOLEAN, threadSend(full)
      PROVE  NoLostChange' /\ LastInHash'
  BY <1>2, <1>3 DEF threadSend, StartOver, ChangeInv, NoLostChange, LastInHash
<1>4. CASE threadSendFails
  BY <1>2, <1>4 DEF threadSendFails, StartOver, ChangeInv, NoLostChange, LastInHash
<1>5. CASE UNCHANGED <<objectIDHash, lastContainerChanged, owed>>
  BY <1>2, <1>5 DEF ChangeInv, NoLostChange, LastInHash
<1> QED  BY <1>2, <1>3, <1>4, <1>5
         DEF UpdateThread, threadExit, threadWait, threadTimedwait, threadWake,
             threadSent, threadRelock, shutdown, Tick, callerVars, vars

\* No report of a change is ever lost, whatever the callers report, the
\* batches are split or the storage fails.
THEOREM NoChangeIsLost == Spec => []NoLostChange
<1>1. ChangeInv /\ [Next]_vars => ChangeInv'
  <2> SUFFICES ASSUME ChangeInv, [Next]_vars PROVE ChangeInv'
    OBVIOUS
  <2>1. TypeOK'
    BY TypeNext DEF ChangeInv
  <2>2. NoLostChange' /\ LastInHash' /\ IdleHasNoIds'
    BY ChangeSingle, ChangeBatch, ChangeThread DEF Next
  <2> QED  BY <2>1, <2>2 DEF ChangeInv
<1>2. ChangeInv => NoLostChange
  BY DEF ChangeInv
<1> QED  BY <1>1, <1>2, ChangeInit, PTL DEF Spec

----------------------------------------------------------------------------
(* NoLostWakeup, as long as no batch is long enough to be split.  What     *)
(* makes it inductive: between the steps of a batch the mutex is held by   *)
(* its caller, who has noted that the thread has to be signalled.          *)

NoBatchIsSplit ==
    \A ids \in Batches :
        Cardinality(Container) + Len(ids) < MAX_OBJECT_IDS + MAX_OBJECT_IDS_OVERLOAD

LockInv ==
    /\ lock = Upd <=> upd = "top"
    /\ \A c \in Caller : lock = c <=> call[c].pc = "loop"

Unsplit == \A c \in Caller : ~call[c].split /\ call[c].pc # "spin"

\* The idle thread that no signal has reached yet.
Oblivious == upd = "wait" /\ ~signalled

WakeupPart ==
    Oblivious =>
        /\ ~shutdownFlag
        /\ lock = Free => objectIDHash = {}
        /\ \A c \in Caller : lock = c => call[c].signal

WakeupInv == TypeOK /\ LockInv /\ Unsplit /\ WakeupPart

LEMMA WakeupInit == Init => WakeupInv
<1>1. Init => LockInv /\ Unsplit
  BY ConstantsAssumption DEF Init, LockInv, Unsplit, Idle, Free, Upd
<1>2. Init => WakeupPart
  BY DEF Init, WakeupPart, Oblivious
<1> QED  BY <1>1, <1>2, TypeInit DEF WakeupInv

LEMMA WakeupSingle ==
    ASSUME WakeupInv, NEW c \in Caller, SingleCall(c)
    PROVE  LockInv' /\ Unsplit' /\ WakeupPart'
<1> USE DEF WakeupInv
<1> PICK id \in Container \cup {NoContainer}, policy \in Policy :
        containerChanged(c, id, policy)
  BY DEF SingleCall
<1>1. LockInv' /\ Unsplit'
  BY DEF containerChanged, LockInv, Unsplit
<1>2. CASE Ignored(id, policy)
  BY <1>1, <1>2 DEF containerChanged, WakeupPart, Oblivious
<1>3. CASE ~Ignored(id, policy)
  <2>1. Oblivious => CouldBeIdle
    BY DEF containerChanged, WakeupPart, CouldBeIdle, haveUpdates
  <2>2. ~Oblivious'
    BY <1>3, <2>1 DEF containerChanged, SignalIf, Waiting, Oblivious
  <2> QED  BY <1>1, <2>2 DEF WakeupPart
<1> QED  BY <1>1, <1>2, <1>3

LEMMA WakeupBatch ==
    ASSUME WakeupInv, NoBatchIsSplit, NEW c \in Caller, BatchCall(c)
    PROVE  LockInv' /\ Unsplit' /\ WakeupPart'
<1> USE DEF WakeupInv
<1>c. Free # Upd /\ \A d \in Caller : Free # d /\ Upd # d
  BY ConstantsAssumption DEF Free, Upd
<1>1. ASSUME NEW ids \in Batches, containersChangedBegin(c, ids, FLUSH_SPEC)
      PROVE  LockInv' /\ Unsplit' /\ WakeupPart'
  <2>1. ~MustSplit(ids)
    <3>1. /\ objectIDHash \subseteq Container
          /\ Cardinality(objectIDHash) <= Cardinality(Container)
          /\ Cardinality(objectIDHash) \in Nat /\ Cardinality(Container) \in Nat
      BY ConstantsAssumption, FS_Subset, FS_CardinalityType DEF TypeOK
    <3>2. Len(ids) \in Nat
      BY ConstantsAssumption
    <3> QED  BY <3>1, <3>2, ConstantsAssumption DEF MustSplit, NoBatchIsSplit
  <2>2. /\ call'[c].pc = "loop" /\ ~call'[c].split
        /\ call'[c].signal = (CouldBeIdle \/ FLUSH_SPEC > flushPolicy)
        /\ \A d \in Caller \ {c} : call'[d] = call[d]
    BY <1>1, <2>1 DEF containersChangedBegin, TypeOK
  <2>3. LockInv'
    BY <1>1, <1>c, <2>2 DEF containersChangedBegin, LockInv
  <2>4. Unsplit'
    BY <2>2 DEF Unsplit
  <2>5. WakeupPart'
    BY <1>1, <1>c, <2>2
    DEF containersChangedBegin, WakeupPart, Oblivious, CouldBeIdle, haveUpdates
  <2> QED  BY <2>3, <2>4, <2>5
<1>2. CASE containersChangedPut(c)
  <2>1. lock = c /\ ~call[c].split
    BY <1>2 DEF containersChangedPut, LockInv, Unsplit
  <2>2. /\ lock' = c /\ call' = [call EXCEPT ![c].ids = Tail(@), ![c].pc = "loop"]
        /\ signalled' = signalled
    BY <1>2, <2>1 DEF containersChangedPut, SignalIf, TypeOK
  <2>3. /\ call'[c].pc = "loop" /\ ~call'[c].split
        /\ call'[c].signal = call[c].signal
        /\ \A d \in Caller \ {c} : call'[d] = call[d]
    BY <2>1, <2>2 DEF TypeOK, Activation
  <2>4. LockInv'
    BY <1>2, <2>1, <2>2, <2>3 DEF containersChangedPut, LockInv
  <2>5. Unsplit'
    BY <2>3 DEF Unsplit
  <2>6. WakeupPart'
    BY <1>2, <1>c, <2>1, <2>2, <2>3 DEF containersChangedPut, WakeupPart, Oblivious
  <2> QED  BY <2>4, <2>5, <2>6
<1>3. CASE containersChangedSpin(c)
  BY <1>3 DEF containersChangedSpin, Unsplit
<1>4. CASE containersChangedEnd(c)
  <2>1. lock = c /\ lock' = Free
    BY <1>4 DEF containersChangedEnd, LockInv
  <2>2. /\ call'[c] = Idle
        /\ \A d \in Caller \ {c} : call'[d] = call[d]
    BY <1>4 DEF containersChangedEnd, TypeOK
  <2>3. LockInv'
    BY <1>4, <2>1, <2>2, ConstantsAssumption
    DEF containersChangedEnd, LockInv, Idle, Free, Upd
  <2>4. Unsplit'
    BY <2>2 DEF Unsplit, Idle
  <2>5. ~Oblivious'
    BY <1>4, <2>1 DEF containersChangedEnd, SignalIf, Waiting, WakeupPart, Oblivious
  <2> QED  BY <2>3, <2>4, <2>5 DEF WakeupPart
<1> QED  BY <1>1, <1>2, <1>3, <1>4 DEF BatchCall

LEMMA WakeupThread ==
    ASSUME WakeupInv, UpdateThread \/ shutdown \/ Tick \/ UNCHANGED vars
    PROVE  LockInv' /\ Unsplit' /\ WakeupPart'
<1> USE DEF WakeupInv
<1>0. Free # Upd /\ \A c \in Caller : Free # c /\ Upd # c
  BY ConstantsAssumption DEF Free, Upd
<1>1. call' = call
  BY DEF UpdateThread, threadExit, threadWait, threadTimedwait, threadWake, threadSend,
         threadSendFails, threadSent, threadRelock, shutdown, Tick, callerVars, vars
<1>2. Unsplit'
  BY <1>1 DEF Unsplit
<1>3. CASE threadWait
  BY <1>0, <1>1, <1>2, <1>3 DEF threadWait, LockInv, WakeupPart, Oblivious, haveUpdates
<1>4. CASE shutdown
  <2>1. ~Oblivious'
    BY <1>4 DEF shutdown, SignalIf, Waiting, Oblivious
  <2> QED  BY <1>1, <1>2, <1>4, <2>1 DEF shutdown, callerVars, LockInv, WakeupPart
<1>5. CASE Tick
  BY <1>1, <1>2, <1>5 DEF Tick, callerVars, LockInv, WakeupPart, Oblivious
<1>6. CASE UNCHANGED vars
  BY <1>1, <1>2, <1>6 DEF vars, LockInv, WakeupPart, Oblivious
<1>7. CASE threadExit
  BY <1>0, <1>1, <1>2, <1>7 DEF threadExit, LockInv, WakeupPart, Oblivious
<1>8. CASE threadTimedwait
  BY <1>0, <1>1, <1>2, <1>8 DEF threadTimedwait, LockInv, WakeupPart, Oblivious
<1>9. CASE threadWake \/ threadRelock
  BY <1>0, <1>1, <1>2, <1>9 DEF threadWake, threadRelock, LockInv, WakeupPart, Oblivious
<1>10. ASSUME NEW full \in BOOLEAN, threadSend(full)
       PROVE  LockInv' /\ WakeupPart'
  BY <1>0, <1>1, <1>10 DEF threadSend, SendsNow, LockInv, WakeupPart, Oblivious
<1>11. CASE threadSendFails
  BY <1>0, <1>1, <1>2, <1>11 DEF threadSendFails, SendsNow, LockInv, WakeupPart, Oblivious
<1>12. ASSUME NEW ok \in BOOLEAN, threadSent(ok)
       PROVE  LockInv' /\ WakeupPart'
  BY <1>0, <1>1, <1>12 DEF threadSent, LockInv, WakeupPart, Oblivious
<1> QED  BY <1>2, <1>3, <1>4, <1>5, <1>6, <1>7, <1>8, <1>9, <1>10, <1>11, <1>12
         DEF UpdateThread

\* The idle update thread never sleeps through a report or through shutdown(),
\* in every instance whose batches are too short to be split.
THEOREM UnsplitWakeup ==
    ASSUME NoBatchIsSplit
    PROVE  Spec => []NoLostWakeup
<1>1. WakeupInv /\ [Next]_vars => WakeupInv'
  <2> SUFFICES ASSUME WakeupInv, [Next]_vars PROVE WakeupInv'
    OBVIOUS
  <2>1. TypeOK'
    BY TypeNext DEF WakeupInv
  <2>2. LockInv' /\ Unsplit' /\ WakeupPart'
    BY NoBatchIsSplit, WakeupSingle, WakeupBatch, WakeupThread DEF Next
  <2> QED  BY <2>1, <2>2 DEF WakeupInv
<1>2. WakeupInv => NoLostWakeup
  BY DEF WakeupInv, WakeupPart, Oblivious, NoLostWakeup, haveUpdates
<1> QED  BY <1>1, <1>2, WakeupInit, PTL DEF Spec

----------------------------------------------------------------------------
(* BatchBound.  What makes it inductive: a batch that is not split has     *)
(* room for all the ids it still has to put.                               *)

RoomForRest ==
    \A c \in Caller : call[c].pc = "loop" /\ ~call[c].split =>
        Cardinality(objectIDHash) + Len(call[c].ids)
            < MAX_OBJECT_IDS + MAX_OBJECT_IDS_OVERLOAD + Cardinality(Spinning)

\* Only the holder of the mutex is inside its loop.
OneInLoop == \A c \in Caller : lock = c <=> call[c].pc = "loop"

\* Only a split batch signals in between.
SpinningIsSplit == \A c \in Caller : call[c].pc = "spin" => call[c].split

ThreadHolds == upd = "top" => lock = Upd

BatchInv ==
    TypeOK /\ ThreadHolds /\ OneInLoop /\ SpinningIsSplit /\ BatchBound /\ RoomForRest

LEMMA Sizes ==
    ASSUME TypeOK
    PROVE  /\ IsFiniteSet(objectIDHash) /\ Cardinality(objectIDHash) \in Nat
           /\ IsFiniteSet(Spinning) /\ Cardinality(Spinning) \in Nat
<1>1. objectIDHash \in SUBSET Container /\ Spinning \in SUBSET Caller
  BY DEF TypeOK, Spinning
<1>2. IsFiniteSet(objectIDHash) /\ IsFiniteSet(Spinning)
  BY <1>1, ConstantsAssumption, FS_Subset
<1> QED  BY <1>2, FS_CardinalityType

LEMMA AddOne ==
    ASSUME NEW S, IsFiniteSet(S), NEW x
    PROVE  /\ Cardinality(S \cup {x}) \in Nat
           /\ Cardinality(S \cup {x}) <= Cardinality(S) + 1
<1>1. Cardinality(S) \in Nat
  BY FS_CardinalityType
<1>2. Cardinality(S \cup {x}) = Cardinality(S) \/ Cardinality(S \cup {x}) = Cardinality(S) + 1
  BY FS_AddElement
<1> QED  BY <1>1, <1>2

LEMMA SameSpinning ==
    ASSUME \A d \in Caller : call'[d].pc = "spin" <=> call[d].pc = "spin"
    PROVE  Spinning' = Spinning
BY DEF Spinning

LEMMA BatchInit == Init => BatchInv
<1> SUFFICES ASSUME Init PROVE BatchInv
  OBVIOUS
<1>1. TypeOK
  BY TypeInit
<1>2. Cardinality(objectIDHash) = 0
  BY FS_EmptySet DEF Init
<1>3. BatchBound
  BY <1>1, <1>2, Sizes, ConstantsAssumption DEF BatchBound
<1>4. ThreadHolds /\ OneInLoop /\ SpinningIsSplit /\ RoomForRest
  BY ConstantsAssumption
  DEF Init, Idle, ThreadHolds, OneInLoop, SpinningIsSplit, RoomForRest
<1> QED  BY <1>1, <1>3, <1>4 DEF BatchInv

LEMMA BatchBeginStep ==
    ASSUME BatchInv, NEW c \in Caller, NEW ids \in Batches, TypeOK',
           containersChangedBegin(c, ids, FLUSH_SPEC)
    PROVE  OneInLoop' /\ BatchBound' /\ RoomForRest'
<1> USE DEF BatchInv
<1>1. /\ call'[c].pc = "loop" /\ call'[c].ids = ids
      /\ call'[c].split = MustSplit(ids)
      /\ call[c].pc = "idle"
      /\ \A d \in Caller \ {c} : call'[d] = call[d]
  BY DEF containersChangedBegin, NewCall, TypeOK
<1>2. Spinning' = Spinning
  BY <1>1, SameSpinning
<1>3. OneInLoop'
  BY <1>1, ConstantsAssumption DEF containersChangedBegin, OneInLoop
<1>4. BatchBound'
  BY <1>2 DEF containersChangedBegin, BatchBound
<1>5. RoomForRest'
  <2>1. Cardinality(Spinning) \in Nat /\ Cardinality(objectIDHash) \in Nat
    BY Sizes
  <2>2. Len(ids) \in Nat
    BY ConstantsAssumption
  <2>3. \A d \in Caller \ {c} : call[d].pc # "loop"
    BY <1>1, <1>3, ConstantsAssumption DEF containersChangedBegin, OneInLoop
  <2>4. objectIDHash' = objectIDHash
    BY DEF containersChangedBegin
  <2>5. ~MustSplit(ids) =>
            Cardinality(objectIDHash) + Len(ids)
                < MAX_OBJECT_IDS + MAX_OBJECT_IDS_OVERLOAD + Cardinality(Spinning)
    BY <2>1, <2>2, ConstantsAssumption DEF MustSplit
  <2> QED  BY <1>1, <1>2, <2>3, <2>4, <2>5 DEF RoomForRest
<1> QED  BY <1>3, <1>4, <1>5

LEMMA BatchPutStep ==
    ASSUME BatchInv, NEW c \in Caller, TypeOK', containersChangedPut(c)
    PROVE  OneInLoop' /\ BatchBound' /\ RoomForRest'
<1> USE DEF BatchInv
<1> DEFINE id    == Head(call[c].ids)
           spins == /\ id # lastContainerChanged
                    /\ call[c].split
                    /\ Cardinality(objectIDHash') > MAX_OBJECT_IDS
<1>1. /\ call[c].pc = "loop" /\ lock = c
      /\ call[c].ids \in Seq(Container) /\ call[c].ids # <<>>
      /\ call[c].split \in BOOLEAN
  BY CallTypes DEF containersChangedPut, OneInLoop
<1>2. /\ objectIDHash' = objectIDHash \/ objectIDHash' = objectIDHash \cup {id}
      /\ id = lastContainerChanged => objectIDHash' = objectIDHash
      /\ call' = [call EXCEPT ![c].ids = Tail(@),
                              ![c].pc  = IF spins THEN "spin" ELSE "loop"]
      /\ lock' = IF spins THEN Free ELSE c
  BY DEF containersChangedPut
<1>a. spins \in BOOLEAN /\ (spins => Cardinality(objectIDHash') > MAX_OBJECT_IDS)
  OBVIOUS
<1>b. ~spins /\ id # lastContainerChanged /\ call[c].split
          => ~(Cardinality(objectIDHash') > MAX_OBJECT_IDS)
  OBVIOUS
<1> HIDE DEF spins
<1>3. /\ call'[c].ids = Tail(call[c].ids)
      /\ call'[c].pc = IF spins THEN "spin" ELSE "loop"
      /\ call'[c].split = call[c].split
      /\ \A d \in Caller \ {c} : call'[d] = call[d]
  BY <1>2 DEF TypeOK, Activation
<1>4. /\ Cardinality(objectIDHash) \in Nat /\ Cardinality(objectIDHash') \in Nat
      /\ Cardinality(objectIDHash') <= Cardinality(objectIDHash) + 1
  <2>1. IsFiniteSet(objectIDHash) /\ Cardinality(objectIDHash) \in Nat
    BY Sizes
  <2>2. Cardinality(objectIDHash \cup {id}) \in Nat
        /\ Cardinality(objectIDHash \cup {id}) <= Cardinality(objectIDHash) + 1
    BY <2>1, AddOne
  <2>3. CASE objectIDHash' = objectIDHash
    BY <2>1, <2>3
  <2>4. CASE objectIDHash' = objectIDHash \cup {id}
    BY <2>2, <2>1, <2>4
  <2> QED  BY <1>2, <2>3, <2>4
<1>5. /\ Cardinality(Spinning) \in Nat
      /\ Cardinality(Spinning') = Cardinality(Spinning) + (IF spins THEN 1 ELSE 0)
  <2>1. Cardinality(Spinning) \in Nat /\ IsFiniteSet(Spinning)
    BY Sizes
  <2>2. CASE spins
    <3>1. c \notin Spinning /\ Spinning' = Spinning \cup {c}
      BY <1>1, <1>3, <2>2 DEF Spinning
    <3> QED  BY <2>1, <2>2, <3>1, FS_AddElement
  <2>3. CASE ~spins
    <3>1. Spinning' = Spinning
      BY <1>1, <1>3, <2>3, SameSpinning
    <3> QED  BY <2>1, <2>3, <3>1
  <2> QED  BY <2>2, <2>3
<1>6. OneInLoop'
  <2>0. \A d \in Caller : Free # d
    BY ConstantsAssumption
  <2>1. CASE spins
    <3>1. lock' = Free /\ call'[c].pc = "spin"
      BY <1>2, <1>3, <2>1
    <3> QED  BY <1>1, <1>3, <2>0, <3>1 DEF OneInLoop
  <2>2. CASE ~spins
    BY <1>1, <1>2, <1>3, <2>2 DEF OneInLoop
  <2> QED  BY <2>1, <2>2
<1>7. Len(call[c].ids) \in Nat /\ Len(call'[c].ids) = Len(call[c].ids) - 1
  BY <1>1, <1>3
<1>8. BatchBound'
  <2>1. CASE spins
    BY <1>4, <1>5, <2>1, ConstantsAssumption DEF BatchBound
  <2>2. CASE ~spins /\ objectIDHash' = objectIDHash
    BY <1>4, <1>5, <2>2 DEF BatchBound
  <2>3. CASE ~spins /\ id # lastContainerChanged /\ call[c].split
    BY <1>b, <1>4, <1>5, <2>3, ConstantsAssumption DEF BatchBound
  <2>4. CASE ~spins /\ id # lastContainerChanged /\ ~call[c].split
    <3>1. Cardinality(objectIDHash) + Len(call[c].ids)
            < MAX_OBJECT_IDS + MAX_OBJECT_IDS_OVERLOAD + Cardinality(Spinning)
      BY <1>1, <2>4 DEF RoomForRest
    <3>2. Len(call[c].ids) >= 1
      BY <1>1
    <3> QED  BY <1>4, <1>5, <1>7, <2>4, <3>1, <3>2, ConstantsAssumption DEF BatchBound
  <2> QED  BY <1>1, <1>2, <2>1, <2>2, <2>3, <2>4
<1>9. RoomForRest'
  <2> SUFFICES ASSUME NEW d \in Caller, call'[d].pc = "loop", ~call'[d].split
               PROVE  Cardinality(objectIDHash') + Len(call'[d].ids)
                        < MAX_OBJECT_IDS + MAX_OBJECT_IDS_OVERLOAD + Cardinality(Spinning')
    BY DEF RoomForRest
  <2>1. d = c
    BY <1>1, <1>3 DEF OneInLoop
  <2>2. ~call[c].split /\ ~spins
    BY <1>3, <2>1
  <2>3. Cardinality(objectIDHash) + Len(call[c].ids)
            < MAX_OBJECT_IDS + MAX_OBJECT_IDS_OVERLOAD + Cardinality(Spinning)
    BY <1>1, <2>2 DEF RoomForRest
  <2>4. Cardinality(Spinning') = Cardinality(Spinning)
    BY <1>5, <2>2
  <2>5. Cardinality(objectIDHash') + (Len(call[c].ids) - 1)
            < MAX_OBJECT_IDS + MAX_OBJECT_IDS_OVERLOAD + Cardinality(Spinning)
    BY <1>4, <1>5, <1>7, <2>3, ConstantsAssumption
  <2> QED  BY <1>7, <2>1, <2>4, <2>5
<1> QED  BY <1>6, <1>8, <1>9

LEMMA BatchSpinStep ==
    ASSUME BatchInv, NEW c \in Caller, TypeOK', containersChangedSpin(c)
    PROVE  OneInLoop' /\ BatchBound' /\ RoomForRest'
<1> USE DEF BatchInv
<1>1. CASE HashFull
  <2>1. call' = call /\ lock' = lock /\ objectIDHash' = objectIDHash
    BY <1>1 DEF containersChangedSpin
  <2>2. Spinning' = Spinning
    BY <2>1, SameSpinning
  <2> QED  BY <2>1, <2>2 DEF OneInLoop, BatchBound, RoomForRest
<1>2. CASE ~HashFull
  <2>1. /\ lock = Free /\ lock' = c /\ objectIDHash' = objectIDHash
        /\ call' = [call EXCEPT ![c].pc = "loop"]
    BY <1>2 DEF containersChangedSpin
  <2>2. /\ call'[c].pc = "loop" /\ call'[c].split = call[c].split
        /\ \A d \in Caller \ {c} : call'[d] = call[d]
    BY <2>1 DEF TypeOK, Activation
  <2>3. \A d \in Caller : Free # d
    BY ConstantsAssumption
  <2>4. OneInLoop'
    BY <2>1, <2>2, <2>3 DEF OneInLoop
  <2>5. /\ Cardinality(Spinning') \in Nat
        /\ Cardinality(objectIDHash) \in Nat
        /\ Cardinality(objectIDHash) <= MAX_OBJECT_IDS
    <3>1. IsFiniteSet(Spinning')
      <4>1. Spinning' \in SUBSET Caller
        BY DEF Spinning
      <4> QED  BY <4>1, FS_Subset, ConstantsAssumption
    <3> QED  BY <1>2, <3>1, FS_CardinalityType, Sizes, ConstantsAssumption DEF HashFull
  <2>6. BatchBound'
    BY <2>1, <2>5, ConstantsAssumption DEF BatchBound
  <2>7. call[c].split
    BY DEF containersChangedSpin, SpinningIsSplit
  <2>8. RoomForRest'
    BY <2>1, <2>2, <2>3, <2>7 DEF RoomForRest, OneInLoop
  <2> QED  BY <2>4, <2>6, <2>8
<1> QED  BY <1>1, <1>2

LEMMA BatchEndStep ==
    ASSUME BatchInv, NEW c \in Caller, TypeOK', containersChangedEnd(c)
    PROVE  OneInLoop' /\ BatchBound' /\ RoomForRest'
<1> USE DEF BatchInv
<1>1. /\ lock = c /\ lock' = Free /\ objectIDHash' = objectIDHash
      /\ call[c].pc = "loop"
      /\ call'[c] = Idle
      /\ \A d \in Caller \ {c} : call'[d] = call[d]
  BY DEF containersChangedEnd, OneInLoop, TypeOK
<1>2. \A d \in Caller : Free # d
  BY ConstantsAssumption
<1>3. Spinning' = Spinning
  BY <1>1, SameSpinning DEF Idle
<1>4. OneInLoop'
  BY <1>1, <1>2 DEF OneInLoop, Idle
<1> QED  BY <1>1, <1>3, <1>4 DEF OneInLoop, BatchBound, RoomForRest, Idle

LEMMA BatchSplitStep ==
    ASSUME BatchInv, NEW c \in Caller, BatchCall(c)
    PROVE  SpinningIsSplit' /\ ThreadHolds'
<1> USE DEF BatchInv
<1>0. ThreadHolds'
  <2>1. lock = Free \/ lock = c
    BY DEF BatchCall, containersChangedBegin, containersChangedPut,
           containersChangedSpin, containersChangedEnd, OneInLoop
  <2>2. lock # Upd
    BY <2>1, ConstantsAssumption DEF Free, Upd
  <2>3. upd' = upd
    BY DEF BatchCall, containersChangedBegin, containersChangedPut,
           containersChangedSpin, containersChangedEnd
  <2> QED  BY <2>2, <2>3 DEF ThreadHolds
<1> SUFFICES /\ call'[c].pc = "spin" => call'[c].split
             /\ \A d \in Caller \ {c} : call'[d] = call[d]
  BY <1>0 DEF SpinningIsSplit
<1>1. ASSUME NEW ids \in Batches, containersChangedBegin(c, ids, FLUSH_SPEC)
      PROVE  call'[c].pc = "loop" /\ \A d \in Caller \ {c} : call'[d] = call[d]
  BY <1>1 DEF containersChangedBegin, TypeOK
<1>2. CASE containersChangedPut(c)
  <2>1. \E pc \in {"spin", "loop"} :
            /\ call' = [call EXCEPT ![c].ids = Tail(@), ![c].pc = pc]
            /\ pc = "spin" => call[c].split
    BY <1>2 DEF containersChangedPut
  <2> QED  BY <2>1 DEF TypeOK, Activation
<1>3. CASE containersChangedSpin(c)
  <2>1. call' = call \/ call' = [call EXCEPT ![c].pc = "loop"]
    BY <1>3 DEF containersChangedSpin
  <2> QED  BY <2>1 DEF TypeOK, Activation, SpinningIsSplit
<1>4. CASE containersChangedEnd(c)
  BY <1>4 DEF containersChangedEnd, TypeOK, Idle
<1> QED  BY <1>1, <1>2, <1>3, <1>4 DEF BatchCall

LEMMA BatchThreadStep ==
    ASSUME BatchInv, TypeOK', UpdateThread \/ shutdown \/ Tick \/ UNCHANGED vars
    PROVE  /\ ThreadHolds' /\ OneInLoop' /\ SpinningIsSplit'
           /\ BatchBound' /\ RoomForRest'
<1> USE DEF BatchInv
<1>0. call' = call
  BY DEF UpdateThread, threadExit, threadWait, threadTimedwait, threadWake, threadSend,
         threadSendFails, threadSent, threadRelock, shutdown, Tick, callerVars, vars
<1>1. Spinning' = Spinning /\ SpinningIsSplit'
  BY <1>0 DEF Spinning, SpinningIsSplit
<1>2. /\ lock' = lock \/ (lock \in {Free, Upd} /\ lock' \in {Free, Upd})
      /\ ThreadHolds'
  BY DEF UpdateThread, threadExit, threadWait, threadTimedwait, threadWake, threadSend,
         SendsNow, threadSendFails, threadSent, threadRelock, shutdown, Tick,
         callerVars, vars, ThreadHolds
<1>3. objectIDHash' = objectIDHash \/ objectIDHash' = {}
  BY DEF UpdateThread, threadExit, threadWait, threadTimedwait, threadWake, threadSend,
         threadSendFails, threadSent, threadRelock, shutdown, Tick, callerVars, vars
<1>4. OneInLoop'
  BY <1>0, <1>2, ConstantsAssumption DEF OneInLoop
<1>5. CASE objectIDHash' = objectIDHash
  BY <1>0, <1>1, <1>2, <1>4, <1>5 DEF BatchBound, RoomForRest
<1>6. CASE objectIDHash' = {}
  <2>1. /\ Cardinality(objectIDHash') = 0
        /\ Cardinality(objectIDHash) \in Nat /\ Cardinality(Spinning) \in Nat
    BY <1>6, FS_EmptySet, Sizes
  <2>2. BatchBound'
    BY <1>1, <2>1, ConstantsAssumption DEF BatchBound
  <2>3. RoomForRest'
    <3> SUFFICES ASSUME NEW c \in Caller, call[c].pc = "loop", ~call[c].split
                 PROVE  0 + Len(call[c].ids)
                          < MAX_OBJECT_IDS + MAX_OBJECT_IDS_OVERLOAD + Cardinality(Spinning)
      BY <1>0, <1>1, <2>1 DEF RoomForRest
    <3>1. Cardinality(objectIDHash) + Len(call[c].ids)
            < MAX_OBJECT_IDS + MAX_OBJECT_IDS_OVERLOAD + Cardinality(Spinning)
      BY DEF RoomForRest
    <3>2. Len(call[c].ids) \in Nat
      BY CallTypes
    <3> QED  BY <2>1, <3>1, <3>2, ConstantsAssumption
  <2> QED  BY <1>1, <1>2, <1>4, <2>2, <2>3
<1> QED  BY <1>3, <1>5, <1>6

LEMMA BatchInductive ==
    ASSUME BatchInv, [BatchNext]_vars
    PROVE  BatchInv'
<1>1. TypeOK'
  BY TypeNext DEF BatchInv, BatchNext, Next
<1>2. ASSUME NEW c \in Caller, BatchCall(c)
      PROVE  OneInLoop' /\ BatchBound' /\ RoomForRest' /\ SpinningIsSplit' /\ ThreadHolds'
  BY <1>1, <1>2, BatchBeginStep, BatchPutStep, BatchSpinStep, BatchEndStep,
     BatchSplitStep DEF BatchCall
<1>3. CASE UpdateThread \/ shutdown \/ Tick \/ UNCHANGED vars
  BY <1>1, <1>3, BatchThreadStep DEF BatchInv
<1> QED  BY <1>1, <1>2, <1>3 DEF BatchInv, BatchNext

LEMMA BatchInvariant == BatchSpec => []BatchInv
BY BatchInit, BatchInductive, PTL DEF BatchSpec

\* The overload reserve holds for any number of concurrent batches.
THEOREM BatchesStayBounded == BatchSpec => []BatchBound
<1>1. BatchInv => BatchBound
  BY DEF BatchInv
<1> QED  BY <1>1, BatchInvariant, PTL

\* Hence batches never overfill the array of the hash as long as no more than
\* MAX_OBJECT_IDS_OVERLOAD + 1 threads report them at the same time.
THEOREM BatchesFitTheHash ==
    ASSUME Cardinality(Caller) <= MAX_OBJECT_IDS_OVERLOAD + 1
    PROVE  BatchSpec => []CapacityRespected
<1>1. BatchInv => CapacityRespected
  <2> SUFFICES ASSUME BatchInv PROVE CapacityRespected
    OBVIOUS
  <2>1. Spinning \in SUBSET Caller
    BY DEF Spinning
  <2>2. Cardinality(Spinning) <= Cardinality(Caller) /\ Cardinality(Caller) \in Nat
    BY <2>1, FS_Subset, FS_CardinalityType, ConstantsAssumption
  <2>3. Cardinality(Spinning) \in Nat /\ Cardinality(objectIDHash) \in Nat
    BY Sizes DEF BatchInv
  <2> QED  BY <2>2, <2>3, ConstantsAssumption DEF BatchInv, BatchBound, CapacityRespected
<1> QED  BY <1>1, BatchInvariant, PTL
=============================================================================
