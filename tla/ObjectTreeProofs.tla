------------------------- MODULE ObjectTreeProofs -------------------------
(***************************************************************************)
(* The loops of a removal implement the contract of the storage, for every *)
(* table and every length at which the lists are cut.                      *)
(*                                                                         *)
(* _recursiveRemove() follows children and references round by round.  Its *)
(* invariant (Sound, Complete) is that everything collected is doomed, and *)
(* that the collected set lacks only what the next round will find.        *)
(* _purgeEmptyContainers() has one of the same kind (Purged): whoever lost *)
(* a child and is still there is in one of its two lists.                  *)
(***************************************************************************)
EXTENDS ObjectTree, TLAPS

Kinds == {"dir", "virt", "file", "ref"}
RowType == [kind : Kinds, parent : Int, ref : Int, persistent : BOOLEAN]

\* A table of objects as the insertions build it.
WellFormed(o) ==
    /\ o \in [DOMAIN o -> RowType]
    /\ DOMAIN o \subseteq 0 .. lastID
    /\ CDS_ID_ROOT \in DOMAIN o
    /\ o[CDS_ID_ROOT].persistent /\ o[CDS_ID_ROOT].parent = -1
    /\ o[CDS_ID_ROOT].kind = "virt"
    /\ \A i \in DOMAIN o :
          /\ i # CDS_ID_ROOT => o[i].parent \in Tree!Containers(o)
          /\ o[i].kind = "ref" => o[i].ref \in DOMAIN o /\ o[o[i].ref].kind = "file"
          /\ o[i].kind # "ref" => o[i].ref = NoRef

\* The removal in progress has the fields of NoJob.
JobShape ==
    job = [pc |-> job.pc, ids |-> job.ids, all |-> job.all, before |-> job.before,
           recurseItems |-> job.recurseItems, recurseContainers |-> job.recurseContainers,
           removeAddParents |-> job.removeAddParents, remove |-> job.remove,
           upnp |-> job.upnp, ui |-> job.ui,
           changedUpnp |-> job.changedUpnp, changedUI |-> job.changedUI]

\* The table the removal began with, what has left it, what was collected.
old       == job.before
deleted   == DOMAIN old \ DOMAIN rows
collected == deleted \union job.remove
doomed    == Tree!Doomed(old, job.ids, job.all)
Parents   == {c \in Tree!Containers(old) : Tree!Children(old, c) # {}}

\* During a removal the table only loses rows, and the table it began with
\* was well-formed.
Shrinks ==
    /\ WellFormed(old)
    /\ DOMAIN rows \subseteq DOMAIN old
    /\ rows = Restrict(old, DOMAIN rows)
    /\ job.ids \subseteq DOMAIN old \ {CDS_ID_ROOT} /\ job.ids # {}
    /\ job.all \in BOOLEAN

\* _recursiveRemove() collects only what has to go.
Sound ==
    /\ collected \union job.recurseItems \union job.recurseContainers
         \union job.removeAddParents \subseteq doomed
    /\ job.recurseContainers \subseteq collected \intersect Tree!Containers(old)
    /\ job.recurseItems \intersect Tree!Containers(old) = {}
    /\ job.recurseItems \subseteq collected \union job.removeAddParents
    /\ job.removeAddParents \subseteq job.recurseItems
    /\ job.all => \A i \in job.removeAddParents : old[i].kind = "file"

\* What has to go is collected, or the next round finds it.
Complete ==
    /\ \A i \in DOMAIN old :
          /\ old[i].parent \in collected \ job.recurseContainers
                => i \in collected \/ old[i].ref \in job.recurseItems
          /\ old[i].ref \in collected \ job.recurseItems => i \in collected
    /\ \A i \in collected : job.all /\ old[i].kind = "ref"
                => old[i].ref \in collected \union job.removeAddParents
    /\ \A i \in job.ids :
          i \in collected \union job.removeAddParents \/ old[i].ref \in job.recurseItems

\* The parents of what is collected are in the lists for the clients.
Noted ==
    /\ \A i \in collected :
          /\ old[i].parent \in job.upnp \union job.ui \union doomed
          /\ old[i].kind \in {"dir", "virt"} => old[i].parent \in job.ui \union doomed
    /\ job.upnp \union job.ui \subseteq Parents
    /\ job.changedUpnp = {} /\ job.changedUI = {}

\* _purgeEmptyContainers(): the doomed objects are gone, and of the others only
\* containers that became empty.  A container that is left and lost a child is
\* in a list or, if it is persistent, reported.
Purged ==
    /\ doomed \subseteq deleted
    /\ deleted \subseteq doomed \union Tree!Emptied(old, doomed)
    /\ \A i \in DOMAIN rows \ {CDS_ID_ROOT} : rows[i].parent \in DOMAIN rows
    /\ CDS_ID_ROOT \in DOMAIN rows

Candidates ==
    /\ \A i \in deleted : old[i].parent \in DOMAIN rows =>
          /\ old[i].parent \in job.upnp \union job.ui \union Persistent(job.changedUpnp)
          /\ old[i].kind \in {"dir", "virt"} => old[i].parent \in job.ui \union job.changedUI
    /\ job.upnp \union job.ui \subseteq Parents
    /\ \A c \in job.changedUpnp \union job.changedUI :
          c \in DOMAIN rows /\ IsContainer(c) /\ rows[c].persistent

\* When it is over, exactly what the contract takes away is gone.
Finished ==
    /\ rows = Tree!Without(old, Tree!Gone(old, job.ids, job.all))
    /\ ReportsChanged

RemovalInv ==
    /\ JobShape
    /\ lastID \in Nat
    /\ job.pc \in {"idle", "recurse", "purge", "done"}
    /\ job.pc = "idle" => WellFormed(rows)
    /\ job.pc # "idle" => Shrinks
    /\ job.pc = "recurse" => Sound /\ Complete /\ Noted
    /\ job.pc \in {"purge", "done"} => Purged
    /\ job.pc = "purge" => Candidates
    /\ job.pc = "done" => Finished

-----------------------------------------------------------------------------
(* Doomed and emptied objects, as least closed sets.                       *)

LEMMA DoomedBasics ==
    ASSUME NEW o, NEW ids, NEW all, ids \subseteq DOMAIN o
    PROVE  ids \subseteq Tree!Doomed(o, ids, all) /\ Tree!Doomed(o, ids, all) \subseteq DOMAIN o
BY DEF Tree!Doomed

\* What a doomed object pulls along is doomed.
LEMMA DoomedFollows ==
    ASSUME NEW o, NEW ids, NEW all, NEW i \in DOMAIN o,
           o[i].parent \in Tree!Doomed(o, ids, all) \/ o[i].ref \in Tree!Doomed(o, ids, all)
    PROVE  i \in Tree!Doomed(o, ids, all)
<1> DEFINE closed == {X \in SUBSET DOMAIN o : ids \subseteq X /\ Tree!Closed(o, X, all)}
<1>1. ASSUME NEW X \in closed PROVE i \in X
  BY <1>1 DEF Tree!Doomed, Tree!Closed
<1> QED  BY <1>1 DEF Tree!Doomed

LEMMA DoomedOriginal ==
    ASSUME NEW o, NEW ids, NEW all, all, NEW i \in Tree!Doomed(o, ids, all),
           o[i].kind = "ref", o[i].ref \in DOMAIN o
    PROVE  o[i].ref \in Tree!Doomed(o, ids, all)
<1> DEFINE closed == {X \in SUBSET DOMAIN o : ids \subseteq X /\ Tree!Closed(o, X, all)}
<1>1. ASSUME NEW X \in closed PROVE o[i].ref \in X
  BY <1>1 DEF Tree!Doomed, Tree!Closed
<1> QED  BY <1>1 DEF Tree!Doomed

\* Nothing else is doomed.
LEMMA DoomedLeast ==
    ASSUME NEW o, NEW ids, NEW all, NEW X, X \subseteq DOMAIN o, ids \subseteq X,
           Tree!Closed(o, X, all)
    PROVE  Tree!Doomed(o, ids, all) \subseteq X
BY DEF Tree!Doomed

LEMMA NoRefIsNoId == NoRef \in Int /\ NoRef < 0
BY DEF NoRef, Tree!NoRef

\* The root is in nothing that goes.
LEMMA RootNotDoomed ==
    ASSUME NEW o, WellFormed(o), NEW all, NEW ids, ids \subseteq DOMAIN o \ {CDS_ID_ROOT}
    PROVE  CDS_ID_ROOT \notin Tree!Doomed(o, ids, all)
<1> DEFINE X == DOMAIN o \ {CDS_ID_ROOT}
<1>1. Tree!Closed(o, X, all)
  <2> SUFFICES ASSUME NEW i \in DOMAIN o
               PROVE  /\ o[i].parent \in X \/ o[i].ref \in X => i \in X
                      /\ all /\ i \in X /\ o[i].kind = "ref" => o[i].ref \in X
    BY DEF Tree!Closed
  <2>1. o[CDS_ID_ROOT].parent \notin X /\ o[CDS_ID_ROOT].ref \notin X
    BY NoRefIsNoId DEF WellFormed
  <2>2. o[i].kind = "ref" => o[i].ref \in X
    BY DEF WellFormed
  <2> QED  BY <2>1, <2>2
<1>2. X \subseteq DOMAIN o /\ ids \subseteq X
  OBVIOUS
<1>3. Tree!Doomed(o, ids, all) \subseteq X
  BY <1>1, <1>2, DoomedLeast
<1> QED  BY <1>3

LEMMA EmptiedLeast ==
    ASSUME NEW o, NEW gone, NEW X, X \subseteq DOMAIN o, Tree!Emptying(o, gone, X) \subseteq X
    PROVE  Tree!Emptied(o, gone) \subseteq X
BY DEF Tree!Emptied

LEMMA EmptyingIsEmptied ==
    ASSUME NEW o, NEW gone, NEW A, A \subseteq Tree!Emptied(o, gone)
    PROVE  Tree!Emptying(o, gone, A) \subseteq Tree!Emptied(o, gone)
<1> DEFINE closed == {X \in SUBSET DOMAIN o : Tree!Emptying(o, gone, X) \subseteq X}
<1>1. ASSUME NEW X \in closed PROVE Tree!Emptying(o, gone, A) \subseteq X
  <2>1. A \subseteq X
    BY <1>1 DEF Tree!Emptied
  <2>2. Tree!Emptying(o, gone, A) \subseteq Tree!Emptying(o, gone, X)
    BY <2>1 DEF Tree!Emptying
  <2> QED  BY <1>1, <2>2
<1>2. Tree!Emptying(o, gone, A) \subseteq DOMAIN o
  BY DEF Tree!Emptying, Tree!Containers
<1> QED  BY <1>1, <1>2 DEF Tree!Emptied

-----------------------------------------------------------------------------
(* The table during a removal.                                             *)

\* The rows that are left are those the table had.
LEMMA RowsAreOld ==
    ASSUME Shrinks
    PROVE  /\ \A i \in DOMAIN rows : i \in DOMAIN old /\ rows[i] = old[i]
           /\ \A i \in DOMAIN old : /\ old[i] \in RowType
                                    /\ i \in Int /\ i >= 0
<1>1. \A i \in DOMAIN rows : i \in DOMAIN old /\ rows[i] = old[i]
  BY DEF Shrinks, Restrict
<1>2. old \in [DOMAIN old -> RowType] /\ DOMAIN old \subseteq 0 .. lastID
  BY DEF Shrinks, WellFormed
<1> QED  BY <1>1, <1>2

-----------------------------------------------------------------------------
(* A round of _recursiveRemove(): what it finds.                           *)

foundRefs       == References(job.recurseItems)
foundKids       == Kids(job.recurseContainers)
foundContainers == {i \in foundKids : IsContainer(i)}
foundByRef      == {i \in foundKids \ foundContainers : job.all /\ rows[i].ref # NoRef}
originals       == {rows[i].ref : i \in foundByRef}
foundItems      == (foundKids \ (foundContainers \union foundByRef)) \union originals
taken           == job.removeAddParents \union foundRefs \union (foundKids \ foundByRef)
noted           == job.upnp \union ParentsOf(job.removeAddParents) \union ParentsOf(foundRefs)

LEMMA RecurseEffect ==
    ASSUME JobShape, recurse
    PROVE  /\ JobShape'
           /\ UNCHANGED lastID
           /\ job.pc = "recurse"
           /\ job'.before = job.before /\ job'.ids = job.ids /\ job'.all = job.all
           /\ job'.recurseItems = foundItems
           /\ job'.recurseContainers = foundContainers
           /\ job'.removeAddParents = originals
           /\ job'.upnp = noted /\ job'.ui = job.ui
           /\ job'.changedUpnp = job.changedUpnp /\ job'.changedUI = job.changedUI
           /\ \/ /\ job'.pc = "recurse"
                 /\ job'.remove = job.remove \union taken
                 /\ UNCHANGED <<rows, scans>>
              \/ /\ job'.pc = "recurse"
                 /\ job'.remove = {}
                 /\ _removeObjects(job.remove \union taken)
              \/ /\ job'.pc = IF noted \union job.ui = {} THEN "done" ELSE "purge"
                 /\ foundItems = {} /\ foundContainers = {}
                 /\ job'.remove = {}
                 /\ _removeObjects(job.remove \union taken)
<1> USE DEF foundRefs, foundKids, foundContainers, foundByRef, originals, foundItems,
            taken, noted
<1> DEFINE remove == job.remove \union job.removeAddParents \union foundRefs
                        \union (foundKids \ foundByRef)
           more == foundItems \union foundContainers # {}
           cut == ~more \/ Cardinality(remove) > MaxRemove
<1>0. remove = job.remove \union taken
  OBVIOUS
<1>1. /\ job.pc = "recurse"
      /\ job' = [job EXCEPT
            !.pc = IF more THEN "recurse"
                   ELSE IF noted \union job.ui = {} THEN "done" ELSE "purge",
            !.recurseItems = foundItems,
            !.recurseContainers = foundContainers,
            !.removeAddParents = originals,
            !.upnp = noted,
            !.remove = IF cut THEN {} ELSE remove]
      /\ IF cut THEN _removeObjects(remove) ELSE UNCHANGED <<rows, scans>>
      /\ UNCHANGED lastID
  BY DEF recurse
<1> HIDE DEF foundRefs, foundKids, foundContainers, foundByRef, originals, foundItems,
            taken, noted, remove, cut
<1>2. /\ JobShape'
      /\ job'.before = job.before /\ job'.ids = job.ids /\ job'.all = job.all
      /\ job'.recurseItems = foundItems
      /\ job'.recurseContainers = foundContainers
      /\ job'.removeAddParents = originals
      /\ job'.upnp = noted /\ job'.ui = job.ui
      /\ job'.changedUpnp = job.changedUpnp /\ job'.changedUI = job.changedUI
      /\ job'.pc = IF more THEN "recurse"
                   ELSE IF noted \union job.ui = {} THEN "done" ELSE "purge"
      /\ job'.remove = IF cut THEN {} ELSE remove
  BY <1>1 DEF JobShape
<1>3. CASE ~more
  BY <1>0, <1>1, <1>2, <1>3 DEF cut
<1>4. CASE more /\ cut
  BY <1>0, <1>1, <1>2, <1>4
<1>5. CASE more /\ ~cut
  BY <1>0, <1>1, <1>2, <1>5
<1> QED  BY <1>1, <1>3, <1>4, <1>5

\* What a round finds, told by the table the removal began with.
LEMMA FoundByTable ==
    ASSUME Shrinks
    PROVE  /\ foundRefs = {i \in DOMAIN rows : old[i].ref \in job.recurseItems}
           /\ foundKids = {i \in DOMAIN rows : old[i].parent \in job.recurseContainers}
           /\ foundContainers = {i \in foundKids : old[i].kind \in {"dir", "virt"}}
           /\ foundByRef = {i \in foundKids : job.all /\ old[i].kind = "ref"}
           /\ originals = {old[i].ref : i \in foundByRef}
           /\ foundItems = (foundKids \ (foundContainers \union foundByRef)) \union originals
           /\ noted = job.upnp \union
                {old[i].parent : i \in (job.removeAddParents \intersect DOMAIN rows)
                                         \union foundRefs}
<1>1. \A i \in DOMAIN rows : i \in DOMAIN old /\ rows[i] = old[i]
  BY RowsAreOld
<1>2. foundRefs = {i \in DOMAIN rows : old[i].ref \in job.recurseItems}
  BY <1>1 DEF foundRefs, References
<1>3. foundKids = {i \in DOMAIN rows : old[i].parent \in job.recurseContainers}
  BY <1>1 DEF foundKids, Kids
<1>4. foundContainers = {i \in foundKids : old[i].kind \in {"dir", "virt"}}
  BY <1>1, <1>3 DEF foundContainers, IsContainer
<1>5. \A i \in DOMAIN old : /\ old[i].kind = "ref" => old[i].ref # NoRef
                            /\ old[i].kind # "ref" => old[i].ref = NoRef
  BY NoRefIsNoId DEF Shrinks, WellFormed
<1>6. foundByRef = {i \in foundKids : job.all /\ old[i].kind = "ref"}
  BY <1>1, <1>3, <1>4, <1>5 DEF foundByRef
<1>7. originals = {old[i].ref : i \in foundByRef}
  BY <1>1, <1>3, <1>6 DEF originals
<1>8. ParentsOf(job.removeAddParents) = {old[i].parent : i \in job.removeAddParents \intersect DOMAIN rows}
  BY <1>1 DEF ParentsOf
<1>9. ParentsOf(foundRefs) = {old[i].parent : i \in foundRefs}
  BY <1>1, <1>2 DEF ParentsOf
<1> QED  BY <1>2, <1>3, <1>4, <1>6, <1>7, <1>8, <1>9 DEF foundItems, noted

\* The removal goes on with the table it began with.
LEMMA JobGoesOn ==
    ASSUME job'.before = job.before, job'.ids = job.ids, job'.all = job.all
    PROVE  old' = old /\ doomed' = doomed /\ Parents' = Parents
BY DEF old, doomed, Parents

\* _removeObjects(): rows leave the table.
LEMMA RowsLeave ==
    ASSUME Shrinks, NEW ids, ids \subseteq DOMAIN old, _removeObjects(ids),
           job'.before = job.before, job'.ids = job.ids, job'.all = job.all,
           UNCHANGED lastID
    PROVE  /\ Shrinks'
           /\ DOMAIN rows' = DOMAIN rows \ ids
           /\ deleted' = deleted \union ids
<1>1. DOMAIN rows' = DOMAIN rows \ ids /\ rows' = Restrict(rows, DOMAIN rows \ ids)
  BY DEF _removeObjects, Restrict
<1>2. old' = old
  BY JobGoesOn
<1>3. deleted' = deleted \union ids
  BY <1>1, <1>2 DEF deleted
<1>4. rows' = Restrict(old, DOMAIN rows')
  BY <1>1, RowsAreOld DEF Restrict
<1>5. WellFormed(old)'
  BY <1>2 DEF Shrinks, WellFormed
<1>6. Shrinks'
  BY <1>1, <1>2, <1>4, <1>5 DEF Shrinks
<1> QED  BY <1>1, <1>3, <1>6

LEMMA RowsStay ==
    ASSUME Shrinks, UNCHANGED <<rows, lastID>>,
           job'.before = job.before, job'.ids = job.ids, job'.all = job.all
    PROVE  Shrinks' /\ deleted' = deleted
<1>1. old' = old
  BY JobGoesOn
<1>2. WellFormed(old)'
  BY <1>1 DEF Shrinks, WellFormed
<1> QED  BY <1>1, <1>2 DEF Shrinks, deleted

\* Kinds and references of the table the removal began with.
LEMMA OldKinds ==
    ASSUME Shrinks
    PROVE  /\ Tree!Containers(old) = {i \in DOMAIN old : old[i].kind \in {"dir", "virt"}}
           /\ \A i \in DOMAIN old :
                /\ old[i].kind \in Kinds
                /\ i # CDS_ID_ROOT => old[i].parent \in Tree!Containers(old)
                /\ old[i].kind = "ref" => old[i].ref \in DOMAIN old /\ old[old[i].ref].kind = "file"
                /\ old[i].ref \in DOMAIN old => old[i].kind = "ref"
                /\ old[i].parent \in DOMAIN old => i # CDS_ID_ROOT
<1>1. Tree!Containers(old) = {i \in DOMAIN old : old[i].kind \in {"dir", "virt"}}
  BY DEF Tree!Containers, Tree!ContainerKinds
<1>2. \A i \in DOMAIN old : old[i].kind \in Kinds /\ i >= 0
  BY RowsAreOld DEF RowType
<1>3. \A i \in DOMAIN old :
          /\ i # CDS_ID_ROOT => old[i].parent \in Tree!Containers(old)
          /\ old[i].kind = "ref" => old[i].ref \in DOMAIN old /\ old[old[i].ref].kind = "file"
  BY DEF Shrinks, WellFormed
<1>4. NoRef \notin DOMAIN old
  BY <1>2, NoRefIsNoId
<1>5. \A i \in DOMAIN old : old[i].ref \in DOMAIN old => old[i].kind = "ref"
  BY <1>4 DEF Shrinks, WellFormed
<1>6. old[CDS_ID_ROOT].parent \notin DOMAIN old
  BY <1>2 DEF Shrinks, WellFormed
<1> QED  BY <1>1, <1>2, <1>3, <1>5, <1>6

\* Everything a round finds is doomed.
LEMMA FoundAreDoomed ==
    ASSUME Shrinks, Sound
    PROVE  /\ doomed \subseteq DOMAIN old /\ CDS_ID_ROOT \notin doomed
           /\ taken \subseteq doomed /\ foundKids \subseteq doomed
           /\ foundRefs \subseteq doomed /\ originals \subseteq doomed
           /\ \A i \in originals : old[i].kind = "file"
           /\ \A i \in foundRefs : old[i].kind = "ref"
<1>0. doomed \subseteq DOMAIN old /\ CDS_ID_ROOT \notin doomed
  BY DoomedBasics, RootNotDoomed DEF Shrinks, doomed
<1>1. \A i \in DOMAIN rows : i \in DOMAIN old
  BY RowsAreOld
<1>2. foundKids \subseteq doomed
  BY <1>1, FoundByTable, DoomedFollows DEF Sound, doomed
<1>3. foundRefs \subseteq doomed
  BY <1>1, FoundByTable, DoomedFollows DEF Sound, doomed
<1>4. ASSUME NEW i \in foundByRef PROVE old[i].ref \in doomed /\ old[old[i].ref].kind = "file"
  <2>1. i \in doomed /\ old[i].kind = "ref" /\ job.all
    BY <1>2, <1>4, FoundByTable
  <2>2. old[i].ref \in DOMAIN old /\ old[old[i].ref].kind = "file"
    BY <1>0, <2>1, OldKinds
  <2> QED  BY <2>1, <2>2, DoomedOriginal DEF doomed
<1>5. originals \subseteq doomed /\ \A i \in originals : old[i].kind = "file"
  BY <1>4, FoundByTable
<1>6. \A i \in foundRefs : old[i].kind = "ref"
  BY <1>0, <1>1, FoundByTable, OldKinds DEF Sound
<1>7. taken \subseteq doomed
  BY <1>2, <1>3 DEF taken, Sound
<1> QED  BY <1>0, <1>2, <1>3, <1>5, <1>6, <1>7

\* A round collects what it takes, whether or not it deletes it at once.
LEMMA RoundCollects ==
    ASSUME JobShape, Shrinks, Sound, recurse
    PROVE  /\ Shrinks'
           /\ old' = old /\ doomed' = doomed /\ Parents' = Parents
           /\ collected' = collected \union taken
<1>1. /\ job'.before = job.before /\ job'.ids = job.ids /\ job'.all = job.all
      /\ UNCHANGED lastID
  BY RecurseEffect
<1>2. old' = old /\ doomed' = doomed /\ Parents' = Parents
  BY <1>1, JobGoesOn
<1>3. job.remove \union taken \subseteq DOMAIN old
  BY FoundAreDoomed DEF Sound, collected
<1>4. CASE job'.remove = job.remove \union taken /\ UNCHANGED <<rows, scans>>
  BY <1>1, <1>2, <1>4, RowsStay DEF collected
<1>5. CASE job'.remove = {} /\ _removeObjects(job.remove \union taken)
  <2> DEFINE ids == job.remove \union taken
  <2>1. ids \subseteq DOMAIN old /\ _removeObjects(ids)
    BY <1>3, <1>5
  <2> HIDE DEF ids
  <2>2. Shrinks' /\ deleted' = deleted \union ids
    BY <1>1, <2>1, RowsLeave
  <2> QED  BY <1>2, <1>5, <2>2 DEF collected, ids
<1> QED  BY <1>4, <1>5, RecurseEffect

LEMMA RecurseSound ==
    ASSUME JobShape, Shrinks, Sound, recurse
    PROVE  Sound'
<1>1. /\ old' = old /\ doomed' = doomed
      /\ collected' = collected \union taken
  BY RoundCollects
<1>2. /\ job'.recurseItems = foundItems
      /\ job'.recurseContainers = foundContainers
      /\ job'.removeAddParents = originals
      /\ job'.all = job.all
  BY RecurseEffect
<1>3. /\ taken \subseteq doomed /\ foundKids \subseteq doomed
      /\ originals \subseteq doomed /\ doomed \subseteq DOMAIN old
      /\ \A i \in originals : old[i].kind = "file"
  BY FoundAreDoomed
<1>4. foundContainers \subseteq foundKids /\ foundItems \subseteq foundKids \union originals
  BY FoundByTable
<1>5. (collected \union foundItems \union foundContainers \union originals) \union taken
         \subseteq doomed
  BY <1>3, <1>4 DEF Sound
<1>6. foundContainers \subseteq taken \intersect Tree!Containers(old)
  BY <1>3, <1>4, FoundByTable, OldKinds DEF taken
<1>7. foundItems \intersect Tree!Containers(old) = {}
  BY <1>3, FoundByTable, OldKinds
<1>8. foundItems \subseteq taken \union originals /\ originals \subseteq foundItems
  BY FoundByTable DEF taken
<1> QED  BY <1>1, <1>2, <1>3, <1>5, <1>6, <1>7, <1>8 DEF Sound

LEMMA RecurseComplete ==
    ASSUME JobShape, Shrinks, Sound, Complete, recurse
    PROVE  Complete'
<1>1. /\ old' = old /\ doomed' = doomed
      /\ collected' = collected \union taken
  BY RoundCollects
<1>2. /\ job'.recurseItems = foundItems
      /\ job'.recurseContainers = foundContainers
      /\ job'.removeAddParents = originals
      /\ job'.all = job.all /\ job'.ids = job.ids
  BY RecurseEffect
<1>3. /\ doomed \subseteq DOMAIN old
      /\ \A i \in originals : old[i].kind = "file"
      /\ \A i \in foundRefs : i \in DOMAIN old /\ old[i].kind = "ref"
      /\ foundKids \subseteq DOMAIN old
      /\ collected \subseteq DOMAIN old
  BY FoundAreDoomed DEF Sound
\* Whoever refers to an item of the last round is collected now.
<1>4. ASSUME NEW i \in DOMAIN old, old[i].ref \in job.recurseItems
      PROVE  i \in collected \union taken
  BY <1>4, FoundByTable DEF collected, deleted, taken
\* Whoever is in a container of the last round is collected or stands for an item.
<1>5. ASSUME NEW i \in DOMAIN old, old[i].parent \in job.recurseContainers
      PROVE  i \in collected \union taken \/ (i \in foundByRef /\ old[i].ref \in foundItems)
  BY <1>5, FoundByTable DEF collected, deleted, taken
<1>6. ASSUME NEW i \in DOMAIN old,
             old[i].parent \in (collected \union taken) \ foundContainers
      PROVE  i \in collected \union taken \/ old[i].ref \in foundItems
  <2>1. old[i].parent \in DOMAIN old
    BY <1>3, <1>6, FoundAreDoomed
  <2>2. old[old[i].parent].kind \in {"dir", "virt"} /\ old[i].parent \in Tree!Containers(old)
    BY <2>1, OldKinds
  <2>3. old[i].parent \notin job.removeAddParents
    BY <2>2 DEF Sound
  <2>4. old[i].parent \notin foundRefs
    BY <1>3, <2>2
  <2>5. old[i].parent \notin foundKids
    BY <1>6, <2>2, FoundByTable
  <2>6. old[i].parent \in collected
    BY <1>6, <2>3, <2>4, <2>5 DEF taken
  <2> QED  BY <1>4, <1>5, <2>6 DEF Complete
<1>7. ASSUME NEW i \in DOMAIN old, old[i].ref \in (collected \union taken) \ foundItems
      PROVE  i \in collected \union taken
  <2>1. old[i].ref \in DOMAIN old
    BY <1>3, <1>7, FoundAreDoomed
  <2>2. old[old[i].ref].kind = "file"
    BY <2>1, OldKinds
  <2>3. old[i].ref \notin foundRefs
    BY <1>3, <2>2
  <2>4. old[i].ref \notin foundKids
    BY <1>7, <2>2, FoundByTable
  <2>5. old[i].ref \in collected \union job.recurseItems
    BY <1>7, <2>3, <2>4 DEF taken, Sound
  <2> QED  BY <1>4, <2>5 DEF Complete
<1>8. ASSUME NEW i \in collected \union taken, job.all, old[i].kind = "ref"
      PROVE  old[i].ref \in collected \union taken \union originals
  <2>1. CASE i \in collected
    BY <1>8, <2>1 DEF Complete, taken
  <2>2. CASE i \in job.removeAddParents
    BY <1>8, <2>2 DEF Sound
  <2>3. CASE i \in foundRefs
    BY <2>3, FoundByTable DEF Sound, taken
  <2>4. CASE i \in foundKids \ foundByRef
    BY <1>8, <2>4, FoundByTable
  <2> QED  BY <2>1, <2>2, <2>3, <2>4 DEF taken
<1>9. ASSUME NEW i \in job.ids
      PROVE  i \in collected \union taken
  BY <1>4 DEF Complete, taken, Shrinks
<1>10. \A i \in DOMAIN old :
          /\ old[i].parent \in (collected \union taken) \ foundContainers
                => i \in collected \union taken \/ old[i].ref \in foundItems
          /\ old[i].ref \in (collected \union taken) \ foundItems => i \in collected \union taken
  BY <1>6, <1>7
<1> QED  BY <1>1, <1>2, <1>8, <1>9, <1>10 DEF Complete

LEMMA RecurseNoted ==
    ASSUME JobShape, Shrinks, Sound, Noted, recurse
    PROVE  Noted'
<1>1. /\ old' = old /\ doomed' = doomed /\ Parents' = Parents
      /\ collected' = collected \union taken
  BY RoundCollects
<1>2. /\ job'.upnp = noted /\ job'.ui = job.ui
      /\ job'.changedUpnp = job.changedUpnp /\ job'.changedUI = job.changedUI
  BY RecurseEffect
<1>3. /\ doomed \subseteq DOMAIN old /\ CDS_ID_ROOT \notin doomed
      /\ \A i \in foundRefs : i \in doomed /\ old[i].kind = "ref"
      /\ foundKids \subseteq doomed /\ taken \subseteq doomed
  BY FoundAreDoomed
<1>4. ASSUME NEW i \in collected \union taken
      PROVE  /\ old[i].parent \in noted \union job.ui \union doomed
             /\ old[i].kind \in {"dir", "virt"} => old[i].parent \in job.ui \union doomed
  <2>1. CASE i \in collected
    BY <2>1, FoundByTable DEF Noted
  <2>2. CASE i \in job.removeAddParents /\ i \notin collected
    <3>1. i \in DOMAIN rows
      BY <1>3, <2>2 DEF collected, deleted, Sound
    <3>2. old[i].kind \notin {"dir", "virt"}
      BY <1>3, <2>2, OldKinds DEF Sound
    <3> QED  BY <2>2, <3>1, <3>2, FoundByTable
  <2>3. CASE i \in foundRefs
    BY <1>3, <2>3, FoundByTable
  <2>4. CASE i \in foundKids
    BY <2>4, FoundByTable DEF Sound
  <2> QED  BY <2>1, <2>2, <2>3, <2>4 DEF taken
<1>5. noted \union job.ui \subseteq Parents
  <2>1. ASSUME NEW i \in doomed PROVE old[i].parent \in Parents
    BY <1>3, <2>1, OldKinds DEF Parents, Tree!Children
  <2>2. job.removeAddParents \subseteq doomed
    BY DEF Sound
  <2> QED  BY <1>3, <2>1, <2>2, FoundByTable DEF Noted
<1> QED  BY <1>1, <1>2, <1>4, <1>5 DEF Noted

\* When no container is left that lost all its children, everything that has to
\* go is gone.
LEMMA GoneIs ==
    ASSUME NEW o, NEW D, NEW G, D \subseteq G, G \subseteq D \union Tree!Emptied(o, D),
           G \subseteq DOMAIN o,
           \A c \in Tree!Containers(o) \ G :
               ~o[c].persistent /\ Tree!Children(o, c) # {} => ~(Tree!Children(o, c) \subseteq G)
    PROVE  D \union Tree!Emptied(o, D) = G
<1> DEFINE X == G \ D
<1>1. Tree!Emptying(o, D, X) \subseteq X
  BY DEF Tree!Emptying
<1>2. X \subseteq DOMAIN o
  OBVIOUS
<1>3. Tree!Emptied(o, D) \subseteq X
  BY <1>1, <1>2, EmptiedLeast
<1> QED  BY <1>3

\* The table at the end of a removal.
LEMMA TableAtEnd ==
    ASSUME Shrinks', NEW o, o = old', NEW D, D = doomed',
           D \union Tree!Emptied(o, D) = deleted'
    PROVE  (rows = Tree!Without(old, Tree!Gone(old, job.ids, job.all)))'
<1>1. Tree!Gone(old', job'.ids, job'.all) = deleted'
  BY DEF Tree!Gone, doomed
<1>2. DOMAIN rows' = DOMAIN old' \ deleted'
  BY DEF Shrinks, deleted
<1>3. rows' = Restrict(old', DOMAIN rows')
  BY DEF Shrinks
<1> QED  BY <1>1, <1>2, <1>3 DEF Tree!Without, Tree!Restrict, Restrict

\* The last round: the collected objects are the doomed ones.
LEMMA LastRound ==
    ASSUME JobShape, Shrinks, Sound, Complete, Noted, recurse,
           foundItems = {}, foundContainers = {}, job'.remove = {}
    PROVE  /\ deleted' = doomed
           /\ Purged'
           /\ \A i \in doomed : old[i].parent \in DOMAIN rows' =>
                /\ old[i].parent \in job'.upnp \union job'.ui
                /\ old[i].kind \in {"dir", "virt"} => old[i].parent \in job'.ui
<1>1. /\ Shrinks' /\ old' = old /\ doomed' = doomed
      /\ collected' = collected \union taken
  BY RoundCollects
<1>2. /\ job'.recurseItems = {} /\ job'.recurseContainers = {}
      /\ job'.removeAddParents = {} /\ job'.all = job.all /\ job'.ids = job.ids
  BY RecurseEffect, FoundByTable
<1>3. Sound' /\ Complete' /\ Noted'
  BY RecurseSound, RecurseComplete, RecurseNoted
<1>4. collected' = deleted'
  BY DEF collected
<1>5. deleted' \subseteq doomed
  BY <1>1, <1>3, <1>4 DEF Sound
<1>6. doomed \subseteq deleted'
  <2>1. Tree!Closed(old, deleted', job.all)
    BY <1>1, <1>2, <1>3, <1>4 DEF Complete, Tree!Closed
  <2>2. job.ids \subseteq deleted'
    BY <1>1, <1>2, <1>3, <1>4 DEF Complete
  <2>3. deleted' \subseteq DOMAIN old
    BY <1>1 DEF deleted
  <2> QED  BY <2>1, <2>2, <2>3, DoomedLeast DEF doomed
<1>7. deleted' = doomed
  BY <1>5, <1>6
<1>8. /\ DOMAIN rows' = DOMAIN old \ doomed
      /\ \A i \in DOMAIN rows' : rows'[i] = old[i]
  BY <1>1, <1>7 DEF Shrinks, deleted, Restrict
<1>9. \A i \in DOMAIN rows' \ {CDS_ID_ROOT} : rows'[i].parent \in DOMAIN rows'
  <2>1. ASSUME NEW i \in DOMAIN rows', i # CDS_ID_ROOT
        PROVE  old[i].parent \in DOMAIN old /\ old[i].parent \notin doomed
    BY <1>8, <2>1, OldKinds, DoomedFollows DEF doomed
  <2> QED  BY <1>8, <2>1
<1>10. CDS_ID_ROOT \in DOMAIN rows'
  BY <1>8, FoundAreDoomed DEF Shrinks, WellFormed
<1>11. Purged'
  BY <1>1, <1>7, <1>9, <1>10 DEF Purged
<1>12. ASSUME NEW i \in doomed, old[i].parent \in DOMAIN rows'
       PROVE  /\ old[i].parent \in job'.upnp \union job'.ui
              /\ old[i].kind \in {"dir", "virt"} => old[i].parent \in job'.ui
  BY <1>1, <1>3, <1>4, <1>7, <1>8, <1>12 DEF Noted
<1> QED  BY <1>7, <1>11, <1>12

LEMMA RecurseKeeps ==
    ASSUME RemovalInv, recurse
    PROVE  RemovalInv'
<1>1. /\ job.pc = "recurse" /\ UNCHANGED lastID /\ JobShape'
      /\ job'.changedUpnp = job.changedUpnp /\ job'.changedUI = job.changedUI
  BY RecurseEffect DEF RemovalInv
<1>2. JobShape /\ Shrinks /\ Sound /\ Complete /\ Noted
  BY <1>1 DEF RemovalInv
<1>3. Shrinks' /\ Sound' /\ Complete' /\ Noted' /\ old' = old /\ doomed' = doomed
  BY <1>2, RoundCollects, RecurseSound, RecurseComplete, RecurseNoted
<1>4. CASE job'.pc = "recurse"
  BY <1>1, <1>3, <1>4 DEF RemovalInv
<1>5. CASE /\ job'.pc = IF noted \union job.ui = {} THEN "done" ELSE "purge"
           /\ foundItems = {} /\ foundContainers = {} /\ job'.remove = {}
  <2>1. /\ deleted' = doomed
        /\ Purged'
        /\ \A i \in doomed : old[i].parent \in DOMAIN rows' =>
             /\ old[i].parent \in job'.upnp \union job'.ui
             /\ old[i].kind \in {"dir", "virt"} => old[i].parent \in job'.ui
    BY <1>2, <1>5, LastRound
  <2>2. CASE job'.pc = "purge"
    <3>1. Candidates'
      BY <1>2, <1>1, <1>3, <2>1 DEF Candidates, Noted
    <3> QED  BY <1>1, <1>3, <2>1, <2>2, <3>1 DEF RemovalInv
  <2>3. CASE job'.pc = "done"
    <3>0. job'.upnp \union job'.ui = {}
      BY <1>2, <1>5, <2>3, RecurseEffect
    <3>1. \A i \in doomed : old[i].parent \notin DOMAIN rows'
      BY <2>1, <3>0
    <3>2. DOMAIN rows' = DOMAIN old \ doomed
      BY <1>3, <2>1 DEF Shrinks, deleted
    <3>3. doomed \union Tree!Emptied(old, doomed) = doomed
      <4>1. \A c \in Tree!Containers(old) \ doomed :
               Tree!Children(old, c) # {} => ~(Tree!Children(old, c) \subseteq doomed)
        BY <3>1, <3>2 DEF Tree!Containers, Tree!Children
      <4>2. doomed \subseteq DOMAIN old
        BY <1>2, FoundAreDoomed
      <4> QED  BY <4>1, <4>2, GoneIs
    <3>4. (rows = Tree!Without(old, Tree!Gone(old, job.ids, job.all)))'
      BY <1>3, <2>1, <3>3, TableAtEnd
    <3>5. ReportsChanged'
      <4>1. DOMAIN job'.before \ DOMAIN rows' = doomed /\ job'.before = old
        BY <1>3, <2>1 DEF deleted, old
      <4>2. \A c \in DOMAIN rows' : \A i \in doomed : old[i].parent # c
        BY <3>1
      <4>3. job'.changedUpnp = {} /\ job'.changedUI = {}
        BY <1>1, <1>2 DEF Noted
      <4> QED  BY <4>1, <4>2, <4>3 DEF ReportsChanged
    <3> QED  BY <1>1, <1>3, <2>1, <2>3, <3>4, <3>5 DEF RemovalInv, Finished
  <2> QED  BY <1>5, <2>2, <2>3
<1> QED  BY <1>2, <1>4, <1>5, RecurseEffect

-----------------------------------------------------------------------------
(* A round of _purgeEmptyContainers().                                     *)

purgeUpnp == Existing(job.upnp)
purgeUI   == Existing(job.ui \union ParentsOf(Empty(purgeUpnp)))
purgeDel  == Empty(purgeUpnp) \union Empty(purgeUI)
keptUpnp  == purgeUpnp \ (Persistent(purgeUpnp) \union Empty(purgeUpnp))
keptUI    == (purgeUI \ (Persistent(purgeUI) \union Empty(purgeUI)))
                \union ParentsOf(Empty(purgeUI))
again     == Again(purgeDel, keptUpnp \union keptUI)

LEMMA PurgeEffect ==
    ASSUME JobShape, purge
    PROVE  /\ JobShape'
           /\ UNCHANGED lastID
           /\ job.pc = "purge" /\ job'.pc = IF again THEN "purge" ELSE "done"
           /\ job'.before = job.before /\ job'.ids = job.ids /\ job'.all = job.all
           /\ job'.upnp = keptUpnp /\ job'.ui = keptUI
           /\ job'.changedUI = job.changedUI \union Persistent(purgeUI)
                                 \union (IF again THEN {} ELSE keptUI)
           /\ job'.changedUpnp = job.changedUpnp \union Persistent(purgeUpnp)
                                   \union Persistent(purgeUI)
                                   \union (IF again THEN {} ELSE keptUpnp \union keptUI)
           /\ _removeObjects(purgeDel)
<1> DEFINE cUI == job.changedUI \union Persistent(purgeUI)
           cUpnp == job.changedUpnp \union Persistent(purgeUpnp) \union Persistent(purgeUI)
<1>1. /\ job.pc = "purge"
      /\ job' = [job EXCEPT
              !.pc = IF again THEN "purge" ELSE "done",
              !.upnp = keptUpnp,
              !.ui = keptUI,
              !.changedUI = IF again THEN cUI ELSE cUI \union keptUI,
              !.changedUpnp = IF again THEN cUpnp ELSE cUpnp \union keptUI \union keptUpnp]
      /\ _removeObjects(purgeDel)
      /\ UNCHANGED lastID
  BY DEF purge, purgeUpnp, purgeUI, purgeDel, keptUpnp, keptUI, again
<1> HIDE DEF cUI, cUpnp
<1>2. /\ JobShape'
      /\ job'.pc = IF again THEN "purge" ELSE "done"
      /\ job'.before = job.before /\ job'.ids = job.ids /\ job'.all = job.all
      /\ job'.upnp = keptUpnp /\ job'.ui = keptUI
      /\ job'.changedUI = IF again THEN cUI ELSE cUI \union keptUI
      /\ job'.changedUpnp = IF again THEN cUpnp ELSE cUpnp \union keptUI \union keptUpnp
  BY <1>1 DEF JobShape
<1>3. /\ job'.changedUI = cUI \union (IF again THEN {} ELSE keptUI)
      /\ job'.changedUpnp = cUpnp \union (IF again THEN {} ELSE keptUpnp \union keptUI)
  BY <1>2
<1> QED  BY <1>1, <1>2, <1>3 DEF cUI, cUpnp

\* What the round looks at, told by the table.
LEMMA PurgeLooks ==
    ASSUME Shrinks, Purged, Candidates
    PROVE  /\ purgeUpnp = {c \in job.upnp : c \in DOMAIN rows}
           /\ purgeUpnp \union purgeUI \union keptUpnp \union keptUI \subseteq Parents
           /\ purgeUpnp \union purgeUI \union keptUpnp \union keptUI \subseteq DOMAIN rows
           /\ Empty(purgeUpnp) \union Empty(purgeUI) = purgeDel
           /\ \A c \in purgeDel : ~old[c].persistent /\ Kids({c}) = {}
           /\ \A c \in purgeDel : c # CDS_ID_ROOT /\ old[c].parent \in DOMAIN rows
           /\ \A c \in (purgeUpnp \union purgeUI) \ purgeDel :
                 ~rows[c].persistent => Kids({c}) # {}
           /\ \A i \in purgeDel : old[i].parent \in purgeUI \union keptUI
           /\ purgeDel \intersect (keptUpnp \union keptUI) = {}
           /\ \A c \in job.ui : c \in DOMAIN rows => c \in purgeUI
           /\ \A c \in keptUpnp \union keptUI : Kids({c}) # {}
<1>1. \A i \in DOMAIN rows : i \in DOMAIN old /\ rows[i] = old[i]
  BY RowsAreOld
<1>2. \A c \in Parents : c \in DOMAIN old /\ old[c].kind \in {"dir", "virt"}
  BY OldKinds DEF Parents
<1>3. /\ purgeUpnp = {c \in job.upnp : c \in DOMAIN rows}
      /\ purgeUpnp \subseteq Parents
  BY <1>1, <1>2 DEF purgeUpnp, Existing, IsContainer, Candidates
\* An empty container is not the root, and its parent is there and has a child.
<1>4. ASSUME NEW c \in DOMAIN rows, ~rows[c].persistent
      PROVE  /\ c # CDS_ID_ROOT
             /\ old[c].parent \in DOMAIN rows
             /\ rows[c].parent = old[c].parent
             /\ old[c].parent \in Parents
             /\ Kids({old[c].parent}) # {}
  <2>1. c # CDS_ID_ROOT
    BY <1>1, <1>4 DEF Shrinks, WellFormed
  <2>2. old[c].parent \in DOMAIN rows
    BY <1>1, <2>1 DEF Purged
  <2>3. old[c].parent \in Parents
    BY <1>1, <2>1, OldKinds DEF Parents, Tree!Children
  <2>4. c \in Kids({old[c].parent})
    BY <1>1 DEF Kids
  <2> QED  BY <1>1, <2>1, <2>2, <2>3, <2>4
<1>5. /\ ParentsOf(Empty(purgeUpnp)) \subseteq Parents \intersect DOMAIN rows
      /\ \A c \in Empty(purgeUpnp) : old[c].parent \in ParentsOf(Empty(purgeUpnp))
  BY <1>3, <1>4 DEF ParentsOf, Empty
<1>6. /\ purgeUI \subseteq Parents /\ purgeUI \subseteq DOMAIN rows
      /\ ParentsOf(Empty(purgeUpnp)) \subseteq purgeUI
      /\ \A c \in job.ui : c \in DOMAIN rows => c \in purgeUI
  BY <1>1, <1>2, <1>5 DEF purgeUI, Existing, IsContainer, Candidates
<1>7. /\ ParentsOf(Empty(purgeUI)) \subseteq Parents \intersect DOMAIN rows
      /\ \A c \in Empty(purgeUI) : old[c].parent \in ParentsOf(Empty(purgeUI))
      /\ \A d \in ParentsOf(Empty(purgeUI)) : Kids({d}) # {}
  BY <1>4, <1>6 DEF ParentsOf, Empty
<1>8. /\ keptUpnp \subseteq purgeUpnp
      /\ keptUI \subseteq purgeUI \union ParentsOf(Empty(purgeUI))
      /\ ParentsOf(Empty(purgeUI)) \subseteq keptUI
  BY DEF keptUpnp, keptUI
<1>9. \A c \in purgeDel : /\ ~old[c].persistent /\ Kids({c}) = {}
                          /\ c # CDS_ID_ROOT /\ old[c].parent \in DOMAIN rows
  BY <1>1, <1>3, <1>4, <1>6 DEF purgeDel, Empty
<1>10. \A c \in (purgeUpnp \union purgeUI) \ purgeDel :
                 ~rows[c].persistent => Kids({c}) # {}
  BY DEF purgeDel, Empty
<1>11. \A i \in purgeDel : old[i].parent \in purgeUI \union keptUI
  BY <1>5, <1>6, <1>7, <1>8 DEF purgeDel
<1>12. purgeDel \intersect (keptUpnp \union keptUI) = {}
  <2>1. \A c \in keptUpnp : c \notin purgeDel
    BY DEF keptUpnp, purgeDel, Empty
  <2>2. \A c \in purgeUI \ Empty(purgeUI) : c \notin purgeDel
    BY DEF purgeDel, Empty
  <2>3. \A c \in ParentsOf(Empty(purgeUI)) : c \notin purgeDel
    BY <1>7, <1>9
  <2> QED  BY <2>1, <2>2, <2>3 DEF keptUI
<1>13. \A c \in keptUpnp \union keptUI : Kids({c}) # {}
  BY <1>7 DEF keptUpnp, keptUI, Persistent, Empty
<1> QED  BY <1>3, <1>6, <1>7, <1>8, <1>9, <1>10, <1>11, <1>12, <1>13 DEF purgeDel

LEMMA PurgeKeeps ==
    ASSUME RemovalInv, purge
    PROVE  RemovalInv'
<1>1. JobShape /\ Shrinks /\ Purged /\ Candidates
  BY DEF RemovalInv, purge
<1>2. /\ JobShape' /\ UNCHANGED lastID
      /\ job'.pc = IF again THEN "purge" ELSE "done"
      /\ job'.before = job.before /\ job'.ids = job.ids /\ job'.all = job.all
      /\ job'.upnp = keptUpnp /\ job'.ui = keptUI
      /\ job'.changedUI = job.changedUI \union Persistent(purgeUI)
                                 \union (IF again THEN {} ELSE keptUI)
      /\ job'.changedUpnp = job.changedUpnp \union Persistent(purgeUpnp)
                                   \union Persistent(purgeUI)
                                   \union (IF again THEN {} ELSE keptUpnp \union keptUI)
      /\ _removeObjects(purgeDel)
  BY <1>1, PurgeEffect
<1>3. /\ \A i \in DOMAIN rows : i \in DOMAIN old /\ rows[i] = old[i]
      /\ \A c \in Parents : c \in DOMAIN old /\ old[c].kind \in {"dir", "virt"}
  BY <1>1, RowsAreOld, OldKinds DEF Parents
<1>4. purgeDel \subseteq DOMAIN rows \intersect Parents /\ purgeDel \subseteq DOMAIN old
  BY <1>1, <1>3, PurgeLooks DEF purgeDel, Empty
<1>5. /\ Shrinks' /\ old' = old /\ doomed' = doomed /\ Parents' = Parents
      /\ DOMAIN rows' = DOMAIN rows \ purgeDel
      /\ deleted' = deleted \union purgeDel
  BY <1>1, <1>2, <1>4, RowsLeave, JobGoesOn
<1>6. \A i \in DOMAIN rows' : rows'[i] = old[i] /\ rows[i] = old[i]
  BY <1>3, <1>5 DEF Shrinks, Restrict
\* Only what became empty goes.
<1>7. purgeDel \subseteq Tree!Emptied(old, doomed)
  <2>1. ASSUME NEW c \in purgeDel
        PROVE  c \in Tree!Emptying(old, doomed, Tree!Emptied(old, doomed))
    <3>1. /\ c \in Tree!Containers(old) /\ Tree!Children(old, c) # {}
          /\ c \notin doomed /\ ~old[c].persistent
      BY <1>1, <1>4, PurgeLooks DEF Parents, Purged, deleted
    <3>2. ASSUME NEW i \in Tree!Children(old, c) PROVE i \in deleted
      <4>1. i \notin DOMAIN rows
        BY <1>1, <1>3, <3>2, PurgeLooks DEF Kids, Tree!Children
      <4> QED  BY <4>1 DEF deleted, Tree!Children
    <3>3. Tree!Children(old, c) \subseteq doomed \union Tree!Emptied(old, doomed)
      BY <1>1, <3>2 DEF Purged
    <3> QED  BY <3>1, <3>3 DEF Tree!Emptying
  <2> QED  BY <2>1, EmptyingIsEmptied
<1>8. Purged'
  <2>1. \A i \in DOMAIN rows' \ {CDS_ID_ROOT} : rows'[i].parent \in DOMAIN rows'
    <3>1. ASSUME NEW i \in DOMAIN rows', i # CDS_ID_ROOT
          PROVE  rows[i].parent \in DOMAIN rows /\ rows[i].parent \notin purgeDel
      BY <1>1, <1>5, <3>1, PurgeLooks DEF Purged, Kids
    <3> QED  BY <1>5, <1>6, <3>1
  <2>2. CDS_ID_ROOT \in DOMAIN rows'
    BY <1>1, <1>5, PurgeLooks DEF Purged
  <2>3. doomed \subseteq deleted' /\ deleted' \subseteq doomed \union Tree!Emptied(old, doomed)
    BY <1>1, <1>5, <1>7 DEF Purged
  <2> QED  BY <1>5, <2>1, <2>2, <2>3 DEF Purged
\* Whoever lost a child stays in a list, or is persistent and reported.
<1>9. ASSUME NEW i \in deleted', old[i].parent \in DOMAIN rows'
      PROVE  /\ old[i].parent \in keptUpnp \union keptUI
                  \union {c \in job'.changedUpnp : rows'[c].persistent}
             /\ old[i].kind \in {"dir", "virt"} => old[i].parent \in keptUI \union job'.changedUI
  <2> DEFINE p == old[i].parent
  <2>1. p \in DOMAIN rows /\ p \notin purgeDel /\ rows'[p] = rows[p]
    BY <1>5, <1>6, <1>9
  <2>2. p \in purgeUpnp =>
          p \in keptUpnp \union {c \in job'.changedUpnp : rows'[c].persistent}
    BY <1>2, <2>1 DEF keptUpnp, purgeDel, Persistent
  <2>3. p \in purgeUI =>
          /\ p \in keptUI \union {c \in job'.changedUpnp : rows'[c].persistent}
          /\ p \in keptUI \union job'.changedUI
    BY <1>2, <2>1 DEF keptUI, purgeDel, Persistent
  <2>4. CASE i \in deleted
    <3>1. /\ p \in job.upnp \union job.ui \union Persistent(job.changedUpnp)
          /\ old[i].kind \in {"dir", "virt"} => p \in job.ui \union job.changedUI
      BY <1>1, <2>1, <2>4 DEF Candidates
    <3>2. /\ p \in job.upnp => p \in purgeUpnp
          /\ p \in job.ui => p \in purgeUI
      BY <1>1, <2>1, PurgeLooks
    <3>3. p \in Persistent(job.changedUpnp) =>
            p \in {c \in job'.changedUpnp : rows'[c].persistent}
      BY <1>2, <2>1 DEF Persistent
    <3>4. job.changedUI \subseteq job'.changedUI
      BY <1>2
    <3> QED  BY <2>2, <2>3, <3>1, <3>2, <3>3, <3>4
  <2>5. CASE i \in purgeDel
    BY <1>1, <2>3, <2>5, PurgeLooks
  <2> QED  BY <1>5, <2>4, <2>5
\* What is reported is there.
<1>10. ASSUME NEW c \in keptUpnp \union keptUI
       PROVE  c \in DOMAIN rows' /\ rows'[c].kind \in {"dir", "virt"}
  BY <1>1, <1>3, <1>5, <1>6, PurgeLooks
<1>11. ASSUME NEW c \in job.changedUpnp \union job.changedUI
                          \union Persistent(purgeUpnp) \union Persistent(purgeUI)
       PROVE  c \in DOMAIN rows' /\ rows'[c].kind \in {"dir", "virt"} /\ rows'[c].persistent
  <2>1. c \in DOMAIN rows /\ rows[c].kind \in {"dir", "virt"} /\ rows[c].persistent
    BY <1>1, <1>3, PurgeLooks DEF Candidates, IsContainer, Persistent
  <2>2. c \notin purgeDel
    BY <1>1, <1>3, <2>1, PurgeLooks
  <2> QED  BY <1>5, <1>6, <2>1, <2>2
<1>12. keptUpnp \union keptUI \subseteq Parents
  BY <1>1, PurgeLooks
<1>13. CASE again
  <2>1. job'.changedUpnp \union job'.changedUI = job.changedUpnp \union job.changedUI
            \union Persistent(purgeUpnp) \union Persistent(purgeUI)
    BY <1>2, <1>13
  <2>2. Candidates'
    BY <1>2, <1>5, <1>9, <1>11, <1>12, <2>1 DEF Candidates, Persistent, IsContainer
  <2> QED  BY <1>2, <1>5, <1>8, <1>13, <2>2 DEF RemovalInv
<1>14. CASE ~again
  <2>1. /\ keptUpnp \union keptUI \subseteq job'.changedUpnp /\ keptUI \subseteq job'.changedUI
        /\ job'.changedUpnp \union job'.changedUI = job.changedUpnp \union job.changedUI
             \union Persistent(purgeUpnp) \union Persistent(purgeUI) \union keptUpnp \union keptUI
    BY <1>2, <1>14
  <2>2. ReportsChanged'
    <3>1. DOMAIN job'.before \ DOMAIN rows' = deleted' /\ job'.before = old
      BY <1>5 DEF deleted, old
    <3>2. ASSUME NEW c \in DOMAIN rows', NEW i \in deleted', old[i].parent = c
          PROVE  /\ c \in job'.changedUpnp
                 /\ old[i].kind \in {"dir", "virt"} => c \in job'.changedUI
      BY <1>9, <2>1, <3>2
    <3>3. job'.changedUpnp \union job'.changedUI \subseteq Existing(DOMAIN rows)'
      BY <1>10, <1>11, <2>1 DEF Existing, IsContainer
    <3> QED  BY <3>1, <3>2, <3>3 DEF ReportsChanged
  <2>3. doomed \union Tree!Emptied(old, doomed) = deleted'
    <3>1. ASSUME NEW c \in Tree!Containers(old) \ deleted', ~old[c].persistent,
                 Tree!Children(old, c) # {}, Tree!Children(old, c) \subseteq deleted'
          PROVE  FALSE
      <4>1. c \in DOMAIN rows'
        BY <1>5, <3>1 DEF deleted, Tree!Containers
      <4>2. PICK i \in deleted' : old[i].parent = c
        BY <3>1 DEF Tree!Children
      <4>3. c \in keptUpnp \union keptUI
        BY <1>6, <1>9, <3>1, <4>1, <4>2
      <4>4. purgeDel = {}
        BY <1>14, <4>3 DEF again, Again
      <4>5. PICK j \in DOMAIN rows : rows[j].parent = c
        BY <1>1, <4>3, PurgeLooks DEF Kids
      <4>6. j \in Tree!Children(old, c) /\ j \notin deleted'
        BY <1>3, <1>5, <4>4, <4>5 DEF Tree!Children, deleted
      <4> QED  BY <3>1, <4>6
    <3>2. deleted' \subseteq DOMAIN old
      BY <1>5 DEF deleted
    <3>3. doomed \subseteq deleted' /\ deleted' \subseteq doomed \union Tree!Emptied(old, doomed)
      BY <1>5, <1>8 DEF Purged
    <3> QED  BY <3>1, <3>2, <3>3, GoneIs
  <2>4. (rows = Tree!Without(old, Tree!Gone(old, job.ids, job.all)))'
    BY <1>5, <2>3, TableAtEnd
  <2> QED  BY <1>2, <1>5, <1>8, <1>14, <2>2, <2>4 DEF RemovalInv, Finished
<1> QED  BY <1>13, <1>14

-----------------------------------------------------------------------------
(* Autoscans and the rows they are anchored at.                            *)

\* The rows are typed, ids are handed out in order, the root is no directory (so
\* nothing scans it), and the autoscans have their rows.
AnchorInv ==
    /\ lastID \in Nat /\ lastID >= 1
    /\ rows \in [DOMAIN rows -> RowType]
    /\ DOMAIN rows \subseteq 0 .. lastID
    /\ DOMAIN scans \subseteq 1 .. lastID
    /\ CDS_ID_ROOT \in DOMAIN rows => rows[CDS_ID_ROOT].kind = "virt"
    /\ CDS_ID_FS_ROOT \in DOMAIN rows => rows[CDS_ID_FS_ROOT].kind = "dir"
    /\ AutoscanAnchored

LEMMA RestrictIs ==
    ASSUME NEW f, NEW S
    PROVE  /\ S \subseteq DOMAIN f => DOMAIN Restrict(f, S) = S
           /\ \A i \in S : Restrict(f, S)[i] = f[i]
BY DEF Restrict

\* What the UPDATE of the flags does to the rows.
LEMMA FlagsChange ==
    ASSUME rows \in [DOMAIN rows -> RowType], NEW from, NEW to,
           _autoscanChangePersistentFlag(from, to)
    PROVE  /\ DOMAIN rows' = DOMAIN rows
           /\ rows' \in [DOMAIN rows -> RowType]
           /\ \A i \in DOMAIN rows :
                /\ rows'[i].kind = rows[i].kind
                /\ rows'[i].parent = rows[i].parent
                /\ rows'[i].ref = rows[i].ref
                /\ i \in to => rows'[i].persistent
                /\ rows[i].persistent /\ i \notin from => rows'[i].persistent
                /\ i \notin from \union to => rows'[i] = rows[i]
<1>1. rows' = [i \in DOMAIN rows |-> [rows[i] EXCEPT
                  !.persistent = (@ /\ i \notin from) \/ i \in to]]
  BY DEF _autoscanChangePersistentFlag
<1>2. ASSUME NEW i \in DOMAIN rows
      PROVE  /\ rows'[i] \in RowType
             /\ rows'[i].kind = rows[i].kind
             /\ rows'[i].parent = rows[i].parent
             /\ rows'[i].ref = rows[i].ref
             /\ i \in to => rows'[i].persistent
             /\ rows[i].persistent /\ i \notin from => rows'[i].persistent
             /\ i \notin from \union to => rows'[i] = rows[i]
  <2> DEFINE b == (rows[i].persistent /\ i \notin from) \/ i \in to
  <2>1. rows[i] \in RowType
    OBVIOUS
  <2>2. rows'[i] = [rows[i] EXCEPT !.persistent = b]
    BY <1>1
  <2>3. b \in BOOLEAN
    OBVIOUS
  <2>4. i \notin from \union to => b = rows[i].persistent
    BY <2>1 DEF RowType
  <2> HIDE DEF b
  <2>5. /\ rows'[i] \in RowType
        /\ rows'[i].kind = rows[i].kind
        /\ rows'[i].parent = rows[i].parent
        /\ rows'[i].ref = rows[i].ref
        /\ rows'[i].persistent = b
    BY <2>1, <2>2, <2>3 DEF RowType
  <2>6. i \notin from \union to => rows'[i] = rows[i]
    BY <2>1, <2>2, <2>4 DEF RowType
  <2> QED  BY <2>5, <2>6 DEF b
<1> QED  BY <1>1, <1>2

\* A round of a removal: rows leave, and the autoscans of the web interface that
\* were set on them.
LEMMA RowsLeaveAnchored ==
    ASSUME AnchorInv, NEW ids, _removeObjects(ids), UNCHANGED lastID
    PROVE  AnchorInv'
<1> DEFINE staying == {s \in DOMAIN scans : s \in ids \intersect DOMAIN rows => scans[s].persistent}
<1>1. rows' = Restrict(rows, DOMAIN rows \ ids) /\ scans' = Restrict(scans, staying)
  BY DEF _removeObjects
<1>2. /\ DOMAIN rows' = DOMAIN rows \ ids
      /\ \A i \in DOMAIN rows' : rows'[i] = rows[i]
  BY <1>1, RestrictIs
<1>3. /\ DOMAIN scans' = staying
      /\ \A s \in staying : scans'[s] = scans[s]
  BY <1>1, RestrictIs
<1>4. rows' \in [DOMAIN rows' -> RowType]
  BY <1>1, <1>2 DEF AnchorInv, Restrict
<1>5. AutoscanAnchored'
  BY <1>2, <1>3 DEF AnchorInv, AutoscanAnchored
<1> QED  BY <1>2, <1>3, <1>4, <1>5 DEF AnchorInv

LEMMA InsertAnchored ==
    ASSUME AnchorInv, NEW row \in RowType, insert(row)
    PROVE  AnchorInv'
<1>1. lastID' = lastID + 1 /\ rows' = With(rows, lastID + 1, row) /\ scans' = scans
  BY DEF insert, getNextID
<1>2. /\ DOMAIN rows' = DOMAIN rows \union {lastID + 1}
      /\ rows'[lastID + 1] = row
      /\ \A i \in DOMAIN rows : i # lastID + 1 => rows'[i] = rows[i]
  BY <1>1 DEF With
<1>3. lastID + 1 \notin DOMAIN rows \union DOMAIN scans \union {CDS_ID_ROOT, CDS_ID_FS_ROOT}
  BY DEF AnchorInv, CDS_ID_ROOT, CDS_ID_FS_ROOT
<1>4. rows' \in [DOMAIN rows' -> RowType]
  BY <1>1, <1>2, <1>3 DEF AnchorInv, With
<1>5. AutoscanAnchored'
  BY <1>1, <1>2, <1>3 DEF AnchorInv, AutoscanAnchored
<1>6. /\ lastID' \in Nat /\ lastID' >= 1
      /\ DOMAIN rows' \subseteq 0 .. lastID'
      /\ DOMAIN scans' \subseteq 1 .. lastID'
  BY <1>1, <1>2 DEF AnchorInv
<1>7. /\ CDS_ID_ROOT \in DOMAIN rows' => rows'[CDS_ID_ROOT].kind = "virt"
      /\ CDS_ID_FS_ROOT \in DOMAIN rows' => rows'[CDS_ID_FS_ROOT].kind = "dir"
  BY <1>2, <1>3 DEF AnchorInv
<1> QED  BY <1>4, <1>5, <1>6, <1>7 DEF AnchorInv

\* Every insertion is one of a row of this type, placed in a container.
LEMMA GrowInserts ==
    ASSUME AnchorInv, Grow
    PROVE  \E p \in DOMAIN rows, kind \in Kinds, ref \in DOMAIN rows \union {NoRef} :
              /\ Row(kind, p, ref) \in RowType
              /\ IsContainer(p)
              /\ insert(Row(kind, p, ref))
              /\ kind = "ref" => ref \in DOMAIN rows
              /\ kind = "file" => ref = NoRef
              /\ kind \in {"dir", "virt"} /\ ref # NoRef => "link" \in Cases
              /\ ref \in DOMAIN rows => rows[ref].kind = "file"
<1> DEFINE Goal == \E p \in DOMAIN rows, kind \in Kinds, ref \in DOMAIN rows \union {NoRef} :
              /\ Row(kind, p, ref) \in RowType
              /\ IsContainer(p)
              /\ insert(Row(kind, p, ref))
              /\ kind = "ref" => ref \in DOMAIN rows
              /\ kind = "file" => ref = NoRef
              /\ kind \in {"dir", "virt"} /\ ref # NoRef => "link" \in Cases
              /\ ref \in DOMAIN rows => rows[ref].kind = "file"
<1>1. PICK p \in DOMAIN rows :
          \/ createDirectory(p)
          \/ addFile(p)
          \/ createVirtual(p, NoRef)
          \/ \E r \in DOMAIN rows : createVirtual(p, r) \/ addReference(p, r)
  BY DEF Grow
<1>2. DOMAIN rows \subseteq Int /\ NoRef \notin DOMAIN rows /\ NoRef \in Int
  BY NoRefIsNoId DEF AnchorInv
<1>3. \A kind \in Kinds, ref \in DOMAIN rows \union {NoRef} : Row(kind, p, ref) \in RowType
  BY <1>2 DEF Row, RowType
<1>4. CASE createDirectory(p)
  BY <1>2, <1>3, <1>4 DEF createDirectory, IsContainer, Kinds
<1>5. CASE addFile(p)
  BY <1>2, <1>3, <1>5 DEF addFile, IsContainer, Kinds
<1>6. CASE createVirtual(p, NoRef)
  BY <1>2, <1>3, <1>6 DEF createVirtual, IsContainer, Kinds
<1>7. ASSUME NEW r \in DOMAIN rows, createVirtual(p, r) PROVE Goal
  BY <1>2, <1>3, <1>7 DEF createVirtual, IsContainer, Kinds
<1>8. ASSUME NEW r \in DOMAIN rows, addReference(p, r) PROVE Goal
  BY <1>2, <1>3, <1>8 DEF addReference, IsContainer, Kinds
<1> QED  BY <1>1, <1>4, <1>5, <1>6, <1>7, <1>8

\* One of the three statements about autoscans: the flags of directories change.
LEMMA AutoscanEffect ==
    ASSUME AnchorInv, Autoscan
    PROVE  /\ Idle /\ UNCHANGED <<lastID, job>>
           /\ \/ UNCHANGED rows
              \/ \E from \in DOMAIN scans : _autoscanChangePersistentFlag({from}, {})
              \/ \E to \in DOMAIN rows : _autoscanChangePersistentFlag({}, {to})
              \/ \E from \in DOMAIN scans \ DOMAIN rows, to \in DOMAIN rows :
                    _autoscanChangePersistentFlag({from}, {to})
           /\ AnchorInv'
<1>0. /\ rows \in [DOMAIN rows -> RowType] /\ AutoscanAnchored
      /\ DOMAIN rows \subseteq 0 .. lastID /\ DOMAIN scans \subseteq 1 .. lastID
      /\ CDS_ID_ROOT \in DOMAIN rows => rows[CDS_ID_ROOT].kind = "virt"
      /\ CDS_ID_FS_ROOT \in DOMAIN rows => rows[CDS_ID_FS_ROOT].kind = "dir"
      /\ lastID \in Nat /\ lastID >= 1
  BY DEF AnchorInv
<1>1. ASSUME NEW i \in DOMAIN rows, NEW k \in ScanKinds,
             addAutoscanDirectory(i, k) \/ addAbsentDirectory(i, k)
      PROVE  _autoscanChangePersistentFlag({}, {i}) /\ AnchorInv'
  <2>1. /\ _autoscanChangePersistentFlag({}, {i})
        /\ \E path : scans' = With(scans, i, Scan(path, k))
        /\ lastID' = lastID /\ rows[i].kind = "dir"
    BY <1>1 DEF addAutoscanDirectory, addAbsentDirectory
  <2>2. /\ DOMAIN scans' = DOMAIN scans \union {i}
        /\ \A s \in DOMAIN scans : s # i => scans'[s] = scans[s]
    BY <2>1 DEF With
  <2>3. /\ DOMAIN rows' = DOMAIN rows
        /\ rows' \in [DOMAIN rows -> RowType]
        /\ \A j \in DOMAIN rows :
             /\ rows'[j].kind = rows[j].kind
             /\ rows[j].persistent \/ j = i => rows'[j].persistent
    BY <1>0, <2>1, FlagsChange
  <2>4. AutoscanAnchored'
    BY <1>0, <2>2, <2>3 DEF AutoscanAnchored
  <2>5. DOMAIN scans' \subseteq 1 .. lastID
    BY <1>0, <2>1, <2>2 DEF CDS_ID_ROOT
  <2>6. /\ CDS_ID_ROOT \in DOMAIN rows' => rows'[CDS_ID_ROOT].kind = "virt"
        /\ CDS_ID_FS_ROOT \in DOMAIN rows' => rows'[CDS_ID_FS_ROOT].kind = "dir"
    BY <1>0, <2>3
  <2> QED  BY <1>0, <2>1, <2>3, <2>4, <2>5, <2>6 DEF AnchorInv
<1>2. ASSUME NEW i \in DOMAIN scans, removeAutoscanDirectory(i)
      PROVE  _autoscanChangePersistentFlag({i}, {}) /\ AnchorInv'
  <2>1. /\ _autoscanChangePersistentFlag({i}, {})
        /\ scans' = Restrict(scans, DOMAIN scans \ {i})
        /\ lastID' = lastID
    BY <1>2 DEF removeAutoscanDirectory
  <2>2. /\ DOMAIN scans' = DOMAIN scans \ {i}
        /\ \A s \in DOMAIN scans' : scans'[s] = scans[s]
    BY <2>1 DEF Restrict
  <2>3. /\ DOMAIN rows' = DOMAIN rows
        /\ rows' \in [DOMAIN rows -> RowType]
        /\ \A j \in DOMAIN rows :
             /\ rows'[j].kind = rows[j].kind
             /\ rows[j].persistent /\ j # i => rows'[j].persistent
    BY <1>0, <2>1, FlagsChange
  <2>4. AutoscanAnchored'
    BY <1>0, <2>2, <2>3 DEF AutoscanAnchored
  <2>6. /\ CDS_ID_ROOT \in DOMAIN rows' => rows'[CDS_ID_ROOT].kind = "virt"
        /\ CDS_ID_FS_ROOT \in DOMAIN rows' => rows'[CDS_ID_FS_ROOT].kind = "dir"
    BY <1>0, <2>3
  <2> QED  BY <1>0, <2>1, <2>2, <2>3, <2>4, <2>6 DEF AnchorInv
<1>3. ASSUME NEW i \in DOMAIN scans, NEW new \in DOMAIN rows, NEW k \in ScanKinds,
             updateAutoscanDirectory(i, new, k)
      PROVE  /\ \/ UNCHANGED rows
                \/ i \notin DOMAIN rows /\ _autoscanChangePersistentFlag({i}, {new})
             /\ AnchorInv'
  <2> DEFINE others == DOMAIN scans \ {i}
  <2>1. /\ scans' = With(Restrict(scans, others), new, Scan(getPathIDs(new), k))
        /\ new = i \/ (k.persistent /\ i \notin DOMAIN rows)
        /\ IF new = i THEN UNCHANGED rows ELSE _autoscanChangePersistentFlag({i}, {new})
        /\ scans[i].persistent => k.persistent
        /\ lastID' = lastID /\ rows[new].kind = "dir"
    BY <1>3 DEF updateAutoscanDirectory
  <2>2. DOMAIN Restrict(scans, others) = others /\ \A s \in others : Restrict(scans, others)[s] = scans[s]
    BY DEF Restrict
  <2>3. /\ DOMAIN scans' = others \union {new}
        /\ \A s \in others : s # new => scans'[s] = scans[s]
        /\ scans'[new] = Scan(getPathIDs(new), k)
    BY <2>1, <2>2 DEF With
  <2>4. scans'[new].persistent = k.persistent
    BY <2>3 DEF Scan
  <2>5. DOMAIN scans' \subseteq 1 .. lastID
    BY <1>0, <2>1, <2>3 DEF CDS_ID_ROOT
  <2>6. /\ DOMAIN rows' = DOMAIN rows
        /\ rows' \in [DOMAIN rows -> RowType]
        /\ \A j \in DOMAIN rows :
             /\ rows'[j].kind = rows[j].kind
             /\ rows[j].persistent => rows'[j].persistent
        /\ rows'[new].persistent
    <3>1. CASE new = i
      BY <1>0, <2>1, <3>1 DEF AutoscanAnchored
    <3>2. CASE new # i
      BY <1>0, <2>1, <3>2, FlagsChange
    <3> QED  BY <3>1, <3>2
  <2>7. AutoscanAnchored'
    BY <1>0, <2>3, <2>6 DEF AutoscanAnchored
  <2>8. /\ CDS_ID_ROOT \in DOMAIN rows' => rows'[CDS_ID_ROOT].kind = "virt"
        /\ CDS_ID_FS_ROOT \in DOMAIN rows' => rows'[CDS_ID_FS_ROOT].kind = "dir"
    BY <1>0, <2>6
  <2>9. AnchorInv'
    BY <1>0, <2>1, <2>5, <2>6, <2>7, <2>8 DEF AnchorInv
  <2> QED  BY <2>1, <2>9
<1>4. Idle /\ UNCHANGED <<lastID, job>>
  BY DEF Autoscan, addAutoscanDirectory, addAbsentDirectory, updateAutoscanDirectory,
         removeAutoscanDirectory
<1> QED  BY <1>1, <1>2, <1>3, <1>4 DEF Autoscan

LEMMA AnchorInit == Init => AnchorInv
<1> SUFFICES ASSUME Init PROVE AnchorInv
  OBVIOUS
<1>1. lastID = 1 /\ DOMAIN rows = {0, 1} /\ DOMAIN scans = {}
  BY DEF Init, Forbidden, Tree!Forbidden, Tree!CDS_ID_ROOT, Tree!CDS_ID_FS_ROOT, CDS_ID_FS_ROOT
<1>2. rows[CDS_ID_ROOT].kind = "virt" /\ rows[CDS_ID_FS_ROOT].kind = "dir"
  BY <1>1 DEF Init, CDS_ID_ROOT, CDS_ID_FS_ROOT
<1>3. rows \in [DOMAIN rows -> RowType]
  BY <1>1, NoRefIsNoId DEF Init, RowType, Kinds, CDS_ID_ROOT
<1> QED  BY <1>1, <1>2, <1>3 DEF AnchorInv, AutoscanAnchored

LEMMA AnchorNext == AnchorInv /\ [Next]_vars => AnchorInv'
<1> SUFFICES ASSUME AnchorInv, [Next]_vars PROVE AnchorInv'
  OBVIOUS
<1>1. CASE Grow
  BY <1>1, GrowInserts, InsertAnchored
<1>2. CASE Autoscan
  BY <1>2, AutoscanEffect
<1>3. CASE UNCHANGED <<rows, scans, lastID>>
  BY <1>3 DEF AnchorInv, AutoscanAnchored
<1>4. CASE AskRemoval
  BY <1>3, <1>4 DEF AskRemoval, removeObject, removeObjects, _recursiveRemove
<1>5. CASE return
  BY <1>3, <1>5 DEF return
<1>6. CASE recurse
  <2>1. UNCHANGED lastID /\ (UNCHANGED <<rows, scans>> \/ \E ids : _removeObjects(ids))
    BY <1>6 DEF recurse
  <2> QED  BY <1>3, <2>1, RowsLeaveAnchored
<1>7. CASE purge
  <2>1. UNCHANGED lastID /\ \E ids : _removeObjects(ids)
    BY <1>7 DEF purge
  <2> QED  BY <2>1, RowsLeaveAnchored
<1>8. CASE UNCHANGED vars
  BY <1>3, <1>8 DEF vars
<1> QED  BY <1>1, <1>2, <1>4, <1>5, <1>6, <1>7, <1>8 DEF Next

\* An autoscan set in the web interface goes with its directory, and the directory
\* of every autoscan is persistent: for every order of insertions, autoscans and
\* removals (addAutoscanDirectory(), updateAutoscanDirectory(), _removeObjects()).
THEOREM AutoscansStayAnchored == Spec => []AutoscanAnchored
<1>1. Spec => []AnchorInv
  BY AnchorInit, AnchorNext, PTL DEF Spec
<1>2. AnchorInv => AutoscanAnchored
  BY DEF AnchorInv
<1> QED  BY <1>1, <1>2, PTL

-----------------------------------------------------------------------------
(* The steps between two removals, and the one that begins a removal.      *)

LEMMA RemovalInit == Init => RemovalInv
<1> SUFFICES ASSUME Init PROVE RemovalInv
  OBVIOUS
<1>1. lastID = 1 /\ DOMAIN rows = {0, 1} /\ CDS_ID_ROOT = 0
  BY DEF Init, Forbidden, Tree!Forbidden, Tree!CDS_ID_ROOT, Tree!CDS_ID_FS_ROOT,
         CDS_ID_FS_ROOT, CDS_ID_ROOT
<1>2. rows \in [DOMAIN rows -> RowType]
  BY AnchorInit DEF AnchorInv
<1>3. /\ rows[0].persistent /\ rows[0].parent = -1 /\ rows[0].kind = "virt" /\ rows[0].ref = NoRef
      /\ rows[1].parent = 0 /\ rows[1].kind = "dir" /\ rows[1].ref = NoRef
  BY <1>1 DEF Init
<1>4. WellFormed(rows)
  BY <1>1, <1>2, <1>3 DEF WellFormed, Tree!Containers, Tree!ContainerKinds
<1>5. JobShape /\ job.pc = "idle"
  BY DEF Init, NoJob, JobShape
<1> QED  BY <1>1, <1>4, <1>5 DEF RemovalInv

LEMMA GrowKeeps ==
    ASSUME "link" \notin Cases, AnchorInv, RemovalInv, Grow
    PROVE  RemovalInv'
<1>1. PICK p \in DOMAIN rows, kind \in Kinds, ref \in DOMAIN rows \union {NoRef} :
          /\ Row(kind, p, ref) \in RowType
          /\ IsContainer(p)
          /\ insert(Row(kind, p, ref))
          /\ kind = "ref" => ref \in DOMAIN rows
          /\ kind = "file" => ref = NoRef
          /\ kind \in {"dir", "virt"} /\ ref # NoRef => "link" \in Cases
          /\ ref \in DOMAIN rows => rows[ref].kind = "file"
  BY GrowInserts
<1> DEFINE id == lastID + 1
           row == Row(kind, p, ref)
<1>2. /\ Idle /\ UNCHANGED job /\ lastID' = lastID + 1
      /\ rows' = With(rows, id, row)
  BY <1>1 DEF insert, getNextID
<1>3. row.kind = kind /\ row.parent = p /\ row.ref = ref
  BY DEF Row
<1>4. WellFormed(rows) /\ JobShape /\ job.pc = "idle" /\ lastID \in Nat
  BY <1>2 DEF RemovalInv, Idle
<1>5. id \notin DOMAIN rows /\ id # CDS_ID_ROOT
  BY DEF AnchorInv, CDS_ID_ROOT
<1> HIDE DEF row, id
<1>6. /\ DOMAIN rows' = DOMAIN rows \union {id}
      /\ rows'[id] = row
      /\ \A i \in DOMAIN rows : rows'[i] = rows[i]
  BY <1>2, <1>5 DEF With
<1>7. rows' \in [DOMAIN rows' -> RowType] /\ DOMAIN rows' \subseteq 0 .. lastID'
  BY <1>1, <1>2, AnchorNext DEF AnchorInv, Next
<1>8. Tree!Containers(rows) \subseteq Tree!Containers(rows') /\ p \in Tree!Containers(rows)
  BY <1>1, <1>6 DEF Tree!Containers, Tree!ContainerKinds, IsContainer
<1>9. ASSUME NEW i \in DOMAIN rows'
      PROVE  /\ i # CDS_ID_ROOT => rows'[i].parent \in Tree!Containers(rows')
             /\ rows'[i].kind = "ref" => /\ rows'[i].ref \in DOMAIN rows'
                                         /\ rows'[rows'[i].ref].kind = "file"
             /\ rows'[i].kind # "ref" => rows'[i].ref = NoRef
  <2>1. CASE i = id
    BY <1>1, <1>3, <1>6, <1>8, <2>1 DEF Kinds
  <2>2. CASE i \in DOMAIN rows
    BY <1>4, <1>6, <1>8, <2>2 DEF WellFormed
  <2> QED  BY <1>6, <2>1, <2>2
<1>10. WellFormed(rows)'
  BY <1>4, <1>6, <1>7, <1>9 DEF WellFormed
<1> QED  BY <1>2, <1>4, <1>10 DEF RemovalInv, JobShape

LEMMA AutoscanKeeps ==
    ASSUME AnchorInv, RemovalInv, Autoscan
    PROVE  /\ RemovalInv'
           /\ Tree!Change
<1>0. WellFormed(rows) /\ JobShape /\ job.pc = "idle" /\ lastID \in Nat
  BY AutoscanEffect DEF RemovalInv, Idle
<1>1. UNCHANGED <<lastID, job>>
  BY AutoscanEffect
<1>2. CDS_ID_ROOT \in DOMAIN rows /\ rows \in [DOMAIN rows -> RowType]
  BY <1>0 DEF WellFormed
<1>3. CDS_ID_ROOT \notin DOMAIN scans
  BY DEF AnchorInv, CDS_ID_ROOT
<1>4. /\ DOMAIN rows' = DOMAIN rows
      /\ rows' \in [DOMAIN rows -> RowType]
      /\ \A i \in DOMAIN rows :
           /\ rows'[i].kind = rows[i].kind
           /\ rows'[i].parent = rows[i].parent
           /\ rows'[i].ref = rows[i].ref
      /\ rows[CDS_ID_ROOT].persistent => rows'[CDS_ID_ROOT].persistent
      /\ \E i \in DOMAIN rows : \A j \in DOMAIN rows \ {i} : rows'[j] = rows[j]
  <2>1. CASE UNCHANGED rows
    BY <1>2, <2>1
  <2>2. ASSUME NEW from \in DOMAIN scans, _autoscanChangePersistentFlag({from}, {})
        PROVE  <1>4!:
    <3>1. CASE from \in DOMAIN rows
      BY <1>2, <1>3, <2>2, <3>1, FlagsChange
    <3>2. CASE from \notin DOMAIN rows
      BY <1>2, <1>3, <2>2, <3>2, FlagsChange
    <3> QED  BY <3>1, <3>2
  <2>3. ASSUME NEW to \in DOMAIN rows, _autoscanChangePersistentFlag({}, {to})
        PROVE  <1>4!:
    BY <1>2, <2>3, FlagsChange
  <2>4. ASSUME NEW from \in DOMAIN scans \ DOMAIN rows, NEW to \in DOMAIN rows,
               _autoscanChangePersistentFlag({from}, {to})
        PROVE  <1>4!:
    BY <1>2, <2>4, FlagsChange
  <2> QED  BY <2>1, <2>2, <2>3, <2>4, AutoscanEffect
<1>5. Tree!Containers(rows') = Tree!Containers(rows)
  BY <1>4 DEF Tree!Containers
<1>6. WellFormed(rows)'
  BY <1>0, <1>1, <1>4, <1>5 DEF WellFormed
<1>7. RemovalInv'
  BY <1>0, <1>1, <1>6 DEF RemovalInv, JobShape
<1>8. Tree!Change
  BY <1>0, <1>1, <1>4 DEF Tree!Change, Tree!NoRequest
<1> QED  BY <1>7, <1>8

\* A removal is asked for, with its first lists, which name one object, or items
\* only, or containers only.
LEMMA AskIs ==
    ASSUME "mixed" \notin Cases, AnchorInv, WellFormed(rows), AskRemoval
    PROVE  \E ids, items, containers : \E all \in BOOLEAN :
              /\ Idle
              /\ _recursiveRemove(ids, items, containers, all)
              /\ ids # {} /\ ids \subseteq DOMAIN rows \ Forbidden
              /\ items \union containers \subseteq DOMAIN rows \ Forbidden
              /\ \A i \in containers : IsContainer(i)
              /\ \A i \in items : ~IsContainer(i) /\ (all => rows[i].kind = "file")
              /\ \/ items = {} /\ ids = containers
                 \/ /\ containers = {} /\ items # {}
                    /\ \/ items = ids
                       \/ /\ all
                          /\ \E i \in ids : /\ ids = {i} /\ items = {rows[i].ref}
                                            /\ rows[i].kind = "ref"
<1> DEFINE Goal(ids, items, containers, all) ==
              /\ Idle
              /\ _recursiveRemove(ids, items, containers, all)
              /\ ids # {} /\ ids \subseteq DOMAIN rows \ Forbidden
              /\ items \union containers \subseteq DOMAIN rows \ Forbidden
              /\ \A i \in containers : IsContainer(i)
              /\ \A i \in items : ~IsContainer(i) /\ (all => rows[i].kind = "file")
              /\ \/ items = {} /\ ids = containers
                 \/ /\ containers = {} /\ items # {}
                    /\ \/ items = ids
                       \/ /\ all
                          /\ \E i \in ids : /\ ids = {i} /\ items = {rows[i].ref}
                                            /\ rows[i].kind = "ref"
<1>1. \A i \in DOMAIN rows :
          /\ rows[i].kind \in Kinds
          /\ rows[i].kind = "ref" => rows[i].ref \in DOMAIN rows /\ rows[rows[i].ref].kind = "file"
          /\ rows[i].kind # "ref" => rows[i].ref = NoRef
          /\ rows[i].kind = "ref" => rows[i].ref # NoRef
  <2>1. DOMAIN rows \subseteq 0 .. lastID /\ \A i \in DOMAIN rows : rows[i] \in RowType
    BY DEF WellFormed
  <2> QED  BY <2>1, NoRefIsNoId DEF WellFormed, RowType
<1>2. \A i \in DOMAIN rows : i \in Forbidden => rows[i].kind \in {"dir", "virt"}
  BY DEF AnchorInv, Forbidden, Tree!Forbidden, Tree!CDS_ID_ROOT, Tree!CDS_ID_FS_ROOT,
         CDS_ID_ROOT, CDS_ID_FS_ROOT
<1>3. Idle
  BY DEF AskRemoval
<1>4. ASSUME NEW i \in DOMAIN rows, NEW all \in BOOLEAN, removeObject(i, all)
      PROVE  \E ids, items, containers : \E a \in BOOLEAN : Goal(ids, items, containers, a)
  <2> DEFINE id == IF all /\ ~IsContainer(i) /\ rows[i].ref # NoRef
                     THEN rows[i].ref ELSE i
  <2>1. /\ id \notin Forbidden
        /\ IF IsContainer(id) THEN _recursiveRemove({i}, {}, {id}, all)
           ELSE _recursiveRemove({i}, {id}, {}, all)
    BY <1>4 DEF removeObject
  <2>2. CASE id # i
    <3>1. all /\ ~IsContainer(i) /\ rows[i].ref # NoRef /\ id = rows[i].ref
      BY <2>2
    <3>2. rows[i].kind = "ref" /\ id \in DOMAIN rows /\ rows[id].kind = "file"
      BY <1>1, <3>1
    <3>3. i \notin Forbidden /\ ~IsContainer(id)
      BY <1>2, <3>2 DEF IsContainer
    <3>4. _recursiveRemove({i}, {id}, {}, all)
      BY <2>1, <3>3
    <3> HIDE DEF id
    <3>5. Goal({i}, {id}, {}, all)
      BY <1>3, <2>1, <3>1, <3>2, <3>3, <3>4
    <3> QED  BY <3>5
  <2>3. CASE id = i /\ IsContainer(i)
    <3>1. Goal({i}, {}, {i}, all)
      BY <1>3, <2>1, <2>3
    <3> QED  BY <3>1
  <2>4. CASE id = i /\ ~IsContainer(i)
    <3>1. all => rows[i].kind = "file"
      BY <1>1, <2>4 DEF IsContainer, Kinds
    <3>2. Goal({i}, {i}, {}, all)
      BY <1>3, <2>1, <2>4, <3>1
    <3> QED  BY <3>2
  <2> QED  BY <2>2, <2>3, <2>4
<1>5. ASSUME NEW i \in DOMAIN rows, NEW list \in SUBSET Kids({i}), removeObjects(list)
      PROVE  \E ids, items, containers : \E a \in BOOLEAN : Goal(ids, items, containers, a)
  <2> DEFINE cs == {j \in list : IsContainer(j)}
  <2>1. /\ list # {} /\ list \intersect Forbidden = {}
        /\ cs \in {{}, list}
        /\ _recursiveRemove(list, list \ cs, cs, FALSE)
    BY <1>5 DEF removeObjects
  <2>2. list \subseteq DOMAIN rows
    BY DEF Kids
  <2>3. CASE cs = {}
    <3>1. list \ cs = list /\ \A j \in list : ~IsContainer(j)
      BY <2>3
    <3>2. _recursiveRemove(list, list, {}, FALSE)
      BY <2>1, <2>3, <3>1
    <3> HIDE DEF cs
    <3>3. Goal(list, list, {}, FALSE)
      BY <1>3, <2>1, <2>2, <3>1, <3>2
    <3> QED  BY <3>3
  <2>4. CASE cs = list
    <3>1. list \ cs = {} /\ \A j \in list : IsContainer(j)
      BY <2>4
    <3>2. _recursiveRemove(list, {}, list, FALSE)
      BY <2>1, <2>4, <3>1
    <3> HIDE DEF cs
    <3>3. Goal(list, {}, list, FALSE)
      BY <1>3, <2>1, <2>2, <3>1, <3>2
    <3> QED  BY <3>3
  <2> QED  BY <2>1, <2>3, <2>4
<1> HIDE DEF Goal
<1>6. \E ids, items, containers : \E a \in BOOLEAN : Goal(ids, items, containers, a)
  BY <1>4, <1>5 DEF AskRemoval
<1> QED  BY <1>6 DEF Goal

\* The first lists satisfy what the rounds keep.
LEMMA AskKeeps ==
    ASSUME "mixed" \notin Cases, AnchorInv, RemovalInv, AskRemoval
    PROVE  /\ RemovalInv'
           /\ Tree!Ask
<1>1. WellFormed(rows) /\ job.pc = "idle" /\ lastID \in Nat
  BY DEF RemovalInv, AskRemoval, Idle
<1>2. PICK ids, items, containers : \E all \in BOOLEAN :
              /\ Idle
              /\ _recursiveRemove(ids, items, containers, all)
              /\ ids # {} /\ ids \subseteq DOMAIN rows \ Forbidden
              /\ items \union containers \subseteq DOMAIN rows \ Forbidden
              /\ \A i \in containers : IsContainer(i)
              /\ \A i \in items : ~IsContainer(i) /\ (all => rows[i].kind = "file")
              /\ \/ items = {} /\ ids = containers
                 \/ /\ containers = {} /\ items # {}
                    /\ \/ items = ids
                       \/ /\ all
                          /\ \E i \in ids : /\ ids = {i} /\ items = {rows[i].ref}
                                            /\ rows[i].kind = "ref"
  BY <1>1, AskIs
<1>3. PICK all \in BOOLEAN :
              /\ _recursiveRemove(ids, items, containers, all)
              /\ ids # {} /\ ids \subseteq DOMAIN rows \ Forbidden
              /\ items \union containers \subseteq DOMAIN rows \ Forbidden
              /\ \A i \in containers : IsContainer(i)
              /\ \A i \in items : ~IsContainer(i) /\ (all => rows[i].kind = "file")
              /\ \/ items = {} /\ ids = containers
                 \/ /\ containers = {} /\ items # {}
                    /\ \/ items = ids
                       \/ /\ all
                          /\ \E i \in ids : /\ ids = {i} /\ items = {rows[i].ref}
                                            /\ rows[i].kind = "ref"
  BY <1>2
<1>4. /\ job'.pc = "recurse" /\ JobShape'
      /\ job'.ids = ids /\ job'.all = all /\ job'.before = rows
      /\ job'.recurseItems = items /\ job'.recurseContainers = containers
      /\ job'.remove = containers
      /\ job'.removeAddParents = IF containers = {} THEN items ELSE {}
      /\ job'.upnp = {}
      /\ job'.ui = IF containers = {} THEN {} ELSE ParentsOf(items \union containers)
      /\ job'.changedUpnp = {} /\ job'.changedUI = {}
      /\ UNCHANGED <<rows, lastID>>
  BY <1>3 DEF _recursiveRemove, NoJob, JobShape
<1>5. CDS_ID_ROOT \in Forbidden
  BY DEF Forbidden, Tree!Forbidden, CDS_ID_ROOT, Tree!CDS_ID_ROOT
<1>6. Shrinks'
  <2>1. rows = Restrict(rows, DOMAIN rows)
    BY <1>1 DEF WellFormed, Restrict
  <2>2. old' = rows
    BY <1>4 DEF old
  <2>3. WellFormed(old)'
    BY <1>1, <1>4, <2>2 DEF WellFormed
  <2> QED  BY <1>3, <1>4, <1>5, <2>1, <2>2, <2>3 DEF Shrinks
<1>7. /\ deleted' = {} /\ collected' = containers /\ old' = rows
      /\ doomed' = Tree!Doomed(rows, ids, all)
  BY <1>4 DEF deleted, collected, old, doomed
<1>8. /\ Tree!Containers(rows) = {i \in DOMAIN rows : IsContainer(i)}
      /\ \A i \in DOMAIN rows :
           /\ rows[i].kind = "ref" => rows[i].ref \in DOMAIN rows /\ rows[rows[i].ref].kind = "file"
           /\ rows[i].ref \in DOMAIN rows => rows[i].kind = "ref"
           /\ i # CDS_ID_ROOT => rows[i].parent \in Tree!Containers(rows)
  <2>1. DOMAIN rows \subseteq 0 .. lastID
    BY <1>1 DEF WellFormed
  <2> QED  BY <1>1, <2>1, NoRefIsNoId
           DEF WellFormed, Tree!Containers, Tree!ContainerKinds, IsContainer
<1>9. /\ ids \subseteq Tree!Doomed(rows, ids, all)
      /\ items \union containers \subseteq Tree!Doomed(rows, ids, all)
  <2>1. ids \subseteq Tree!Doomed(rows, ids, all)
    BY <1>3, DoomedBasics
  <2>2. ASSUME all, NEW i \in ids, ids = {i}, items = {rows[i].ref}, rows[i].kind = "ref"
        PROVE  rows[i].ref \in Tree!Doomed(rows, ids, all)
    BY <1>3, <1>8, <2>1, <2>2, DoomedOriginal
  <2> QED  BY <1>3, <2>1, <2>2
<1>10. Sound'
  BY <1>3, <1>4, <1>7, <1>8, <1>9 DEF Sound
<1>11. \A i \in DOMAIN rows : rows[i].ref \notin containers
  BY <1>3, <1>8 DEF IsContainer
<1>12. Complete'
  <2>1. \A i \in ids : i \in containers \union job'.removeAddParents \/ rows[i].ref \in items
    BY <1>3, <1>4
  <2>2. \A i \in containers : rows[i].kind # "ref"
    BY <1>3 DEF IsContainer
  <2> QED  BY <1>3, <1>4, <1>7, <1>11, <2>1, <2>2 DEF Complete
<1>13. Noted'
  <2>1. Parents' = {c \in Tree!Containers(rows) : Tree!Children(rows, c) # {}}
    BY <1>7 DEF Parents
  <2>2. CASE containers = {}
    BY <1>4, <1>7, <2>2 DEF Noted
  <2>3. CASE containers # {}
    <3>1. job'.ui = ParentsOf(containers)
      BY <1>3, <1>4, <2>3
    <3>2. \A i \in containers : rows[i].parent \in job'.ui
      BY <1>3, <3>1 DEF ParentsOf
    <3>3. \A c \in job'.ui : c \in Tree!Containers(rows) /\ Tree!Children(rows, c) # {}
      BY <1>3, <1>5, <1>8, <3>1 DEF ParentsOf, Tree!Children
    <3> QED  BY <1>4, <1>7, <2>1, <3>2, <3>3 DEF Noted
  <2> QED  BY <2>2, <2>3
<1>14. RemovalInv'
  BY <1>1, <1>4, <1>6, <1>10, <1>12, <1>13 DEF RemovalInv
<1>15. Tree!Ask
  BY <1>1, <1>3, <1>4 DEF Tree!Ask, Tree!NoRequest, Forbidden
<1> QED  BY <1>14, <1>15

\* When the caller has its answer, the table is well-formed again.
LEMMA ReturnKeeps ==
    ASSUME RemovalInv, return
    PROVE  /\ RemovalInv'
           /\ Tree!Remove
<1>1. /\ job.pc = "done" /\ UNCHANGED <<rows, lastID>> /\ job' = NoJob
      /\ Shrinks /\ Purged /\ Finished /\ lastID \in Nat
  BY DEF RemovalInv, return
<1>2. job'.pc = "idle" /\ JobShape'
  BY <1>1 DEF NoJob, JobShape
<1>3. \A i \in DOMAIN rows : i \in DOMAIN old /\ rows[i] = old[i]
  BY <1>1, RowsAreOld
<1>4. ASSUME NEW i \in DOMAIN rows
      PROVE  /\ i # CDS_ID_ROOT => rows[i].parent \in Tree!Containers(rows)
             /\ rows[i].kind = "ref" => rows[i].ref \in DOMAIN rows /\ rows[rows[i].ref].kind = "file"
             /\ rows[i].kind # "ref" => rows[i].ref = NoRef
  <2>1. i # CDS_ID_ROOT => rows[i].parent \in Tree!Containers(rows)
    BY <1>1, <1>3, OldKinds DEF Purged, Tree!Containers, Tree!ContainerKinds
  <2>2. rows[i].kind # "ref" => rows[i].ref = NoRef
    BY <1>1, <1>3 DEF Shrinks, WellFormed
  <2>3. ASSUME rows[i].kind = "ref"
        PROVE  rows[i].ref \in DOMAIN rows /\ rows[rows[i].ref].kind = "file"
    <3>1. old[i].ref \in DOMAIN old /\ old[old[i].ref].kind = "file" /\ rows[i].ref = old[i].ref
      BY <1>1, <1>3, <2>3, OldKinds
    <3>2. i \notin doomed
      BY <1>1 DEF Purged, deleted
    <3>3. old[i].ref \notin doomed
      BY <1>3, <3>2, DoomedFollows DEF doomed
    <3>4. Tree!Emptied(old, doomed) \subseteq Tree!Containers(old)
      <4>1. Tree!Containers(old) \subseteq DOMAIN old
        BY DEF Tree!Containers
      <4>2. Tree!Emptying(old, doomed, Tree!Containers(old)) \subseteq Tree!Containers(old)
        BY DEF Tree!Emptying
      <4> QED  BY <4>1, <4>2, EmptiedLeast
    <3>5. old[i].ref \notin deleted
      BY <1>1, <3>1, <3>3, <3>4, OldKinds DEF Purged
    <3> QED  BY <1>3, <3>1, <3>5 DEF deleted
  <2> QED  BY <2>1, <2>2, <2>3
<1>5. rows \in [DOMAIN rows -> RowType] /\ DOMAIN rows \subseteq 0 .. lastID
  BY <1>1, <1>3 DEF Shrinks, WellFormed, Restrict
<1>6. WellFormed(rows)
  <2>1. CDS_ID_ROOT \in DOMAIN rows /\ rows[CDS_ID_ROOT] = old[CDS_ID_ROOT]
    BY <1>1, <1>3 DEF Purged
  <2> QED  BY <1>1, <1>4, <1>5, <2>1 DEF WellFormed, Shrinks
<1>7. RemovalInv'
  <2>1. WellFormed(rows)'
    BY <1>1, <1>6 DEF WellFormed
  <2> QED  BY <1>1, <1>2, <2>1 DEF RemovalInv
<1>8. Tree!Remove
  <2>1. job.ids # {}
    BY <1>1 DEF Shrinks
  <2>2. [ids |-> job.ids, all |-> job.all] # [ids |-> {}, all |-> FALSE]
    BY <2>1
  <2>3. rows = Tree!Without(job.before, Tree!Gone(job.before, job.ids, job.all))
    BY <1>1 DEF Finished, old
  <2> QED  BY <1>1, <1>2, <2>2, <2>3 DEF Tree!Remove, Tree!NoRequest
<1> QED  BY <1>7, <1>8

-----------------------------------------------------------------------------
(* The theorems.                                                           *)

\* Without playlist links and without rescans that miss both files and
\* directories, the two cases in which the lists of a removal are wrong.
Regular == Cases \subseteq {"root"}

LEMMA RemovalNext ==
    ASSUME Regular, AnchorInv, RemovalInv, [Next]_vars
    PROVE  RemovalInv'
<1>0. "link" \notin Cases /\ "mixed" \notin Cases
  BY DEF Regular
<1>1. CASE Grow
  BY <1>0, <1>1, GrowKeeps
<1>2. CASE Autoscan
  BY <1>2, AutoscanKeeps
<1>3. CASE AskRemoval
  BY <1>0, <1>3, AskKeeps
<1>4. CASE recurse
  BY <1>4, RecurseKeeps
<1>5. CASE purge
  BY <1>5, PurgeKeeps
<1>6. CASE return
  BY <1>6, ReturnKeeps
<1>7. CASE UNCHANGED vars
  <2> USE <1>7 DEF vars
  <2>1. old' = old /\ deleted' = deleted /\ collected' = collected /\ doomed' = doomed
        /\ Parents' = Parents
    BY DEF old, deleted, collected, doomed, Parents
  <2>2. (WellFormed(rows) => WellFormed(rows)') /\ (Shrinks => Shrinks') /\ (JobShape => JobShape')
    BY <2>1 DEF WellFormed, Shrinks, JobShape
  <2>3. (Sound => Sound') /\ (Complete => Complete') /\ (Noted => Noted')
    BY <2>1 DEF Sound, Complete, Noted
  <2>4. (Purged => Purged') /\ (Candidates => Candidates')
    BY <2>1 DEF Purged, Candidates, Persistent, IsContainer
  <2>5. Finished => Finished'
    BY <2>1 DEF Finished, ReportsChanged, Existing, IsContainer
  <2> QED  BY <2>2, <2>3, <2>4, <2>5 DEF RemovalInv
<1> QED  BY <1>1, <1>2, <1>3, <1>4, <1>5, <1>6, <1>7 DEF Next

\* The invariant of the two loops, for every table and MAX_REMOVE_SIZE.
THEOREM RemovalInvariant ==
    ASSUME Regular
    PROVE  Spec => [](AnchorInv /\ RemovalInv)
<1>1. AnchorInv /\ RemovalInv /\ [Next]_vars => (AnchorInv /\ RemovalInv)'
  BY AnchorNext, RemovalNext
<1> QED  BY <1>1, AnchorInit, RemovalInit, PTL DEF Spec

\* _purgeEmptyContainers() reports the containers that lost a child, to the web
\* interface too if the child was a container, and no container that is gone.
THEOREM RemovalReportsChanged ==
    ASSUME Regular
    PROVE  Spec => []ReportsChanged
<1>1. RemovalInv => ReportsChanged
  BY DEF RemovalInv, Finished, ReportsChanged
<1> QED  BY <1>1, RemovalInvariant, PTL

\* Every step of the tables is one of the contract, or none.
LEMMA StepIsAbstract ==
    ASSUME Regular, AnchorInv, RemovalInv, [Next]_vars
    PROVE  [Tree!CdsNext]_(Tree!cdsVars)
<1> USE DEF Tree!CdsNext
<1>1. CASE Grow
  <2>1. PICK p \in DOMAIN rows, kind \in Kinds, ref \in DOMAIN rows \union {NoRef} :
            /\ Row(kind, p, ref) \in RowType
            /\ IsContainer(p)
            /\ insert(Row(kind, p, ref))
            /\ kind = "ref" => ref \in DOMAIN rows
            /\ kind = "file" => ref = NoRef
            /\ kind \in {"dir", "virt"} /\ ref # NoRef => "link" \in Cases
            /\ ref \in DOMAIN rows => rows[ref].kind = "file"
    BY <1>1, GrowInserts
  <2> DEFINE id == lastID + 1
             row == Row(kind, p, ref)
  <2>2. job.pc = "idle" /\ UNCHANGED job /\ rows' = With(rows, id, row)
    BY <2>1 DEF insert, Idle
  <2>3. row.kind = kind /\ row.parent = p /\ row.ref = ref
    BY DEF Row
  <2>4. \A j \in DOMAIN rows : j < id
    BY DEF AnchorInv
  <2>5. id \notin DOMAIN rows /\ NoRef \notin DOMAIN rows
    BY NoRefIsNoId DEF AnchorInv
  <2> HIDE DEF id, row
  <2>6. /\ DOMAIN rows' = DOMAIN rows \union {id} /\ rows'[id] = row
        /\ \A j \in DOMAIN rows : rows'[j] = rows[j]
    BY <2>2, <2>5 DEF With
  <2>7. Tree!WellPlaced(rows, row)
    BY <2>1, <2>3, <2>5 DEF Tree!WellPlaced, Tree!Containers, Tree!ContainerKinds,
       Tree!ItemKinds, IsContainer, Kinds, NoRef
  <2>8. Tree!Add
    BY <2>2, <2>4, <2>6, <2>7 DEF Tree!Add, Tree!NoRequest
  <2> QED  BY <2>8
<1>2. CASE Autoscan
  BY <1>2, AutoscanKeeps
<1>3. CASE AskRemoval
  BY <1>3, AskKeeps DEF Regular
<1>4. CASE recurse
  <2>1. /\ job'.before = job.before /\ job'.ids = job.ids /\ job'.all = job.all
        /\ job.pc = "recurse" /\ job'.pc \in {"recurse", "purge", "done"}
    BY <1>4, RecurseEffect DEF RemovalInv
  <2> QED  BY <2>1 DEF Tree!cdsVars
<1>5. CASE purge
  <2>1. /\ job'.before = job.before /\ job'.ids = job.ids /\ job'.all = job.all
        /\ job.pc = "purge" /\ job'.pc \in {"purge", "done"}
    BY <1>5, PurgeEffect DEF RemovalInv
  <2> QED  BY <2>1 DEF Tree!cdsVars
<1>6. CASE return
  BY <1>6, ReturnKeeps
<1>7. CASE UNCHANGED vars
  BY <1>7 DEF vars, Tree!cdsVars
<1> QED  BY <1>1, <1>2, <1>3, <1>4, <1>5, <1>6, <1>7 DEF Next

LEMMA InitIsAbstract == Init => Tree!CdsInit
<1> SUFFICES ASSUME Init PROVE Tree!CdsInit
  OBVIOUS
<1>1. job.pc = "idle"
  BY DEF Init, NoJob
<1>2. Forbidden = {0, 1} /\ CDS_ID_ROOT = 0 /\ NoRef = Tree!NoRef
  BY DEF Forbidden, Tree!Forbidden, Tree!CDS_ID_ROOT, Tree!CDS_ID_FS_ROOT, CDS_ID_ROOT, NoRef
<1>3. /\ DOMAIN rows = {0, 1}
      /\ rows[0].persistent /\ rows[0].parent = -1 /\ rows[0].kind = "virt" /\ rows[0].ref = NoRef
      /\ rows[1].persistent /\ rows[1].parent = 0 /\ rows[1].kind = "dir" /\ rows[1].ref = NoRef
  BY <1>2 DEF Init
<1> QED  BY <1>1, <1>2, <1>3
         DEF Tree!CdsInit, Tree!Forbidden, Tree!CDS_ID_ROOT, Tree!CDS_ID_FS_ROOT,
             Tree!CDS_ID_BLACKHOLE, Tree!ContainerKinds, Tree!NoRequest

\* The statements of the two loops together remove exactly what the contract of
\* the storage says: the objects, what is below them, what refers to them, and the
\* containers that become empty, whatever MAX_REMOVE_SIZE cuts the lists at.
THEOREM TablesImplementTree ==
    ASSUME Regular
    PROVE  Spec => ImplementsTree
<1>1. AnchorInv /\ RemovalInv /\ [Next]_vars => [Tree!CdsNext]_(Tree!cdsVars)
  BY StepIsAbstract
<1> QED  BY <1>1, InitIsAbstract, RemovalInvariant, PTL DEF Spec, ImplementsTree, Tree!CdsSpec
=============================================================================
