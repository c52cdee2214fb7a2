---------------------------- MODULE ObjectTree ----------------------------
(***************************************************************************)
(* SQLStorage: the tables of objects and of autoscan directories, and the  *)
(* removal of objects from them, round by round: removeObject()            *)
(* and removeObjects(), _recursiveRemove() with its three growing lists of *)
(* ids, _removeObjects(), and the loop of _purgeEmptyContainers() that     *)
(* also works out which containers the clients have to be told about.      *)
(*                                                                         *)
(* One thread works on the tables, the one that serves the task queue.     *)
(* Lists of ids are sets: they are used in "id IN (...)" only.  Left out:  *)
(* the exceptions of the two loops after MAX_REMOVE_RECURSION (500)        *)
(* rounds, so what is shown is about trees less deep than that.  The       *)
(* insert buffer and the cache are in ObjectStore.                         *)
(***************************************************************************)
EXTENDS Integers, FiniteSets, Functions

CONSTANTS
    MaxId,         \* bound: the largest object id
    MaxRemove,     \* MAX_REMOVE_SIZE, as a number of ids
    ScanKinds,     \* the autoscans that are set: whether recursive, whether persistent
    Cases          \* which of the rarer cases below happen

\* "link": playlist containers refer to their playlist (option create-link);
\* "mixed": a rescan misses files and directories at the same time;
\* "root": an autoscan is set on the root of the file system.
AllCases == {"link", "mixed", "root"}

ASSUME TreeAssumption ==
    /\ MaxId \in Nat
    /\ MaxRemove \in Nat
    /\ ScanKinds \subseteq [recursive : BOOLEAN, persistent : BOOLEAN]
    /\ Cases \subseteq AllCases

VARIABLES
    rows,     \* mt_cds_object: a function from ids to rows
    scans,    \* mt_autoscan: a function from obj_id to rows; those without
              \* an obj_id take part in nothing and are not kept
    lastID,   \* the last id handed out
    job       \* the removal in progress: its local variables

vars == <<rows, scans, lastID, job>>

Tree == INSTANCE CdsTree WITH
    objs    <- IF job.pc = "idle" THEN rows ELSE job.before,
    pending <- IF job.pc = "idle" THEN [ids |-> {}, all |-> FALSE]
               ELSE [ids |-> job.ids, all |-> job.all]

CDS_ID_ROOT    == 0
CDS_ID_FS_ROOT == 1
Forbidden == Tree!Forbidden
NoRef == Tree!NoRef

Row(kind, parent, ref) ==
    [kind |-> kind, parent |-> parent, ref |-> ref, persistent |-> FALSE]

IsContainer(i) == rows[i].kind \in {"dir", "virt"}
ParentsOf(ids) == {rows[i].parent : i \in ids \intersect DOMAIN rows}
References(ids) == {i \in DOMAIN rows : rows[i].ref \in ids}
Kids(ids) == {i \in DOMAIN rows : rows[i].parent \in ids}

\* The job record between two removals.
NoJob == [pc |-> "idle", ids |-> {}, all |-> FALSE, before |-> <<>>,
          recurseItems |-> {}, recurseContainers |-> {}, removeAddParents |-> {},
          remove |-> {}, upnp |-> {}, ui |-> {},
          changedUpnp |-> {}, changedUI |-> {}]

Idle == job.pc = "idle"

Init ==
    /\ rows = [i \in Forbidden |->
                 [kind |-> IF i = CDS_ID_ROOT THEN "virt" ELSE "dir",
                  parent |-> IF i = CDS_ID_ROOT THEN -1 ELSE CDS_ID_ROOT,
                  ref |-> NoRef, persistent |-> TRUE]]
    /\ scans = <<>>
    /\ lastID = CDS_ID_FS_ROOT
    /\ job = NoJob

\* INSERT of a row into a table.
With(table, id, row) ==
    [i \in DOMAIN table \union {id} |-> IF i = id THEN row ELSE table[i]]

-----------------------------------------------------------------------------
(* The tree grows: what the insertions of ObjectStore put into the table.  *)

getNextID == lastID' = lastID + 1 /\ lastID < MaxId

insert(row) ==
    /\ Idle
    /\ getNextID
    /\ rows' = With(rows, lastID + 1, row)
    /\ UNCHANGED <<scans, job>>

\* A directory, through ensurePathExistence().
createDirectory(parent) ==
    rows[parent].kind = "dir" /\ insert(Row("dir", parent, NoRef))

\* A virtual container, through addContainerChain(); with create-link the one
\* made for a playlist refers to the playlist.
createVirtual(parent, ref) ==
    /\ rows[parent].kind = "virt"
    /\ ref # NoRef => "link" \in Cases /\ rows[ref].kind = "file"
    /\ insert(Row("virt", parent, ref))

addFile(parent) ==
    rows[parent].kind = "dir" /\ insert(Row("file", parent, NoRef))

\* A duplicate is ignored.
addReference(parent, ref) ==
    LET row == Row("ref", parent, ref)
    IN  /\ rows[parent].kind = "virt"
        /\ rows[ref].kind = "file"
        /\ \A i \in DOMAIN rows : rows[i] # row
        /\ insert(row)

-----------------------------------------------------------------------------
(* Autoscan directories.                                                   *)

\* The ids from an object up to the root, which is not one of them.
getPathIDs(id) ==
    LET up[n \in Nat] ==
            IF n = 0 THEN {id}
            ELSE up[n - 1] \union {rows[i].parent : i \in up[n - 1] \intersect DOMAIN rows}
    IN  up[Cardinality(DOMAIN rows)] \ {CDS_ID_ROOT, -1}

\* Mutant of _checkOverlappingAutoscans: autoscans below are not looked for.
OverlapAboveOnly(id, recursive, others) ==
    /\ id \notin others
    /\ \A s \in getPathIDs(id) \intersect others : ~scans[s].recursive

\* Nothing else is scanned at id, above it by a recursive autoscan, or, if this one
\* is recursive, below it.
_checkOverlappingAutoscans(id, recursive, others) ==
    /\ id \notin others
    /\ recursive => \A s \in others : id \notin scans[s].path
    /\ \A s \in getPathIDs(id) \intersect others : ~scans[s].recursive

\* The flags when an autoscan moves from the objects in old to those in new.
_autoscanChangePersistentFlag(old, new) ==
    rows' = [i \in DOMAIN rows |-> [rows[i] EXCEPT
                !.persistent = (@ /\ i \notin old) \/ i \in new]]

Scan(path, k) == [recursive |-> k.recursive, persistent |-> k.persistent,
                  path |-> path]

\* The path_ids of an autoscan that was stored without a check.
NoPath == {}

\* A directory of the configuration file (persistent) or of the web interface.
addAutoscanDirectory(id, k) ==
    /\ Idle
    /\ rows[id].kind = "dir"
    /\ id # CDS_ID_FS_ROOT \/ "root" \in Cases
    /\ _checkOverlappingAutoscans(id, k.recursive, DOMAIN scans)
    /\ _autoscanChangePersistentFlag({}, {id})
    /\ scans' = With(scans, id, Scan(getPathIDs(id), k))
    /\ UNCHANGED <<lastID, job>>

\* A directory of the configuration file that is not on the disk at the start has
\* no object id, and _checkOverlappingAutoscans() lets it pass; but
\* addAutoscanDirectory() finds the object by its path, if it is still there.
addAbsentDirectory(id, k) ==
    /\ Idle
    /\ k.persistent
    /\ rows[id].kind = "dir" /\ id \notin Forbidden
    /\ id \notin DOMAIN scans
    /\ _autoscanChangePersistentFlag({}, {id})
    /\ scans' = With(scans, id, Scan(NoPath, k))
    /\ UNCHANGED <<lastID, job>>

\* An autoscan is edited, is taken over by the configuration file, or is a
\* persistent one that finds its directory again under another id
\* (handlePersistentAutoscanRecreate()).
updateAutoscanDirectory(id, new, k) ==
    LET others == DOMAIN scans \ {id}
    IN  /\ Idle
        /\ scans[id].persistent => k.persistent
        /\ new = id \/ (k.persistent /\ id \notin DOMAIN rows)
        /\ rows[new].kind = "dir"
        /\ new # CDS_ID_FS_ROOT \/ "root" \in Cases
        /\ _checkOverlappingAutoscans(new, k.recursive, others)
        /\ IF new = id THEN UNCHANGED rows
           ELSE _autoscanChangePersistentFlag({id}, {new})
        /\ scans' = With(Restrict(scans, others), new, Scan(getPathIDs(new), k))
        /\ UNCHANGED <<lastID, job>>

\* An autoscan goes, or loses its object because its directory is not on the
\* disk (updateAutoscanDirectory() without an object id).
removeAutoscanDirectory(id) ==
    /\ Idle
    /\ scans' = Restrict(scans, DOMAIN scans \ {id})
    /\ _autoscanChangePersistentFlag({id}, {})
    /\ UNCHANGED <<lastID, job>>

-----------------------------------------------------------------------------
(* Asking for a removal.                                                   *)

\* Mutant of _recursiveRemove: the parents of containers are not noted for the
\* web interface.
RecursiveRemoveQuiet(ids, items, containers, all) ==
    /\ Idle
    /\ job' = [NoJob EXCEPT
          !.pc = "recurse",
          !.ids = ids, !.all = all, !.before = rows,
          !.recurseItems = items,
          !.recurseContainers = containers,
          !.remove = containers,
          !.removeAddParents = items \union containers]
    /\ UNCHANGED <<rows, scans, lastID>>

\* _recursiveRemove() up to its loop.  With containers among the objects the
\* list for the parents is used for them and then emptied.
_recursiveRemove(ids, items, containers, all) ==
    /\ Idle
    /\ job' = [NoJob EXCEPT
          !.pc = "recurse",
          !.ids = ids, !.all = all, !.before = rows,
          !.recurseItems = items,
          !.recurseContainers = containers,
          !.remove = containers,
          !.removeAddParents = IF containers = {} THEN items ELSE {},
          !.ui = IF containers = {} THEN {} ELSE ParentsOf(items \union containers)]
    /\ UNCHANGED <<rows, scans, lastID>>

removeObject(objectID, all) ==
    LET id == IF all /\ ~IsContainer(objectID) /\ rows[objectID].ref # NoRef
                THEN rows[objectID].ref ELSE objectID
    IN  /\ id \notin Forbidden
        /\ IF IsContainer(id) THEN _recursiveRemove({objectID}, {}, {id}, all)
           ELSE _recursiveRemove({objectID}, {id}, {}, all)

\* The objects of a directory that a rescan did not meet any more.
removeObjects(list) ==
    LET containers == {i \in list : IsContainer(i)}
    IN  /\ list # {}
        /\ list \intersect Forbidden = {}
        /\ "mixed" \in Cases \/ containers \in {{}, list}
        /\ _recursiveRemove(list, list \ containers, containers, FALSE)

-----------------------------------------------------------------------------
(* The loop of _recursiveRemove().                                         *)

\* Mutant of _removeObjects: the autoscans of the objects are forgotten.
RemoveObjectsOnly(ids) ==
    /\ rows' = Restrict(rows, DOMAIN rows \ ids)
    /\ UNCHANGED scans

\* _removeObjects(): objects and their autoscans.  The UPDATE that would keep a
\* persistent autoscan without its object is put together and never executed.
_removeObjects(ids) ==
    /\ rows' = Restrict(rows, DOMAIN rows \ ids)
    /\ scans' = Restrict(scans, {s \in DOMAIN scans :
                    s \in ids \intersect DOMAIN rows => scans[s].persistent})

\* One round: the parents of what is to be removed, the references to the items
\* found last, and the children of the containers found last.  With "all" the
\* file behind a reference goes, and the reference with it in the next round.
\* A long list is removed at once, the last one when nothing is left to follow.
recurse ==
    LET refs == References(job.recurseItems)
        found == Kids(job.recurseContainers)
        containers == {i \in found : IsContainer(i)}
        byRef == {i \in found \ containers : job.all /\ rows[i].ref # NoRef}
        targets == {rows[i].ref : i \in byRef}
        items == (found \ (containers \union byRef)) \union targets
        upnp == job.upnp \union ParentsOf(job.removeAddParents) \union ParentsOf(refs)
        remove == job.remove \union job.removeAddParents \union refs \union (found \ byRef)
        more == items \union containers # {}
        cut == ~more \/ Cardinality(remove) > MaxRemove
    IN  /\ job.pc = "recurse"
        /\ job' = [job EXCEPT
              !.pc = IF more THEN "recurse"
                     ELSE IF upnp \union job.ui = {} THEN "done" ELSE "purge",
              !.recurseItems = items,
              !.recurseContainers = containers,
              !.removeAddParents = targets,
              !.upnp = upnp,
              !.remove = IF cut THEN {} ELSE remove]
        /\ IF cut THEN _removeObjects(remove) ELSE UNCHANGED <<rows, scans>>
        /\ UNCHANGED lastID

-----------------------------------------------------------------------------
(* The loop of _purgeEmptyContainers().                                    *)

Persistent(ids) == {c \in ids : rows[c].persistent}
\* Mutant of Empty: the flag of the container is not looked at.
EmptyPersistentToo(ids) == {c \in ids : Kids({c}) = {}}
Empty(ids) == {c \in ids : ~rows[c].persistent /\ Kids({c}) = {}}
Existing(ids) == {c \in ids \intersect DOMAIN rows : IsContainer(c)}
Again(deleted, left) == deleted # {} /\ left # {}

\* One round: persistent containers are reported, empty ones are removed and
\* their parents looked at next, the others stay in the list.  If nothing was
\* removed, or nothing is left to look at, the rest is reported.
purge ==
    LET upnp == Existing(job.upnp)
        ui == Existing(job.ui \union ParentsOf(Empty(upnp)))
        del == Empty(upnp) \union Empty(ui)
        keptUpnp == upnp \ (Persistent(upnp) \union Empty(upnp))
        keptUI == (ui \ (Persistent(ui) \union Empty(ui))) \union ParentsOf(Empty(ui))
        again == Again(del, keptUpnp \union keptUI)
        changedUI == job.changedUI \union Persistent(ui)
        changedUpnp == job.changedUpnp \union Persistent(upnp) \union Persistent(ui)
    IN  /\ job.pc = "purge"
        /\ job' = [job EXCEPT
              !.pc = IF again THEN "purge" ELSE "done",
              !.upnp = keptUpnp,
              !.ui = keptUI,
              !.changedUI = IF again THEN changedUI ELSE changedUI \union keptUI,
              !.changedUpnp = IF again THEN changedUpnp
                              ELSE changedUpnp \union keptUI \union keptUpnp]
        /\ _removeObjects(del)
        /\ UNCHANGED lastID

\* The caller has the changed containers.
return ==
    /\ job.pc = "done"
    /\ job' = NoJob
    /\ UNCHANGED <<rows, scans, lastID>>

-----------------------------------------------------------------------------
Grow == \E p \in DOMAIN rows :
    \/ createDirectory(p)
    \/ addFile(p)
    \/ createVirtual(p, NoRef)
    \/ \E r \in DOMAIN rows : createVirtual(p, r) \/ addReference(p, r)

Autoscan ==
    \/ \E i \in DOMAIN rows, k \in ScanKinds :
          addAutoscanDirectory(i, k) \/ addAbsentDirectory(i, k)
    \/ \E i \in DOMAIN scans, new \in DOMAIN rows, k \in ScanKinds :
          updateAutoscanDirectory(i, new, k)
    \/ \E i \in DOMAIN scans : removeAutoscanDirectory(i)

AskRemoval == Idle /\ \E i \in DOMAIN rows :
    \/ \E all \in BOOLEAN : removeObject(i, all)
    \/ \E list \in SUBSET Kids({i}) : rows[i].kind = "dir" /\ removeObjects(list)

Next == Grow \/ Autoscan \/ AskRemoval \/ recurse \/ purge \/ return

Spec == Init /\ [][Next]_vars

-----------------------------------------------------------------------------
(* Properties.                                                             *)

\* Insertions, autoscans and the statements of a removal together do what the
\* contract says: in particular exactly the objects that have to go are gone
\* when the loops of _recursiveRemove() and _purgeEmptyContainers() end.
ImplementsTree == Tree!CdsSpec

\* _purgeEmptyContainers() reports every surviving container that lost a child,
\* to the web interface too if the child was a container (its tree shows
\* containers only), and nothing that is gone.
ReportsChanged ==
    job.pc = "done" =>
        LET lost(c) == {i \in DOMAIN job.before \ DOMAIN rows : job.before[i].parent = c}
        IN  /\ \A c \in DOMAIN rows :
                  /\ lost(c) # {} => c \in job.changedUpnp
                  /\ (\E i \in lost(c) : job.before[i].kind \in {"dir", "virt"})
                        => c \in job.changedUI
            /\ job.changedUpnp \union job.changedUI \subseteq Existing(DOMAIN rows)

\* An autoscan set in the web interface never outlives its directory, and its
\* directory is persistent, so that it stays when it becomes empty.
AutoscanAnchored ==
    \A s \in DOMAIN scans :
        /\ s \in DOMAIN rows => rows[s].persistent
        /\ ~scans[s].persistent => s \in DOMAIN rows

Checked(s) == scans[s].path # NoPath

\* No autoscan lies inside a recursive one, whatever is set, edited, removed and
\* set again, if both have passed the check with their object; the start stores
\* directories that are not on the disk without it (addAbsentDirectory).
NoOverlap ==
    \A s, t \in DOMAIN scans \intersect DOMAIN rows :
        s # t /\ Checked(s) /\ Checked(t) /\ s \in getPathIDs(t) => ~scans[s].recursive
=============================================================================
