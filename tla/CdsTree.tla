------------------------------ MODULE CdsTree ------------------------------
(***************************************************************************)
(* What the storage promises about the tree of media objects (storage.h,   *)
(* the comments of addObject, removeObject and removeObjects), without the *)
(* insert buffer, the cache, or the loops and statements of a removal.     *)
(*                                                                         *)
(* An object has a parent container and may refer to an item: a virtual    *)
(* item to the file it stands for, a container to the playlist it was made *)
(* from.  An object that goes takes its children and whatever refers to it *)
(* along, and containers that become empty in this way go too, unless they *)
(* are persistent.                                                         *)
(***************************************************************************)
EXTENDS Integers, Functions

VARIABLES
    objs,     \* the objects: a function from ids to rows
    pending   \* the removal that was asked for, or NoRequest

cdsVars == <<objs, pending>>

CDS_ID_ROOT    == 0
CDS_ID_FS_ROOT == 1
CDS_ID_BLACKHOLE == -1
NoRef == -333
Forbidden == {CDS_ID_ROOT, CDS_ID_FS_ROOT}
NoRequest == [ids |-> {}, all |-> FALSE]

ContainerKinds == {"dir", "virt"}
ItemKinds == {"file", "ref"}

-----------------------------------------------------------------------------
(* Parts of a tree o.                                                      *)

Containers(o) == {i \in DOMAIN o : o[i].kind \in ContainerKinds}
Children(o, c) == {i \in DOMAIN o : o[i].parent = c}
Without(o, gone) == Restrict(o, DOMAIN o \ gone)

\* Children go with their parent and references with what they refer to; with
\* "all", what a reference stands for goes with the reference.
Closed(o, X, all) ==
    \A i \in DOMAIN o :
        /\ o[i].parent \in X \/ o[i].ref \in X => i \in X
        /\ all /\ i \in X /\ o[i].kind = "ref" => o[i].ref \in X

Doomed(o, ids, all) ==
    LET closed == {X \in SUBSET DOMAIN o : ids \subseteq X /\ Closed(o, X, all)}
    IN  {i \in DOMAIN o : \A X \in closed : i \in X}

\* Containers left without children when gone and more are taken away.
Emptying(o, gone, more) ==
    {c \in Containers(o) \ gone :
        /\ ~o[c].persistent
        /\ Children(o, c) # {}
        /\ Children(o, c) \subseteq gone \union more}

Emptied(o, gone) ==
    LET closed == {X \in SUBSET DOMAIN o : Emptying(o, gone, X) \subseteq X}
    IN  {c \in DOMAIN o : \A X \in closed : c \in X}

Gone(o, ids, all) ==
    LET doomed == Doomed(o, ids, all) IN doomed \union Emptied(o, doomed)

\* A new object's parent is a container of the tree, and it refers to a file or
\* to nothing.
WellPlaced(o, r) ==
    /\ r.parent \in Containers(o)
    /\ r.kind \in ContainerKinds \union ItemKinds
    /\ r.ref = NoRef \/ (r.ref \in DOMAIN o /\ o[r.ref].kind = "file")
    /\ r.kind = "file" => r.ref = NoRef
    /\ r.kind = "ref" => r.ref # NoRef

-----------------------------------------------------------------------------
CdsInit ==
    /\ DOMAIN objs = Forbidden
    /\ \A i \in Forbidden :
          /\ objs[i].kind \in ContainerKinds
          /\ objs[i].persistent
          /\ objs[i].ref = NoRef
    /\ objs[CDS_ID_ROOT].parent = CDS_ID_BLACKHOLE
    /\ objs[CDS_ID_FS_ROOT].parent = CDS_ID_ROOT
    /\ pending = NoRequest

\* One object is added, under an id above all others.
Add ==
    /\ pending = NoRequest
    /\ \E i \in DOMAIN objs' :
          /\ \A j \in DOMAIN objs : j < i
          /\ WellPlaced(objs, objs'[i])
          /\ DOMAIN objs' = DOMAIN objs \union {i}
          /\ \A j \in DOMAIN objs : objs'[j] = objs[j]
    /\ UNCHANGED pending

\* An object is changed; it keeps its kind, its place and its reference.
Change ==
    /\ pending = NoRequest
    /\ DOMAIN objs' = DOMAIN objs
    /\ \E i \in DOMAIN objs :
          /\ objs'[i].kind = objs[i].kind
          /\ objs'[i].parent = objs[i].parent
          /\ objs'[i].ref = objs[i].ref
          /\ \A j \in DOMAIN objs \ {i} : objs'[j] = objs[j]
    /\ UNCHANGED pending

Ask ==
    /\ pending = NoRequest
    /\ pending'.ids \subseteq DOMAIN objs \ Forbidden
    /\ pending'.ids # {}
    /\ pending'.all \in BOOLEAN
    /\ pending' = [ids |-> pending'.ids, all |-> pending'.all]
    /\ UNCHANGED objs

Remove ==
    /\ pending # NoRequest
    /\ objs' = Without(objs, Gone(objs, pending.ids, pending.all))
    /\ pending' = NoRequest

CdsNext == Add \/ Change \/ Ask \/ Remove

CdsSpec == CdsInit /\ [][CdsNext]_cdsVars

\* Every object but the root has a container of the tree as its parent, and
\* every reference leads to a file: what the foreign keys of the schema say
\* (config/sqlite3.sql:19), which neither database enforces.
NoOrphans ==
    \A i \in DOMAIN objs \ {CDS_ID_ROOT} :
        /\ objs[i].parent \in Containers(objs)
        /\ objs[i].ref = NoRef \/ objs[i].ref \in DOMAIN objs
=============================================================================
