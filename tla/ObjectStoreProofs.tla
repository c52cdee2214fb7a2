-------------------------- MODULE ObjectStoreProofs --------------------------
(***************************************************************************)
(* ObjectStore for calls that do not overlap: whatever the threads, paths, *)
(* limits and metadata are, the insert buffer and the cache are invisible, *)
(* and table and buffer together implement CdsTree.                        *)
(*                                                                         *)
(* The invariant is written with operators on values instead of variables: *)
(* o is the table and the buffer together, n the last id, w the ids that   *)
(* wait in the buffer, h and l the two hashes of the cache, k what the     *)
(* thread still has to do and r its registers.                             *)
(***************************************************************************)
EXTENDS ObjectStore, FiniteSetTheorems, SequenceTheorems, WellFoundedInduction, TLAPS

-----------------------------------------------------------------------------
(* Types.                                                                  *)

AnyPath == Paths \union {Slash, NoPath}
AnyMeta == Meta \union {NewMeta, NoMeta}
ItemKinds == {"file", "ref"}
ContainerKinds == {"dir", "virt"}
Location == {"NULL", "F", "D", "V"} \X AnyPath
AnyType == {"?", "container", "item"}

ObjType == [id : Int, kind : ItemKinds \union ContainerKinds \union {"none"}, parent : Int,
            ref : Int, loc : AnyPath, meta : AnyMeta]
RowType == [kind : ItemKinds \union ContainerKinds, parent : Int, ref : Int,
            persistent : BOOLEAN, loc : Location, meta : AnyMeta]
EntryType == [obj : ObjType, num : Int, type : AnyType]
CallType == [op : Queries \union Changes \union {"none"}, id : Int, path : AnyPath,
             meta : AnyMeta, all : BOOLEAN]
WorkType == [call : CallType, id : Int, path : AnyPath, loc : Location,
             pend : Seq(Paths), parent : Int, obj : ObjType, res : ObjType,
             type : AnyType, num : Int, total : Int,
             list : SUBSET (ObjType \union Int), kids : SUBSET ObjType, conts : SUBSET Int,
             counts : UNION {[S -> Int] : S \in SUBSET Int}]

Label ==
    {"flush", "flushed", "append", "buffered", "unlock", "store", "storeNew", "storeCount",
     "storeType", "clearCache", "load", "select", "lookup", "search", "ensure", "ensured",
     "chain", "create", "inform", "childCount", "countRows", "type", "selectType", "list",
     "kids", "conts", "counted", "objects", "addFile", "original", "duplicate", "first",
     "edit", "throw", "update", "delete", "restart", "answer"}

TypeInv ==
    /\ rows \in [DOMAIN rows -> RowType]
    /\ buffer \in [DOMAIN buffer -> RowType]
    /\ insertBufferEmpty \in BOOLEAN
    /\ lastID \in Nat
    /\ DOMAIN idHash \subseteq Int /\ idHash \in [DOMAIN idHash -> EntryType]
    /\ locationHash \in [DOMAIN locationHash -> SUBSET Int]
    /\ todo \in [Thread -> Seq(Label)]
    /\ reg \in [Thread -> WorkType]

-----------------------------------------------------------------------------
(* The objects.                                                            *)

Conts(o) == {i \in DOMAIN o : o[i].kind \in ContainerKinds}
Located(o, at) == \E i \in DOMAIN o : o[i].loc = at

\* x is the object i, but for what a reference inherits.
Right(o, x, i) ==
    /\ i \in DOMAIN o
    /\ x \in ObjType
    /\ x.id = i /\ x.kind = o[i].kind /\ x.parent = o[i].parent /\ x.ref = o[i].ref
    /\ x.loc = Object(o, i).loc
    /\ x.meta = Object(o, i).meta \/ (o[i].kind = "ref" /\ o[i].meta = NoMeta)

\* c is the container of the directory p.
DirectoryOf(o, c, p) ==
    /\ c \in Conts(o)
    /\ o[c].loc = <<"D", p>> \/ (p = Slash /\ c = CDS_ID_FS_ROOT)

\* Each kind of object has its kind of place, location and reference.
Placed(o, i) ==
    /\ i # CDS_ID_ROOT => o[i].parent \in Conts(o)
    /\ o[i].kind = "ref" => /\ o[i].ref \in DOMAIN o /\ o[o[i].ref].kind = "file"
                            /\ o[i].loc = NoLocation
    /\ o[i].kind # "ref" => o[i].ref = NoRef
    /\ o[i].kind = "file" =>
         \E p \in Files : o[i].loc = <<"F", p>> /\ DirectoryOf(o, o[i].parent, Up[p])
    /\ o[i].kind = "dir" /\ i # CDS_ID_FS_ROOT => \E p \in Dirs : o[i].loc = <<"D", p>>
    /\ o[i].kind = "virt" /\ i # CDS_ID_ROOT => \E p \in Virtuals : o[i].loc = <<"V", p>>

Roots(o) ==
    /\ CDS_ID_ROOT \in DOMAIN o /\ CDS_ID_FS_ROOT \in DOMAIN o
    /\ o[CDS_ID_ROOT].kind = "virt" /\ o[CDS_ID_FS_ROOT].kind = "dir"
    /\ o[CDS_ID_ROOT].parent = -1 /\ o[CDS_ID_FS_ROOT].parent = CDS_ID_ROOT
    /\ \A i \in {CDS_ID_ROOT, CDS_ID_FS_ROOT} : o[i].persistent /\ o[i].loc = NoLocation

OnePerPath(o) ==
    \A i, j \in DOMAIN o : o[i].loc = o[j].loc /\ o[i].loc[2] # NoPath => i = j

\* Containers go around the buffer, and a reference never gets ahead of its file:
\* neither between buffer and table nor in the buffer.
Ordered(o, w) ==
    /\ w \subseteq DOMAIN o /\ w \intersect Conts(o) = {}
    /\ \A i \in DOMAIN o \ w : o[i].kind = "ref" => o[i].ref \notin w
    /\ \A i \in DOMAIN o : o[i].kind = "ref" => o[i].ref < i

TableOK(o, n, w) ==
    /\ o \in [DOMAIN o -> RowType]
    /\ DOMAIN o \subseteq 0 .. n
    /\ Roots(o)
    /\ OnePerPath(o)
    /\ \A i \in DOMAIN o : Placed(o, i)
    /\ Ordered(o, w)

-----------------------------------------------------------------------------
(* What is left of the calls.                                              *)

Done      == <<"answer">>
Hearing   == <<"first", "answer">>
Counting  == <<"childCount", "first", "answer">>
Storing   == <<"storeNew", "childCount", "first", "answer">>
Adding    == <<"append", "storeNew", "childCount", "first", "answer">>
Deciding  == <<"duplicate", "answer">>
Fetching  == <<"load", "duplicate", "answer">>
Referring == <<"original", "load", "duplicate", "answer">>
MakingDir  == <<"create", "append", "storeNew", "childCount", "first", "answer">>
MakingVirt == <<"create", "original", "load", "duplicate", "answer">>
AddingFile == <<"addFile", "answer">>
Editing   == <<"edit", "answer">>
Updating  == <<"update", "answer">>
Listing   == <<"list", "answer">>
Counted   == <<"counted", "answer">>

Hd(k) == IF k = <<>> THEN "idle" ELSE Head(k)

-----------------------------------------------------------------------------
(* What the calls have to know on their way.                               *)

NumRight(o, r) == r.num = Cardinality(ChildrenOf(o, r.id))

Listed(o, i) == IF o[i].kind \in ContainerKinds THEN ChildrenOf(o, i) ELSE {i}

CountsOK(o, r) == \A c \in DOMAIN r.counts : r.counts[c] = Cardinality(ChildrenOf(o, c))

ListOK(o, r) ==
    /\ r.call.op = "browse" /\ r.call.id \in DOMAIN o
    /\ \A x \in r.list : x \in ObjType /\ Right(o, x, x.id)
    /\ {x.id : x \in r.list} = Listed(o, r.call.id)
    /\ r.total = Cardinality(Listed(o, r.call.id))
    /\ CountsOK(o, r)

AnswerOK(o, r) ==
    /\ r.call.op = "load" =>
         IF r.call.id \in DOMAIN o THEN Right(o, r.res, r.call.id) ELSE r.res = NoObject
    /\ r.call.op = "find" =>
         IF Located(o, r.loc) THEN Right(o, r.res, r.res.id) /\ o[r.res.id].loc = r.loc
         ELSE r.res = NoObject
    /\ r.call.op = "count" => r.num = Cardinality(ChildrenOf(o, r.call.id))
    /\ r.call.op = "browse" =>
         IF r.call.id \in DOMAIN o THEN ListOK(o, r) ELSE r.list = {} /\ CountsOK(o, r)
    /\ r.call.op = "objects" => r.list = ChildrenOf(o, r.call.id)

\* Paths that wait for their container: the last one is g, all are new.
Waiting(o, r, pre, S, g) ==
    /\ r.pend # <<>> => r.pend[Len(r.pend)] = g
    /\ \A m \in 1 .. Len(r.pend) : r.pend[m] \in S /\ ~Located(o, <<pre, r.pend[m]>>)
    /\ \A m, q \in 1 .. Len(r.pend) : r.pend[m] = r.pend[q] => m = q

\* ... while the path above them is looked for.
Climbing(o, r, pre, S, g) ==
    /\ Waiting(o, r, pre, S, g)
    /\ r.path \in S \union {Slash}
    /\ r.pend = <<>> => r.path = g
    /\ r.pend # <<>> => Up[r.pend[1]] = r.path
    /\ \A m \in 2 .. Len(r.pend) : Up[r.pend[m]] = r.pend[m - 1]

Importing(o, r) ==
    /\ r.call.op = "import" /\ r.call.path \in Files
    /\ r.obj = [NoObject EXCEPT !.kind = "file", !.loc = r.call.path, !.meta = r.call.meta]
    /\ ~Located(o, <<"F", r.call.path>>)

Linking(o, r) ==
    /\ r.call.op = "link" /\ r.call.path \in Virtuals
    /\ r.call.id \in DOMAIN o /\ o[r.call.id].kind = "file"

\* The object of an update: like the one that is there, but for the metadata.
Changing(o, r) ==
    LET i == r.call.id
        x == r.obj
    IN  /\ r.call.op = "update"
        /\ i \in DOMAIN o \ {CDS_ID_ROOT, CDS_ID_FS_ROOT}
        /\ x.id = i /\ x.kind = o[i].kind /\ x.parent = o[i].parent /\ x.ref = o[i].ref
        /\ x.loc = Object(o, i).loc /\ x.meta = r.call.meta

Adds(r) == r.call.op \in {"import", "link"}
Browsing(r) == r.call.op = "browse" /\ r.id = r.call.id /\ DOMAIN r.counts = {}

\* What a thread may be about to do after s, when the object r.id is loaded ...
LoadAt(o, w, s, r) ==
    \/ s = Done /\ r.call.op = "load" /\ r.id = r.call.id
    \/ s = Done /\ Adds(r)
    \/ s = Deciding /\ Linking(o, r) /\ r.parent \in Conts(o) /\ r.id = r.call.id
    \/ /\ s = Editing /\ r.call.op = "update" /\ r.id = r.call.id
       /\ r.call.id \notin {CDS_ID_ROOT, CDS_ID_FS_ROOT}
    \/ /\ s = Updating /\ w = {} /\ Changing(o, r) /\ r.parent = r.obj.parent
       /\ r.obj.kind = "ref" /\ r.id = r.obj.ref

\* ... when the container of the directory r.path is known ...
EnsureAt(o, w, s, r) ==
    \/ /\ s = IF r.pend = <<>> THEN Adding ELSE MakingDir
       /\ Importing(o, r) /\ Climbing(o, r, "D", Dirs, Up[r.call.path])
    \/ /\ s = Updating /\ w = {} /\ Changing(o, r)
       /\ r.obj.kind = "file" /\ r.path = Up[r.obj.loc]

EnsuredAt(o, w, s, r) ==
    /\ EnsureAt(o, w, s, r) /\ r.path \in Dirs
    /\ IF Located(o, <<"D", r.path>>)
       THEN Right(o, r.res, r.res.id) /\ o[r.res.id].loc = <<"D", r.path>>
       ELSE r.res = NoObject

\* ... when the path r.loc was looked for ...
LookupAt(o, w, s, r) ==
    \/ s = Done /\ r.call.op = "find" /\ \E p \in Files : r.loc = <<"F", p>>
    \/ /\ s = AddingFile /\ r.call.op = "import" /\ r.call.path \in Files
       /\ r.loc = <<"F", r.call.path>> /\ r.pend = <<>>
    \/ /\ s # <<>> /\ Head(s) = "ensured" /\ EnsureAt(o, w, Tail(s), r)
       /\ r.path \in Dirs /\ r.loc = <<"D", r.path>>

\* ... when the children of r.id are counted ...
CountAt(o, w, s, r) ==
    /\ r.id \in Conts(o)
    /\ \/ s = Done /\ r.call.op = "count" /\ r.id = r.call.id
       \/ s = Hearing /\ Adds(r)
       \/ s = Listing /\ w = {} /\ Browsing(r) /\ r.type = "container"
       \/ s = Counted /\ w = {} /\ ListOK(o, r) /\ r.conts \subseteq Conts(o)

\* ... and when the container c above the paths that wait is there.
ChainAt(o, c, k, r) ==
    \/ /\ k = MakingDir /\ Importing(o, r) /\ c \in Conts(o)
       /\ r.pend # <<>> /\ Waiting(o, r, "D", Dirs, Up[r.call.path])
    \/ /\ k = MakingVirt /\ Linking(o, r) /\ c \in Conts(o)
       /\ r.pend # <<>> /\ Waiting(o, r, "V", Virtuals, r.call.path)
    \/ k = Adding /\ Importing(o, r) /\ DirectoryOf(o, c, Up[r.call.path])
    \/ k = Referring /\ Linking(o, r) /\ c \in Conts(o)

\* A reference that is about to be added: its original is in r.res.
RefAt(o, r) ==
    /\ Linking(o, r) /\ r.parent \in Conts(o) /\ Right(o, r.res, r.call.id)
    /\ r.obj = [NoObject EXCEPT !.kind = "ref", !.ref = r.call.id, !.loc = r.res.loc,
                                !.meta = r.call.meta]

UpdateAt(o, w, r) ==
    /\ w = {} /\ Changing(o, r) /\ r.parent = r.obj.parent

ListAt(o, w, r) ==
    /\ w = {} /\ Browsing(r) /\ r.id \in DOMAIN o /\ r.type = TypeOf(o[r.id])
    /\ r.id \in Conts(o) => NumRight(o, r)

\* What may follow a subroutine.
Core(o, w, k, r) ==
    /\ k # <<>>
    /\ LET x == Head(k)
           s == Tail(k)
       IN  \/ k = Done /\ AnswerOK(o, r)
           \/ x = "load" /\ LoadAt(o, w, s, r)
           \/ x = "lookup" /\ LookupAt(o, w, s, r)
           \/ x = "childCount" /\ CountAt(o, w, s, r)
           \/ x = "ensure" /\ EnsureAt(o, w, s, r)
           \/ x = "ensured" /\ EnsuredAt(o, w, s, r)
           \/ /\ x = "chain" /\ s = IF r.pend = <<>> THEN Referring ELSE MakingVirt
              /\ Linking(o, r) /\ Climbing(o, r, "V", Virtuals, r.call.path)
           \/ ChainAt(o, r.parent, k, r)
           \/ k = Adding /\ RefAt(o, r)
           \/ /\ k = AddingFile /\ r.call.op = "import" /\ r.call.path \in Files /\ r.pend = <<>>
              /\ r.res = NoObject => ~Located(o, <<"F", r.call.path>>)
           \/ /\ k = Deciding /\ Linking(o, r) /\ r.parent \in Conts(o)
              /\ Right(o, r.res, r.call.id)
           \/ k = Hearing /\ Adds(r)
           \/ /\ k = Editing /\ r.call.op = "update" /\ Right(o, r.res, r.call.id)
              /\ r.call.id \notin {CDS_ID_ROOT, CDS_ID_FS_ROOT}
           \/ k = Updating /\ UpdateAt(o, w, r)
           \/ k = <<"throw", "answer">> /\ r.call.op = "update"
           \/ k = <<"type", "answer">> /\ w = {} /\ Browsing(r)
           \/ k = Listing /\ ListAt(o, w, r)
           \/ k = <<"kids", "answer">> /\ w = {} /\ ListOK(o, r) /\ r.kids \subseteq r.list
           \/ k = <<"conts", "answer">> /\ w = {} /\ ListOK(o, r) /\ r.conts \subseteq Conts(o)
           \/ /\ k = Counted /\ w = {} /\ ListOK(o, r) /\ r.conts \subseteq Conts(o)
              /\ NumRight(o, r)
           \/ k = <<"objects", "answer">> /\ w = {} /\ r.call.op = "objects" /\ r.id = r.call.id
           \/ /\ k = <<"delete", "answer">> /\ w = {} /\ r.call.op = "remove"
              /\ r.call.id \notin {CDS_ID_ROOT, CDS_ID_FS_ROOT}
           \/ k = <<"restart", "answer">> /\ w = {} /\ r.call.op = "shutdown"

\* An object that was added and is not in the cache yet.
NewAt(o, n, r) == Adds(r) /\ Right(o, r.res, n) /\ r.res.kind \in ItemKinds /\ r.id = r.res.parent

Uncounted(k) == k \in {<<"buffered">> \o Storing, <<"flushed">> \o Storing, Storing}

\* What may follow a flush.
AfterFlush(o, s, r) ==
    \/ s # <<>> /\ Head(s) = "unlock" /\ Core(o, {}, Tail(s), r)
    \/ s # <<>> /\ Head(s) = "countRows" /\ CountAt(o, {}, Tail(s), r)
    \/ Core(o, {}, s, r)

\* Where a call is, and what it knows by then.
Point(o, n, w, k, r) ==
    LET x == Hd(k)
        s == Tail(k)
    IN  \/ k = <<>>
        \/ Core(o, w, k, r)
        \/ /\ x = "select" /\ LoadAt(o, w, s, r)
           /\ r.id \notin w
        \/ /\ x = "search" /\ LookupAt(o, w, s, r)
           /\ \A i \in w : o[i].loc # r.loc
        \/ x = "store" /\ Core(o, w, s, r) /\ Right(o, r.res, r.res.id)
        \/ x = "countRows" /\ CountAt(o, w, s, r) /\ w = {}
        \/ x = "storeCount" /\ Core(o, w, s, r) /\ NumRight(o, r)
        \/ x = "selectType" /\ s = Done /\ w = {} /\ Browsing(r)
        \/ /\ x = "storeType" /\ Core(o, w, s, r)
           /\ r.id \in DOMAIN o /\ r.type = TypeOf(o[r.id])
        \/ /\ x = "inform" /\ ChainAt(o, r.id, s, r) /\ r.id = n /\ n \in Conts(o)
           /\ o[n].parent = r.parent /\ ChildrenOf(o, n) = {}
        \/ Uncounted(k) /\ NewAt(o, n, r)
        \/ x = "clearCache" /\ s = Done /\ r.call.op = "remove" /\ w = {}
        \/ x = "unlock" /\ Core(o, w, s, r)
        \/ x \in {"flush", "flushed"} /\ AfterFlush(o, s, r)

-----------------------------------------------------------------------------
(* The buffer and the cache.                                               *)

\* b has the ids of the buffer, e says that it is empty.
BufferOK(w, b, e, k) ==
    /\ IF Hd(k) = "flushed" THEN w = {} ELSE w = b
    /\ e /\ Hd(k) # "buffered" => b = {}

\* The container whose new child has not been counted.
Owed(k, r, i) ==
    \/ Uncounted(k) /\ i = r.id
    \/ Hd(k) = "inform" /\ i = r.parent

\* The entry of an object whose row has just been changed.
Outdated(k, r, i) ==
    k = <<"store">> \o Done /\ r.call.op = "update" /\ i = r.res.id

SoundObj(o, e, i) == e.obj # NoObject => Right(o, e.obj, i)
SoundType(o, e, i) == e.type # "?" => i \in DOMAIN o /\ e.type = TypeOf(o[i])
SoundNum(o, e, i, owed) ==
    e.num # Unknown => e.num + (IF owed THEN 1 ELSE 0) = Cardinality(ChildrenOf(o, i))

Visible(h, l, i) ==
    /\ i \in DOMAIN h /\ h[i].obj # NoObject
    /\ CacheLocation(h[i].obj) \in DOMAIN l
    /\ i \in l[CacheLocation(h[i].obj)]

LocationsOK(o, l) ==
    \A at \in DOMAIN l : \A i \in l[at] : i \in DOMAIN o /\ at = CacheLocation(Object(o, i))

\* The cache has been emptied, and the buffer is going to be.
Refilling(k) == Hd(k) = "flush" /\ Hd(Tail(k)) = "unlock"

CacheOK(o, n, w, h, l, k, r) ==
    Hd(k) # "clearCache" =>
        /\ \A i \in DOMAIN h : /\ Outdated(k, r, i) \/ SoundObj(o, h[i], i)
                               /\ SoundType(o, h[i], i)
                               /\ SoundNum(o, h[i], i, Owed(k, r, i))
        /\ LocationsOK(o, l)
        /\ ~Refilling(k) => \A i \in w : Visible(h, l, i) \/ (i = n /\ Uncounted(k))

Waits == DOMAIN buffer \ DOMAIN rows

\* The invariant, as long as no other thread than t is in a call.
Good(t) ==
    /\ BufferOK(Waits, DOMAIN buffer, insertBufferEmpty, todo[t])
    /\ CacheOK(All, lastID, Waits, idHash, locationHash, todo[t], reg[t])
    /\ Point(All, lastID, Waits, todo[t], reg[t])

Alone(t) == \A u \in Thread \ {t} : Idle(u)

Inv ==
    /\ TypeInv
    /\ TableOK(All, lastID, Waits)
    /\ \A t \in Thread : Alone(t) => Good(t)

\* Calls do not overlap.
Serial == \A t, u \in Thread : ~Idle(t) /\ ~Idle(u) => t = u

-----------------------------------------------------------------------------
(* Lists of steps.                                                         *)

LEMMA ListFacts ==
    /\ Done # <<>> /\ Head(Done) = "answer" /\ Tail(Done) = <<>>
    /\ Hearing # <<>> /\ Head(Hearing) = "first" /\ Tail(Hearing) = Done
    /\ Counting # <<>> /\ Head(Counting) = "childCount" /\ Tail(Counting) = Hearing
    /\ Storing # <<>> /\ Head(Storing) = "storeNew" /\ Tail(Storing) = Counting
    /\ Adding # <<>> /\ Head(Adding) = "append" /\ Tail(Adding) = Storing
    /\ Deciding # <<>> /\ Head(Deciding) = "duplicate" /\ Tail(Deciding) = Done
    /\ Fetching # <<>> /\ Head(Fetching) = "load" /\ Tail(Fetching) = Deciding
    /\ Referring # <<>> /\ Head(Referring) = "original" /\ Tail(Referring) = Fetching
    /\ MakingDir # <<>> /\ Head(MakingDir) = "create" /\ Tail(MakingDir) = Adding
    /\ MakingVirt # <<>> /\ Head(MakingVirt) = "create" /\ Tail(MakingVirt) = Referring
    /\ AddingFile # <<>> /\ Head(AddingFile) = "addFile" /\ Tail(AddingFile) = Done
    /\ Editing # <<>> /\ Head(Editing) = "edit" /\ Tail(Editing) = Done
    /\ Updating # <<>> /\ Head(Updating) = "update" /\ Tail(Updating) = Done
    /\ Listing # <<>> /\ Head(Listing) = "list" /\ Tail(Listing) = Done
    /\ Counted # <<>> /\ Head(Counted) = "counted" /\ Tail(Counted) = Done
<1>1. /\ Done # <<>> /\ Head(Done) = "answer" /\ Tail(Done) = <<>>
      /\ Hearing # <<>> /\ Head(Hearing) = "first" /\ Tail(Hearing) = Done
      /\ Counting # <<>> /\ Head(Counting) = "childCount" /\ Tail(Counting) = Hearing
    BY DEF Done, Hearing, Counting
<1>2. Storing # <<>> /\ Head(Storing) = "storeNew" /\ Tail(Storing) = Counting
    BY DEF Storing, Counting
<1>3. Adding # <<>> /\ Head(Adding) = "append" /\ Tail(Adding) = Storing
    BY DEF Storing, Adding
<1>4. /\ Deciding # <<>> /\ Head(Deciding) = "duplicate" /\ Tail(Deciding) = Done
      /\ Fetching # <<>> /\ Head(Fetching) = "load" /\ Tail(Fetching) = Deciding
      /\ Referring # <<>> /\ Head(Referring) = "original" /\ Tail(Referring) = Fetching
    BY DEF Done, Deciding, Fetching, Referring
<1>5. MakingDir # <<>> /\ Head(MakingDir) = "create" /\ Tail(MakingDir) = Adding
    BY DEF MakingDir, Adding
<1>6. MakingVirt # <<>> /\ Head(MakingVirt) = "create" /\ Tail(MakingVirt) = Referring
    BY DEF MakingVirt, Referring
<1>7. /\ AddingFile # <<>> /\ Head(AddingFile) = "addFile" /\ Tail(AddingFile) = Done
      /\ Editing # <<>> /\ Head(Editing) = "edit" /\ Tail(Editing) = Done
      /\ Updating # <<>> /\ Head(Updating) = "update" /\ Tail(Updating) = Done
      /\ Listing # <<>> /\ Head(Listing) = "list" /\ Tail(Listing) = Done
      /\ Counted # <<>> /\ Head(Counted) = "counted" /\ Tail(Counted) = Done
    BY DEF AddingFile, Editing, Updating, Listing, Counted, Done
<1> QED BY <1>1, <1>2, <1>3, <1>4, <1>5, <1>6, <1>7

LEMMA Lists ==
    /\ Done \in Seq(Label) /\ Hearing \in Seq(Label) /\ Counting \in Seq(Label)
    /\ Storing \in Seq(Label) /\ Adding \in Seq(Label) /\ Deciding \in Seq(Label)
    /\ Fetching \in Seq(Label) /\ Referring \in Seq(Label) /\ MakingDir \in Seq(Label)
    /\ MakingVirt \in Seq(Label) /\ AddingFile \in Seq(Label) /\ Editing \in Seq(Label)
    /\ Updating \in Seq(Label) /\ Listing \in Seq(Label) /\ Counted \in Seq(Label)
<1>1. /\ Done \in Seq(Label) /\ Hearing \in Seq(Label) /\ Counting \in Seq(Label)
      /\ Deciding \in Seq(Label) /\ Fetching \in Seq(Label)
    BY DEF Done, Hearing, Counting, Deciding, Fetching, Label
<1>2. Storing \in Seq(Label) /\ Referring \in Seq(Label)
    BY DEF Storing, Referring, Label
<1>3. Adding \in Seq(Label)
    BY DEF Adding, Label
<1>4. MakingDir \in Seq(Label)
    BY DEF MakingDir, Label
<1>5. MakingVirt \in Seq(Label)
    BY DEF MakingVirt, Label
<1>6. /\ AddingFile \in Seq(Label) /\ Editing \in Seq(Label) /\ Updating \in Seq(Label)
      /\ Listing \in Seq(Label) /\ Counted \in Seq(Label)
    BY DEF AddingFile, Editing, Updating, Listing, Counted, Label
<1> QED BY <1>1, <1>2, <1>3, <1>4, <1>5, <1>6

\* An element in front of a sequence.
LEMMA Front ==
    ASSUME NEW S, NEW s \in Seq(S), NEW x \in S
    PROVE  /\ <<x>> \o s \in Seq(S) /\ <<x>> \o s # <<>>
           /\ Head(<<x>> \o s) = x /\ Tail(<<x>> \o s) = s
           /\ Len(<<x>> \o s) = Len(s) + 1
           /\ (<<x>> \o s)[1] = x
           /\ \A m \in 1 .. Len(s) : (<<x>> \o s)[m + 1] = s[m]
<1> DEFINE a == <<x>>
           k == a \o s
<1>1. a \in Seq(S) /\ Len(a) = 1 /\ a[1] = x
    OBVIOUS
<1>2. /\ k \in Seq(S) /\ Len(k) = 1 + Len(s)
      /\ \A m \in 1 .. 1 + Len(s) : k[m] = IF m <= 1 THEN a[m] ELSE s[m - 1]
    BY <1>1, ConcatProperties
<1>3. Len(s) \in Nat
    BY LenProperties
<1>4. k[1] = x /\ \A m \in 1 .. Len(s) : k[m + 1] = s[m]
    BY <1>1, <1>2, <1>3
<1>5. k # <<>> /\ Head(k) = x
    BY <1>2, <1>3, <1>4
<1>6. Tail(k) = s
    <2>1. /\ Tail(k) \in Seq(S) /\ Len(Tail(k)) = Len(s)
          /\ \A m \in 1 .. Len(s) : Tail(k)[m] = k[m + 1]
        BY <1>2, <1>3, <1>5, HeadTailProperties
    <2> QED BY <1>4, <2>1, SeqEqual
<1> QED BY <1>2, <1>3, <1>4, <1>5, <1>6

\* Concatenation is associative, asked once and of nothing else.
LEMMA Together ==
    ASSUME NEW S, NEW p \in Seq(S), NEW q \in Seq(S), NEW s \in Seq(S)
    PROVE  (p \o q) \o s = p \o (q \o s)
BY ConcatAssociative

\* Steps in front of others.
LEMMA Push ==
    ASSUME NEW s \in Seq(Label), NEW x \in Label, NEW y \in Label
    PROVE  /\ <<>> \o s = s
           /\ <<x>> \o s \in Seq(Label) /\ <<x>> \o s # <<>>
           /\ Head(<<x>> \o s) = x /\ Tail(<<x>> \o s) = s
           /\ <<x, y>> \o s = <<x>> \o (<<y>> \o s)
<1>1. <<>> \o s = s
    BY ConcatEmptySeq
<1>2. <<x, y>> \o s = <<x>> \o (<<y>> \o s)
    <2> DEFINE a == <<x>>
               b == <<y>>
               c == <<x, y>>
    <2>1. /\ a \in Seq(Label) /\ b \in Seq(Label) /\ Len(a) = 1 /\ Len(b) = 1
          /\ c \in Seq(Label) /\ Len(c) = 2 /\ c[1] = x /\ c[2] = y /\ b[1] = y
        OBVIOUS
    <2>2. /\ a \o b \in Seq(Label) /\ Len(a \o b) = 2
          /\ (a \o b)[1] = x /\ \A m \in 1 .. 1 : (a \o b)[m + 1] = b[m]
        BY <2>1, Front
    <2>3. \A m \in 1 .. 2 : (a \o b)[m] = c[m]
        BY <2>1, <2>2
    <2>4. a \o b = c
        <3> HIDE DEF a, b, c
        <3> QED BY <2>1, <2>2, <2>3, SeqEqual
    <2>5. (a \o b) \o s = a \o (b \o s)
        <3>1. a \in Seq(Label) /\ b \in Seq(Label)
            BY <2>1
        <3> HIDE DEF a, b, c
        <3> QED BY <3>1, Together
    <2> QED BY <2>4, <2>5
<1> QED BY <1>1, <1>2, Front

\* The same for what a step of a call puts in front of the rest.
LEMMA PushOne ==
    ASSUME NEW s \in Seq(Label), NEW x \in Label
    PROVE  /\ <<x>> \o s \in Seq(Label) /\ <<x>> \o s # <<>>
           /\ Hd(<<x>> \o s) = x /\ Head(<<x>> \o s) = x /\ Tail(<<x>> \o s) = s
<1> DEFINE k == <<x>> \o s
<1>1. k \in Seq(Label) /\ k # <<>> /\ Head(k) = x /\ Tail(k) = s
    BY Push
<1> HIDE DEF k
<1>2. Hd(k) = x
    BY <1>1 DEF Hd
<1> QED BY <1>1, <1>2 DEF k

LEMMA PushTwo ==
    ASSUME NEW s \in Seq(Label), NEW x \in Label, NEW y \in Label
    PROVE  /\ <<x, y>> \o s \in Seq(Label) /\ <<x, y>> \o s # <<>>
           /\ Hd(<<x, y>> \o s) = x /\ Head(<<x, y>> \o s) = x
           /\ Tail(<<x, y>> \o s) \in Seq(Label) /\ Tail(<<x, y>> \o s) # <<>>
           /\ Head(Tail(<<x, y>> \o s)) = y /\ Hd(Tail(<<x, y>> \o s)) = y
           /\ Tail(Tail(<<x, y>> \o s)) = s
<1> DEFINE u == <<y>> \o s
<1>1. <<x, y>> \o s = <<x>> \o u
    BY Push
<1>2. u \in Seq(Label) /\ u # <<>> /\ Hd(u) = y /\ Head(u) = y /\ Tail(u) = s
    BY PushOne
<1> HIDE DEF u
<1>3. /\ <<x>> \o u \in Seq(Label) /\ <<x>> \o u # <<>>
      /\ Hd(<<x>> \o u) = x /\ Head(<<x>> \o u) = x /\ Tail(<<x>> \o u) = u
    BY <1>2, PushOne
<1> QED BY <1>1, <1>2, <1>3

-----------------------------------------------------------------------------
(* Objects.                                                                *)

LEMMA RowFacts ==
    ASSUME NEW o, NEW n, NEW w, TableOK(o, n, w), NEW i \in DOMAIN o
    PROVE  /\ o[i] \in RowType /\ Placed(o, i) /\ i \in 0 .. n
           /\ o[i].kind \in {"file", "ref", "dir", "virt"} /\ o[i].ref \in Int
           /\ o[i].loc[2] \in AnyPath /\ o[i].meta \in AnyMeta /\ o[i].parent \in Int
BY DEF TableOK, RowType, ItemKinds, ContainerKinds, Location

LEMMA NoObjectType == NoObject \in ObjType
BY DEF NoObject, ObjType, Unknown, NoRef, Tree!NoRef, AnyPath, AnyMeta

\* What the callers see of an object that is no reference is its row.
LEMMA PlainObject ==
    ASSUME NEW o, NEW n, NEW w, TableOK(o, n, w), NEW i \in DOMAIN o, o[i].kind # "ref"
    PROVE  Object(o, i).loc = o[i].loc[2] /\ Object(o, i).meta = o[i].meta
BY RowFacts DEF Object

LEMMA RefObject ==
    ASSUME NEW o, NEW n, NEW w, TableOK(o, n, w), NEW i \in DOMAIN o, o[i].kind = "ref"
    PROVE  /\ o[i].ref \in DOMAIN o /\ o[o[i].ref].kind = "file"
           /\ Object(o, i).loc = o[o[i].ref].loc[2]
           /\ Object(o, i).meta = IF o[i].meta = NoMeta THEN o[o[i].ref].meta ELSE o[i].meta
BY RowFacts DEF Object, Placed

LEMMA ObjectFields ==
    ASSUME NEW o, NEW i
    PROVE  /\ Object(o, i).id = i /\ Object(o, i).kind = o[i].kind
           /\ Object(o, i).parent = o[i].parent /\ Object(o, i).ref = o[i].ref
BY DEF Object

LEMMA ObjectIsRight ==
    ASSUME NEW o, NEW n \in Nat, NEW w, TableOK(o, n, w), NEW i \in DOMAIN o
    PROVE  Right(o, Object(o, i), i)
<1> DEFINE x == Object(o, i)
<1>1. x.id = i /\ x.kind = o[i].kind /\ x.parent = o[i].parent /\ x.ref = o[i].ref
    BY ObjectFields
<1>2. x.loc \in AnyPath /\ x.meta \in AnyMeta
    BY RowFacts, PlainObject, RefObject
<1>3. x = [id |-> x.id, kind |-> x.kind, parent |-> x.parent, ref |-> x.ref, loc |-> x.loc,
           meta |-> x.meta]
    BY DEF Object
<1>4. x.id \in Int /\ x.parent \in Int /\ x.ref \in Int
    BY <1>1, RowFacts
<1>5. x.kind \in ItemKinds \union ContainerKinds \union {"none"}
    BY <1>1, RowFacts DEF ItemKinds, ContainerKinds
<1>6. x \in ObjType
    <2> HIDE DEF x
    <2> QED BY <1>2, <1>3, <1>4, <1>5 DEF ObjType
<1> QED BY <1>1, <1>6 DEF Right

\* An object that is right is one.
LEMMA RightIsObject ==
    ASSUME NEW o, NEW n \in Nat, NEW w, TableOK(o, n, w), NEW x, NEW i, Right(o, x, i)
    PROVE  /\ x \in ObjType /\ i \in DOMAIN o /\ x # NoObject
           /\ x.kind \in {"file", "ref", "dir", "virt"}
           /\ CacheLocation(x) = CacheLocation(Object(o, i))
           /\ TypeOf(x) = TypeOf(o[i])
<1>1. x \in ObjType /\ i \in DOMAIN o /\ x.kind = o[i].kind /\ x.loc = Object(o, i).loc
    BY DEF Right
<1>2. x.kind \in {"file", "ref", "dir", "virt"}
    BY <1>1, RowFacts
<1>3. x # NoObject
    BY <1>2 DEF NoObject
<1>4. CacheLocation(x) = CacheLocation(Object(o, i))
    BY <1>1, ObjectFields DEF CacheLocation
<1> QED BY <1>1, <1>2, <1>3, <1>4 DEF TypeOf, IsContainer

\* The prefix of a location tells the kind of object.
LEMMA KindOfLocation ==
    ASSUME NEW o, NEW n, NEW w, TableOK(o, n, w), NEW i \in DOMAIN o, NEW p \in Paths
    PROVE  /\ o[i].loc = <<"F", p>> => o[i].kind = "file"
           /\ o[i].loc = <<"D", p>> => o[i].kind = "dir" /\ i # CDS_ID_FS_ROOT
           /\ o[i].loc = <<"V", p>> => o[i].kind = "virt" /\ i # CDS_ID_ROOT
<1>1. Placed(o, i) /\ o[i].kind \in {"file", "ref", "dir", "virt"}
    BY RowFacts
<1>2. o[CDS_ID_ROOT].loc = NoLocation /\ o[CDS_ID_FS_ROOT].loc = NoLocation
    BY DEF TableOK, Roots
<1>3. NoLocation[1] = "NULL"
    BY DEF NoLocation
<1> QED BY <1>1, <1>2, <1>3 DEF Placed

LEMMA OneObjectAt ==
    ASSUME NEW o, NEW n, NEW w, TableOK(o, n, w), NEW i \in DOMAIN o, NEW j \in DOMAIN o,
           NEW x, NEW p \in Paths, o[i].loc = <<x, p>>, o[j].loc = <<x, p>>
    PROVE  i = j
<1>1. o[i].loc[2] # NoPath
    BY PathsAssumption
<1> QED BY <1>1 DEF TableOK, OnePerPath

LEMMA FiniteChildren ==
    ASSUME NEW o, NEW n \in Nat, NEW w, TableOK(o, n, w), NEW c
    PROVE  IsFiniteSet(ChildrenOf(o, c)) /\ Cardinality(ChildrenOf(o, c)) \in Nat
<1>1. IsFiniteSet(0 .. n)
    BY FS_Interval
<1>2. ChildrenOf(o, c) \subseteq 0 .. n
    BY DEF ChildrenOf, TableOK
<1>3. IsFiniteSet(ChildrenOf(o, c))
    BY <1>1, <1>2, FS_Subset
<1> QED BY <1>3, FS_CardinalityType

-----------------------------------------------------------------------------
(* One object more.                                                        *)

LEMMA Grown ==
    ASSUME NEW o, NEW n \in Nat, NEW w, TableOK(o, n, w), NEW row, NEW o2,
           o2 = With(o, n + 1, row)
    PROVE  /\ n + 1 \in DOMAIN o2 /\ DOMAIN o \subseteq DOMAIN o2
           /\ Conts(o) \subseteq Conts(o2)
           /\ row.kind \in ContainerKinds => n + 1 \in Conts(o2)
           /\ row.kind \notin ContainerKinds => Conts(o2) = Conts(o)
           /\ \A at : Located(o2, at) <=> Located(o, at) \/ at = row.loc
           /\ \A c, p : DirectoryOf(o, c, p) => DirectoryOf(o2, c, p)
           /\ \A i \in DOMAIN o : Object(o2, i) = Object(o, i)
           /\ \A i \in DOMAIN o : \A x : Right(o2, x, i) <=> Right(o, x, i)
           /\ \A i \in DOMAIN o : TypeOf(o2[i]) = TypeOf(o[i])
<1>1. /\ n + 1 \notin DOMAIN o /\ DOMAIN o2 = DOMAIN o \union {n + 1}
      /\ o2[n + 1] = row /\ \A i \in DOMAIN o : o2[i] = o[i]
    BY DEF TableOK, With
<1>2. /\ n + 1 \in DOMAIN o2 /\ DOMAIN o \subseteq DOMAIN o2
      /\ Conts(o) \subseteq Conts(o2)
      /\ row.kind \in ContainerKinds => n + 1 \in Conts(o2)
      /\ row.kind \notin ContainerKinds => Conts(o2) = Conts(o)
    BY <1>1 DEF Conts
<1>3. \A at : Located(o2, at) <=> Located(o, at) \/ at = row.loc
    BY <1>1 DEF Located
<1>4. \A c, p : DirectoryOf(o, c, p) => DirectoryOf(o2, c, p)
    BY <1>1, <1>2 DEF DirectoryOf, Conts
<1>5. ASSUME NEW i \in DOMAIN o PROVE Object(o2, i) = Object(o, i)
    <2>1. o[i].kind = "ref" => o[i].ref \in DOMAIN o
        BY RowFacts DEF Placed
    <2> QED BY <1>1, <2>1 DEF Object
<1>6. ASSUME NEW i \in DOMAIN o, NEW x PROVE Right(o2, x, i) <=> Right(o, x, i)
    BY <1>1, <1>5 DEF Right
<1>7. \A i \in DOMAIN o : TypeOf(o2[i]) = TypeOf(o[i])
    BY <1>1
<1> QED BY <1>2, <1>3, <1>4, <1>5, <1>6, <1>7

LEMMA GrownChildren ==
    ASSUME NEW o, NEW n \in Nat, NEW w, TableOK(o, n, w), NEW row, NEW o2,
           o2 = With(o, n + 1, row), NEW c
    PROVE  /\ c # row.parent => ChildrenOf(o2, c) = ChildrenOf(o, c)
           /\ c = row.parent =>
                Cardinality(ChildrenOf(o2, c)) = Cardinality(ChildrenOf(o, c)) + 1
<1>1. /\ n + 1 \notin DOMAIN o /\ DOMAIN o2 = DOMAIN o \union {n + 1}
      /\ o2[n + 1] = row /\ \A i \in DOMAIN o : o2[i] = o[i]
    BY DEF TableOK, With
<1>2. c # row.parent => ChildrenOf(o2, c) = ChildrenOf(o, c)
    BY <1>1 DEF ChildrenOf
<1>3. ASSUME c = row.parent
      PROVE  Cardinality(ChildrenOf(o2, c)) = Cardinality(ChildrenOf(o, c)) + 1
    <2>1. ChildrenOf(o2, c) = ChildrenOf(o, c) \union {n + 1} /\ n + 1 \notin ChildrenOf(o, c)
        BY <1>1, <1>3 DEF ChildrenOf
    <2> QED BY <2>1, FiniteChildren, FS_AddElement
<1> QED BY <1>2, <1>3

\* A new row in its place: the table is as good as before.
LEMMA GrownTable ==
    ASSUME NEW o, NEW n \in Nat, NEW w, TableOK(o, n, w), NEW row \in RowType, NEW o2,
           o2 = With(o, n + 1, row), NEW w2, w2 \in {w, w \union {n + 1}},
           row.kind \in ContainerKinds => w2 = w,
           Placed(o2, n + 1), row.parent \in Conts(o),
           row.kind = "ref" => w2 = w \union {n + 1},
           row.loc[2] # NoPath => ~Located(o, row.loc)
    PROVE  TableOK(o2, n + 1, w2)
<1>1. /\ n + 1 \notin DOMAIN o /\ DOMAIN o2 = DOMAIN o \union {n + 1}
      /\ o2[n + 1] = row /\ \A i \in DOMAIN o : o2[i] = o[i]
    BY DEF TableOK, With
<1>2. o2 \in [DOMAIN o2 -> RowType]
    BY <1>1 DEF With, TableOK
<1>3. DOMAIN o2 \subseteq 0 .. n + 1
    BY <1>1 DEF TableOK
<1>4. Roots(o2)
    BY <1>1 DEF TableOK, Roots
<1>5. OnePerPath(o2)
    BY <1>1 DEF TableOK, OnePerPath, Located
<1>6. ASSUME NEW i \in DOMAIN o2 PROVE Placed(o2, i)
    <2>1. CASE i = n + 1
        BY <2>1
    <2>2. CASE i \in DOMAIN o
        <3>1. Placed(o, i) /\ o2[i] = o[i]
            BY <1>1, <2>2 DEF TableOK
        <3>2. Conts(o) \subseteq Conts(o2) /\ \A c, p : DirectoryOf(o, c, p) => DirectoryOf(o2, c, p)
            BY Grown
        <3> QED BY <1>1, <3>1, <3>2 DEF Placed
    <2> QED BY <1>1, <2>1, <2>2
<1>7. Ordered(o2, w2)
    <2>1. w \subseteq DOMAIN o /\ w \intersect Conts(o) = {} /\ n + 1 \notin w
        BY <1>1 DEF TableOK, Ordered
    <2>2. w2 \intersect Conts(o2) = {}
        <3>1. CASE row.kind \in ContainerKinds
            BY <1>1, <2>1, <3>1 DEF Conts
        <3>2. CASE row.kind \notin ContainerKinds
            BY <1>1, <2>1, <3>2 DEF Conts
        <3> QED BY <3>1, <3>2
    <2>3. ASSUME NEW i \in DOMAIN o2 \ w2, o2[i].kind = "ref" PROVE o2[i].ref \notin w2
        <3>1. i \in DOMAIN o \ w /\ o2[i] = o[i]
            BY <1>1, <2>3
        <3>2. o[i].ref \notin w
            BY <2>3, <3>1 DEF TableOK, Ordered
        <3>3. Placed(o, i)
            BY <3>1 DEF TableOK
        <3>4. o[i].ref \in DOMAIN o
            BY <2>3, <3>1, <3>3 DEF Placed
        <3> QED BY <1>1, <3>1, <3>2, <3>4
    <2>4. ASSUME NEW i \in DOMAIN o2, o2[i].kind = "ref" PROVE o2[i].ref < i
        <3>1. CASE i \in DOMAIN o
            BY <1>1, <2>4, <3>1 DEF TableOK, Ordered
        <3>2. CASE i = n + 1
            <4>1. row.ref \in DOMAIN o2 /\ o2[row.ref].kind = "file" /\ row.kind = "ref"
                BY <1>1, <2>4, <3>2 DEF Placed
            <4>2. row.ref \in 0 .. n
                BY <1>1, <4>1 DEF TableOK
            <4> QED BY <1>1, <3>2, <4>2
        <3> QED BY <1>1, <3>1, <3>2
    <2> QED BY <1>1, <2>1, <2>2, <2>3, <2>4 DEF Ordered
<1> QED BY <1>2, <1>3, <1>4, <1>5, <1>6, <1>7 DEF TableOK

-----------------------------------------------------------------------------
(* Points of the calls.                                                    *)

\* What is known while objects wait is known when none does.
LEMMA EnsureWithout ==
    ASSUME NEW o, NEW w, NEW s, NEW r, EnsureAt(o, w, s, r)
    PROVE  EnsureAt(o, {}, s, r)
BY DEF EnsureAt

LEMMA CountWithout ==
    ASSUME NEW o, NEW w, NEW s, NEW r, CountAt(o, w, s, r)
    PROVE  CountAt(o, {}, s, r)
BY DEF CountAt

LEMMA CoreWithout ==
    ASSUME NEW o, NEW w, NEW k, NEW r, Core(o, w, k, r)
    PROVE  Core(o, {}, k, r)
<1>1. \A s : LoadAt(o, w, s, r) => LoadAt(o, {}, s, r)
    BY DEF LoadAt
<1>2. \A s : LookupAt(o, w, s, r) => LookupAt(o, {}, s, r)
    BY EnsureWithout DEF LookupAt
<1>3. \A s : CountAt(o, w, s, r) => CountAt(o, {}, s, r)
    BY CountWithout
<1>4. \A s : EnsureAt(o, w, s, r) => EnsureAt(o, {}, s, r)
    BY EnsureWithout
<1>5. \A s : EnsuredAt(o, w, s, r) => EnsuredAt(o, {}, s, r)
    BY EnsureWithout DEF EnsuredAt
<1>6. UpdateAt(o, w, r) => UpdateAt(o, {}, r)
    BY DEF UpdateAt
<1>7. ListAt(o, w, r) => ListAt(o, {}, r)
    BY DEF ListAt
<1> QED BY <1>1, <1>2, <1>3, <1>4, <1>5, <1>6, <1>7, SMTT(30) DEF Core

ChainLabel == {"create", "append", "original"}

CoreLabel ==
    ChainLabel \union
    {"answer", "load", "lookup", "childCount", "ensure", "ensured", "chain", "addFile",
     "duplicate", "first", "edit", "update", "throw", "type", "list", "kids", "conts",
     "counted", "objects", "delete", "restart"}

LEMMA ChainHead ==
    ASSUME NEW o, NEW c, NEW k, NEW r, ChainAt(o, c, k, r)
    PROVE  k # <<>> /\ Head(k) \in ChainLabel
BY ListFacts, SMTT(30) DEF ChainAt, ChainLabel

LEMMA CoreHead ==
    ASSUME NEW o, NEW w, NEW k, NEW r, Core(o, w, k, r)
    PROVE  k # <<>> /\ Hd(k) = Head(k) /\ Hd(k) \in CoreLabel
<1> USE DEF CoreLabel
<1>1. k # <<>> /\ Hd(k) = Head(k)
    BY DEF Core, Hd
<1>2. CASE ChainAt(o, r.parent, k, r)
    BY <1>1, <1>2, ChainHead DEF ChainLabel
<1>3. CASE k \in {Done, Adding, AddingFile, Deciding, Hearing, Editing, Updating, Listing,
                  Counted}
    BY <1>1, <1>3, ListFacts DEF ChainLabel
<1>4. CASE k \in {<<"throw", "answer">>, <<"type", "answer">>, <<"kids", "answer">>,
                  <<"conts", "answer">>, <<"objects", "answer">>, <<"delete", "answer">>,
                  <<"restart", "answer">>}
    BY <1>1, <1>4
<1>5. CASE Head(k) \in {"load", "lookup", "childCount", "ensure", "ensured", "chain"}
    BY <1>1, <1>5
<1> QED BY <1>2, <1>3, <1>4, <1>5 DEF Core

LEMMA UncountedHead ==
    ASSUME NEW k, Uncounted(k)
    PROVE  /\ k # <<>> /\ Hd(k) = Head(k) /\ Hd(k) \in {"buffered", "flushed", "storeNew"}
           /\ Hd(k) = "storeNew" => k = Storing
           /\ Hd(k) # "storeNew" => Tail(k) = Storing
<1>1. "buffered" \in Label /\ "flushed" \in Label
    BY DEF Label
<1>2. ASSUME NEW x \in {"buffered", "flushed"}, k = <<x>> \o Storing
      PROVE  k # <<>> /\ Hd(k) = x /\ Head(k) = x /\ Tail(k) = Storing
    <2>1. x \in Label /\ Storing \in Seq(Label)
        BY <1>1, Lists
    <2>2. /\ <<x>> \o Storing # <<>> /\ Hd(<<x>> \o Storing) = x
          /\ Head(<<x>> \o Storing) = x /\ Tail(<<x>> \o Storing) = Storing
        BY <2>1, PushOne
    <2> QED BY <1>2, <2>2
<1>3. CASE k = Storing
    BY <1>3, ListFacts DEF Hd
<1>4. CASE k = <<"buffered">> \o Storing
    BY <1>2, <1>4
<1>5. CASE k = <<"flushed">> \o Storing
    BY <1>2, <1>5
<1> QED BY <1>3, <1>4, <1>5 DEF Uncounted

LEMMA OutdatedHead ==
    ASSUME NEW k, NEW r, NEW i, Outdated(k, r, i)
    PROVE  Hd(k) = "store"
<1>1. "store" \in Label
    BY DEF Label
<1> QED BY <1>1, PushOne, Lists DEF Outdated

\* The lists by their first step.
Shaped(o, k, r) ==
    /\ k # <<>> /\ Hd(k) = Head(k)
    /\ ChainAt(o, r.parent, k, r) => Hd(k) \in ChainLabel /\ (Hd(k) = "append" => k = Adding)
    /\ \A y \in {"throw", "type", "kids", "conts", "objects", "delete", "restart"} :
           k = <<y, "answer">> => Head(k) = y /\ Tail(k) = Done
    /\ Hd(Done) = "answer" /\ Hd(Adding) = "append" /\ Hd(AddingFile) = "addFile"
    /\ Hd(Deciding) = "duplicate" /\ Hd(Hearing) = "first" /\ Hd(Editing) = "edit"
    /\ Hd(Updating) = "update" /\ Hd(Listing) = "list" /\ Hd(Counted) = "counted"

LEMMA CoreShapes ==
    ASSUME NEW o, NEW w, NEW k, NEW r, Core(o, w, k, r)
    PROVE  Shaped(o, k, r)
<1>1. k # <<>> /\ Hd(k) = Head(k)
    BY CoreHead
<1>2. ASSUME ChainAt(o, r.parent, k, r)
      PROVE  Hd(k) \in ChainLabel /\ (Hd(k) = "append" => k = Adding)
    <2>1. Head(k) \in ChainLabel
        BY <1>2, ChainHead
    <2>2. k \in {MakingDir, MakingVirt, Adding, Referring}
        BY <1>2 DEF ChainAt
    <2>3. Head(k) = "append" => k = Adding
        BY <2>2, ListFacts
    <2> QED BY <1>1, <2>1, <2>3
<1>3. \A y \in {"throw", "type", "kids", "conts", "objects", "delete", "restart"} :
          k = <<y, "answer">> => Head(k) = y /\ Tail(k) = Done
    BY DEF Done
<1>4. /\ Hd(Done) = "answer" /\ Hd(Adding) = "append" /\ Hd(AddingFile) = "addFile"
      /\ Hd(Deciding) = "duplicate" /\ Hd(Hearing) = "first" /\ Hd(Editing) = "edit"
      /\ Hd(Updating) = "update" /\ Hd(Listing) = "list" /\ Hd(Counted) = "counted"
    BY ListFacts DEF Hd
<1> QED BY <1>1, <1>2, <1>3, <1>4 DEF Shaped

\* What is known at a step of the main part of a call.
LEMMA CoreCases ==
    ASSUME NEW o, NEW w, NEW k, NEW r, Core(o, w, k, r)
    PROVE  /\ Hd(k) = "answer" => k = Done /\ AnswerOK(o, r)
           /\ Hd(k) = "load" => LoadAt(o, w, Tail(k), r)
           /\ Hd(k) = "lookup" => LookupAt(o, w, Tail(k), r)
           /\ Hd(k) = "childCount" => CountAt(o, w, Tail(k), r)
           /\ Hd(k) = "ensure" => EnsureAt(o, w, Tail(k), r)
           /\ Hd(k) = "ensured" => EnsuredAt(o, w, Tail(k), r)
           /\ Hd(k) \in {"create", "original"} => ChainAt(o, r.parent, k, r)
           /\ Hd(k) = "append" => k = Adding /\ (ChainAt(o, r.parent, k, r) \/ RefAt(o, r))
<1>1. Shaped(o, k, r)
    BY CoreShapes
<1> QED BY <1>1 DEF Core, Shaped, ChainLabel

LEMMA CoreAdding ==
    ASSUME NEW o, NEW w, NEW k, NEW r, Core(o, w, k, r)
    PROVE  /\ Hd(k) = "addFile" => /\ k = AddingFile /\ r.call.op = "import"
                                   /\ r.call.path \in Files /\ r.pend = <<>>
                                   /\ r.res = NoObject => ~Located(o, <<"F", r.call.path>>)
           /\ Hd(k) = "duplicate" => /\ k = Deciding /\ Linking(o, r) /\ r.parent \in Conts(o)
                                     /\ Right(o, r.res, r.call.id)
           /\ Hd(k) = "first" => k = Hearing /\ Adds(r)
           /\ Hd(k) = "edit" => /\ k = Editing /\ r.call.op = "update" /\ Right(o, r.res, r.call.id)
                                /\ r.call.id \notin {CDS_ID_ROOT, CDS_ID_FS_ROOT}
           /\ Hd(k) = "update" => k = Updating /\ UpdateAt(o, w, r)
<1>1. Shaped(o, k, r)
    BY CoreShapes
<1> QED BY <1>1 DEF Core, Shaped, ChainLabel

LEMMA CoreFirst ==
    ASSUME NEW o, NEW w, NEW k, NEW r, Core(o, w, k, r), Hd(k) = "first"
    PROVE  k = Hearing /\ Tail(k) = Done /\ Adds(r)
<1>1. k = Hearing /\ Adds(r)
    BY CoreAdding
<1> QED BY <1>1, ListFacts

LEMMA CoreEdit ==
    ASSUME NEW o, NEW w, NEW k, NEW r, Core(o, w, k, r), Hd(k) = "edit"
    PROVE  /\ k = Editing /\ r.call.op = "update" /\ Right(o, r.res, r.call.id)
           /\ r.call.id \notin {CDS_ID_ROOT, CDS_ID_FS_ROOT}
BY CoreAdding

LEMMA CoreListing ==
    ASSUME NEW o, NEW w, NEW k, NEW r, Core(o, w, k, r)
    PROVE  /\ Hd(k) = "throw" => Tail(k) = Done /\ r.call.op = "update"
           /\ Hd(k) = "type" => Tail(k) = Done /\ w = {} /\ Browsing(r)
           /\ Hd(k) = "list" => k = Listing /\ ListAt(o, w, r)
           /\ Hd(k) = "kids" => Tail(k) = Done /\ w = {} /\ ListOK(o, r) /\ r.kids \subseteq r.list
           /\ Hd(k) = "conts" => /\ Tail(k) = Done /\ w = {} /\ ListOK(o, r)
                                 /\ r.conts \subseteq Conts(o)
           /\ Hd(k) = "counted" => /\ k = Counted /\ w = {} /\ ListOK(o, r)
                                   /\ r.conts \subseteq Conts(o) /\ NumRight(o, r)
           /\ Hd(k) = "objects" => /\ Tail(k) = Done /\ w = {} /\ r.call.op = "objects"
                                   /\ r.id = r.call.id
           /\ Hd(k) = "delete" => /\ Tail(k) = Done /\ w = {} /\ r.call.op = "remove"
                                  /\ r.call.id \notin {CDS_ID_ROOT, CDS_ID_FS_ROOT}
           /\ Hd(k) = "restart" => Tail(k) = Done /\ w = {} /\ r.call.op = "shutdown"
<1>1. Shaped(o, k, r)
    BY CoreShapes
<1> QED BY <1>1 DEF Core, Shaped, ChainLabel

LEMMA CoreChain ==
    ASSUME NEW o, NEW w, NEW k, NEW r, Core(o, w, k, r), Hd(k) = "chain"
    PROVE  /\ Tail(k) = IF r.pend = <<>> THEN Referring ELSE MakingVirt
           /\ Linking(o, r) /\ Climbing(o, r, "V", Virtuals, r.call.path)
<1>1. Shaped(o, k, r)
    BY CoreShapes
<1> QED BY <1>1 DEF Core, Shaped, ChainLabel

\* What is known in a subroutine.
LEMMA PointCases ==
    ASSUME NEW o, NEW n, NEW w, NEW k, NEW r, Point(o, n, w, k, r), k # <<>>
    PROVE  /\ Hd(k) \in CoreLabel => Core(o, w, k, r)
           /\ Hd(k) = "select" => LoadAt(o, w, Tail(k), r) /\ r.id \notin w
           /\ Hd(k) = "search" => LookupAt(o, w, Tail(k), r) /\ \A i \in w : o[i].loc # r.loc
           /\ Hd(k) = "store" => Core(o, w, Tail(k), r) /\ Right(o, r.res, r.res.id)
           /\ Hd(k) = "countRows" => CountAt(o, w, Tail(k), r) /\ w = {}
           /\ Hd(k) = "storeCount" => Core(o, w, Tail(k), r) /\ NumRight(o, r)
           /\ Hd(k) = "selectType" => Tail(k) = Done /\ w = {} /\ Browsing(r)
           /\ Hd(k) = "storeType" => /\ Core(o, w, Tail(k), r)
                                     /\ r.id \in DOMAIN o /\ r.type = TypeOf(o[r.id])
           /\ Hd(k) = "inform" => /\ ChainAt(o, r.id, Tail(k), r) /\ r.id = n /\ n \in Conts(o)
                                  /\ o[n].parent = r.parent /\ ChildrenOf(o, n) = {}
           /\ Hd(k) \in {"buffered", "storeNew"} => Uncounted(k) /\ NewAt(o, n, r)
           /\ Hd(k) = "clearCache" => Tail(k) = Done /\ r.call.op = "remove" /\ w = {}
           /\ Hd(k) = "unlock" => Core(o, w, Tail(k), r)
           /\ Hd(k) = "flush" => AfterFlush(o, Tail(k), r)
           /\ Hd(k) = "flushed" => AfterFlush(o, Tail(k), r) \/ (Uncounted(k) /\ NewAt(o, n, r))
<1>1. Core(o, w, k, r) => Hd(k) \in CoreLabel
    BY CoreHead
<1>2. Uncounted(k) => Hd(k) \in {"buffered", "flushed", "storeNew"}
    BY UncountedHead
<1> QED BY <1>1, <1>2 DEF Point, AfterFlush, CoreLabel, ChainLabel

-----------------------------------------------------------------------------
(* The cache when nothing is owed to it.                                   *)

SoundEntry(o, e, i) == SoundObj(o, e, i) /\ SoundType(o, e, i) /\ SoundNum(o, e, i, FALSE)

SoundCache(o, w, h, l) ==
    /\ \A i \in DOMAIN h : SoundEntry(o, h[i], i)
    /\ LocationsOK(o, l)
    /\ \A i \in w : Visible(h, l, i)

LEMMA CacheSound ==
    ASSUME NEW o, NEW n, NEW w, NEW h, NEW l, NEW k, NEW r, CacheOK(o, n, w, h, l, k, r),
           Hd(k) \notin {"clearCache", "inform", "buffered", "flushed", "storeNew", "store", "flush"}
    PROVE  SoundCache(o, w, h, l)
<1>1. ~Uncounted(k) /\ \A i : ~Owed(k, r, i)
    BY UncountedHead DEF Owed
<1>2. \A i : ~Outdated(k, r, i)
    BY OutdatedHead
<1>3. ~Refilling(k)
    BY DEF Refilling
<1>4. LocationsOK(o, l) /\ \A i \in w : Visible(h, l, i)
    BY <1>1, <1>3 DEF CacheOK
<1>5. ASSUME NEW i \in DOMAIN h PROVE SoundEntry(o, h[i], i)
    <2>1. SoundNum(o, h[i], i, Owed(k, r, i)) /\ SoundObj(o, h[i], i) /\ SoundType(o, h[i], i)
        BY <1>2 DEF CacheOK
    <2> QED BY <1>1, <2>1 DEF SoundEntry, SoundNum
<1> QED BY <1>4, <1>5 DEF SoundCache

LEMMA SoundIsOK ==
    ASSUME NEW o, NEW n, NEW w, NEW h, NEW l, NEW k, NEW r, SoundCache(o, w, h, l),
           Hd(k) \notin {"inform", "buffered", "flushed", "storeNew"}
    PROVE  CacheOK(o, n, w, h, l, k, r)
<1>1. \A i : ~Owed(k, r, i)
    BY UncountedHead DEF Owed
<1>2. ASSUME NEW i \in DOMAIN h
      PROVE  /\ Outdated(k, r, i) \/ SoundObj(o, h[i], i)
             /\ SoundType(o, h[i], i)
             /\ SoundNum(o, h[i], i, Owed(k, r, i))
    BY <1>1 DEF SoundCache, SoundEntry, SoundNum
<1> QED BY <1>2 DEF CacheOK, SoundCache

\* Adding to the counted children of c.
LEMMA ChildAdded ==
    ASSUME NEW h, NEW c, NEW o, NEW i \in DOMAIN h, h \in [DOMAIN h -> EntryType],
           h[i].num # Unknown =>
               h[i].num + (IF i = c THEN 1 ELSE 0) = Cardinality(ChildrenOf(o, i))
    PROVE  /\ DOMAIN addChild(h, c) = DOMAIN h
           /\ addChild(h, c)[i].obj = h[i].obj
           /\ addChild(h, c)[i].type = h[i].type
           /\ Cardinality(ChildrenOf(o, i)) \in Nat => SoundNum(o, addChild(h, c)[i], i, FALSE)
<1>1. h[i] \in EntryType
    OBVIOUS
<1>2. CASE c \in DOMAIN h /\ h[c].num # Unknown /\ i = c
    <2>1. /\ DOMAIN addChild(h, c) = DOMAIN h
          /\ addChild(h, c)[i] = [h[i] EXCEPT !.num = @ + 1]
        BY <1>2 DEF addChild
    <2>2. /\ addChild(h, c)[i].obj = h[i].obj /\ addChild(h, c)[i].type = h[i].type
          /\ addChild(h, c)[i].num = h[i].num + 1
        BY <1>1, <2>1 DEF EntryType
    <2>3. h[i].num + 1 = Cardinality(ChildrenOf(o, i))
        BY <1>2 DEF SoundNum
    <2>4. h[i].num \in Int
        BY <1>1 DEF EntryType
    <2> QED BY <2>1, <2>2, <2>3, <2>4 DEF SoundNum
<1>3. CASE ~(c \in DOMAIN h /\ h[c].num # Unknown /\ i = c)
    <2>1. DOMAIN addChild(h, c) = DOMAIN h /\ addChild(h, c)[i] = h[i]
        BY <1>3 DEF addChild
    <2>2. SoundNum(o, h[i], i, FALSE)
        BY <1>1, <1>3 DEF SoundNum, EntryType
    <2> QED BY <2>1, <2>2
<1> QED BY <1>2, <1>3

\* The number of i's children is right, but for the one that c has got.
Short(h, c, o, i) ==
    /\ i \in DOMAIN h /\ h \in [DOMAIN h -> EntryType]
    /\ Cardinality(ChildrenOf(o, i)) \in Nat
    /\ h[i].num # Unknown =>
           h[i].num + (IF i = c THEN 1 ELSE 0) = Cardinality(ChildrenOf(o, i))

\* ... and right when that one is counted.
Counts(h, g, o, i) ==
    /\ DOMAIN g = DOMAIN h /\ g[i].obj = h[i].obj /\ g[i].type = h[i].type
    /\ SoundNum(o, g[i], i, FALSE)

LEMMA ShortAdded ==
    ASSUME NEW h, NEW c, NEW o, NEW i, Short(h, c, o, i)
    PROVE  Counts(h, addChild(h, c), o, i)
<1>1. /\ i \in DOMAIN h /\ h \in [DOMAIN h -> EntryType]
      /\ Cardinality(ChildrenOf(o, i)) \in Nat
      /\ h[i].num # Unknown =>
             h[i].num + (IF i = c THEN 1 ELSE 0) = Cardinality(ChildrenOf(o, i))
    BY DEF Short
<1> QED BY <1>1, ChildAdded, ZenonT(60) DEF Counts

\* What may be put into the cache: g is the hash with every child counted, e the
\* entry of i, and x the object that is noted at its location, if there is one.
FillOK(o, w, h, l, g, i, e, x) ==
    /\ LocationsOK(o, l)
    /\ DOMAIN g = DOMAIN h
    /\ \A j \in DOMAIN g \ {i} : SoundEntry(o, g[j], j) /\ g[j].obj = h[j].obj
    /\ SoundEntry(o, e, i)
    /\ x = NoObject \/ (Right(o, x, i) /\ e.obj = x)
    /\ \A j \in w \ {i} : Visible(h, l, j)
    /\ i \in w /\ x = NoObject => Visible(h, l, i) /\ e.obj = h[i].obj

\* A step that fills the cache leaves nothing there but what was there and the new
\* entry, and, unless the cache was emptied, everything that waits.
LEMMA FilledCache ==
    ASSUME NEW o, NEW n \in Nat, NEW w, TableOK(o, n, w), NEW h, NEW l, NEW g, NEW i, NEW e, NEW x,
           FillOK(o, w, h, l, g, i, e, x), NEW full \in BOOLEAN,
           NEW h2, h2 = With(IF full THEN <<>> ELSE g, i, e),
           NEW l2, l2 = checkLocation(IF full THEN <<>> ELSE l, i, x)
    PROVE  /\ \A j \in DOMAIN h2 : SoundEntry(o, h2[j], j)
           /\ LocationsOK(o, l2)
           /\ ~full => \A j \in w : Visible(h2, l2, j)
<1> USE DEF FillOK
<1> DEFINE g1 == IF full THEN <<>> ELSE g
           l1 == IF full THEN <<>> ELSE l
           at == CacheLocation(x)
<1>1. DOMAIN g1 \subseteq DOMAIN g /\ \A j \in DOMAIN g1 : g1[j] = g[j]
    OBVIOUS
<1>2. DOMAIN l1 \subseteq DOMAIN l /\ \A a \in DOMAIN l1 : l1[a] = l[a]
    OBVIOUS
<1>3. i \in DOMAIN h2 /\ h2[i] = e /\ \A j \in DOMAIN h2 \ {i} : j \in DOMAIN g1 /\ h2[j] = g1[j]
    BY DEF With
<1>4. \A j \in DOMAIN h2 : SoundEntry(o, h2[j], j)
    BY <1>1, <1>3
<1>5. /\ x = NoObject => l2 = l1
      /\ x # NoObject => l2 = With(l1, at, (IF at \in DOMAIN l1 THEN l1[at] ELSE {}) \union {i})
    BY DEF checkLocation
<1>6. LocationsOK(o, l2)
    <2>1. CASE x = NoObject
        BY <1>2, <1>5, <2>1 DEF LocationsOK
    <2>2. CASE x # NoObject
        <3>1. i \in DOMAIN o /\ at = CacheLocation(Object(o, i))
            BY <2>2, RightIsObject
        <3>2. \A a \in DOMAIN l2 : \A j \in l2[a] :
                 (a \in DOMAIN l /\ j \in l[a]) \/ (a = at /\ j = i)
            BY <1>2, <1>5, <2>2 DEF With
        <3> QED BY <3>1, <3>2 DEF LocationsOK
    <2> QED BY <2>1, <2>2
<1>7. ASSUME ~full, NEW j \in w PROVE Visible(h2, l2, j)
    <2>1. g1 = g /\ l1 = l
        BY <1>7
    <2>2. DOMAIN l \subseteq DOMAIN l2 /\ \A a \in DOMAIN l : l[a] \subseteq l2[a]
        BY <1>5, <2>1 DEF With
    <2>3. CASE j # i
        <3>1. Visible(h, l, j) /\ j \in DOMAIN g
            BY <2>3 DEF Visible
        <3>2. j \in DOMAIN h2 /\ h2[j].obj = h[j].obj
            <4>1. j \in DOMAIN h2 /\ h2[j] = g[j]
                BY <2>1, <2>3, <3>1 DEF With
            <4> QED BY <2>3, <3>1, <4>1
        <3> QED BY <2>2, <3>1, <3>2 DEF Visible
    <2>4. CASE j = i /\ x = NoObject
        <3>1. Visible(h, l, i) /\ e.obj = h[i].obj
            BY <1>7, <2>4
        <3> QED BY <1>3, <2>2, <2>4, <3>1 DEF Visible
    <2>5. CASE j = i /\ x # NoObject
        <3>1. at \in DOMAIN l2 /\ i \in l2[at]
            BY <1>5, <2>1, <2>5 DEF With
        <3> QED BY <1>3, <2>5, <3>1 DEF Visible
    <2> QED BY <2>3, <2>4, <2>5
<1> QED BY <1>4, <1>6, <1>7

-----------------------------------------------------------------------------
(* Steps of one thread, while the others are idle.                         *)

Holds(t) == TypeInv /\ TableOK(All, lastID, Waits) /\ Good(t)

\* Thread t goes on with k and the registers r.
Moves(t, k, r) == todo' = [todo EXCEPT ![t] = k] /\ reg' = [reg EXCEPT ![t] = r]

LEMMA Moved ==
    ASSUME TypeInv, NEW t \in Thread, NEW k \in Seq(Label), NEW r \in WorkType, Moves(t, k, r)
    PROVE  /\ todo' \in [Thread -> Seq(Label)] /\ todo'[t] = k
           /\ reg' \in [Thread -> WorkType] /\ reg'[t] = r
<1>1. todo \in [Thread -> Seq(Label)] /\ reg \in [Thread -> WorkType]
    BY DEF TypeInv
<1> QED BY <1>1 DEF Moves

\* What is left when the first step x is taken away.
LEMMA Left ==
    ASSUME TypeInv, NEW t \in Thread, NEW x, At(t, x)
    PROVE  /\ todo[t] \in Seq(Label) /\ todo[t] # <<>> /\ Tail(todo[t]) \in Seq(Label)
           /\ Head(todo[t]) = x /\ Hd(todo[t]) = x
           /\ reg[t] \in WorkType
<1>1. todo[t] \in Seq(Label) /\ todo[t] # <<>> /\ Head(todo[t]) = x /\ reg[t] \in WorkType
    BY DEF TypeInv, At
<1> QED BY <1>1, HeadTailProperties DEF Hd

LEMMA MovesBy ==
    ASSUME TypeInv, NEW t \in Thread, NEW x, At(t, x), NEW steps, Then(t, steps)
    PROVE  /\ UNCHANGED reg => Moves(t, steps \o Tail(todo[t]), reg[t])
           /\ \A r : Set(t, r) => Moves(t, steps \o Tail(todo[t]), r)
<1>1. todo' = [todo EXCEPT ![t] = steps \o Tail(todo[t])]
    BY DEF TypeInv, Then
<1>2. UNCHANGED reg => reg' = [reg EXCEPT ![t] = reg[t]]
    BY DEF TypeInv
<1> QED BY <1>1, <1>2 DEF Moves, Set

Quiet == UNCHANGED <<rows, buffer, insertBufferEmpty, lastID, idHash, locationHash>>

\* Steps in front of which nothing is owed to the cache, and steps before which
\* something is.
Settled(x) == x \notin {"clearCache", "inform", "buffered", "flushed", "storeNew", "store", "flush"}
Unsettling(x) == x \in {"inform", "buffered", "flushed", "storeNew"}

\* A step that changes nothing but what its thread does next.
LEMMA QuietKeeps ==
    ASSUME NEW t \in Thread, Holds(t), NEW k \in Seq(Label), NEW r \in WorkType, Moves(t, k, r),
           Quiet, Settled(Hd(todo[t])), ~Unsettling(Hd(k)),
           Point(All, lastID, Waits, k, r)
    PROVE  Holds(t)'
<1> USE DEF Settled, Unsettling
<1>1. /\ UNCHANGED <<rows, buffer, insertBufferEmpty, lastID, idHash, locationHash>>
      /\ All' = All /\ Waits' = Waits
    BY DEF Quiet, All, Waits
<1>2. todo'[t] = k /\ reg'[t] = r /\ todo' \in [Thread -> Seq(Label)] /\ reg' \in [Thread -> WorkType]
    BY Moved DEF Holds
<1>3. TypeInv'
    BY <1>1, <1>2 DEF Holds, TypeInv
<1>4. BufferOK(Waits, DOMAIN buffer, insertBufferEmpty, k)
    BY DEF Holds, Good, BufferOK
<1>5. CacheOK(All, lastID, Waits, idHash, locationHash, k, r)
    BY CacheSound, SoundIsOK DEF Holds, Good
<1> QED BY <1>1, <1>2, <1>3, <1>4, <1>5 DEF Holds, Good

LEMMA WithType ==
    ASSUME NEW S, NEW f, f \in [DOMAIN f -> S], NEW x, NEW v \in S
    PROVE  With(f, x, v) \in [DOMAIN With(f, x, v) -> S] /\ DOMAIN With(f, x, v) = DOMAIN f \union {x}
BY DEF With

LEMMA LocatedType ==
    ASSUME NEW l, l \in [DOMAIN l -> SUBSET Int], NEW i \in Int, NEW x
    PROVE  checkLocation(l, i, x) \in [DOMAIN checkLocation(l, i, x) -> SUBSET Int]
<1> DEFINE at == CacheLocation(x)
           there == IF at \in DOMAIN l THEN l[at] ELSE {}
<1>1. there \union {i} \in SUBSET Int
    OBVIOUS
<1>2. checkLocation(l, i, x) \in {l, With(l, at, there \union {i})}
    BY DEF checkLocation
<1> HIDE DEF there
<1>3. With(l, at, there \union {i}) \in [DOMAIN With(l, at, there \union {i}) -> SUBSET Int]
    BY <1>1, WithType
<1> QED BY <1>2, <1>3

\* A step that puts the entry e of i into the cache.
LEMMA FillKeeps ==
    ASSUME NEW t \in Thread, Holds(t), NEW y, At(t, y),
           y \in {"store", "storeNew", "storeCount", "storeType", "inform"},
           NEW r \in WorkType, reg' = [reg EXCEPT ![t] = r], Core(All, Waits, Tail(todo[t]), r),
           NEW g, g \in [DOMAIN idHash -> EntryType], NEW i \in Int, NEW e \in EntryType, NEW x,
           Fill(t, g, i, e, x),
           FillOK(All, Waits, idHash, locationHash, g, i, e, x)
    PROVE  Holds(t)'
<1> DEFINE full == i \notin DOMAIN g /\ Full(g, locationHash)
           s == Tail(todo[t])
           k == IF full THEN <<"flush", "unlock">> \o s ELSE <<>> \o s
<1>1. /\ UNCHANGED <<rows, buffer, insertBufferEmpty, lastID>> /\ All' = All /\ Waits' = Waits
      /\ idHash' = With(IF full THEN <<>> ELSE g, i, e)
      /\ locationHash' = checkLocation(IF full THEN <<>> ELSE locationHash, i, x)
    BY DEF Fill, tableVars, bufferVars, All, Waits
<1>2. s \in Seq(Label) /\ Hd(todo[t]) = y /\ lastID \in Nat
    BY Left DEF Holds, TypeInv
<1>3. s # <<>> /\ Hd(s) \in CoreLabel /\ Hd(s) = Head(s)
    BY CoreHead
<1>4. /\ ~full => k = s
      /\ full => /\ k \in Seq(Label) /\ k # <<>> /\ Hd(k) = "flush"
                 /\ Tail(k) # <<>> /\ Head(Tail(k)) = "unlock" /\ Tail(Tail(k)) = s
    <2>1. "flush" \in Label /\ "unlock" \in Label
        BY DEF Label
    <2>2. <<>> \o s = s
        BY <1>2, ConcatEmptySeq
    <2> HIDE DEF s
    <2>3. LET a == <<"flush", "unlock">> \o s
          IN  /\ a \in Seq(Label) /\ a # <<>> /\ Hd(a) = "flush"
              /\ Tail(a) # <<>> /\ Head(Tail(a)) = "unlock" /\ Tail(Tail(a)) = s
        BY <1>2, <2>1, PushTwo
    <2> QED BY <2>2, <2>3
<1>5. Moves(t, k, r)
    BY DEF Fill, Then, Moves, Holds, TypeInv
<1>6. todo'[t] = k /\ reg'[t] = r /\ todo' \in [Thread -> Seq(Label)] /\ reg' \in [Thread -> WorkType]
    <2>1. k \in Seq(Label)
        BY <1>2, <1>4
    <2> HIDE DEF k
    <2> QED BY <1>5, <2>1, Moved DEF Holds
<1>7. /\ idHash' \in [DOMAIN idHash' -> EntryType] /\ DOMAIN idHash' \subseteq Int
      /\ locationHash' \in [DOMAIN locationHash' -> SUBSET Int]
    <2> DEFINE g1 == IF full THEN <<>> ELSE g
               l1 == IF full THEN <<>> ELSE locationHash
    <2>1. g1 \in [DOMAIN g1 -> EntryType] /\ DOMAIN g1 \subseteq Int
        BY DEF Holds, TypeInv
    <2>2. l1 \in [DOMAIN l1 -> SUBSET Int]
        BY DEF Holds, TypeInv
    <2>3. idHash' = With(g1, i, e) /\ locationHash' = checkLocation(l1, i, x)
        BY <1>1
    <2> HIDE DEF g1, l1
    <2>4. idHash' \in [DOMAIN idHash' -> EntryType] /\ DOMAIN idHash' = DOMAIN g1 \union {i}
        BY <2>1, <2>3 DEF With
    <2>5. locationHash' \in [DOMAIN locationHash' -> SUBSET Int]
        BY <2>2, <2>3, LocatedType
    <2> QED BY <2>1, <2>4, <2>5
<1>8. TypeInv'
    BY <1>1, <1>6, <1>7 DEF Holds, TypeInv
<1>9. BufferOK(Waits, DOMAIN buffer, insertBufferEmpty, k)
    <2>1. BufferOK(Waits, DOMAIN buffer, insertBufferEmpty, todo[t])
        BY DEF Holds, Good
    <2>2. Hd(k) \notin {"buffered", "flushed"}
        BY <1>3, <1>4 DEF CoreLabel, ChainLabel
    <2> HIDE DEF k
    <2> QED BY <1>2, <2>1, <2>2 DEF BufferOK
<1>10. CacheOK(All, lastID, Waits, idHash', locationHash', k, r)
    <2>2. /\ \A j \in DOMAIN idHash' : SoundEntry(All, idHash'[j], j)
          /\ LocationsOK(All, locationHash')
          /\ ~full => \A j \in Waits : Visible(idHash', locationHash', j)
        <3>1. TableOK(All, lastID, Waits) /\ full \in BOOLEAN
            BY DEF Holds
        <3> HIDE DEF full
        <3> QED BY <1>1, <1>2, <3>1, FilledCache
    <2>3. CASE ~full
        <3>1. SoundCache(All, Waits, idHash', locationHash')
            BY <2>2, <2>3 DEF SoundCache
        <3>2. Hd(k) \notin {"inform", "buffered", "flushed", "storeNew"}
            BY <1>3, <1>4, <2>3 DEF CoreLabel, ChainLabel
        <3> HIDE DEF k, full
        <3> QED BY <3>1, <3>2, SoundIsOK
    <2>4. CASE full
        <3>1. Hd(k) = "flush" /\ Refilling(k)
            BY <1>4, <2>4 DEF Refilling, Hd
        <3>2. SoundCache(All, {}, idHash', locationHash')
            BY <2>2 DEF SoundCache
        <3> HIDE DEF k, full
        <3>3. CacheOK(All, lastID, {}, idHash', locationHash', k, r)
            BY <3>1, <3>2, SoundIsOK
        <3> QED BY <3>1, <3>3 DEF CacheOK
    <2> QED BY <2>3, <2>4
<1>11. Point(All, lastID, Waits, k, r)
    <2>1. CASE full
        <3>1. Core(All, {}, s, r)
            BY CoreWithout
        <3> HIDE DEF k, full, s
        <3> QED BY <1>4, <2>1, <3>1 DEF Point, AfterFlush
    <2>2. CASE ~full
        <3> HIDE DEF k, full
        <3> QED BY <1>4, <2>2 DEF Point
    <2> QED BY <2>1, <2>2
<1> HIDE DEF k
<1> QED BY <1>1, <1>6, <1>8, <1>9, <1>10, <1>11 DEF Holds, Good

-----------------------------------------------------------------------------
(* The steps that fill the cache.                                          *)

LEMMA KnownFacts ==
    ASSUME TypeInv, NEW i
    PROVE  /\ Known(i) \in EntryType
           /\ i \in DOMAIN idHash => Known(i) = idHash[i]
           /\ \A o : i \notin DOMAIN idHash => SoundEntry(o, Known(i), i)
<1>1. Entry \in EntryType /\ Entry.obj = NoObject /\ Entry.num = Unknown /\ Entry.type = "?"
    BY NoObjectType DEF Entry, EntryType, Unknown, AnyType
<1>2. i \in DOMAIN idHash => idHash[i] \in EntryType
    BY DEF TypeInv
<1>3. \A o : SoundEntry(o, Entry, i)
    BY <1>1 DEF SoundEntry, SoundObj, SoundType, SoundNum
<1> QED BY <1>1, <1>2, <1>3 DEF Known, Knows

\* The entry of an object that is right.
LEMMA WithObjectFacts ==
    ASSUME TypeInv, NEW o, NEW w, TableOK(o, lastID, w), NEW x, NEW i, Right(o, x, i)
    PROVE  /\ x.id = i /\ WithObject(x) \in EntryType /\ WithObject(x).obj = x
           /\ (i \in DOMAIN idHash => SoundNum(o, idHash[i], i, FALSE))
              => SoundEntry(o, WithObject(x), i)
<1>1. x.id = i /\ x \in ObjType /\ TypeOf(x) = TypeOf(o[i]) /\ i \in DOMAIN o
    BY RightIsObject DEF Right, TypeInv
<1>2. Known(i) \in EntryType /\ WithObject(x) = [Known(i) EXCEPT !.obj = x, !.type = TypeOf(x)]
    BY <1>1, KnownFacts DEF WithObject
<1>3. TypeOf(x) \in AnyType
    BY DEF TypeOf, AnyType
<1>4. /\ WithObject(x) \in EntryType /\ WithObject(x).obj = x /\ WithObject(x).type = TypeOf(x)
      /\ WithObject(x).num = Known(i).num
    BY <1>1, <1>2, <1>3 DEF EntryType
<1>5. ASSUME i \in DOMAIN idHash => SoundNum(o, idHash[i], i, FALSE)
      PROVE  SoundEntry(o, WithObject(x), i)
    <2>1. SoundNum(o, Known(i), i, FALSE)
        BY <1>5, KnownFacts DEF SoundEntry
    <2> QED BY <1>1, <1>4, <2>1 DEF SoundEntry, SoundObj, SoundType, SoundNum
<1> QED BY <1>1, <1>4, <1>5

LEMMA addObjectToCacheKeeps ==
    ASSUME NEW t \in Thread, Holds(t), addObjectToCache(t)
    PROVE  Holds(t)'
<1> DEFINE r == reg[t]
           k == todo[t]
           x == r.res
           i == x.id
<1>1. At(t, "store") /\ Fill(t, idHash, i, WithObject(x), x) /\ UNCHANGED reg
    BY DEF addObjectToCache
<1>2. k # <<>> /\ Hd(k) = "store" /\ r \in WorkType
    BY <1>1, Left DEF Holds
<1>3. Core(All, Waits, Tail(k), r) /\ Right(All, x, i)
    BY <1>2, PointCases DEF Holds, Good
<1>4. ~Uncounted(k) /\ ~Refilling(k) /\ \A j : ~Owed(k, r, j)
    BY <1>2, UncountedHead DEF Owed, Refilling
<1>5. /\ LocationsOK(All, locationHash) /\ \A j \in Waits : Visible(idHash, locationHash, j)
      /\ \A j \in DOMAIN idHash : /\ j # i => SoundObj(All, idHash[j], j)
                                  /\ SoundType(All, idHash[j], j)
                                  /\ SoundNum(All, idHash[j], j, Owed(k, r, j))
    BY <1>2, <1>4 DEF Holds, Good, CacheOK, Outdated
<1>6. \A j \in DOMAIN idHash : SoundNum(All, idHash[j], j, FALSE)
    BY <1>4, <1>5 DEF SoundNum
<1>7. /\ WithObject(x) \in EntryType /\ WithObject(x).obj = x
      /\ SoundEntry(All, WithObject(x), i)
    BY <1>3, <1>6, WithObjectFacts DEF Holds
<1>8. FillOK(All, Waits, idHash, locationHash, idHash, i, WithObject(x), x)
    <2>1. x # NoObject
        BY <1>3, RightIsObject DEF Holds, TypeInv
    <2> HIDE DEF x, i, r, k
    <2> QED BY <1>3, <1>5, <1>6, <1>7, <2>1 DEF FillOK, SoundEntry
<1>9. i \in Int /\ reg' = [reg EXCEPT ![t] = r] /\ idHash \in [DOMAIN idHash -> EntryType]
    BY <1>1, <1>2 DEF Holds, TypeInv, WorkType, ObjType
<1> HIDE DEF r, x, i, k
<1> QED BY <1>1, <1>2, <1>3, <1>7, <1>8, <1>9, FillKeeps DEF k

LEMMA addNewToCacheKeeps ==
    ASSUME NEW t \in Thread, Holds(t), addNewToCache(t)
    PROVE  Holds(t)'
<1> DEFINE r == reg[t]
           k == todo[t]
           x == r.res
           g == addChild(idHash, x.parent)
           n == lastID
<1>1. At(t, "storeNew") /\ Fill(t, g, x.id, WithObject(x), x) /\ UNCHANGED reg
    BY DEF addNewToCache
<1>2. k # <<>> /\ Hd(k) = "storeNew" /\ r \in WorkType /\ n \in Nat
    BY <1>1, Left DEF Holds, TypeInv
<1>3. Uncounted(k) /\ NewAt(All, n, r)
    BY <1>2, PointCases DEF Holds, Good
<1>4. k = Storing /\ ~Refilling(k)
    BY <1>2, <1>3, UncountedHead DEF Refilling
<1>5. Right(All, x, n) /\ x.id = n /\ r.id = x.parent
    BY <1>3 DEF NewAt, Right
<1>6. r.id \in Conts(All) /\ n \notin Conts(All) /\ n # r.id /\ Adds(r)
    <2>1. All[n].kind \in ItemKinds /\ All[n].parent = r.id /\ n \in DOMAIN All
        BY <1>3, <1>5 DEF NewAt, Right
    <2>2. n # CDS_ID_ROOT
        BY <2>1 DEF Holds, TableOK, Roots, ItemKinds
    <2>3. n \notin Conts(All)
        BY <2>1 DEF Conts, ItemKinds, ContainerKinds
    <2> QED BY <1>3, <2>1, <2>2, <2>3 DEF Holds, TableOK, Placed, NewAt
<1>7. Core(All, Waits, Tail(k), r)
    BY <1>4, <1>6, ListFacts DEF Core, CountAt
<1>8. /\ LocationsOK(All, locationHash)
      /\ \A j \in Waits \ {n} : Visible(idHash, locationHash, j)
      /\ \A j \in DOMAIN idHash : /\ SoundObj(All, idHash[j], j)
                                  /\ SoundType(All, idHash[j], j)
                                  /\ SoundNum(All, idHash[j], j, Owed(k, r, j))
    <2>1. \A j : ~Outdated(k, r, j)
        BY <1>2, OutdatedHead
    <2> QED BY <1>2, <1>4, <2>1 DEF Holds, Good, CacheOK
<1>9. \A j : Owed(k, r, j) <=> j = x.parent
    BY <1>2, <1>3, <1>5 DEF Owed
<1>10. \A j \in DOMAIN idHash : idHash[j].num # Unknown =>
           idHash[j].num + (IF j = x.parent THEN 1 ELSE 0) = Cardinality(ChildrenOf(All, j))
    BY <1>8, <1>9 DEF SoundNum
<1>11. ASSUME NEW j \in DOMAIN idHash
       PROVE  /\ DOMAIN g = DOMAIN idHash /\ g[j].obj = idHash[j].obj
              /\ SoundEntry(All, g[j], j)
    <2>1. idHash \in [DOMAIN idHash -> EntryType] /\ Cardinality(ChildrenOf(All, j)) \in Nat
        BY <1>2, FiniteChildren DEF Holds, TypeInv
    <2>3. Short(idHash, x.parent, All, j)
        BY <1>10, <2>1 DEF Short
    <2>2. Counts(idHash, g, All, j)
        BY <2>3, ShortAdded
    <2> QED BY <1>8, <2>2 DEF Counts, SoundEntry, SoundObj, SoundType
<1>12. g \in [DOMAIN idHash -> EntryType]
    <2>1. idHash \in [DOMAIN idHash -> EntryType]
        BY DEF Holds, TypeInv
    <2>2. \A e \in EntryType : [e EXCEPT !.num = @ + 1] \in EntryType
        BY DEF EntryType
    <2> QED BY <2>1, <2>2 DEF addChild
<1>13. n \in DOMAIN idHash => SoundNum(All, idHash[n], n, FALSE)
    BY <1>5, <1>6, <1>10 DEF SoundNum
<1>14. /\ WithObject(x) \in EntryType /\ WithObject(x).obj = x
       /\ SoundEntry(All, WithObject(x), n)
    BY <1>5, <1>13, WithObjectFacts, ZenonT(30) DEF Holds
<1>15. x # NoObject
    BY <1>2, <1>5, RightIsObject DEF Holds
<1>16. FillOK(All, Waits, idHash, locationHash, g, n, WithObject(x), x)
    <2>1. DOMAIN g = DOMAIN idHash
        BY <1>12
    <2> HIDE DEF g, x
    <2> QED BY <1>5, <1>8, <1>11, <1>14, <1>15, <2>1 DEF FillOK
<1>17. n \in Int /\ reg' = [reg EXCEPT ![t] = r]
    BY <1>1, <1>2 DEF Holds, TypeInv
<1> HIDE DEF r, x, k, g, n
<1> QED BY <1>1, <1>2, <1>5, <1>7, <1>12, <1>14, <1>16, <1>17, FillKeeps DEF k

LEMMA StoreCountKeeps ==
    ASSUME NEW t \in Thread, Holds(t), StoreCount(t)
    PROVE  Holds(t)'
<1> DEFINE r == reg[t]
           k == todo[t]
           i == r.id
           e == [Known(i) EXCEPT !.num = r.num]
<1>1. At(t, "storeCount") /\ Fill(t, idHash, i, e, NoObject) /\ UNCHANGED reg
    BY DEF StoreCount
<1>2. k # <<>> /\ Hd(k) = "storeCount" /\ r \in WorkType
    BY <1>1, Left DEF Holds
<1>3. Core(All, Waits, Tail(k), r) /\ NumRight(All, r)
    BY <1>2, PointCases DEF Holds, Good
<1>4. SoundCache(All, Waits, idHash, locationHash)
    BY <1>2, CacheSound DEF Holds, Good
<1>5. SoundEntry(All, Known(i), i) /\ Known(i) \in EntryType
    BY <1>4, KnownFacts DEF Holds, SoundCache
<1>6. i \in Int /\ r.num \in Int
    BY <1>2 DEF WorkType
<1>7. e \in EntryType /\ e.obj = Known(i).obj /\ e.type = Known(i).type /\ e.num = r.num
    BY <1>5, <1>6 DEF EntryType
<1>8. SoundEntry(All, e, i)
    BY <1>3, <1>5, <1>7, FiniteChildren
       DEF SoundEntry, SoundObj, SoundType, SoundNum, NumRight, Holds, TypeInv
<1>9. FillOK(All, Waits, idHash, locationHash, idHash, i, e, NoObject)
    <2>1. i \in Waits => Visible(idHash, locationHash, i) /\ e.obj = idHash[i].obj
        BY <1>4, <1>7, KnownFacts DEF Holds, SoundCache, Visible
    <2> HIDE DEF e, i
    <2> QED BY <1>4, <1>8, <2>1 DEF FillOK, SoundCache
<1>10. reg' = [reg EXCEPT ![t] = r] /\ idHash \in [DOMAIN idHash -> EntryType]
    BY <1>1 DEF Holds, TypeInv
<1> HIDE DEF r, i, k, e
<1> QED BY <1>1, <1>2, <1>3, <1>6, <1>7, <1>9, <1>10, FillKeeps DEF k

LEMMA StoreTypeKeeps ==
    ASSUME NEW t \in Thread, Holds(t), StoreType(t)
    PROVE  Holds(t)'
<1> DEFINE r == reg[t]
           k == todo[t]
           i == r.id
           e == [Known(i) EXCEPT !.type = r.type]
<1>1. At(t, "storeType") /\ Fill(t, idHash, i, e, NoObject) /\ UNCHANGED reg
    BY DEF StoreType
<1>2. k # <<>> /\ Hd(k) = "storeType" /\ r \in WorkType
    BY <1>1, Left DEF Holds
<1>3. Core(All, Waits, Tail(k), r) /\ i \in DOMAIN All /\ r.type = TypeOf(All[i])
    BY <1>2, PointCases DEF Holds, Good
<1>4. SoundCache(All, Waits, idHash, locationHash)
    BY <1>2, CacheSound DEF Holds, Good
<1>5. SoundEntry(All, Known(i), i) /\ Known(i) \in EntryType
    BY <1>4, KnownFacts DEF Holds, SoundCache
<1>6. i \in Int /\ r.type \in AnyType
    BY <1>2 DEF WorkType
<1>7. e \in EntryType /\ e.obj = Known(i).obj /\ e.type = r.type /\ e.num = Known(i).num
    BY <1>5, <1>6 DEF EntryType
<1>8. SoundEntry(All, e, i)
    BY <1>3, <1>5, <1>7 DEF SoundEntry, SoundObj, SoundType, SoundNum
<1>9. FillOK(All, Waits, idHash, locationHash, idHash, i, e, NoObject)
    <2>1. i \in Waits => Visible(idHash, locationHash, i) /\ e.obj = idHash[i].obj
        BY <1>4, <1>7, KnownFacts DEF Holds, SoundCache, Visible
    <2> HIDE DEF e, i
    <2> QED BY <1>4, <1>8, <2>1 DEF FillOK, SoundCache
<1>10. reg' = [reg EXCEPT ![t] = r] /\ idHash \in [DOMAIN idHash -> EntryType]
    BY <1>1 DEF Holds, TypeInv
<1> HIDE DEF r, i, k, e
<1> QED BY <1>1, <1>2, <1>3, <1>6, <1>7, <1>9, <1>10, FillKeeps DEF k

\* The chain of containers does not depend on the other registers.
LEMMA ChainSame ==
    ASSUME NEW o, NEW c, NEW k, NEW r, NEW q, ChainAt(o, c, k, r),
           q.call = r.call, q.obj = r.obj, q.pend = r.pend
    PROVE  ChainAt(o, c, k, q)
BY DEF ChainAt, Importing, Linking, Waiting

LEMMA informCacheKeeps ==
    ASSUME NEW t \in Thread, Holds(t), informCache(t)
    PROVE  Holds(t)'
<1> DEFINE r == reg[t]
           k == todo[t]
           q == [r EXCEPT !.parent = r.id]
           e == [Known(r.id) EXCEPT !.num = 0, !.type = "container"]
           g == addChild(idHash, r.parent)
           n == lastID
<1>1. At(t, "inform") /\ Fill(t, g, r.id, e, NoObject) /\ reg' = [reg EXCEPT ![t] = q]
    BY DEF informCache, Set
<1>2. k # <<>> /\ Hd(k) = "inform" /\ r \in WorkType /\ n \in Nat
    BY <1>1, Left DEF Holds, TypeInv
<1>3. /\ ChainAt(All, n, Tail(k), r) /\ r.id = n /\ n \in Conts(All)
      /\ All[n].parent = r.parent /\ ChildrenOf(All, n) = {}
    BY <1>2, PointCases DEF Holds, Good
<1>4. q \in WorkType /\ q.call = r.call /\ q.obj = r.obj /\ q.pend = r.pend /\ q.parent = n
    BY <1>2, <1>3 DEF WorkType
<1>5. Core(All, Waits, Tail(k), q)
    <2> HIDE DEF q, r, k, n
    <2>1. ChainAt(All, n, Tail(k), q)
        BY <1>3, <1>4, ChainSame
    <2>2. ChainAt(All, q.parent, Tail(k), q)
        BY <1>4, <2>1
    <2> QED BY <2>2, ChainHead DEF Core
<1>6. ~Uncounted(k) /\ ~Refilling(k) /\ \A j : ~Outdated(k, r, j)
    BY <1>2, UncountedHead, OutdatedHead DEF Refilling
<1>7. /\ LocationsOK(All, locationHash)
      /\ \A j \in Waits : Visible(idHash, locationHash, j)
      /\ \A j \in DOMAIN idHash : /\ SoundObj(All, idHash[j], j)
                                  /\ SoundType(All, idHash[j], j)
                                  /\ SoundNum(All, idHash[j], j, Owed(k, r, j))
    BY <1>2, <1>6 DEF Holds, Good, CacheOK
<1>8. \A j : Owed(k, r, j) <=> j = r.parent
    BY <1>2, <1>6 DEF Owed
<1>9. \A j \in DOMAIN idHash : idHash[j].num # Unknown =>
           idHash[j].num + (IF j = r.parent THEN 1 ELSE 0) = Cardinality(ChildrenOf(All, j))
    BY <1>7, <1>8 DEF SoundNum
<1>10. ASSUME NEW j \in DOMAIN idHash
       PROVE  /\ DOMAIN g = DOMAIN idHash /\ g[j].obj = idHash[j].obj
              /\ SoundEntry(All, g[j], j)
    <2>1. idHash \in [DOMAIN idHash -> EntryType] /\ Cardinality(ChildrenOf(All, j)) \in Nat
        BY <1>2, FiniteChildren DEF Holds, TypeInv
    <2>3. Short(idHash, r.parent, All, j)
        BY <1>9, <2>1 DEF Short
    <2>2. Counts(idHash, g, All, j)
        BY <2>3, ShortAdded
    <2> QED BY <1>7, <2>2 DEF Counts, SoundEntry, SoundObj, SoundType
<1>11. g \in [DOMAIN idHash -> EntryType]
    <2>1. idHash \in [DOMAIN idHash -> EntryType]
        BY DEF Holds, TypeInv
    <2>2. \A a \in EntryType : [a EXCEPT !.num = @ + 1] \in EntryType
        BY DEF EntryType
    <2> QED BY <2>1, <2>2 DEF addChild
<1>12. /\ e \in EntryType /\ e.obj = Known(n).obj /\ e.num = 0 /\ e.type = "container"
    <2>1. Known(n) \in EntryType
        BY <1>2, KnownFacts DEF Holds
    <2> DEFINE f(a, z, y) == [a EXCEPT !.num = z, !.type = y]
    <2>2. ASSUME NEW a \in EntryType, NEW z \in Int, NEW y \in AnyType
          PROVE  f(a, z, y) \in EntryType /\ f(a, z, y).obj = a.obj /\ f(a, z, y).num = z
                 /\ f(a, z, y).type = y
        BY DEF EntryType
    <2>3. e = f(Known(n), 0, "container")
        BY <1>3
    <2>4. 0 \in Int /\ "container" \in AnyType
        BY DEF AnyType
    <2> HIDE DEF e, n, f
    <2> QED BY <2>1, <2>2, <2>3, <2>4
<1>13. SoundEntry(All, e, n)
    <2>1. Cardinality(ChildrenOf(All, n)) = 0
        BY <1>3, FS_EmptySet
    <2>2. TypeOf(All[n]) = "container" /\ n \in DOMAIN All
        BY <1>3 DEF Conts, ContainerKinds, TypeOf, IsContainer
    <2>3. SoundObj(All, Known(n), n)
        <3>1. CASE n \in DOMAIN idHash
            BY <1>2, <1>7, <3>1, KnownFacts DEF Holds
        <3>2. CASE n \notin DOMAIN idHash
            BY <1>2, <3>2, KnownFacts DEF Holds, SoundEntry
        <3> QED BY <3>1, <3>2
    <2>4. SoundObj(All, e, n)
        BY <1>12, <2>3 DEF SoundObj
    <2> HIDE DEF e
    <2> QED BY <1>12, <2>1, <2>2, <2>4 DEF SoundEntry, SoundType, SoundNum
<1>14. FillOK(All, Waits, idHash, locationHash, g, n, e, NoObject)
    <2>1. DOMAIN g = DOMAIN idHash
        BY <1>11
    <2>2. n \notin Waits
        BY <1>3 DEF Holds, TableOK, Ordered
    <2> HIDE DEF g, e
    <2> QED BY <1>7, <1>10, <1>13, <2>1, <2>2 DEF FillOK
<1>15. Fill(t, g, n, e, NoObject)
    BY <1>1, <1>3
<1>16. reg' = [reg EXCEPT ![t] = q] /\ n \in Int
    BY <1>1, <1>2
<1> HIDE DEF r, k, q, e, g, n
<1> QED BY <1>1, <1>4, <1>5, <1>11, <1>12, <1>14, <1>15, <1>16, FillKeeps DEF k

-----------------------------------------------------------------------------
(* The steps of the buffer.                                                *)

LEMMA AfterFlushHead ==
    ASSUME NEW o, NEW s, NEW r, AfterFlush(o, s, r)
    PROVE  s # <<>> /\ Hd(s) = Head(s) /\ Hd(s) \in CoreLabel \union {"unlock", "countRows"}
BY CoreHead DEF AfterFlush, Hd

LEMMA FlushedPoint ==
    ASSUME NEW o, NEW n, NEW s, NEW r, AfterFlush(o, s, r)
    PROVE  Point(o, n, {}, s, r)
BY AfterFlushHead DEF AfterFlush, Point

\* Nothing waits after a flush.
LEMMA FlushedCache ==
    ASSUME NEW o, NEW n, NEW w, NEW h, NEW l, NEW k, NEW r, CacheOK(o, n, w, h, l, k, r),
           Hd(k) \in {"flush", "flushed"}, ~Uncounted(k)
    PROVE  SoundCache(o, {}, h, l)
<1>1. \A i : ~Owed(k, r, i) /\ ~Outdated(k, r, i)
    BY OutdatedHead DEF Owed
<1>2. LocationsOK(o, l)
    BY DEF CacheOK
<1>3. ASSUME NEW i \in DOMAIN h PROVE SoundEntry(o, h[i], i)
    <2>1. SoundNum(o, h[i], i, Owed(k, r, i)) /\ SoundObj(o, h[i], i) /\ SoundType(o, h[i], i)
        BY <1>1 DEF CacheOK
    <2> QED BY <1>1, <2>1 DEF SoundEntry, SoundNum
<1> QED BY <1>2, <1>3 DEF SoundCache

\* A new object keeps its exemptions until it is stored.
LEMMA NewCache ==
    ASSUME NEW o, NEW n, NEW w, NEW w2, NEW h, NEW l, NEW k, NEW k2, NEW r,
           CacheOK(o, n, w, h, l, k, r), Uncounted(k), Uncounted(k2), w2 \subseteq w
    PROVE  CacheOK(o, n, w2, h, l, k2, r)
<1>1. /\ Hd(k) \in {"buffered", "flushed", "storeNew"} /\ Hd(k2) \in {"buffered", "flushed", "storeNew"}
      /\ \A i : ~Outdated(k, r, i)
    BY UncountedHead, OutdatedHead
<1>2. \A i : (Owed(k, r, i) <=> i = r.id) /\ (Owed(k2, r, i) <=> i = r.id)
    BY <1>1 DEF Owed
<1>3. ~Refilling(k) /\ ~Refilling(k2)
    BY <1>1 DEF Refilling
<1>4. ASSUME NEW i \in DOMAIN h
      PROVE  /\ SoundObj(o, h[i], i) /\ SoundType(o, h[i], i)
             /\ SoundNum(o, h[i], i, Owed(k2, r, i))
    <2>1. /\ SoundObj(o, h[i], i) /\ SoundType(o, h[i], i)
          /\ SoundNum(o, h[i], i, Owed(k, r, i))
        BY <1>1 DEF CacheOK
    <2> QED BY <1>2, <2>1 DEF SoundNum
<1>5. LocationsOK(o, l) /\ \A i \in w2 : Visible(h, l, i) \/ (i = n /\ Uncounted(k2))
    BY <1>1, <1>3 DEF CacheOK
<1> QED BY <1>4, <1>5 DEF CacheOK

LEMMA FlushRows ==
    ASSUME TypeInv, rows' = Over(rows, buffer), UNCHANGED buffer
    PROVE  All' = All /\ Waits' = {} /\ rows' \in [DOMAIN rows' -> RowType]
<1>1. rows' \in [DOMAIN rows' -> RowType]
    BY DEF TypeInv, Over
<1> QED BY <1>1 DEF All, Over, Waits

LEMMA flushInsertBufferKeeps ==
    ASSUME NEW t \in Thread, Holds(t), flushInsertBuffer(t)
    PROVE  Holds(t)'
<1> DEFINE r == reg[t]
           k == todo[t]
           s == Tail(todo[t])
<1>1. /\ At(t, "flush")
      /\ UNCHANGED <<lastID, buffer, insertBufferEmpty, idHash, locationHash, reg>>
      /\ \/ insertBufferEmpty /\ Then(t, <<>>) /\ UNCHANGED rows
         \/ ~insertBufferEmpty /\ Then(t, <<"flushed">>) /\ rows' = Over(rows, buffer)
    BY DEF flushInsertBuffer, _flushInsertBuffer, cacheVars
<1>2. k # <<>> /\ Hd(k) = "flush" /\ r \in WorkType /\ s \in Seq(Label)
    BY <1>1, Left DEF Holds
<1>3. AfterFlush(All, s, r)
    BY <1>2, PointCases DEF Holds, Good
<1>4. /\ Waits = DOMAIN buffer
      /\ insertBufferEmpty => DOMAIN buffer = {}
    BY <1>2 DEF Holds, Good, BufferOK
<1>5. SoundCache(All, {}, idHash, locationHash)
    <2>1. ~Uncounted(k)
        BY <1>2, UncountedHead
    <2> QED BY <1>2, <2>1, FlushedCache DEF Holds, Good
<1>6. s # <<>> /\ Hd(s) = Head(s) /\ Hd(s) \in CoreLabel \union {"unlock", "countRows"}
    BY <1>3, AfterFlushHead
<1>7. CASE insertBufferEmpty /\ Then(t, <<>>) /\ UNCHANGED rows
    <2>1. All' = All /\ Waits' = Waits /\ Waits = {}
        BY <1>1, <1>4, <1>7 DEF All, Waits
    <2>2. <<>> \o s = s
        BY <1>2, ConcatEmptySeq
    <2>3. Moves(t, s, r)
        BY <1>1, <1>7, <2>2, MovesBy DEF Holds
    <2>4. todo'[t] = s /\ reg'[t] = r /\ todo' \in [Thread -> Seq(Label)] /\ reg' \in [Thread -> WorkType]
        BY <1>2, <2>3, Moved DEF Holds
    <2>5. TypeInv'
        BY <1>1, <1>7, <2>4 DEF Holds, TypeInv
    <2>6. BufferOK({}, DOMAIN buffer, insertBufferEmpty, s)
        BY <1>4, <1>7 DEF BufferOK
    <2>7. CacheOK(All, lastID, {}, idHash, locationHash, s, r)
        BY <1>5, <1>6, SoundIsOK DEF CoreLabel, ChainLabel
    <2>8. Point(All, lastID, {}, s, r)
        BY <1>3, FlushedPoint
    <2> QED BY <1>1, <1>7, <2>1, <2>4, <2>5, <2>6, <2>7, <2>8 DEF Holds, Good
<1>8. CASE ~insertBufferEmpty /\ Then(t, <<"flushed">>) /\ rows' = Over(rows, buffer)
    <2> DEFINE k2 == <<"flushed">> \o s
    <2>1. All' = All /\ Waits' = {} /\ rows' \in [DOMAIN rows' -> RowType]
        BY <1>1, <1>8, FlushRows DEF Holds
    <2>2. k2 \in Seq(Label) /\ k2 # <<>> /\ Hd(k2) = "flushed" /\ Tail(k2) = s
        <3>1. "flushed" \in Label
            BY DEF Label
        <3> QED BY <1>2, <3>1, PushOne
    <2>3. Moves(t, k2, r)
        BY <1>1, <1>8, MovesBy DEF Holds
    <2>4. todo'[t] = k2 /\ reg'[t] = r /\ todo' \in [Thread -> Seq(Label)] /\ reg' \in [Thread -> WorkType]
        <3> HIDE DEF k2
        <3> QED BY <1>2, <2>2, <2>3, Moved DEF Holds
    <2>5. TypeInv'
        BY <1>1, <2>1, <2>4 DEF Holds, TypeInv
    <2>6. ~Uncounted(k2)
        <3>1. Hd(Storing) = "storeNew"
            BY ListFacts DEF Hd
        <3> HIDE DEF k2
        <3> QED BY <1>6, <2>2, <3>1, UncountedHead DEF CoreLabel, ChainLabel
    <2> HIDE DEF k2
    <2>7. BufferOK({}, DOMAIN buffer, insertBufferEmpty, k2)
        BY <1>8, <2>2 DEF BufferOK
    <2>8. CacheOK(All, lastID, {}, idHash, locationHash, k2, r)
        <3>1. \A i : ~Owed(k2, r, i)
            BY <2>2, <2>6 DEF Owed
        <3>2. \A i \in DOMAIN idHash : SoundNum(All, idHash[i], i, Owed(k2, r, i))
            BY <1>5, <3>1 DEF SoundCache, SoundEntry, SoundNum
        <3> QED BY <1>5, <3>2 DEF CacheOK, SoundCache, SoundEntry
    <2>9. Point(All, lastID, {}, k2, r)
        BY <1>3, <2>2 DEF Point
    <2>10. TableOK(All, lastID, {})
        BY <1>3 DEF Holds, TableOK, Ordered
    <2> QED BY <1>1, <2>1, <2>4, <2>5, <2>7, <2>8, <2>9, <2>10 DEF Holds, Good
<1> QED BY <1>1, <1>7, <1>8

LEMMA clearBufferKeeps ==
    ASSUME NEW t \in Thread, Holds(t), clearBuffer(t)
    PROVE  Holds(t)'
<1> DEFINE r == reg[t]
           k == todo[t]
           s == Tail(todo[t])
<1>1. /\ At(t, "flushed") /\ Then(t, <<>>)
      /\ UNCHANGED <<rows, lastID, idHash, locationHash, reg>>
      /\ buffer' = <<>> /\ insertBufferEmpty' = TRUE
    BY DEF clearBuffer, tableVars, cacheVars
<1>2. k # <<>> /\ Hd(k) = "flushed" /\ r \in WorkType /\ s \in Seq(Label)
    BY <1>1, Left DEF Holds
<1>3. Waits = {}
    BY <1>2 DEF Holds, Good, BufferOK
<1>4. DOMAIN buffer' = {}
    BY <1>1
<1>5. All' = All /\ Waits' = {}
    BY <1>1, <1>3, <1>4 DEF Waits, All, Over
<1>6. <<>> \o s = s
    BY <1>2, ConcatEmptySeq
<1>7. Moves(t, s, r)
    BY <1>1, <1>6, MovesBy DEF Holds
<1>8. todo'[t] = s /\ reg'[t] = r /\ todo' \in [Thread -> Seq(Label)] /\ reg' \in [Thread -> WorkType]
    BY <1>2, <1>7, Moved DEF Holds
<1>9. TypeInv'
    BY <1>1, <1>4, <1>8 DEF Holds, TypeInv
<1>10. BufferOK({}, DOMAIN buffer', insertBufferEmpty', s)
    BY <1>4 DEF BufferOK
<1>11. CASE AfterFlush(All, s, r) /\ ~Uncounted(k)
    <2>1. Hd(s) \in CoreLabel \union {"unlock", "countRows"}
        BY <1>11, AfterFlushHead
    <2>2. SoundCache(All, {}, idHash, locationHash)
        BY <1>2, <1>11, FlushedCache DEF Holds, Good
    <2>3. CacheOK(All, lastID, {}, idHash, locationHash, s, r)
        BY <2>1, <2>2, SoundIsOK DEF CoreLabel, ChainLabel
    <2>4. Point(All, lastID, {}, s, r)
        BY <1>11, FlushedPoint
    <2> QED BY <1>1, <1>3, <1>5, <1>8, <1>9, <1>10, <2>3, <2>4 DEF Holds, Good
<1>12. CASE Uncounted(k) /\ NewAt(All, lastID, r)
    <2>1. s = Storing /\ Uncounted(s)
        BY <1>2, <1>12, UncountedHead DEF Uncounted
    <2>2. CacheOK(All, lastID, {}, idHash, locationHash, s, r)
        BY <1>12, <2>1, NewCache DEF Holds, Good
    <2>3. Point(All, lastID, {}, s, r)
        BY <1>12, <2>1 DEF Point
    <2> QED BY <1>1, <1>3, <1>5, <1>8, <1>9, <1>10, <2>2, <2>3 DEF Holds, Good
<1>13. (AfterFlush(All, s, r) /\ ~Uncounted(k)) \/ (Uncounted(k) /\ NewAt(All, lastID, r))
    <2>1. AfterFlush(All, s, r) => ~Uncounted(k)
        <3>1. Hd(Storing) = "storeNew"
            BY ListFacts DEF Hd
        <3> QED BY <1>2, <3>1, AfterFlushHead, UncountedHead DEF CoreLabel, ChainLabel
    <2> QED BY <1>2, <2>1, PointCases DEF Holds, Good
<1> QED BY <1>11, <1>12, <1>13

LEMMA addToInsertBufferKeeps ==
    ASSUME NEW t \in Thread, Holds(t), addToInsertBuffer(t)
    PROVE  Holds(t)'
<1> DEFINE r == reg[t]
           k == todo[t]
           k2 == todo'[t]
<1>1. /\ At(t, "buffered") /\ insertBufferEmpty' = FALSE
      /\ UNCHANGED <<lastID, buffer, idHash, locationHash, reg>>
      /\ \/ Then(t, <<"flushed">>) /\ rows' = Over(rows, buffer)
         \/ Then(t, <<>>) /\ UNCHANGED rows
    BY DEF addToInsertBuffer, _flushInsertBuffer, cacheVars
<1>2. k # <<>> /\ Hd(k) = "buffered" /\ r \in WorkType
    BY <1>1, Left DEF Holds
<1>3. Uncounted(k) /\ NewAt(All, lastID, r) /\ Tail(k) = Storing
    BY <1>2, PointCases, UncountedHead DEF Holds, Good
<1>4. Waits = DOMAIN buffer
    BY <1>2 DEF Holds, Good, BufferOK
<1>5. \/ k2 = <<"flushed">> \o Storing /\ rows' = Over(rows, buffer)
      \/ k2 = Storing /\ UNCHANGED rows
    <2>1. <<>> \o Storing = Storing
        BY Lists, ConcatEmptySeq
    <2> QED BY <1>1, <1>3, <2>1 DEF Then, Holds, TypeInv
<1>6. Uncounted(k2)
    BY <1>5 DEF Uncounted
<1>7. k2 \in Seq(Label) /\ (rows' = Over(rows, buffer) => Hd(k2) = "flushed" \/ UNCHANGED rows)
    <2>1. "flushed" \in Label /\ Storing \in Seq(Label)
        BY Lists DEF Label
    <2>2. <<"flushed">> \o Storing \in Seq(Label) /\ Hd(<<"flushed">> \o Storing) = "flushed"
        BY <2>1, PushOne
    <2> QED BY <1>5, <2>1, <2>2
<1>8. /\ All' = All /\ Waits' \subseteq Waits /\ rows' \in [DOMAIN rows' -> RowType]
      /\ IF Hd(k2) = "flushed" THEN Waits' = {} ELSE Waits' = Waits
    <2>1. CASE k2 = <<"flushed">> \o Storing /\ rows' = Over(rows, buffer)
        <3>1. "flushed" \in Label /\ Storing \in Seq(Label)
            BY Lists DEF Label
        <3>2. Hd(<<"flushed">> \o Storing) = "flushed"
            BY <3>1, PushOne
        <3>3. All' = All /\ Waits' = {} /\ rows' \in [DOMAIN rows' -> RowType]
            BY <1>1, <2>1, FlushRows DEF Holds
        <3> QED BY <2>1, <3>2, <3>3
    <2>2. CASE k2 = Storing /\ UNCHANGED rows
        <3>1. Hd(k2) = "storeNew"
            BY <2>2, ListFacts DEF Hd
        <3>2. All' = All /\ Waits' = Waits
            BY <1>1, <2>2 DEF All, Waits
        <3> QED BY <2>2, <3>1, <3>2 DEF Holds, TypeInv
    <2> QED BY <1>5, <2>1, <2>2
<1>9. reg'[t] = r /\ todo' \in [Thread -> Seq(Label)] /\ reg' \in [Thread -> WorkType]
    <2>1. todo' = [todo EXCEPT ![t] = todo'[t]]
        BY <1>1 DEF Then, Holds, TypeInv
    <2> QED BY <1>1, <1>7, <2>1 DEF Holds, TypeInv
<1>10. TypeInv'
    BY <1>1, <1>8, <1>9 DEF Holds, TypeInv
<1>11. BufferOK(Waits', DOMAIN buffer, FALSE, k2)
    BY <1>4, <1>8 DEF BufferOK
<1>12. CacheOK(All, lastID, Waits', idHash, locationHash, k2, r)
    BY <1>3, <1>6, <1>8, NewCache DEF Holds, Good
<1>13. Point(All, lastID, Waits', k2, r)
    BY <1>3, <1>6 DEF Point
<1>14. TableOK(All, lastID, Waits')
    BY <1>8 DEF Holds, TableOK, Ordered
<1> QED BY <1>1, <1>8, <1>9, <1>10, <1>11, <1>12, <1>13, <1>14 DEF Holds, Good


-----------------------------------------------------------------------------
(* Steps that leave table, buffer and cache alone.                         *)

\* The list k starts with x and goes on with s.
Starts(k, x, s) == k = <<x>> \o s /\ k # <<>> /\ Hd(k) = x /\ Head(k) = x /\ Tail(k) = s

\* A step after which its thread goes on with the rest ...
LEMMA QuietNone ==
    ASSUME NEW t \in Thread, Holds(t), NEW x, At(t, x), Settled(x), Quiet, Then(t, <<>>),
           NEW r \in WorkType, Set(t, r), Core(All, Waits, Tail(todo[t]), r)
    PROVE  Holds(t)'
<1> DEFINE s == Tail(todo[t])
<1>1. s \in Seq(Label) /\ Hd(todo[t]) = x
    BY Left DEF Holds
<1>2. <<>> \o s = s
    BY <1>1, ConcatEmptySeq
<1>3. Moves(t, s, r)
    BY <1>2, MovesBy DEF Holds
<1>4. Hd(s) \in CoreLabel /\ Point(All, lastID, Waits, s, r)
    BY CoreHead DEF Point
<1> HIDE DEF s
<1>5. ~Unsettling(Hd(s))
    BY <1>4 DEF Unsettling, CoreLabel, ChainLabel
<1> QED BY <1>1, <1>3, <1>4, <1>5, QuietKeeps

\* ... after which it does y and then m ...
LEMMA QuietTo ==
    ASSUME NEW t \in Thread, Holds(t), NEW x, At(t, x), Settled(x), Quiet,
           NEW steps, Then(t, steps), NEW y \in Label, ~Unsettling(y), NEW m \in Seq(Label),
           steps \o Tail(todo[t]) = <<y>> \o m,
           NEW r \in WorkType, Set(t, r),
           \A k : Starts(k, y, m) => Point(All, lastID, Waits, k, r)
    PROVE  Holds(t)'
<1> DEFINE k == <<y>> \o m
<1>1. Hd(todo[t]) = x
    BY Left DEF Holds
<1>2. k \in Seq(Label) /\ k # <<>> /\ Hd(k) = y /\ Head(k) = y /\ Tail(k) = m
    BY PushOne
<1>3. Moves(t, k, r)
    BY MovesBy DEF Holds
<1>4. Starts(k, y, m)
    BY <1>2 DEF Starts
<1> HIDE DEF k
<1> QED BY <1>1, <1>2, <1>3, <1>4, QuietKeeps

\* ... y and then the rest ...
LEMMA QuietOne ==
    ASSUME NEW t \in Thread, Holds(t), NEW x, At(t, x), Settled(x), Quiet,
           NEW y \in Label, Then(t, <<y>>), ~Unsettling(y),
           NEW r \in WorkType, Set(t, r),
           \A k : Starts(k, y, Tail(todo[t])) => Point(All, lastID, Waits, k, r)
    PROVE  Holds(t)'
<1>1. Tail(todo[t]) \in Seq(Label)
    BY Left DEF Holds
<1> QED BY <1>1, QuietTo

\* ... or y, z and then the rest.
LEMMA QuietTwo ==
    ASSUME NEW t \in Thread, Holds(t), NEW x, At(t, x), Settled(x), Quiet,
           NEW y \in Label, NEW z \in Label, Then(t, <<y, z>>), ~Unsettling(y),
           NEW r \in WorkType, Set(t, r),
           \A k, m : Starts(k, y, m) /\ Starts(m, z, Tail(todo[t])) =>
                         Point(All, lastID, Waits, k, r)
    PROVE  Holds(t)'
<1> DEFINE s == Tail(todo[t])
           m == <<z>> \o s
<1>1. s \in Seq(Label)
    BY Left DEF Holds
<1>2. m \in Seq(Label) /\ <<y, z>> \o s = <<y>> \o m
    BY <1>1, Push
<1>3. Starts(m, z, s)
    BY <1>1, PushOne DEF Starts
<1>4. \A k : Starts(k, y, m) => Point(All, lastID, Waits, k, r)
    BY <1>3
<1> HIDE DEF m, s
<1> QED BY <1>2, <1>4, QuietTo DEF s

\* The registers stay the same.
LEMMA SameRegisters ==
    ASSUME TypeInv, NEW t \in Thread, UNCHANGED reg
    PROVE  Set(t, reg[t]) /\ reg[t] \in WorkType
BY DEF TypeInv, Set

\* What is known before the step x, if it is one of the main part ...
LEMMA CoreAt ==
    ASSUME NEW t \in Thread, Holds(t), NEW x \in CoreLabel, At(t, x)
    PROVE  /\ Core(All, Waits, todo[t], reg[t])
           /\ SoundCache(All, Waits, idHash, locationHash)
           /\ Settled(x) /\ Hd(todo[t]) = x /\ todo[t] # <<>> /\ Head(todo[t]) = x
           /\ todo[t] \in Seq(Label) /\ Tail(todo[t]) \in Seq(Label) /\ reg[t] \in WorkType
<1>1. /\ todo[t] \in Seq(Label) /\ todo[t] # <<>> /\ Hd(todo[t]) = x /\ Head(todo[t]) = x
      /\ Tail(todo[t]) \in Seq(Label) /\ reg[t] \in WorkType
    BY Left DEF Holds
<1>2. Core(All, Waits, todo[t], reg[t])
    BY <1>1, PointCases DEF Holds, Good
<1>3. SoundCache(All, Waits, idHash, locationHash)
    BY <1>1, CacheSound DEF Holds, Good, CoreLabel, ChainLabel
<1> QED BY <1>1, <1>2, <1>3 DEF Settled, CoreLabel, ChainLabel

\* ... and if it is one of a subroutine.
LEMMA PointAt ==
    ASSUME NEW t \in Thread, Holds(t), NEW x, At(t, x)
    PROVE  /\ Point(All, lastID, Waits, todo[t], reg[t])
           /\ Settled(x) => SoundCache(All, Waits, idHash, locationHash)
           /\ Hd(todo[t]) = x /\ todo[t] # <<>> /\ Head(todo[t]) = x
           /\ todo[t] \in Seq(Label) /\ Tail(todo[t]) \in Seq(Label) /\ reg[t] \in WorkType
<1>1. /\ todo[t] \in Seq(Label) /\ todo[t] # <<>> /\ Hd(todo[t]) = x /\ Head(todo[t]) = x
      /\ Tail(todo[t]) \in Seq(Label) /\ reg[t] \in WorkType
    BY Left DEF Holds
<1>2. Settled(x) => SoundCache(All, Waits, idHash, locationHash)
    BY <1>1, CacheSound DEF Holds, Good, Settled
<1> QED BY <1>1, <1>2 DEF Holds, Good

\* The table is what does not wait.
LEMMA RowsAreAll ==
    ASSUME TypeInv, TableOK(All, lastID, Waits)
    PROVE  /\ DOMAIN rows = DOMAIN All \ Waits
           /\ \A i \in DOMAIN rows : rows[i] = All[i] /\ Object(rows, i) = Object(All, i)
           /\ DOMAIN All = DOMAIN rows \union Waits
<1>1. /\ DOMAIN All = DOMAIN rows \union DOMAIN buffer
      /\ \A i \in DOMAIN rows : All[i] = rows[i]
    BY DEF All, Over
<1>2. ASSUME NEW i \in DOMAIN rows PROVE Object(rows, i) = Object(All, i)
    <2>1. i \in DOMAIN All \ Waits /\ rows[i] = All[i]
        BY <1>1 DEF Waits
    <2>2. CASE All[i].kind = "ref"
        <3>1. All[i].ref \in DOMAIN All /\ All[i].ref \notin Waits
            BY <2>1, <2>2, RowFacts DEF Placed, TableOK, Ordered
        <3>2. All[i].ref \in DOMAIN rows /\ rows[All[i].ref] = All[All[i].ref]
            BY <1>1, <3>1 DEF Waits
        <3> QED BY <2>1, <3>1, <3>2 DEF Object
    <2>3. CASE All[i].kind # "ref"
        BY <2>1, <2>3 DEF Object
    <2> QED BY <2>2, <2>3
<1> QED BY <1>1, <1>2 DEF Waits

LEMMA unlockCacheKeeps ==
    ASSUME NEW t \in Thread, Holds(t), unlockCache(t)
    PROVE  Holds(t)'
<1>1. At(t, "unlock") /\ Then(t, <<>>) /\ Quiet /\ UNCHANGED reg
    BY DEF unlockCache, Quiet, tableVars, bufferVars
<1>2. Core(All, Waits, Tail(todo[t]), reg[t])
    BY <1>1, PointAt, PointCases
<1>3. reg[t] \in WorkType /\ Set(t, reg[t])
    BY <1>1, SameRegisters DEF Holds
<1> QED BY <1>1, <1>2, <1>3, QuietNone DEF Settled

-----------------------------------------------------------------------------
(* Finding one object.                                                     *)

\* The longer lists in terms of the shorter ones.
LEMMA HeadOn ==
    ASSUME NEW s \in Seq(Label), s # <<>>
    PROVE  <<Head(s)>> \o Tail(s) = s
<1> DEFINE h == Head(s)
           u == Tail(s)
           k == <<h>> \o u
<1>1. /\ h \in Label /\ u \in Seq(Label) /\ Len(u) = Len(s) - 1 /\ Len(s) \in Nat
      /\ h = s[1] /\ \A m \in 1 .. Len(u) : u[m] = s[m + 1]
    BY HeadTailProperties, LenProperties
<1> HIDE DEF h, u
<1>2. /\ k \in Seq(Label) /\ Len(k) = Len(u) + 1 /\ k[1] = h
      /\ \A m \in 1 .. Len(u) : k[m + 1] = u[m]
    BY <1>1, Front
<1> HIDE DEF k
<1>3. \A m \in 1 .. Len(s) : k[m] = s[m]
    <2> TAKE m \in 1 .. Len(s)
    <2>1. CASE m = 1
        BY <1>1, <1>2, <2>1
    <2>2. CASE m # 1
        <3>1. m - 1 \in 1 .. Len(u) /\ (m - 1) + 1 = m
            BY <1>1, <2>2
        <3>2. k[(m - 1) + 1] = u[m - 1] /\ u[m - 1] = s[(m - 1) + 1]
            BY <1>1, <1>2, <3>1
        <3> QED BY <3>1, <3>2
    <2> QED BY <2>1, <2>2
<1>4. Len(k) = Len(s)
    BY <1>1, <1>2
<1> QED BY <1>2, <1>3, <1>4, SeqEqual DEF k, h, u

LEMMA Cons ==
    /\ <<"create">> \o Adding = MakingDir /\ <<"create">> \o Referring = MakingVirt
    /\ AddSteps \o Done = Adding /\ <<"append">> \o Storing = Adding
    /\ <<"first">> \o Done = Hearing /\ <<"update">> \o Done = Updating
    /\ <<"list">> \o Done = Listing /\ <<"counted">> \o Done = Counted
    /\ <<"addFile">> \o Done = AddingFile /\ <<"edit">> \o Done = Editing
    /\ \A x \in {"throw", "type", "kids", "conts", "objects", "delete", "restart"} :
           <<x>> \o Done = <<x, "answer">>
<1>2. /\ <<"create">> \o Adding = MakingDir /\ <<"create">> \o Referring = MakingVirt
      /\ <<"append">> \o Storing = Adding
    <2>1. <<"create">> \o Adding = MakingDir
        <3>1. <<Head(MakingDir)>> \o Tail(MakingDir) = MakingDir
            BY HeadOn, Lists, ListFacts
        <3> QED BY <3>1, ListFacts
    <2>2. <<"create">> \o Referring = MakingVirt
        <3>1. <<Head(MakingVirt)>> \o Tail(MakingVirt) = MakingVirt
            BY HeadOn, Lists, ListFacts, ZenonT(30)
        <3> QED BY <3>1, ListFacts
    <2>3. <<"append">> \o Storing = Adding
        <3>1. <<Head(Adding)>> \o Tail(Adding) = Adding
            BY HeadOn, Lists, ListFacts
        <3> QED BY <3>1, ListFacts
    <2> QED BY <2>1, <2>2, <2>3
<1>5. /\ <<"first">> \o Done = Hearing /\ <<"update">> \o Done = Updating
      /\ <<"list">> \o Done = Listing /\ <<"counted">> \o Done = Counted
      /\ <<"addFile">> \o Done = AddingFile /\ <<"edit">> \o Done = Editing
    <2>1. <<"first">> \o Done = Hearing
        <3>1. <<Head(Hearing)>> \o Tail(Hearing) = Hearing
            BY HeadOn, Lists, ListFacts
        <3> QED BY <3>1, ListFacts
    <2>2. <<"update">> \o Done = Updating
        <3>1. <<Head(Updating)>> \o Tail(Updating) = Updating
            BY HeadOn, Lists, ListFacts
        <3> QED BY <3>1, ListFacts
    <2>3. <<"list">> \o Done = Listing
        <3>1. <<Head(Listing)>> \o Tail(Listing) = Listing
            BY HeadOn, Lists, ListFacts
        <3> QED BY <3>1, ListFacts
    <2>4. <<"counted">> \o Done = Counted
        <3>1. <<Head(Counted)>> \o Tail(Counted) = Counted
            BY HeadOn, Lists, ListFacts
        <3> QED BY <3>1, ListFacts
    <2>5. <<"addFile">> \o Done = AddingFile
        <3>1. <<Head(AddingFile)>> \o Tail(AddingFile) = AddingFile
            BY HeadOn, Lists, ListFacts
        <3> QED BY <3>1, ListFacts
    <2>6. <<"edit">> \o Done = Editing
        <3>1. <<Head(Editing)>> \o Tail(Editing) = Editing
            BY HeadOn, Lists, ListFacts
        <3> QED BY <3>1, ListFacts
    <2> QED BY <2>1, <2>2, <2>3, <2>4, <2>5, <2>6
<1>3. AddSteps \o Done = Adding
    <2>1. AddSteps \in Seq(Label) /\ Len(AddSteps) = 4
        BY DEF AddSteps, Label
    <2>2. Done \in Seq(Label) /\ Len(Done) = 1 /\ Adding \in Seq(Label) /\ Len(Adding) = 5
        BY Lists DEF Done, Adding
    <2>3. /\ AddSteps \o Done \in Seq(Label) /\ Len(AddSteps \o Done) = 5
          /\ \A m \in 1 .. 5 : (AddSteps \o Done)[m] = IF m <= 4 THEN AddSteps[m] ELSE Done[m - 4]
        <3> DEFINE a == AddSteps
                   b == Done
        <3>1. /\ a \in Seq(Label) /\ b \in Seq(Label) /\ Len(a) = 4 /\ Len(b) = 1
            BY <2>1, <2>2
        <3> HIDE DEF a, b
        <3>2. /\ a \o b \in Seq(Label) /\ Len(a \o b) = Len(a) + Len(b)
              /\ \A m \in 1 .. Len(a) + Len(b) : (a \o b)[m] = IF m <= Len(a) THEN a[m] ELSE b[m - Len(a)]
            BY <3>1, ConcatProperties
        <3>3. \A m \in 1 .. 5 : (a \o b)[m] = IF m <= 4 THEN a[m] ELSE b[m - 4]
            BY <3>1, <3>2
        <3> QED BY <3>1, <3>2, <3>3 DEF a, b
    <2>4. \A m \in 1 .. 5 : (IF m <= 4 THEN AddSteps[m] ELSE Done[m - 4]) = Adding[m]
        BY DEF AddSteps, Done, Adding
    <2> QED BY <2>2, <2>3, <2>4, SeqEqual, ZenonT(30)
<1>4. ASSUME NEW x \in {"throw", "type", "kids", "conts", "objects", "delete", "restart"}
      PROVE  <<x>> \o Done = <<x, "answer">>
    <2>1. x \in Label /\ "answer" \in Label
        BY DEF Label
    <2> DEFINE k == <<x, "answer">>
    <2>2. k \in Seq(Label) /\ k # <<>> /\ Head(k) = x /\ Tail(k) = Done
        BY <2>1 DEF Done
    <2> HIDE DEF k
    <2> QED BY HeadOn, <2>2 DEF k
<1> QED BY <1>2, <1>3, <1>4, <1>5

\* What is known when a list of steps has just been put together.
LEMMA CoreStarts ==
    ASSUME NEW o, NEW n, NEW w, NEW k, NEW x, NEW s, NEW r, Starts(k, x, s)
    PROVE  /\ x = "load" /\ LoadAt(o, w, s, r) => Point(o, n, w, k, r)
           /\ x = "ensure" /\ EnsureAt(o, w, s, r) => Point(o, n, w, k, r)
           /\ x = "append" /\ s = Storing /\ RefAt(o, r) => Point(o, n, w, k, r)
           /\ x = "kids" /\ s = Done /\ w = {} /\ ListOK(o, r) /\ r.kids \subseteq r.list =>
                  Point(o, n, w, k, r)
           /\ x = "conts" /\ s = Done /\ w = {} /\ ListOK(o, r) /\ r.conts \subseteq Conts(o) =>
                  Point(o, n, w, k, r)
<1>1. k = <<x>> \o s /\ k # <<>> /\ Head(k) = x /\ Tail(k) = s
    BY DEF Starts
<1>2. Core(o, w, k, r) => Point(o, n, w, k, r)
    BY DEF Point
<1>3. CASE x = "load"
    BY <1>1, <1>2, <1>3 DEF Core
<1>4. CASE x = "ensure"
    BY <1>1, <1>2, <1>4 DEF Core
<1>5. CASE x = "append"
    <2>1. s = Storing => k = Adding
        BY <1>1, <1>5, Cons
    <2> QED BY <1>1, <1>2, <1>5, <2>1 DEF Core
<1>6. CASE x = "kids"
    <2>1. s = Done => k = <<"kids", "answer">>
        BY <1>1, <1>6, Cons
    <2> QED BY <1>1, <1>2, <1>6, <2>1 DEF Core
<1>7. CASE x = "conts"
    <2>1. s = Done => k = <<"conts", "answer">>
        BY <1>1, <1>7, Cons
    <2> QED BY <1>1, <1>2, <1>7, <2>1 DEF Core
<1> QED BY <1>3, <1>4, <1>5, <1>6, <1>7

\* An exception: the call has no answer to give.
LEMMA ThrowKeeps ==
    ASSUME NEW t \in Thread, Holds(t), NEW x, At(t, x), Settled(x), Quiet, Throw(t),
           AnswerOK(All, [reg[t] EXCEPT !.res = NoObject, !.num = Unknown, !.list = {}])
    PROVE  Holds(t)'
<1> DEFINE r == [reg[t] EXCEPT !.res = NoObject, !.num = Unknown, !.list = {}]
<1>1. Moves(t, Done, r)
    BY DEF Throw, Moves, Set, Done
<1>2. Done \in Seq(Label) /\ Hd(Done) = "answer" /\ Hd(todo[t]) = x
    BY Lists, ListFacts, Left, SMTT(30) DEF Hd, Holds
<1>3. r \in WorkType
    <2>1. reg[t] \in WorkType /\ Unknown \in Int /\ {} \in SUBSET (ObjType \union Int)
        BY DEF Holds, TypeInv, Unknown
    <2>2. \A a \in WorkType, b \in ObjType, c \in Int, d \in SUBSET (ObjType \union Int) :
              [a EXCEPT !.res = b, !.num = c, !.list = d] \in WorkType
        BY ZenonT(60) DEF WorkType
    <2> QED BY <2>1, <2>2, NoObjectType
<1>4. Point(All, lastID, Waits, Done, r)
    BY ListFacts DEF Point, Core
<1> HIDE DEF r
<1> QED BY <1>1, <1>2, <1>3, <1>4, QuietKeeps DEF Unsettling

\* A call that was waiting for the object r.id goes on when it has it.
LEMMA LoadDone ==
    ASSUME NEW o, NEW w, NEW s, NEW r, LoadAt(o, w, s, r), NEW q,
           q.call = r.call, q.parent = r.parent, q.obj = r.obj, Right(o, q.res, r.id)
    PROVE  Core(o, w, s, q)
<1>1. CASE s = Done /\ r.call.op = "load" /\ r.id = r.call.id
    BY <1>1, ListFacts DEF Core, AnswerOK, Right
<1>2. CASE s = Done /\ Adds(r)
    BY <1>2, ListFacts DEF Core, AnswerOK, Adds
<1>3. CASE s = Deciding /\ Linking(o, r) /\ r.parent \in Conts(o) /\ r.id = r.call.id
    BY <1>3, ListFacts DEF Core, Linking
<1>4. CASE /\ s = Editing /\ r.call.op = "update" /\ r.id = r.call.id
           /\ r.call.id \notin {CDS_ID_ROOT, CDS_ID_FS_ROOT}
    BY <1>4, ListFacts DEF Core
<1>5. CASE s = Updating /\ w = {} /\ Changing(o, r) /\ r.parent = r.obj.parent
    BY <1>5, ListFacts DEF Core, UpdateAt, Changing
<1> QED BY <1>1, <1>2, <1>3, <1>4, <1>5 DEF LoadAt

LEMMA loadObjectKeeps ==
    ASSUME NEW t \in Thread, Holds(t), loadObject(t)
    PROVE  Holds(t)'
<1> DEFINE r == reg[t]
           s == Tail(todo[t])
           i == r.id
<1>1. At(t, "load") /\ Quiet
    BY DEF loadObject, Quiet, tableVars, bufferVars, cacheVars
<1>2. "load" \in CoreLabel
    BY DEF CoreLabel
<1>3. LoadAt(All, Waits, s, r) /\ SoundCache(All, Waits, idHash, locationHash)
    <2>1. Core(All, Waits, todo[t], r) /\ Hd(todo[t]) = "load"
        BY <1>1, <1>2, CoreAt
    <2>2. LoadAt(All, Waits, s, r)
        BY <2>1, CoreCases
    <2> QED BY <1>1, <1>2, <2>2, CoreAt
<1>4. Settled("load") /\ r \in WorkType
    BY <1>1, <1>2, CoreAt
<1>5. CASE KnowsObject(i)
    <2> DEFINE q == [r EXCEPT !.res = idHash[i].obj]
    <2>1. Set(t, q) /\ Then(t, <<>>)
        BY <1>5 DEF loadObject
    <2>2. Right(All, idHash[i].obj, i)
        BY <1>3, <1>5 DEF KnowsObject, Knows, SoundCache, SoundEntry, SoundObj
    <2>3. /\ q \in WorkType /\ q.call = r.call /\ q.parent = r.parent /\ q.obj = r.obj
          /\ q.res = idHash[i].obj
        BY <1>4, <2>2 DEF WorkType, Right
    <2> HIDE DEF q, s
    <2>4. Core(All, Waits, s, q)
        BY <1>3, <2>2, <2>3, LoadDone
    <2> QED BY <1>1, <1>4, <2>1, <2>3, <2>4, QuietNone DEF s
<1>6. CASE ~KnowsObject(i)
    <2>1. Set(t, r) /\ Then(t, <<"select">>)
        BY <1>6, SameRegisters DEF loadObject, Holds
    <2>2. i \notin Waits
        BY <1>3, <1>6 DEF SoundCache, Visible, KnowsObject, Knows
    <2> HIDE DEF s
    <2>3. \A k : Starts(k, "select", s) => Point(All, lastID, Waits, k, r)
        BY <1>3, <2>2 DEF Starts, Point
    <2>4. "select" \in Label /\ ~Unsettling("select")
        BY DEF Label, Unsettling
    <2> QED BY <1>1, <1>4, <2>1, <2>3, <2>4, QuietOne DEF s
<1> QED BY <1>5, <1>6

LEMMA selectObjectKeeps ==
    ASSUME NEW t \in Thread, Holds(t), selectObject(t)
    PROVE  Holds(t)'
<1> DEFINE r == reg[t]
           s == Tail(todo[t])
           i == r.id
<1>1. At(t, "select") /\ Quiet
    BY DEF selectObject, Quiet, tableVars, bufferVars, cacheVars
<1>2. Settled("select") /\ r \in WorkType
    BY <1>1, PointAt DEF Settled
<1>3. LoadAt(All, Waits, s, r) /\ i \notin Waits
    BY <1>1, PointAt, PointCases
<1>4. CASE i \in DOMAIN rows
    <2> DEFINE q == [r EXCEPT !.res = Object(rows, i)]
    <2>1. Set(t, q) /\ Then(t, <<"store">>)
        BY <1>4 DEF selectObject
    <2>2. Right(All, Object(rows, i), i)
        BY <1>4, RowsAreAll, ObjectIsRight DEF Holds, TypeInv
    <2>3. /\ q \in WorkType /\ q.call = r.call /\ q.parent = r.parent /\ q.obj = r.obj
          /\ q.res = Object(rows, i) /\ q.res.id = i
        BY <1>2, <2>2 DEF WorkType, Right
    <2> HIDE DEF q, s
    <2>4. Core(All, Waits, s, q)
        BY <1>3, <2>2, <2>3, LoadDone
    <2>5. \A k : Starts(k, "store", s) => Point(All, lastID, Waits, k, q)
        BY <2>2, <2>3, <2>4 DEF Starts, Point
    <2>6. "store" \in Label /\ ~Unsettling("store")
        BY DEF Label, Unsettling
    <2> QED BY <1>1, <1>2, <2>1, <2>3, <2>5, <2>6, QuietOne DEF s
<1>5. CASE i \notin DOMAIN rows
    <2>1. Throw(t)
        BY <1>5 DEF selectObject
    <2>2. i \notin DOMAIN All
        BY <1>3, <1>5, RowsAreAll DEF Holds
    <2>3. AnswerOK(All, [r EXCEPT !.res = NoObject, !.num = Unknown, !.list = {}])
        <3> DEFINE q == [r EXCEPT !.res = NoObject, !.num = Unknown, !.list = {}]
        <3>1. q.call = r.call /\ q.res = NoObject
            BY <1>2 DEF WorkType
        <3>2. \/ r.call.op = "load" /\ r.id = r.call.id
              \/ r.call.op \in {"import", "link", "update"}
            BY <1>3 DEF LoadAt, Adds, Linking, Changing
        <3> HIDE DEF q
        <3> QED BY <2>2, <3>1, <3>2 DEF AnswerOK, q
    <2> QED BY <1>1, <1>2, <2>1, <2>3, ThrowKeeps
<1> QED BY <1>4, <1>5

-----------------------------------------------------------------------------
(* Finding an object by its path, and the containers above it.             *)

\* x is what there is at the location at.
FoundAt(o, at, x) ==
    IF Located(o, at) THEN Right(o, x, x.id) /\ o[x.id].loc = at ELSE x = NoObject

\* Whether a container is looked for does not depend on what was found.
LEMMA EnsureSame ==
    ASSUME NEW o, NEW w, NEW s, NEW r, EnsureAt(o, w, s, r), NEW q,
           q.call = r.call, q.obj = r.obj, q.pend = r.pend, q.path = r.path
    PROVE  EnsureAt(o, w, s, q)
<1>1. \A g : Climbing(o, r, "D", Dirs, g) => Climbing(o, q, "D", Dirs, g)
    BY DEF Climbing, Waiting
<1>2. Importing(o, r) => Importing(o, q)
    BY DEF Importing
<1>3. Changing(o, r) => Changing(o, q)
    BY DEF Changing
<1> QED BY <1>1, <1>2, <1>3 DEF EnsureAt

\* A call that was looking for r.loc goes on when it has the object there.
LEMMA LookupDone ==
    ASSUME NEW o, NEW n \in Nat, NEW w, TableOK(o, n, w),
           NEW s, NEW r, LookupAt(o, w, s, r), NEW q,
           q.call = r.call, q.obj = r.obj, q.pend = r.pend, q.path = r.path, q.loc = r.loc,
           FoundAt(o, r.loc, q.res)
    PROVE  Core(o, w, s, q)
<1>1. q.res = NoObject <=> ~Located(o, r.loc)
    BY RightIsObject DEF FoundAt
<1>2. CASE s = Done /\ r.call.op = "find"
    BY <1>2, ListFacts DEF Core, AnswerOK, FoundAt
<1>3. CASE /\ s = AddingFile /\ r.call.op = "import" /\ r.call.path \in Files
           /\ r.loc = <<"F", r.call.path>> /\ r.pend = <<>>
    BY <1>1, <1>3, ListFacts DEF Core
<1>4. CASE /\ s # <<>> /\ Head(s) = "ensured" /\ EnsureAt(o, w, Tail(s), r)
           /\ r.path \in Dirs /\ r.loc = <<"D", r.path>>
    <2>1. EnsureAt(o, w, Tail(s), q)
        BY <1>4, EnsureSame
    <2>2. EnsuredAt(o, w, Tail(s), q)
        BY <1>4, <2>1 DEF EnsuredAt, FoundAt
    <2> QED BY <1>4, <2>2 DEF Core
<1> QED BY <1>2, <1>3, <1>4 DEF LookupAt

\* The locations that are looked for.
LEMMA LookupLocation ==
    ASSUME NEW o, NEW w, NEW s, NEW r, LookupAt(o, w, s, r)
    PROVE  \/ \E p \in Files : r.loc = <<"F", p>>
           \/ \E p \in Dirs : r.loc = <<"D", p>>
BY DEF LookupAt

\* What the cache has at a path is the file there.
LEMMA CachedAt ==
    ASSUME NEW o, NEW n \in Nat, NEW w, TableOK(o, n, w), NEW i, NEW x, Right(o, x, i),
           NEW at, (\E p \in Files : at = <<"F", p>>) \/ (\E p \in Dirs : at = <<"D", p>>)
    PROVE  /\ o[i].loc = at /\ o[i].kind = "file" => at = CacheLocation(x) /\ ~IsVirtual(x)
           /\ at = CacheLocation(Object(o, i)) /\ ~IsVirtual(x) => o[i].loc = at
<1> USE DEF Paths
<1>1. /\ i \in DOMAIN o /\ x.kind = o[i].kind /\ x.loc = Object(o, i).loc
      /\ CacheLocation(x) = CacheLocation(Object(o, i))
    BY RightIsObject DEF Right
<1>2. o[i].kind # "ref" => x.loc = o[i].loc[2]
    BY <1>1, PlainObject
<1>3. Placed(o, i)
    BY <1>1, RowFacts
<1>4. ASSUME o[i].loc = at, o[i].kind = "file"
      PROVE  at = CacheLocation(x) /\ ~IsVirtual(x)
    <2>1. PICK p \in Files : o[i].loc = <<"F", p>>
        BY <1>3, <1>4 DEF Placed
    <2> QED BY <1>1, <1>2, <1>4, <2>1 DEF CacheLocation, IsVirtual
<1>5. ASSUME at = CacheLocation(x), ~IsVirtual(x)
      PROVE  o[i].loc = at
    <2>1. PICK p \in Files : at = <<"F", p>>
        <3>1. at = <<"V", x.loc>> \/ at = <<"F", x.loc>>
            BY <1>5 DEF CacheLocation
        <3> QED BY <3>1
    <2>2. x.loc = p
        BY <1>5, <2>1 DEF CacheLocation
    <2>3. p # NoPath /\ p \notin Dirs
        BY PathsAssumption
    <2>4. x.kind \notin {"ref", "virt"}
        BY <1>5, <2>2, <2>3 DEF IsVirtual
    <2>5. o[i].loc[2] = p
        BY <1>1, <1>2, <2>2, <2>4
    <2>6. o[i].kind \in {"file", "dir"}
        BY <1>1, <2>4, RowFacts
    <2>7. CASE o[i].kind = "file"
        BY <1>3, <2>1, <2>5, <2>7 DEF Placed
    <2>8. CASE o[i].kind = "dir"
        <3>1. i # CDS_ID_FS_ROOT
            BY <2>3, <2>5 DEF TableOK, Roots, NoLocation
        <3>2. o[i].loc[2] \in Dirs
            BY <1>3, <2>8, <3>1 DEF Placed
        <3> QED BY <2>3, <2>5, <3>2
    <2> QED BY <2>6, <2>7, <2>8
<1> QED BY <1>1, <1>4, <1>5

LEMMA _findObjectByPathKeeps ==
    ASSUME NEW t \in Thread, Holds(t), _findObjectByPath(t)
    PROVE  Holds(t)'
<1> DEFINE r == reg[t]
           s == Tail(todo[t])
           known == IF r.loc \in DOMAIN locationHash THEN locationHash[r.loc] ELSE {}
           hits == {i \in known : KnowsObject(i) /\ ~IsVirtual(idHash[i].obj)}
<1>1. At(t, "lookup") /\ Quiet
    BY DEF _findObjectByPath, Quiet, tableVars, bufferVars, cacheVars
<1>2. "lookup" \in CoreLabel
    BY DEF CoreLabel
<1>3. Core(All, Waits, todo[t], r) /\ Hd(todo[t]) = "lookup"
    BY <1>1, <1>2, CoreAt
<1>4. LookupAt(All, Waits, s, r)
    BY <1>3, CoreCases
<1>5. /\ SoundCache(All, Waits, idHash, locationHash)
      /\ Settled("lookup") /\ r \in WorkType
    BY <1>1, <1>2, CoreAt
<1>6. (\E p \in Files : r.loc = <<"F", p>>) \/ (\E p \in Dirs : r.loc = <<"D", p>>)
    BY <1>4, LookupLocation
<1>7. lastID \in Nat /\ TableOK(All, lastID, Waits)
    BY DEF Holds, TypeInv
<1>8. CASE /\ hits = {} /\ Then(t, <<"search">>) /\ UNCHANGED reg
    <2>1. ASSUME NEW i \in Waits, All[i].loc = r.loc PROVE FALSE
        <3>1. i \in DOMAIN All /\ i \notin Conts(All) /\ Visible(idHash, locationHash, i)
            BY <1>5, <1>7 DEF TableOK, Ordered, SoundCache
        <3>2. Right(All, idHash[i].obj, i)
            BY <1>5, <3>1 DEF Visible, SoundCache, SoundEntry, SoundObj
        <3>3. All[i].kind = "file"
            BY <1>6, <1>7, <2>1, <3>1, KindOfLocation DEF Conts, ContainerKinds, Paths
        <3>4. r.loc = CacheLocation(idHash[i].obj) /\ ~IsVirtual(idHash[i].obj)
            BY <1>6, <1>7, <2>1, <3>2, <3>3, CachedAt
        <3>5. i \in hits
            BY <3>1, <3>4 DEF Visible, KnowsObject, Knows
        <3> QED BY <1>8, <3>5
    <2>2. Set(t, r)
        BY <1>8, SameRegisters DEF Holds
    <2> HIDE DEF s, hits
    <2>3. \A k : Starts(k, "search", s) => Point(All, lastID, Waits, k, r)
        BY <1>4, <2>1 DEF Starts, Point
    <2>4. "search" \in Label /\ ~Unsettling("search")
        BY DEF Label, Unsettling
    <2> QED BY <1>1, <1>5, <1>8, <2>2, <2>3, <2>4, QuietOne DEF s
<1>9. ASSUME NEW i \in hits, Set(t, [r EXCEPT !.res = idHash[i].obj]), Then(t, <<>>)
      PROVE  Holds(t)'
    <2> DEFINE q == [r EXCEPT !.res = idHash[i].obj]
    <2>1. /\ i \in DOMAIN idHash /\ idHash[i].obj # NoObject /\ ~IsVirtual(idHash[i].obj)
          /\ r.loc \in DOMAIN locationHash /\ i \in locationHash[r.loc]
        BY DEF KnowsObject, Knows
    <2>2. Right(All, idHash[i].obj, i) /\ r.loc = CacheLocation(Object(All, i))
        BY <1>5, <2>1 DEF SoundCache, SoundEntry, SoundObj, LocationsOK
    <2>3. All[i].loc = r.loc /\ i \in DOMAIN All
        BY <1>6, <1>7, <2>1, <2>2, CachedAt DEF Right
    <2>4. /\ q \in WorkType /\ q.res = idHash[i].obj /\ q.call = r.call /\ q.obj = r.obj
          /\ q.pend = r.pend /\ q.path = r.path /\ q.loc = r.loc
        BY <1>5, <2>2 DEF WorkType, Right
    <2> HIDE DEF q, s
    <2>5. FoundAt(All, r.loc, q.res)
        BY <2>2, <2>3, <2>4 DEF FoundAt, Located, Right
    <2>6. Core(All, Waits, s, q)
        BY <1>4, <1>7, <2>4, <2>5, LookupDone
    <2> QED BY <1>1, <1>5, <1>9, <2>4, <2>6, QuietNone DEF s, q
<1> QED BY <1>8, <1>9 DEF _findObjectByPath

LEMMA searchPathKeeps ==
    ASSUME NEW t \in Thread, Holds(t), searchPath(t)
    PROVE  Holds(t)'
<1> DEFINE r == reg[t]
           s == Tail(todo[t])
           found == {i \in DOMAIN rows : rows[i].loc = r.loc /\ rows[i].ref = NoRef}
<1>1. At(t, "search") /\ Quiet
    BY DEF searchPath, Quiet, tableVars, bufferVars, cacheVars
<1>2. Settled("search") /\ r \in WorkType
    BY <1>1, PointAt DEF Settled
<1>3. LookupAt(All, Waits, s, r) /\ \A i \in Waits : All[i].loc # r.loc
    BY <1>1, PointAt, PointCases
<1>4. (\E p \in Files : r.loc = <<"F", p>>) \/ (\E p \in Dirs : r.loc = <<"D", p>>)
    BY <1>3, LookupLocation
<1>5. lastID \in Nat /\ TableOK(All, lastID, Waits) /\ TypeInv
    BY DEF Holds, TypeInv
<1>6. CASE found = {} /\ Set(t, [r EXCEPT !.res = NoObject]) /\ Then(t, <<>>)
    <2> DEFINE q == [r EXCEPT !.res = NoObject]
    <2>1. ASSUME NEW i \in DOMAIN All, All[i].loc = r.loc PROVE FALSE
        <3>1. i \in DOMAIN rows /\ rows[i] = All[i]
            BY <1>3, <1>5, <2>1, RowsAreAll
        <3>2. All[i].kind # "ref"
            BY <1>4, <1>5, <2>1, KindOfLocation DEF Paths
        <3>3. All[i].ref = NoRef
            BY <1>5, <3>2, RowFacts DEF Placed
        <3> QED BY <1>6, <2>1, <3>1, <3>3
    <2>2. /\ q \in WorkType /\ q.res = NoObject /\ q.call = r.call /\ q.obj = r.obj
          /\ q.pend = r.pend /\ q.path = r.path /\ q.loc = r.loc
        BY <1>2, NoObjectType DEF WorkType
    <2> HIDE DEF q, s
    <2>3. FoundAt(All, r.loc, q.res)
        BY <2>1, <2>2 DEF FoundAt, Located
    <2>4. Core(All, Waits, s, q)
        BY <1>3, <1>5, <2>2, <2>3, LookupDone
    <2> QED BY <1>1, <1>2, <1>6, <2>2, <2>4, QuietNone DEF s, q
<1>7. ASSUME NEW i \in found, Set(t, [r EXCEPT !.res = Object(rows, i)]), Then(t, <<"store">>)
      PROVE  Holds(t)'
    <2> DEFINE q == [r EXCEPT !.res = Object(rows, i)]
    <2>1. i \in DOMAIN All /\ All[i].loc = r.loc /\ Object(rows, i) = Object(All, i)
        BY <1>5, RowsAreAll
    <2>2. Right(All, Object(rows, i), i)
        BY <1>5, <2>1, ObjectIsRight
    <2>3. /\ q \in WorkType /\ q.res = Object(rows, i) /\ q.call = r.call /\ q.obj = r.obj
          /\ q.pend = r.pend /\ q.path = r.path /\ q.loc = r.loc /\ q.res.id = i
        BY <1>2, <2>2 DEF WorkType, Right
    <2> HIDE DEF q, s
    <2>4. FoundAt(All, r.loc, q.res)
        BY <2>1, <2>2, <2>3 DEF FoundAt, Located
    <2>5. Core(All, Waits, s, q)
        BY <1>3, <1>5, <2>3, <2>4, LookupDone
    <2>6. \A k : Starts(k, "store", s) => Point(All, lastID, Waits, k, q)
        BY <2>2, <2>3, <2>5 DEF Starts, Point
    <2>7. "store" \in Label /\ ~Unsettling("store")
        BY DEF Label, Unsettling
    <2> QED BY <1>1, <1>2, <1>7, <2>3, <2>6, <2>7, QuietOne DEF s, q
<1> QED BY <1>6, <1>7 DEF searchPath

\* Going up from a path that has no container: it waits in front of the others,
\* and nobody meets it again.
LEMMA Climb ==
    ASSUME NEW o, NEW pre, NEW S \in {Dirs, Virtuals}, NEW g, NEW r, r.pend \in Seq(Paths),
           Climbing(o, r, pre, S, g), r.path \in S, ~Located(o, <<pre, r.path>>),
           NEW q, q.pend = <<r.path>> \o r.pend, q.path = Up[r.path]
    PROVE  Climbing(o, q, pre, S, g) /\ q.pend # <<>> /\ q.pend \in Seq(Paths)
<1> DEFINE a == r.pend
           p == r.path
           b == <<p>> \o a
           n == Len(a)
<1>1. p \in Paths /\ S \subseteq Paths /\ n \in Nat
    BY LenProperties DEF Paths
<1> HIDE DEF a, p
<1>2. /\ b \in Seq(Paths) /\ b # <<>> /\ Len(b) = n + 1 /\ b[1] = p
      /\ \A m \in 1 .. n : b[m + 1] = a[m]
    BY <1>1, Front DEF a
<1>3. /\ a # <<>> => a[n] = g
      /\ \A m \in 1 .. n : a[m] \in S /\ ~Located(o, <<pre, a[m]>>)
      /\ \A m, k \in 1 .. n : a[m] = a[k] => m = k
      /\ a = <<>> => p = g
      /\ a # <<>> => Up[a[1]] = p
      /\ \A m \in 2 .. n : Up[a[m]] = a[m - 1]
    BY DEF Climbing, Waiting, a, p
<1>4. a = <<>> <=> n = 0
    BY EmptySeq DEF a
<1>5. ASSUME NEW m \in 1 .. n PROVE a[m] # p
    <2> SUFFICES ASSUME a[m] = p PROVE FALSE
        OBVIOUS
    <2> DEFINE X == {a[j] : j \in 1 .. m}
    <2>1. X \subseteq Paths /\ X # {}
        <3>1. m \in 1 .. m /\ 1 .. m \subseteq 1 .. n
            BY <1>1
        <3>2. \A j \in 1 .. m : a[j] \in Paths
            BY <1>1, <1>3, <3>1
        <3>3. a[m] \in X
            BY <3>1
        <3> QED BY <3>2, <3>3
    <2>2. ASSUME NEW j \in 1 .. m PROVE Up[a[j]] \in X
        <3>1. CASE j = 1
            <4>1. Up[a[j]] = a[m] /\ m \in 1 .. m
                BY <1>1, <1>3, <1>4, <3>1
            <4> QED BY <4>1
        <3>2. CASE j # 1
            <4>1. j \in 2 .. n /\ j - 1 \in 1 .. m
                BY <1>1, <3>2
            <4> QED BY <1>3, <4>1
        <3> QED BY <3>1, <3>2
    <2>3. \A x \in X : Up[x] \in X
        BY <2>2
    <2> HIDE DEF X
    <2> QED BY <2>1, <2>3, PathsAssumption
<1> HIDE DEF b, n
<1>6. \A m \in 1 .. n + 1 : \/ m = 1 /\ b[m] = p
                            \/ m # 1 /\ m - 1 \in 1 .. n /\ b[m] = a[m - 1]
    <2> TAKE m \in 1 .. n + 1
    <2>1. CASE m = 1
        BY <1>2, <2>1
    <2>2. CASE m # 1
        <3>1. m - 1 \in 1 .. n /\ (m - 1) + 1 = m
            BY <1>1, <2>2
        <3>2. b[(m - 1) + 1] = a[m - 1]
            BY <1>2, <3>1
        <3> QED BY <2>2, <3>1, <3>2
    <2> QED BY <2>1, <2>2
<1>7. b[n + 1] = g
    <2>1. CASE n = 0
        BY <1>2, <1>3, <1>4, <2>1
    <2>2. CASE n # 0
        <3>1. n \in 1 .. n
            BY <1>1, <2>2
        <3> QED BY <1>2, <1>3, <1>4, <2>2, <3>1
    <2> QED BY <2>1, <2>2
<1>8. \A m \in 1 .. n + 1 : b[m] \in S /\ ~Located(o, <<pre, b[m]>>)
    <2>1. p \in S /\ ~Located(o, <<pre, p>>)
        BY DEF p
    <2> QED BY <1>3, <1>6, <2>1
<1>9. ASSUME NEW m \in 1 .. n + 1, NEW k \in 1 .. n + 1, b[m] = b[k] PROVE m = k
    <2>1. CASE m = 1 /\ k = 1
        BY <2>1
    <2>2. CASE m = 1 /\ k # 1
        BY <1>5, <1>6, <1>9, <2>2
    <2>3. CASE m # 1 /\ k = 1
        BY <1>5, <1>6, <1>9, <2>3
    <2>4. CASE m # 1 /\ k # 1
        <3>1. m - 1 = k - 1
            BY <1>3, <1>6, <1>9, <2>4
        <3> QED BY <3>1
    <2> QED BY <2>1, <2>2, <2>3, <2>4
<1>10. ASSUME NEW m \in 2 .. n + 1 PROVE Up[b[m]] = b[m - 1]
    <2>1. m \in 1 .. n + 1 /\ m # 1 /\ m - 1 \in 1 .. n + 1
        BY <1>1
    <2>2. b[m] = a[m - 1] /\ m - 1 \in 1 .. n
        BY <1>6, <2>1
    <2>3. CASE m = 2
        <3>1. a # <<>> /\ m - 1 = 1
            BY <1>1, <1>4, <2>2, <2>3
        <3> QED BY <1>2, <1>3, <2>2, <3>1
    <2>4. CASE m # 2
        <3>1. m - 1 \in 2 .. n /\ m - 1 # 1
            BY <1>1, <2>2, <2>4
        <3>2. Up[a[m - 1]] = a[(m - 1) - 1]
            BY <1>3, <3>1
        <3>3. b[m - 1] = a[(m - 1) - 1]
            BY <1>6, <2>1, <3>1
        <3> QED BY <2>2, <3>2, <3>3
    <2> QED BY <2>3, <2>4
<1>11. q.pend = b /\ Len(b) = n + 1
    BY <1>2 DEF b, a, p
<1>12. q.path \in S \union {Slash} /\ Up[b[1]] = q.path
    <2>1. Up[p] \in S \union {Slash}
        BY PathsAssumption DEF p
    <2> QED BY <1>2, <2>1 DEF p
<1>13. Waiting(o, q, pre, S, g)
    BY <1>7, <1>8, <1>9, <1>11 DEF Waiting
<1>14. Climbing(o, q, pre, S, g)
    BY <1>2, <1>10, <1>11, <1>12, <1>13 DEF Climbing
<1> QED BY <1>2, <1>11, <1>14

\* The directory above a file that is there.
LEMMA DirectoryAbove ==
    ASSUME NEW o, NEW n \in Nat, NEW w, TableOK(o, n, w), NEW r, Changing(o, r),
           r.obj.kind = "file"
    PROVE  /\ r.obj.loc \in Files /\ Up[r.obj.loc] \in Dirs \union {Slash}
           /\ DirectoryOf(o, r.obj.parent, Up[r.obj.loc])
<1> DEFINE i == r.call.id
<1>1. i \in DOMAIN o /\ o[i].kind = "file" /\ r.obj.parent = o[i].parent /\ r.obj.loc = o[i].loc[2]
    BY PlainObject DEF Changing
<1>2. PICK p \in Files : o[i].loc = <<"F", p>> /\ DirectoryOf(o, o[i].parent, Up[p])
    BY <1>1, RowFacts DEF Placed
<1>3. r.obj.loc = p
    BY <1>1, <1>2
<1> QED BY <1>1, <1>2, <1>3, PathsAssumption

\* Whose directory is the root of the files.
LEMMA RootDirectory ==
    ASSUME NEW o, NEW n, NEW w, TableOK(o, n, w), NEW c, DirectoryOf(o, c, Slash)
    PROVE  c = CDS_ID_FS_ROOT
<1> SUFFICES ASSUME c # CDS_ID_FS_ROOT PROVE FALSE
    OBVIOUS
<1>1. c \in DOMAIN o /\ o[c].loc = <<"D", Slash>> /\ o[c].kind \in ContainerKinds
    BY DEF DirectoryOf, Conts
<1>2. Placed(o, c)
    BY <1>1, RowFacts
<1>3. CASE c = CDS_ID_ROOT
    BY <1>1, <1>3 DEF TableOK, Roots, NoLocation
<1>4. CASE c # CDS_ID_ROOT
    BY <1>1, <1>2, <1>4, PathsAssumption DEF Placed, ContainerKinds, Paths
<1> QED BY <1>3, <1>4

LEMMA ensurePathExistenceKeeps ==
    ASSUME NEW t \in Thread, Holds(t), ensurePathExistence(t)
    PROVE  Holds(t)'
<1> DEFINE r == reg[t]
           s == Tail(todo[t])
           p == r.path
<1>1. At(t, "ensure") /\ Quiet
    BY DEF ensurePathExistence, Quiet, tableVars, bufferVars, cacheVars
<1>2. "ensure" \in CoreLabel
    BY DEF CoreLabel
<1>3. Core(All, Waits, todo[t], r) /\ Hd(todo[t]) = "ensure"
    BY <1>1, <1>2, CoreAt
<1>4. EnsureAt(All, Waits, s, r)
    BY <1>3, CoreCases
<1>5. Settled("ensure") /\ r \in WorkType
    BY <1>1, <1>2, CoreAt
<1>6. lastID \in Nat /\ TableOK(All, lastID, Waits)
    BY DEF Holds, TypeInv
<1>7. CASE p = Slash
    <2> DEFINE q == [r EXCEPT !.parent = CDS_ID_FS_ROOT]
    <2>1. Set(t, q) /\ Then(t, <<>>)
        BY <1>7 DEF ensurePathExistence
    <2>2. /\ q \in WorkType /\ q.parent = CDS_ID_FS_ROOT /\ q.call = r.call /\ q.obj = r.obj
          /\ q.pend = r.pend
        BY <1>5 DEF WorkType, CDS_ID_FS_ROOT
    <2> HIDE DEF q, s
    <2>3. CDS_ID_FS_ROOT \in Conts(All)
        BY <1>6 DEF TableOK, Roots, Conts, ContainerKinds
    <2>4. CASE /\ s = IF r.pend = <<>> THEN Adding ELSE MakingDir
               /\ Importing(All, r) /\ Climbing(All, r, "D", Dirs, Up[r.call.path])
        <3>1. ChainAt(All, CDS_ID_FS_ROOT, s, r)
            BY <1>7, <2>3, <2>4 DEF ChainAt, Climbing, DirectoryOf
        <3>2. ChainAt(All, CDS_ID_FS_ROOT, s, q)
            BY <2>2, <3>1, ChainSame
        <3>3. ChainAt(All, q.parent, s, q) /\ s # <<>>
            BY <2>2, <3>2, ChainHead
        <3>4. Core(All, Waits, s, q)
            BY <3>3 DEF Core
        <3> QED BY <1>1, <1>5, <2>1, <2>2, <3>4, QuietNone DEF s
    <2>5. CASE /\ s = Updating /\ Waits = {} /\ Changing(All, r)
               /\ r.obj.kind = "file" /\ r.path = Up[r.obj.loc]
        <3>1. r.obj.parent = CDS_ID_FS_ROOT
            BY <1>6, <1>7, <2>5, DirectoryAbove, RootDirectory
        <3>2. UpdateAt(All, Waits, q)
            BY <2>2, <2>5, <3>1 DEF UpdateAt, Changing
        <3>3. Core(All, Waits, s, q)
            BY <2>5, <3>2, ListFacts DEF Core
        <3> QED BY <1>1, <1>5, <2>1, <2>2, <3>3, QuietNone DEF s
    <2> QED BY <1>4, <2>4, <2>5 DEF EnsureAt
<1>8. CASE p # Slash
    <2> DEFINE q == [r EXCEPT !.loc = <<"D", p>>]
    <2>1. Set(t, q) /\ Then(t, <<"lookup", "ensured">>)
        BY <1>8 DEF ensurePathExistence
    <2>2. p \in Dirs
        BY <1>4, <1>6, <1>8, DirectoryAbove DEF EnsureAt, Climbing
    <2>3. <<"D", p>> \in Location
        BY <2>2 DEF Location, AnyPath, Paths
    <2>4. /\ q \in WorkType /\ q.loc = <<"D", p>> /\ q.call = r.call /\ q.obj = r.obj
          /\ q.pend = r.pend /\ q.path = p
        BY <1>5, <2>3 DEF WorkType
    <2> HIDE DEF q, s
    <2>5. EnsureAt(All, Waits, s, q)
        BY <1>4, <2>4, EnsureSame
    <2>6. ASSUME NEW k, NEW m, Starts(k, "lookup", m), Starts(m, "ensured", s)
          PROVE  Point(All, lastID, Waits, k, q)
        <3>1. LookupAt(All, Waits, m, q)
            BY <2>2, <2>4, <2>5, <2>6 DEF LookupAt, Starts
        <3> QED BY <2>6, <3>1 DEF Point, Core, Starts
    <2>7. "lookup" \in Label /\ "ensured" \in Label /\ ~Unsettling("lookup")
        BY DEF Label, Unsettling
    <2> QED BY <1>1, <1>5, <2>1, <2>4, <2>6, <2>7, QuietTwo DEF s
<1> QED BY <1>7, <1>8

\* The path r.path has no container: it waits, and the one above is looked for.
LEMMA AboveKeeps ==
    ASSUME NEW t \in Thread, Holds(t), NEW x \in {"ensure", "chain"}, NEW y, At(t, y), Settled(y),
           Quiet, Above(t, x), NEW s, s = IF x = "ensure" THEN Adding ELSE Referring,
           Tail(todo[t]) = IF reg[t].pend = <<>> THEN s ELSE <<"create">> \o s,
           \A q \in WorkType :
               /\ q.call = reg[t].call /\ q.obj = reg[t].obj
               /\ q.pend = <<reg[t].path>> \o reg[t].pend /\ q.path = Up[reg[t].path]
               => \A k : Starts(k, x, <<"create">> \o s) => Core(All, Waits, k, q),
           reg[t].path \in Paths
    PROVE  Holds(t)'
<1> DEFINE r == reg[t]
           q == [r EXCEPT !.pend = <<r.path>> \o r.pend, !.path = Up[r.path]]
           m == <<"create">> \o s
           steps == IF r.pend = <<>> THEN <<x, "create">> ELSE <<x>>
<1>1. Set(t, q) /\ Then(t, steps)
    BY DEF Above
<1>2. r \in WorkType /\ Tail(todo[t]) \in Seq(Label)
    BY Left DEF Holds
<1>3. s \in Seq(Label) /\ x \in Label /\ "create" \in Label /\ ~Unsettling(x)
    BY Lists DEF Label, Unsettling
<1>4. m \in Seq(Label)
    BY <1>3, PushOne
<1>5. steps \o Tail(todo[t]) = <<x>> \o m
    <2>1. CASE r.pend = <<>>
        BY <1>3, <2>1, Push
    <2>2. CASE r.pend # <<>>
        BY <2>2
    <2> QED BY <2>1, <2>2
<1>6. /\ q \in WorkType /\ q.call = r.call /\ q.obj = r.obj
      /\ q.pend = <<r.path>> \o r.pend /\ q.path = Up[r.path]
    <2>1. r.pend \in Seq(Paths)
        BY <1>2 DEF WorkType
    <2>2. <<r.path>> \o r.pend \in Seq(Paths)
        BY <2>1, Front
    <2>3. Up[r.path] \in AnyPath
        BY StoreAssumption DEF AnyPath, Paths
    <2> HIDE DEF r
    <2> DEFINE b == <<r.path>> \o r.pend
               c == Up[r.path]
    <2>5. q = [r EXCEPT !.pend = b, !.path = c] /\ b \in Seq(Paths) /\ c \in AnyPath
        BY <2>2, <2>3
    <2> HIDE DEF b, c, q
    <2>6. /\ q \in WorkType /\ q.call = r.call /\ q.obj = r.obj
          /\ q.pend = b /\ q.path = c
        BY <1>2, <2>5 DEF WorkType
    <2> QED BY <2>6 DEF b, c
<1> HIDE DEF q, m, steps
<1>7. \A k : Starts(k, x, m) => Point(All, lastID, Waits, k, q)
    BY <1>6 DEF Point, m
<1> QED BY <1>1, <1>3, <1>4, <1>5, <1>6, <1>7, QuietTo

LEMMA _ensurePathExistenceKeeps ==
    ASSUME NEW t \in Thread, Holds(t), _ensurePathExistence(t)
    PROVE  Holds(t)'
<1> DEFINE r == reg[t]
           s == Tail(todo[t])
           p == r.path
<1>1. At(t, "ensured") /\ Quiet
    BY DEF _ensurePathExistence, Quiet, tableVars, bufferVars, cacheVars
<1>2. "ensured" \in CoreLabel
    BY DEF CoreLabel
<1>3. Core(All, Waits, todo[t], r) /\ Hd(todo[t]) = "ensured"
    BY <1>1, <1>2, CoreAt
<1>4. EnsuredAt(All, Waits, s, r)
    BY <1>3, CoreCases
<1>5. /\ EnsureAt(All, Waits, s, r) /\ p \in Dirs /\ p \in Paths /\ p # Slash
      /\ FoundAt(All, <<"D", p>>, r.res)
    BY <1>4, PathsAssumption DEF EnsuredAt, FoundAt, Paths
<1>6. Settled("ensured") /\ r \in WorkType
    BY <1>1, <1>2, CoreAt
<1>7. lastID \in Nat /\ TableOK(All, lastID, Waits)
    BY DEF Holds, TypeInv
<1>8. r.res = NoObject <=> ~Located(All, <<"D", p>>)
    BY <1>5, <1>7, RightIsObject DEF FoundAt
<1>9. ASSUME s = Updating, Waits = {}, Changing(All, r), r.obj.kind = "file", p = Up[r.obj.loc]
      PROVE  /\ All[r.obj.parent].loc = <<"D", p>> /\ r.obj.parent \in DOMAIN All
             /\ Located(All, <<"D", p>>)
    <2>1. DirectoryOf(All, r.obj.parent, p)
        BY <1>7, <1>9, DirectoryAbove
    <2> QED BY <1>5, <2>1 DEF DirectoryOf, Conts, Located
<1>10. CASE r.res # NoObject
    <2> DEFINE c == r.res.id
               q == [r EXCEPT !.parent = c]
    <2>1. Set(t, q) /\ Then(t, <<>>)
        BY <1>10 DEF _ensurePathExistence
    <2>2. c \in DOMAIN All /\ All[c].loc = <<"D", p>>
        BY <1>5, <1>8, <1>10 DEF FoundAt, Right
    <2>3. DirectoryOf(All, c, p) /\ c \in Conts(All)
        <3>1. All[c].kind = "dir"
            BY <1>5, <1>7, <2>2, KindOfLocation
        <3> QED BY <2>2, <3>1 DEF DirectoryOf, Conts, ContainerKinds
    <2>4. /\ q \in WorkType /\ q.parent = c /\ q.call = r.call /\ q.obj = r.obj
          /\ q.pend = r.pend
        BY <1>6 DEF WorkType, ObjType
    <2> HIDE DEF q, s, c
    <2>5. CASE /\ s = IF r.pend = <<>> THEN Adding ELSE MakingDir
               /\ Importing(All, r) /\ Climbing(All, r, "D", Dirs, Up[r.call.path])
        <3>1. ChainAt(All, c, s, r)
            BY <2>3, <2>5 DEF ChainAt, Climbing
        <3>2. ChainAt(All, c, s, q)
            BY <2>4, <3>1, ChainSame
        <3>3. ChainAt(All, q.parent, s, q) /\ s # <<>>
            BY <2>4, <3>2, ChainHead
        <3>4. Core(All, Waits, s, q)
            BY <3>3 DEF Core
        <3> QED BY <1>1, <1>6, <2>1, <2>4, <3>4, QuietNone DEF s
    <2>6. CASE /\ s = Updating /\ Waits = {} /\ Changing(All, r)
               /\ r.obj.kind = "file" /\ r.path = Up[r.obj.loc]
        <3>1. r.obj.parent = c
            BY <1>5, <1>7, <1>9, <2>2, <2>6, OneObjectAt DEF s
        <3>2. UpdateAt(All, Waits, q)
            BY <2>4, <2>6, <3>1 DEF UpdateAt, Changing
        <3>3. Core(All, Waits, s, q)
            BY <2>6, <3>2, ListFacts DEF Core
        <3> QED BY <1>1, <1>6, <2>1, <2>4, <3>3, QuietNone DEF s
    <2> QED BY <1>5, <2>5, <2>6 DEF EnsureAt
<1>11. CASE r.res = NoObject
    <2>1. Above(t, "ensure")
        BY <1>11 DEF _ensurePathExistence
    <2>2. /\ s = IF r.pend = <<>> THEN Adding ELSE MakingDir
          /\ Importing(All, r) /\ Climbing(All, r, "D", Dirs, Up[r.call.path])
        BY <1>5, <1>8, <1>9, <1>11 DEF EnsureAt
    <2>3. ASSUME NEW q \in WorkType, q.call = r.call, q.obj = r.obj,
                 q.pend = <<p>> \o r.pend, q.path = Up[p],
                 NEW k, Starts(k, "ensure", MakingDir)
          PROVE  Core(All, Waits, k, q)
        <3>1. r.pend \in Seq(Paths) /\ ~Located(All, <<"D", p>>)
            BY <1>6, <1>8, <1>11 DEF WorkType
        <3>2. Climbing(All, q, "D", Dirs, Up[q.call.path]) /\ q.pend # <<>>
            BY <1>5, <2>2, <2>3, <3>1, Climb
        <3>3. Importing(All, q)
            BY <2>2, <2>3 DEF Importing
        <3>4. EnsureAt(All, Waits, MakingDir, q)
            BY <3>2, <3>3 DEF EnsureAt
        <3> QED BY <2>3, <3>4 DEF Core, Starts
    <2>4. <<"create">> \o Adding = MakingDir
        BY Cons
    <2>5. \A q \in WorkType :
               /\ q.call = r.call /\ q.obj = r.obj
               /\ q.pend = <<r.path>> \o r.pend /\ q.path = Up[r.path]
               => \A k : Starts(k, "ensure", <<"create">> \o Adding) => Core(All, Waits, k, q)
        BY <2>3, <2>4
    <2>6. Tail(todo[t]) = IF r.pend = <<>> THEN Adding ELSE <<"create">> \o Adding
        BY <2>2, <2>4
    <2> HIDE DEF s
    <2> QED BY <1>1, <1>5, <1>6, <2>1, <2>5, <2>6, AboveKeeps
<1> QED BY <1>10, <1>11

LEMMA addContainerChainKeeps ==
    ASSUME NEW t \in Thread, Holds(t), addContainerChain(t)
    PROVE  Holds(t)'
<1> DEFINE r == reg[t]
           s == Tail(todo[t])
           p == r.path
           found == {i \in DOMAIN rows : rows[i].loc = <<"V", p>>}
<1>1. At(t, "chain") /\ Quiet
    BY DEF addContainerChain, Quiet, tableVars, bufferVars, cacheVars
<1>2. "chain" \in CoreLabel
    BY DEF CoreLabel
<1>3. Core(All, Waits, todo[t], r) /\ Hd(todo[t]) = "chain"
    BY <1>1, <1>2, CoreAt
<1>4. /\ s = IF r.pend = <<>> THEN Referring ELSE MakingVirt
      /\ Linking(All, r) /\ Climbing(All, r, "V", Virtuals, r.call.path)
    <2> HIDE DEF r, s
    <2> QED BY <1>3, CoreChain DEF s
<1>5. Settled("chain") /\ r \in WorkType
    BY <1>1, <1>2, CoreAt
<1>6. lastID \in Nat /\ TableOK(All, lastID, Waits) /\ TypeInv
    BY DEF Holds, TypeInv
<1>7. ASSUME NEW c \in Conts(All), Set(t, [r EXCEPT !.parent = c]), Then(t, <<>>)
      PROVE  Holds(t)'
    <2> DEFINE q == [r EXCEPT !.parent = c]
    <2>1. c \in Int
        BY <1>6 DEF Conts, TableOK
    <2>2. /\ q \in WorkType /\ q.parent = c /\ q.call = r.call /\ q.obj = r.obj
          /\ q.pend = r.pend
        BY <1>5, <2>1 DEF WorkType
    <2> HIDE DEF q, s
    <2>3. ChainAt(All, c, s, r)
        BY <1>4 DEF ChainAt, Climbing
    <2>4. ChainAt(All, c, s, q)
        BY <2>2, <2>3, ChainSame
    <2>5. ChainAt(All, q.parent, s, q) /\ s # <<>>
        BY <2>2, <2>4, ChainHead
    <2>6. Core(All, Waits, s, q)
        BY <2>5 DEF Core
    <2> QED BY <1>1, <1>5, <1>7, <2>2, <2>6, QuietNone DEF s, q
<1>8. CASE p = Slash /\ Set(t, [r EXCEPT !.parent = CDS_ID_ROOT]) /\ Then(t, <<>>)
    <2>1. CDS_ID_ROOT \in Conts(All)
        BY <1>6 DEF TableOK, Roots, Conts, ContainerKinds
    <2> QED BY <1>7, <1>8, <2>1
<1>9. ASSUME NEW i \in found, Set(t, [r EXCEPT !.parent = i]), Then(t, <<>>)
      PROVE  Holds(t)'
    <2>1. i \in DOMAIN All /\ All[i].loc = <<"V", p>>
        BY <1>6, RowsAreAll
    <2>2. i \in Conts(All)
        <3>1. p \in Virtuals \/ p = Slash
            BY <1>4 DEF Climbing
        <3>2. CASE p \in Virtuals
            BY <1>6, <2>1, <3>2, KindOfLocation DEF Paths, Conts, ContainerKinds
        <3>3. CASE p = Slash
            <4>1. Placed(All, i) /\ All[i].kind \in {"file", "ref", "dir", "virt"}
                BY <1>6, <2>1, RowFacts
            <4>2. i # CDS_ID_ROOT /\ i # CDS_ID_FS_ROOT
                BY <1>6, <2>1 DEF TableOK, Roots, NoLocation
            <4> QED BY <2>1, <4>1, <4>2 DEF Placed, NoLocation, Conts, ContainerKinds
        <3> QED BY <3>1, <3>2, <3>3
    <2> QED BY <1>7, <1>9, <2>2
<1>10. CASE p # Slash /\ found = {} /\ Above(t, "chain")
    <2>1. p \in Virtuals /\ p \in Paths
        BY <1>4, <1>10 DEF Climbing, Paths
    <2>2. ~Located(All, <<"V", p>>)
        <3> SUFFICES ASSUME NEW i \in DOMAIN All, All[i].loc = <<"V", p>> PROVE FALSE
            BY DEF Located
        <3>1. i \in Conts(All)
            BY <1>6, <2>1, KindOfLocation DEF Conts, ContainerKinds
        <3>2. i \notin Waits
            BY <1>6, <3>1 DEF TableOK, Ordered
        <3> QED BY <1>6, <1>10, <3>2, RowsAreAll
    <2>3. ASSUME NEW q \in WorkType, q.call = r.call, q.obj = r.obj,
                 q.pend = <<p>> \o r.pend, q.path = Up[p],
                 NEW k, Starts(k, "chain", MakingVirt)
          PROVE  Core(All, Waits, k, q)
        <3>1. r.pend \in Seq(Paths)
            BY <1>5 DEF WorkType
        <3>2. Climbing(All, q, "V", Virtuals, q.call.path) /\ q.pend # <<>>
            BY <1>4, <2>1, <2>2, <2>3, <3>1, Climb
        <3>3. Linking(All, q)
            BY <1>4, <2>3 DEF Linking
        <3> QED BY <2>3, <3>2, <3>3 DEF Core, Starts
    <2>4. <<"create">> \o Referring = MakingVirt
        BY Cons
    <2>5. \A q \in WorkType :
               /\ q.call = r.call /\ q.obj = r.obj
               /\ q.pend = <<r.path>> \o r.pend /\ q.path = Up[r.path]
               => \A k : Starts(k, "chain", <<"create">> \o Referring) => Core(All, Waits, k, q)
        BY <2>3, <2>4
    <2>6. Tail(todo[t]) = IF r.pend = <<>> THEN Referring ELSE <<"create">> \o Referring
        BY <1>4, <2>4
    <2> HIDE DEF s
    <2> QED BY <1>1, <1>5, <1>10, <2>1, <2>5, <2>6, AboveKeeps
<1> QED BY <1>8, <1>9, <1>10 DEF addContainerChain

-----------------------------------------------------------------------------
(* Counting and listing.                                                   *)

\* The list of a browse does not depend on the other registers.
LEMMA ListSame ==
    ASSUME NEW o, NEW r, ListOK(o, r), NEW q,
           q.call = r.call, q.list = r.list, q.total = r.total, q.counts = r.counts
    PROVE  ListOK(o, q)
BY DEF ListOK, CountsOK

\* A call that was waiting for the number of children of r.id goes on when it
\* has it.
LEMMA CountDone ==
    ASSUME NEW o, NEW w, NEW s, NEW r, CountAt(o, w, s, r), NEW q,
           q.call = r.call, q.id = r.id, q.type = r.type, q.list = r.list, q.total = r.total,
           q.counts = r.counts, q.conts = r.conts, NumRight(o, q)
    PROVE  Core(o, w, s, q)
<1>1. CASE s = Done /\ r.call.op = "count" /\ r.id = r.call.id
    BY <1>1, ListFacts DEF Core, AnswerOK, NumRight
<1>2. CASE s = Hearing /\ Adds(r)
    BY <1>2, ListFacts DEF Core, Adds
<1>3. CASE s = Listing /\ w = {} /\ Browsing(r) /\ r.type = "container"
    <2>1. r.id \in DOMAIN o /\ TypeOf(o[r.id]) = "container"
        BY DEF CountAt, Conts, ContainerKinds, TypeOf, IsContainer
    <2>2. ListAt(o, w, q)
        BY <1>3, <2>1 DEF ListAt, Browsing
    <2> QED BY <1>3, <2>2, ListFacts DEF Core
<1>4. CASE s = Counted /\ w = {} /\ ListOK(o, r) /\ r.conts \subseteq Conts(o)
    <2>1. ListOK(o, q)
        BY <1>4, ListSame
    <2> QED BY <1>4, <2>1, ListFacts DEF Core
<1> QED BY <1>1, <1>2, <1>3, <1>4 DEF CountAt

LEMMA getChildCountKeeps ==
    ASSUME NEW t \in Thread, Holds(t), getChildCount(t)
    PROVE  Holds(t)'
<1> DEFINE r == reg[t]
           s == Tail(todo[t])
           c == r.id
<1>1. At(t, "childCount") /\ Quiet
    BY DEF getChildCount, Quiet, tableVars, bufferVars, cacheVars
<1>2. "childCount" \in CoreLabel
    BY DEF CoreLabel
<1>3. Core(All, Waits, todo[t], r) /\ Hd(todo[t]) = "childCount"
    BY <1>1, <1>2, CoreAt
<1>4. CountAt(All, Waits, s, r)
    BY <1>3, CoreCases
<1>5. /\ SoundCache(All, Waits, idHash, locationHash)
      /\ Settled("childCount") /\ r \in WorkType
    BY <1>1, <1>2, CoreAt
<1>6. CASE KnowsNumChildren(c)
    <2> DEFINE q == [r EXCEPT !.num = idHash[c].num]
    <2>1. Set(t, q) /\ Then(t, <<>>)
        BY <1>6 DEF getChildCount
    <2>2. c \in DOMAIN idHash /\ idHash[c].num # Unknown /\ idHash[c].num \in Int
        BY <1>6 DEF KnowsNumChildren, Knows, Holds, TypeInv, EntryType
    <2>3. idHash[c].num = Cardinality(ChildrenOf(All, c))
        BY <1>5, <2>2 DEF SoundCache, SoundEntry, SoundNum
    <2>4. /\ q \in WorkType /\ q.num = idHash[c].num
          /\ q.call = r.call /\ q.id = r.id /\ q.type = r.type /\ q.list = r.list
          /\ q.total = r.total /\ q.counts = r.counts /\ q.conts = r.conts
        BY <1>5, <2>2 DEF WorkType
    <2> HIDE DEF q, s
    <2>5. NumRight(All, q)
        BY <2>3, <2>4 DEF NumRight
    <2>6. Core(All, Waits, s, q)
        BY <1>4, <2>4, <2>5, CountDone
    <2> QED BY <1>1, <1>5, <2>1, <2>4, <2>6, QuietNone DEF s
<1>7. CASE ~KnowsNumChildren(c)
    <2>1. Set(t, r) /\ Then(t, <<"flush", "countRows">>)
        BY <1>7, SameRegisters DEF getChildCount, Holds
    <2> HIDE DEF s
    <2>2. CountAt(All, {}, s, r)
        BY <1>4, CountWithout
    <2>3. ASSUME NEW k, NEW m, Starts(k, "flush", m), Starts(m, "countRows", s)
          PROVE  Point(All, lastID, Waits, k, r)
        BY <2>2, <2>3 DEF Point, AfterFlush, Starts
    <2>4. "flush" \in Label /\ "countRows" \in Label /\ ~Unsettling("flush")
        BY DEF Label, Unsettling
    <2> QED BY <1>1, <1>5, <2>1, <2>3, <2>4, QuietTwo DEF s
<1> QED BY <1>6, <1>7

LEMMA countRowsKeeps ==
    ASSUME NEW t \in Thread, Holds(t), countRows(t)
    PROVE  Holds(t)'
<1> DEFINE r == reg[t]
           s == Tail(todo[t])
           v == Cardinality(ChildrenOf(rows, r.id))
           q == [r EXCEPT !.num = v]
<1>1. At(t, "countRows") /\ Quiet /\ Set(t, q) /\ Then(t, <<"storeCount">>)
    BY DEF countRows, Quiet, tableVars, bufferVars, cacheVars
<1>2. Settled("countRows") /\ r \in WorkType
    BY <1>1, PointAt DEF Settled
<1>3. CountAt(All, Waits, s, r) /\ Waits = {}
    BY <1>1, PointAt, PointCases
<1>4. v = Cardinality(ChildrenOf(All, r.id)) /\ v \in Int
    <2>1. ChildrenOf(rows, r.id) = ChildrenOf(All, r.id)
        BY <1>3, RowsAreAll DEF ChildrenOf, Holds
    <2> QED BY <2>1, FiniteChildren DEF Holds, TypeInv
<1>5. /\ q \in WorkType /\ q.num = v
      /\ q.call = r.call /\ q.id = r.id /\ q.type = r.type /\ q.list = r.list
      /\ q.total = r.total /\ q.counts = r.counts /\ q.conts = r.conts
    <2> HIDE DEF v
    <2> QED BY <1>2, <1>4 DEF WorkType
<1> HIDE DEF q, s
<1>6. NumRight(All, q)
    BY <1>4, <1>5 DEF NumRight
<1> HIDE DEF v
<1>7. Core(All, Waits, s, q)
    BY <1>3, <1>5, <1>6, CountDone
<1>8. \A k : Starts(k, "storeCount", s) => Point(All, lastID, Waits, k, q)
    BY <1>6, <1>7 DEF Starts, Point
<1>9. "storeCount" \in Label /\ ~Unsettling("storeCount")
    BY DEF Label, Unsettling
<1> QED BY <1>1, <1>2, <1>5, <1>8, <1>9, QuietOne DEF s

\* What follows when the type of the browsed object is known.
LEMMA TypeDone ==
    ASSUME NEW o, NEW n, NEW w, TableOK(o, n, w), w = {}, NEW q, Browsing(q),
           q.id \in DOMAIN o, q.type = TypeOf(o[q.id])
    PROVE  /\ ListOf(q.type) \o Done \in Seq(Label)
           /\ Core(o, w, ListOf(q.type) \o Done, q)
<1>1. "list" \in Label /\ "childCount" \in Label /\ Done \in Seq(Label) /\ Listing \in Seq(Label)
    BY Lists DEF Label
<1>2. CASE q.type = "container"
    <2>1. ListOf(q.type) \o Done = <<"childCount">> \o Listing
        BY <1>1, <1>2, Push, Cons DEF ListOf
    <2>2. LET k == <<"childCount">> \o Listing
          IN  k \in Seq(Label) /\ k # <<>> /\ Head(k) = "childCount" /\ Tail(k) = Listing
        BY <1>1, PushOne
    <2>3. q.id \in Conts(o)
        BY <1>2 DEF Conts, ContainerKinds, TypeOf, IsContainer
    <2>4. CountAt(o, w, Listing, q)
        BY <1>2, <2>3 DEF CountAt
    <2> QED BY <2>1, <2>2, <2>4 DEF Core
<1>3. CASE q.type # "container"
    <2>1. ListOf(q.type) \o Done = Listing
        BY <1>3, Cons DEF ListOf
    <2>2. q.id \notin Conts(o)
        BY <1>3 DEF Conts, ContainerKinds, TypeOf, IsContainer
    <2>3. ListAt(o, w, q)
        BY <2>2 DEF ListAt
    <2> QED BY <1>1, <2>1, <2>3, ListFacts DEF Core
<1> QED BY <1>2, <1>3

LEMMA browseTypeKeeps ==
    ASSUME NEW t \in Thread, Holds(t), browseType(t)
    PROVE  Holds(t)'
<1> DEFINE r == reg[t]
           s == Tail(todo[t])
           i == r.id
<1>1. At(t, "type") /\ Quiet
    BY DEF browseType, Quiet, tableVars, bufferVars, cacheVars
<1>2. "type" \in CoreLabel
    BY DEF CoreLabel
<1>3. Core(All, Waits, todo[t], r) /\ Hd(todo[t]) = "type"
    BY <1>1, <1>2, CoreAt
<1>4. s = Done /\ Waits = {} /\ Browsing(r)
    BY <1>3, CoreListing
<1>5. /\ SoundCache(All, Waits, idHash, locationHash)
      /\ Settled("type") /\ r \in WorkType
    BY <1>1, <1>2, CoreAt
<1>6. CASE KnowsObjectType(i)
    <2> DEFINE q == [r EXCEPT !.type = idHash[i].type]
               k == ListOf(q.type) \o Done
    <2>1. Set(t, q) /\ Then(t, ListOf(idHash[i].type))
        BY <1>6 DEF browseType
    <2>2. i \in DOMAIN idHash /\ idHash[i].type # "?" /\ idHash[i].type \in AnyType
        BY <1>6 DEF KnowsObjectType, Knows, Holds, TypeInv, EntryType
    <2>3. i \in DOMAIN All /\ idHash[i].type = TypeOf(All[i])
        BY <1>5, <2>2 DEF SoundCache, SoundEntry, SoundType
    <2>4. /\ q \in WorkType /\ q.type = idHash[i].type
          /\ q.call = r.call /\ q.id = i /\ q.counts = r.counts
        BY <1>5, <2>2 DEF WorkType
    <2> HIDE DEF q
    <2>5. Browsing(q)
        BY <1>4, <2>4 DEF Browsing
    <2>6. k \in Seq(Label) /\ Core(All, Waits, k, q)
        BY <1>4, <2>3, <2>4, <2>5, TypeDone DEF Holds
    <2>7. Moves(t, k, q)
        BY <1>1, <1>4, <2>1, <2>4, MovesBy DEF Holds
    <2> HIDE DEF k
    <2>8. Hd(k) \in CoreLabel /\ Hd(todo[t]) = "type"
        BY <1>3, <2>6, CoreHead
    <2>9. ~Unsettling(Hd(k)) /\ Settled(Hd(todo[t])) /\ Point(All, lastID, Waits, k, q)
        BY <1>5, <2>6, <2>8 DEF Unsettling, CoreLabel, ChainLabel, Point
    <2> QED BY <1>1, <2>4, <2>6, <2>7, <2>9, QuietKeeps
<1>7. CASE ~KnowsObjectType(i)
    <2>1. Set(t, r) /\ Then(t, <<"selectType">>)
        BY <1>7, SameRegisters DEF browseType, Holds
    <2>2. \A k : Starts(k, "selectType", s) => Point(All, lastID, Waits, k, r)
        BY <1>4 DEF Point, Starts
    <2>3. "selectType" \in Label /\ ~Unsettling("selectType")
        BY DEF Label, Unsettling
    <2> QED BY <1>1, <1>5, <2>1, <2>2, <2>3, QuietOne
<1> QED BY <1>6, <1>7

LEMMA selectTypeKeeps ==
    ASSUME NEW t \in Thread, Holds(t), selectType(t)
    PROVE  Holds(t)'
<1> DEFINE r == reg[t]
           s == Tail(todo[t])
           i == r.id
<1>1. At(t, "selectType") /\ Quiet
    BY DEF selectType, Quiet, tableVars, bufferVars, cacheVars
<1>2. Settled("selectType") /\ r \in WorkType
    BY <1>1, PointAt DEF Settled
<1>3. s = Done /\ Waits = {} /\ Browsing(r)
    BY <1>1, PointAt, PointCases
<1>4. DOMAIN rows = DOMAIN All /\ \A j \in DOMAIN rows : rows[j] = All[j]
    BY <1>3, RowsAreAll DEF Holds
<1>5. CASE i \in DOMAIN rows
    <2> DEFINE y == TypeOf(rows[i])
               q == [r EXCEPT !.type = y]
               m == ListOf(q.type) \o Done
    <2>1. Set(t, q) /\ Then(t, <<"storeType">> \o ListOf(y))
        BY <1>5 DEF selectType
    <2>2. i \in DOMAIN All /\ y = TypeOf(All[i]) /\ y \in AnyType
        BY <1>4, <1>5 DEF TypeOf, AnyType
    <2>3. q \in WorkType /\ q.type = y /\ q.call = r.call /\ q.id = i /\ q.counts = r.counts
        <3> HIDE DEF y
        <3> QED BY <1>2, <2>2 DEF WorkType
    <2> HIDE DEF q, y
    <2>4. Browsing(q)
        BY <1>3, <2>3 DEF Browsing
    <2>5. m \in Seq(Label) /\ Core(All, Waits, m, q)
        BY <1>3, <2>2, <2>3, <2>4, TypeDone DEF Holds
    <2>6. (<<"storeType">> \o ListOf(y)) \o s = <<"storeType">> \o m
        <3>1. <<"storeType">> \in Seq(Label) /\ ListOf(y) \in Seq(Label) /\ Done \in Seq(Label)
            <4>1. <<"storeType">> \in Seq(Label)
                BY DEF Label
            <4>2. <<"list">> \in Seq(Label) /\ <<"childCount", "list">> \in Seq(Label)
                BY DEF Label
            <4> QED BY <4>1, <4>2, Lists DEF ListOf
        <3>2. (<<"storeType">> \o ListOf(y)) \o Done = <<"storeType">> \o (ListOf(y) \o Done)
            BY <3>1, Together
        <3> QED BY <1>3, <2>3, <3>2
    <2> HIDE DEF m
    <2>7. \A k : Starts(k, "storeType", m) => Point(All, lastID, Waits, k, q)
        BY <2>2, <2>3, <2>5 DEF Starts, Point
    <2>8. "storeType" \in Label /\ ~Unsettling("storeType")
        BY DEF Label, Unsettling
    <2> QED BY <1>1, <1>2, <2>1, <2>3, <2>5, <2>6, <2>7, <2>8, QuietTo
<1>6. CASE i \notin DOMAIN rows
    <2>1. Throw(t)
        BY <1>6 DEF selectType
    <2>2. AnswerOK(All, [r EXCEPT !.res = NoObject, !.num = Unknown, !.list = {}])
        <3> DEFINE q == [r EXCEPT !.res = NoObject, !.num = Unknown, !.list = {}]
        <3>1. q.call = r.call /\ q.list = {} /\ q.counts = r.counts
            BY <1>2 DEF WorkType
        <3>2. r.call.id \notin DOMAIN All /\ CountsOK(All, q) /\ q.call.op = "browse"
            BY <1>3, <1>4, <1>6, <3>1 DEF Browsing, CountsOK
        <3> HIDE DEF q
        <3> QED BY <3>1, <3>2 DEF AnswerOK, q
    <2> QED BY <1>1, <1>2, <2>1, <2>2, ThrowKeeps
<1> QED BY <1>5, <1>6

LEMMA browseListKeeps ==
    ASSUME NEW t \in Thread, Holds(t), browseList(t)
    PROVE  Holds(t)'
<1> DEFINE r == reg[t]
           s == Tail(todo[t])
           i == r.id
           ids == IF r.type = "container" THEN ChildrenOf(rows, i) ELSE {i} \intersect DOMAIN rows
           found == {Object(rows, j) : j \in ids}
           sum == IF r.type = "container" THEN r.num ELSE 1
           q == [r EXCEPT !.list = found, !.kids = found, !.total = sum]
<1>1. At(t, "list") /\ Quiet /\ Set(t, q) /\ Then(t, <<"kids">>)
    BY DEF browseList, Quiet, tableVars, bufferVars, cacheVars
<1>2. "list" \in CoreLabel
    BY DEF CoreLabel
<1>3. Core(All, Waits, todo[t], r) /\ Hd(todo[t]) = "list" /\ Settled("list") /\ r \in WorkType
    BY <1>1, <1>2, CoreAt
<1>4. todo[t] = Listing /\ ListAt(All, Waits, r)
    BY <1>3, CoreListing
<1>5. s = Done /\ Waits = {} /\ Browsing(r) /\ i = r.call.id /\ i \in DOMAIN All
    BY <1>4, ListFacts DEF ListAt, Browsing
<1>6. /\ DOMAIN rows = DOMAIN All
      /\ \A j \in DOMAIN rows : rows[j] = All[j] /\ Object(rows, j) = Object(All, j)
    BY <1>5, RowsAreAll DEF Holds
<1>7. lastID \in Nat /\ TableOK(All, lastID, Waits)
    BY DEF Holds, TypeInv
<1>8. ids = Listed(All, i) /\ ids \subseteq DOMAIN All
    <2>1. r.type = "container" <=> All[i].kind \in ContainerKinds
        BY <1>4 DEF ListAt, TypeOf, IsContainer, ContainerKinds
    <2>2. ChildrenOf(rows, i) = ChildrenOf(All, i)
        BY <1>6 DEF ChildrenOf
    <2> QED BY <1>5, <1>6, <2>1, <2>2 DEF Listed, ChildrenOf
<1>9. sum = Cardinality(ids)
    <2>1. CASE r.type = "container"
        <3>1. i \in Conts(All)
            BY <1>4, <1>5, <2>1 DEF ListAt, TypeOf, IsContainer, ContainerKinds, Conts
        <3>2. ids = ChildrenOf(All, i)
            BY <1>6, <2>1 DEF ChildrenOf
        <3> QED BY <1>4, <2>1, <3>1, <3>2 DEF ListAt, NumRight
    <2>2. CASE r.type # "container"
        <3>1. ids = {i} /\ sum = 1
            BY <1>5, <1>6, <2>2
        <3>2. Cardinality({i}) = 1
            BY FS_Singleton
        <3> QED BY <3>1, <3>2
    <2> QED BY <2>1, <2>2
<1>10. \A j \in ids : Object(rows, j) = Object(All, j) /\ Object(rows, j).id = j
                      /\ Right(All, Object(rows, j), j) /\ Object(rows, j) \in ObjType
    <2> TAKE j \in ids
    <2>1. Object(rows, j) = Object(All, j)
        BY <1>6, <1>8
    <2>2. Right(All, Object(rows, j), j)
        BY <1>7, <1>8, <2>1, ObjectIsRight
    <2> QED BY <2>1, <2>2 DEF Right
<1> HIDE DEF ids
<1>11. /\ found \in SUBSET ObjType /\ {x.id : x \in found} = ids
       /\ \A x \in found : x \in ObjType /\ Right(All, x, x.id)
    BY <1>10
<1>12. sum \in Int
    BY <1>3 DEF WorkType
<1> HIDE DEF found, sum
<1>13. /\ q \in WorkType /\ q.call = r.call /\ q.counts = r.counts /\ q.id = r.id
       /\ q.list = found /\ q.kids = found /\ q.total = sum
    BY <1>3, <1>11, <1>12 DEF WorkType
<1> HIDE DEF q, s
<1>14. ListOK(All, q)
    BY <1>5, <1>8, <1>9, <1>11, <1>13 DEF ListOK, CountsOK, Browsing
<1>15. \A k : Starts(k, "kids", s) => Point(All, lastID, Waits, k, q)
    BY <1>5, <1>13, <1>14, CoreStarts
<1>16. "kids" \in Label /\ ~Unsettling("kids")
    BY DEF Label, Unsettling
<1> QED BY <1>1, <1>3, <1>13, <1>15, <1>16, QuietOne DEF s

LEMMA browseRowKeeps ==
    ASSUME NEW t \in Thread, Holds(t), browseRow(t)
    PROVE  Holds(t)'
<1> DEFINE r == reg[t]
           s == Tail(todo[t])
<1>1. At(t, "kids") /\ Quiet
    BY DEF browseRow, Quiet, tableVars, bufferVars, cacheVars
<1>2. "kids" \in CoreLabel
    BY DEF CoreLabel
<1>3. Core(All, Waits, todo[t], r) /\ Hd(todo[t]) = "kids" /\ Settled("kids") /\ r \in WorkType
    BY <1>1, <1>2, CoreAt
<1>4. s = Done /\ Waits = {} /\ ListOK(All, r) /\ r.kids \subseteq r.list
    BY <1>3, CoreListing
<1>5. \A x \in r.list : x \in ObjType /\ Right(All, x, x.id)
    BY <1>4 DEF ListOK
<1>6. CASE /\ Set(t, [r EXCEPT !.conts = {o.id : o \in {o \in r.list : IsContainer(o)}}])
           /\ Then(t, <<"conts">>)
    <2> DEFINE c == {o.id : o \in {o \in r.list : IsContainer(o)}}
               q == [r EXCEPT !.conts = c]
    <2>1. c \subseteq Conts(All) /\ c \subseteq Int
        BY <1>5 DEF Right, Conts, ContainerKinds, IsContainer, ObjType
    <2> HIDE DEF c
    <2>2. /\ q \in WorkType /\ q.conts = c /\ q.call = r.call /\ q.list = r.list
          /\ q.total = r.total /\ q.counts = r.counts
        BY <1>3, <2>1 DEF WorkType
    <2> HIDE DEF q, s
    <2>3. ListOK(All, q)
        BY <1>4, <2>2, ListSame
    <2>4. \A k : Starts(k, "conts", s) => Point(All, lastID, Waits, k, q)
        BY <1>4, <2>1, <2>2, <2>3, CoreStarts
    <2>5. "conts" \in Label /\ ~Unsettling("conts")
        BY DEF Label, Unsettling
    <2> QED BY <1>1, <1>3, <1>6, <2>2, <2>4, <2>5, QuietOne DEF s, q, c
<1>7. ASSUME NEW x \in r.kids, Set(t, [r EXCEPT !.kids = @ \ {x}, !.res = x]),
             Then(t, <<"store", "kids">>)
      PROVE  Holds(t)'
    <2> DEFINE q == [r EXCEPT !.kids = @ \ {x}, !.res = x]
    <2>1. x \in r.list /\ x \in ObjType /\ Right(All, x, x.id)
        BY <1>4, <1>5
    <2>2. /\ q \in WorkType /\ q.res = x /\ q.kids = r.kids \ {x} /\ q.call = r.call
          /\ q.list = r.list /\ q.total = r.total /\ q.counts = r.counts
        BY <1>3, <2>1 DEF WorkType
    <2> HIDE DEF q, s
    <2>3. ListOK(All, q) /\ q.kids \subseteq q.list
        BY <1>4, <2>2, ListSame
    <2>4. ASSUME NEW k, NEW m, Starts(k, "store", m), Starts(m, "kids", s)
          PROVE  Point(All, lastID, Waits, k, q)
        <3>1. <<"kids">> \o Done = <<"kids", "answer">>
            BY Cons
        <3>2. Core(All, Waits, m, q)
            BY <1>4, <2>3, <2>4, <3>1 DEF Core, Starts
        <3> QED BY <2>1, <2>2, <2>4, <3>2 DEF Point, Starts
    <2>5. "store" \in Label /\ "kids" \in Label /\ ~Unsettling("store")
        BY DEF Label, Unsettling
    <2> QED BY <1>1, <1>3, <1>7, <2>2, <2>4, <2>5, QuietTwo DEF s, q
<1> QED BY <1>6, <1>7 DEF browseRow

LEMMA browseCountKeeps ==
    ASSUME NEW t \in Thread, Holds(t), browseCount(t)
    PROVE  Holds(t)'
<1> DEFINE r == reg[t]
           s == Tail(todo[t])
<1>1. At(t, "conts") /\ Quiet
    BY DEF browseCount, Quiet, tableVars, bufferVars, cacheVars
<1>2. "conts" \in CoreLabel
    BY DEF CoreLabel
<1>3. Core(All, Waits, todo[t], r) /\ Hd(todo[t]) = "conts" /\ Settled("conts") /\ r \in WorkType
    BY <1>1, <1>2, CoreAt
<1>4. s = Done /\ Waits = {} /\ ListOK(All, r) /\ r.conts \subseteq Conts(All)
    BY <1>3, CoreListing
<1>5. CASE Then(t, <<>>) /\ UNCHANGED reg
    <2>1. Set(t, r)
        BY <1>5, SameRegisters DEF Holds
    <2>2. AnswerOK(All, r)
        BY <1>4 DEF AnswerOK, ListOK
    <2>3. Core(All, Waits, s, r)
        BY <1>4, <2>2, ListFacts DEF Core
    <2> QED BY <1>1, <1>3, <1>5, <2>1, <2>3, QuietNone
<1>6. ASSUME NEW c \in r.conts, Set(t, [r EXCEPT !.id = c, !.conts = @ \ {c}]),
             Then(t, <<"childCount", "counted">>)
      PROVE  Holds(t)'
    <2> DEFINE q == [r EXCEPT !.id = c, !.conts = @ \ {c}]
    <2>1. c \in Conts(All) /\ c \in Int
        BY <1>3, <1>4 DEF WorkType
    <2>2. /\ q \in WorkType /\ q.id = c /\ q.conts = r.conts \ {c} /\ q.call = r.call
          /\ q.list = r.list /\ q.total = r.total /\ q.counts = r.counts
        BY <1>3, <2>1 DEF WorkType
    <2> HIDE DEF q, s
    <2>3. ListOK(All, q) /\ q.conts \subseteq Conts(All)
        BY <1>4, <2>2, ListSame
    <2>4. ASSUME NEW k, NEW m, Starts(k, "childCount", m), Starts(m, "counted", s)
          PROVE  Point(All, lastID, Waits, k, q)
        <3>1. m = Counted
            BY <1>4, <2>4, Cons DEF Starts
        <3>2. CountAt(All, Waits, m, q)
            BY <1>4, <2>1, <2>2, <2>3, <3>1 DEF CountAt
        <3> QED BY <2>4, <3>2 DEF Point, Core, Starts
    <2>5. "childCount" \in Label /\ "counted" \in Label /\ ~Unsettling("childCount")
        BY DEF Label, Unsettling
    <2> QED BY <1>1, <1>3, <1>6, <2>2, <2>4, <2>5, QuietTwo DEF s, q
<1> QED BY <1>5, <1>6 DEF browseCount

LEMMA browseCountedKeeps ==
    ASSUME NEW t \in Thread, Holds(t), browseCounted(t)
    PROVE  Holds(t)'
<1> DEFINE r == reg[t]
           s == Tail(todo[t])
           f == With(r.counts, r.id, r.num)
           q == [r EXCEPT !.counts = With(@, r.id, r.num)]
<1>1. At(t, "counted") /\ Quiet /\ Set(t, q) /\ Then(t, <<"conts">>)
    BY DEF browseCounted, Quiet, tableVars, bufferVars, cacheVars
<1>2. "counted" \in CoreLabel
    BY DEF CoreLabel
<1>3. /\ Core(All, Waits, todo[t], r) /\ Hd(todo[t]) = "counted" /\ Settled("counted")
      /\ r \in WorkType
    BY <1>1, <1>2, CoreAt
<1>4. /\ todo[t] = Counted /\ Waits = {} /\ ListOK(All, r) /\ r.conts \subseteq Conts(All)
      /\ NumRight(All, r)
    BY <1>3, CoreListing
<1>5. s = Done
    BY <1>4, ListFacts
<1>6. r.id \in Int /\ r.num \in Int /\ r.counts \in UNION {[S -> Int] : S \in SUBSET Int}
    BY <1>3 DEF WorkType
<1>7. f \in UNION {[S -> Int] : S \in SUBSET Int}
    <2>1. PICK S \in SUBSET Int : r.counts \in [S -> Int]
        BY <1>6
    <2>2. f \in [S \union {r.id} -> Int] /\ S \union {r.id} \in SUBSET Int
        BY <1>6, <2>1 DEF With
    <2> QED BY <2>2
<1>8. \A c \in DOMAIN f : f[c] = Cardinality(ChildrenOf(All, c))
    BY <1>4 DEF With, ListOK, CountsOK, NumRight
<1> HIDE DEF f
<1>9. q = [r EXCEPT !.counts = f]
    BY DEF f
<1> HIDE DEF q
<1>10. /\ q \in WorkType /\ q.counts = f /\ q.conts = r.conts /\ q.call = r.call
       /\ q.list = r.list /\ q.total = r.total
    BY <1>3, <1>7, <1>9 DEF WorkType
<1> HIDE DEF s
<1>11. ListOK(All, q)
    BY <1>4, <1>8, <1>10 DEF ListOK, CountsOK
<1>12. \A k : Starts(k, "conts", s) => Point(All, lastID, Waits, k, q)
    BY <1>4, <1>5, <1>10, <1>11, CoreStarts
<1>13. "conts" \in Label /\ ~Unsettling("conts")
    BY DEF Label, Unsettling
<1> QED BY <1>1, <1>3, <1>10, <1>12, <1>13, QuietOne DEF s

LEMMA getObjectsKeeps ==
    ASSUME NEW t \in Thread, Holds(t), getObjects(t)
    PROVE  Holds(t)'
<1> DEFINE r == reg[t]
           s == Tail(todo[t])
           c == ChildrenOf(rows, r.id)
           q == [r EXCEPT !.list = c]
<1>1. At(t, "objects") /\ Quiet /\ Set(t, q) /\ Then(t, <<>>)
    BY DEF getObjects, Quiet, tableVars, bufferVars, cacheVars
<1>2. "objects" \in CoreLabel
    BY DEF CoreLabel
<1>3. /\ Core(All, Waits, todo[t], r) /\ Hd(todo[t]) = "objects" /\ Settled("objects")
      /\ r \in WorkType
    BY <1>1, <1>2, CoreAt
<1>4. s = Done /\ Waits = {} /\ r.call.op = "objects" /\ r.id = r.call.id
    BY <1>3, CoreListing
<1>5. c = ChildrenOf(All, r.call.id) /\ c \subseteq Int
    <2>1. DOMAIN rows = DOMAIN All /\ \A j \in DOMAIN rows : rows[j] = All[j]
        BY <1>4, RowsAreAll DEF Holds
    <2> QED BY <1>4, <2>1 DEF ChildrenOf, Holds, TableOK
<1> HIDE DEF c
<1>6. q \in WorkType /\ q.list = c /\ q.call = r.call
    BY <1>3, <1>5 DEF WorkType
<1> HIDE DEF q
<1>7. Core(All, Waits, s, q)
    BY <1>4, <1>5, <1>6, ListFacts DEF Core, AnswerOK
<1> QED BY <1>1, <1>3, <1>6, <1>7, QuietNone

-----------------------------------------------------------------------------
(* The steps between those that add, change or remove.                     *)

LEMMA PushThree ==
    ASSUME NEW s \in Seq(Label), NEW x \in Label, NEW y \in Label, NEW z \in Label
    PROVE  <<x, y, z>> \o s = <<x>> \o (<<y>> \o (<<z>> \o s))
<1> DEFINE a == <<x>>
           b == <<y, z>>
           c == <<x, y, z>>
<1>1. /\ a \in Seq(Label) /\ b \in Seq(Label) /\ Len(b) = 2
      /\ c \in Seq(Label) /\ Len(c) = 3 /\ c[1] = x
      /\ c[2] = y /\ c[3] = z /\ b[1] = y /\ b[2] = z
    OBVIOUS
<1>2. /\ a \o b \in Seq(Label) /\ Len(a \o b) = 3
      /\ (a \o b)[1] = x /\ \A m \in 1 .. 2 : (a \o b)[m + 1] = b[m]
    BY <1>1, Front
<1>3. (a \o b)[1 + 1] = y /\ (a \o b)[2 + 1] = z
    BY <1>1, <1>2
<1>4. \A m \in 1 .. 3 : (a \o b)[m] = c[m]
    BY <1>1, <1>2, <1>3
<1>5. a \o b = c
    <2> HIDE DEF a, b, c
    <2> QED BY <1>1, <1>2, <1>4, SeqEqual
<1>6. (a \o b) \o s = a \o (b \o s)
    <2>1. a \in Seq(Label) /\ b \in Seq(Label)
        BY <1>1
    <2> HIDE DEF a, b
    <2> QED BY <2>1, Together
<1>7. b \o s = <<y>> \o (<<z>> \o s)
    BY Push
<1> QED BY <1>5, <1>6, <1>7

LEMMA _addFileKeeps ==
    ASSUME NEW t \in Thread, Holds(t), _addFile(t)
    PROVE  Holds(t)'
<1> DEFINE r == reg[t]
           s == Tail(todo[t])
           c == r.call
<1>1. At(t, "addFile") /\ Quiet
    BY DEF _addFile, Quiet, tableVars, bufferVars, cacheVars
<1>2. "addFile" \in CoreLabel
    BY DEF CoreLabel
<1>3. Core(All, Waits, todo[t], r) /\ Hd(todo[t]) = "addFile" /\ Settled("addFile") /\ r \in WorkType
    BY <1>1, <1>2, CoreAt
<1>4. /\ todo[t] = AddingFile /\ c.op = "import" /\ c.path \in Files /\ r.pend = <<>>
      /\ r.res = NoObject => ~Located(All, <<"F", c.path>>)
    <2> HIDE DEF r
    <2> QED BY <1>3, CoreAdding
<1>5. s = Done
    BY <1>4, ListFacts
<1>6. CASE r.res # NoObject
    <2>1. Set(t, r) /\ Then(t, <<>>)
        BY <1>6, SameRegisters DEF _addFile, Holds
    <2>2. Core(All, Waits, s, r)
        BY <1>4, <1>5, ListFacts DEF Core, AnswerOK
    <2> QED BY <1>1, <1>3, <2>1, <2>2, QuietNone
<1>7. CASE r.res = NoObject
    <2> DEFINE x == [NoObject EXCEPT !.kind = "file", !.loc = c.path, !.meta = c.meta]
               q == [r EXCEPT !.path = Up[c.path], !.obj = x]
               steps == <<"ensure">> \o AddSteps
    <2>1. Set(t, q) /\ Then(t, steps)
        BY <1>7 DEF _addFile
    <2>2. x \in ObjType
        BY <1>3, <1>4, NoObjectType DEF ObjType, WorkType, CallType, ItemKinds
    <2>3. Up[c.path] \in AnyPath /\ Up[c.path] \in Dirs \union {Slash}
        BY <1>4, PathsAssumption DEF AnyPath, Paths
    <2> HIDE DEF x
    <2>4. /\ q \in WorkType /\ q.path = Up[c.path] /\ q.obj = x /\ q.call = c /\ q.pend = r.pend
        BY <1>3, <2>2, <2>3 DEF WorkType
    <2> HIDE DEF q, s
    <2>5. Importing(All, q)
        BY <1>4, <1>7, <2>4 DEF Importing, x
    <2>6. Climbing(All, q, "D", Dirs, Up[q.call.path])
        <3>1. Len(q.pend) = 0 /\ q.pend = <<>>
            BY <1>4, <2>4
        <3> QED BY <2>3, <2>4, <3>1 DEF Climbing, Waiting
    <2>7. EnsureAt(All, Waits, Adding, q)
        BY <1>4, <2>4, <2>5, <2>6 DEF EnsureAt
    <2>8. \A k : Starts(k, "ensure", Adding) => Point(All, lastID, Waits, k, q)
        BY <2>7, CoreStarts
    <2>9. "ensure" \in Label /\ ~Unsettling("ensure") /\ Adding \in Seq(Label)
        BY Lists DEF Label, Unsettling
    <2>10. steps \o Tail(todo[t]) = <<"ensure">> \o Adding
        <3>1. <<"ensure">> \in Seq(Label) /\ AddSteps \in Seq(Label) /\ Done \in Seq(Label)
            BY Lists DEF Label, AddSteps
        <3>2. (<<"ensure">> \o AddSteps) \o Done = <<"ensure">> \o (AddSteps \o Done)
            BY <3>1, Together
        <3> QED BY <1>5, <3>2, Cons DEF s
    <2> HIDE DEF steps
    <2> QED BY <1>1, <1>3, <2>1, <2>4, <2>8, <2>9, <2>10, QuietTo
<1> QED BY <1>6, <1>7

LEMMA checkRefIDKeeps ==
    ASSUME NEW t \in Thread, Holds(t), checkRefID(t)
    PROVE  Holds(t)'
<1> DEFINE r == reg[t]
           s == Tail(todo[t])
           q == [r EXCEPT !.id = r.call.id]
<1>1. At(t, "original") /\ Quiet /\ Set(t, q) /\ Then(t, <<>>)
    BY DEF checkRefID, Quiet, tableVars, bufferVars, cacheVars
<1>2. "original" \in CoreLabel
    BY DEF CoreLabel, ChainLabel
<1>3. Core(All, Waits, todo[t], r) /\ Hd(todo[t]) = "original" /\ Settled("original") /\ r \in WorkType
    BY <1>1, <1>2, CoreAt
<1>4. ChainAt(All, r.parent, todo[t], r)
    BY <1>3, CoreCases
<1>5. todo[t] = Referring /\ Linking(All, r) /\ r.parent \in Conts(All)
    <2>1. Hd(Adding) = "append" /\ Hd(MakingDir) = "create" /\ Hd(MakingVirt) = "create"
        BY ListFacts DEF Hd
    <2> QED BY <1>3, <1>4, <2>1 DEF ChainAt
<1>6. q \in WorkType /\ q.id = r.call.id /\ q.call = r.call /\ q.parent = r.parent
    BY <1>3 DEF WorkType, CallType
<1>7. s = Fetching
    BY <1>5, ListFacts
<1> HIDE DEF q, s
<1>8. LoadAt(All, Waits, Deciding, q)
    BY <1>5, <1>6 DEF LoadAt, Linking
<1>9. Core(All, Waits, s, q)
    BY <1>7, <1>8, ListFacts DEF Core
<1> QED BY <1>1, <1>3, <1>6, <1>9, QuietNone DEF s

LEMMA checkDuplicateKeeps ==
    ASSUME NEW t \in Thread, Holds(t), checkDuplicate(t)
    PROVE  Holds(t)'
<1> DEFINE r == reg[t]
           s == Tail(todo[t])
           c == r.call
           p == r.parent
<1>1. At(t, "duplicate") /\ Quiet
    BY DEF checkDuplicate, Quiet, tableVars, bufferVars, cacheVars
<1>2. "duplicate" \in CoreLabel
    BY DEF CoreLabel
<1>3. /\ Core(All, Waits, todo[t], r) /\ Hd(todo[t]) = "duplicate" /\ Settled("duplicate")
      /\ r \in WorkType
    BY <1>1, <1>2, CoreAt
<1>4. todo[t] = Deciding /\ Linking(All, r) /\ p \in Conts(All) /\ Right(All, r.res, c.id)
    BY <1>3, CoreAdding
<1>5. s = Done
    BY <1>4, ListFacts
<1>6. CASE Set(t, [r EXCEPT !.id = p]) /\ Then(t, <<"childCount", "first">>)
    <2> DEFINE q == [r EXCEPT !.id = p]
    <2>1. Set(t, q) /\ Then(t, <<"childCount", "first">>)
        BY <1>6
    <2>2. q \in WorkType /\ q.id = p /\ q.call = c
        BY <1>3 DEF WorkType
    <2> HIDE DEF q, s
    <2>3. ASSUME NEW k, NEW m, Starts(k, "childCount", m), Starts(m, "first", s)
          PROVE  Point(All, lastID, Waits, k, q)
        <3>1. m = Hearing
            BY <1>5, <2>3, Cons DEF Starts
        <3>2. CountAt(All, Waits, m, q)
            BY <1>4, <2>2, <3>1 DEF CountAt, Adds, Linking
        <3> QED BY <2>3, <3>2 DEF Point, Core, Starts
    <2>4. "childCount" \in Label /\ "first" \in Label /\ ~Unsettling("childCount")
        BY DEF Label, Unsettling
    <2> QED BY <1>1, <1>3, <2>1, <2>2, <2>3, <2>4, QuietTwo DEF s
<1>7. CASE /\ Set(t, [r EXCEPT !.obj = [NoObject EXCEPT !.kind = "ref", !.ref = c.id,
                                                      !.loc = r.res.loc, !.meta = c.meta]])
           /\ Then(t, AddSteps)
    <2> DEFINE x == [NoObject EXCEPT !.kind = "ref", !.ref = c.id, !.loc = r.res.loc, !.meta = c.meta]
               q == [r EXCEPT !.obj = x]
    <2>1. Set(t, q) /\ Then(t, AddSteps)
        BY <1>7
    <2>2. x \in ObjType
        <3>1. r.res \in ObjType /\ c \in CallType
            BY <1>3 DEF WorkType
        <3> QED BY <3>1, NoObjectType DEF ObjType, CallType, ItemKinds
    <2> HIDE DEF x
    <2>3. q \in WorkType /\ q.obj = x /\ q.call = c /\ q.parent = p /\ q.res = r.res
        BY <1>3, <2>2 DEF WorkType
    <2> HIDE DEF q, s
    <2>4. RefAt(All, q)
        BY <1>4, <2>3 DEF RefAt, Linking, x
    <2>5. \A k : Starts(k, "append", Storing) => Point(All, lastID, Waits, k, q)
        BY <2>4, CoreStarts
    <2>6. "append" \in Label /\ ~Unsettling("append") /\ Storing \in Seq(Label)
        BY Lists DEF Label, Unsettling
    <2>7. AddSteps \o Tail(todo[t]) = <<"append">> \o Storing
        BY <1>5, Cons DEF s
    <2> QED BY <1>1, <1>3, <2>1, <2>3, <2>5, <2>6, <2>7, QuietTo
<1> QED BY <1>6, <1>7 DEF checkDuplicate

LEMMA firstChildKeeps ==
    ASSUME NEW t \in Thread, Holds(t), firstChild(t)
    PROVE  Holds(t)'
<1> DEFINE r == reg[t]
           s == Tail(todo[t])
<1>1. At(t, "first") /\ Quiet
    BY DEF firstChild, Quiet, tableVars, bufferVars, cacheVars
<1>2. "first" \in CoreLabel
    BY DEF CoreLabel
<1>3. Core(All, Waits, todo[t], r) /\ Hd(todo[t]) = "first" /\ Settled("first") /\ r \in WorkType
    BY <1>1, <1>2, CoreAt
<1>4. s = Done /\ Adds(r)
    <2> HIDE DEF r
    <2> QED BY <1>3, CoreFirst
<1>5. Set(t, r) /\ (Then(t, <<"load">>) \/ Then(t, <<>>))
    BY SameRegisters DEF firstChild, Holds
<1>6. CASE Then(t, <<"load">>)
    <2>1. LoadAt(All, Waits, s, r)
        BY <1>4 DEF LoadAt
    <2> HIDE DEF s
    <2>2. \A k : Starts(k, "load", s) => Point(All, lastID, Waits, k, r)
        BY <2>1, CoreStarts
    <2>3. "load" \in Label /\ ~Unsettling("load")
        BY DEF Label, Unsettling
    <2> QED BY <1>1, <1>3, <1>5, <1>6, <2>2, <2>3, QuietOne DEF s
<1>7. CASE Then(t, <<>>)
    <2>1. Core(All, Waits, s, r)
        BY <1>4, ListFacts DEF Core, AnswerOK, Adds
    <2> QED BY <1>1, <1>3, <1>5, <1>7, <2>1, QuietNone
<1> QED BY <1>5, <1>6, <1>7

\* Before an update the object in reg.obj is the one that is there, but for the
\* metadata.
LEMMA EditedObject ==
    ASSUME NEW o, NEW n \in Nat, NEW w, TableOK(o, n, w), NEW r, r \in WorkType, Right(o, r.res, r.call.id),
           r.call.op = "update", r.call.id \notin {CDS_ID_ROOT, CDS_ID_FS_ROOT},
           NEW x, x = [r.res EXCEPT !.meta = r.call.meta],
           NEW q, q.call = r.call, q.obj = x
    PROVE  /\ x \in ObjType /\ x.kind = r.res.kind /\ x.parent = r.res.parent
           /\ x.ref = r.res.ref /\ x.loc = r.res.loc
           /\ Changing(o, q)
           /\ x.kind \in {"file", "ref", "dir", "virt"}
           /\ x.kind = "file" => x.loc \in Files
<1>1. r.res \in ObjType /\ r.call.meta \in AnyMeta
    BY DEF WorkType, CallType
<1>2. /\ x \in ObjType /\ x.id = r.res.id /\ x.kind = r.res.kind /\ x.parent = r.res.parent
      /\ x.ref = r.res.ref /\ x.loc = r.res.loc /\ x.meta = r.call.meta
    BY <1>1 DEF ObjType
<1>3. Changing(o, q)
    BY <1>2 DEF Changing, Right
<1>4. x.kind \in {"file", "ref", "dir", "virt"}
    BY <1>2, RightIsObject
<1>5. ASSUME x.kind = "file" PROVE x.loc \in Files
    <2>1. r.call.id \in DOMAIN o /\ o[r.call.id].kind = "file" /\ x.loc = Object(o, r.call.id).loc
        BY <1>2, <1>5 DEF Right
    <2>2. x.loc = o[r.call.id].loc[2]
        BY <2>1, PlainObject
    <2>3. Placed(o, r.call.id)
        BY <2>1, RowFacts
    <2> QED BY <2>1, <2>2, <2>3 DEF Placed
<1> QED BY <1>2, <1>3, <1>4, <1>5

\* The rest of an update, behind the flush.
EditTo(m, q) == m \in Seq(Label) /\ m # <<>> /\ AfterFlush(All, m, q)

LEMMA updateObjectKeeps ==
    ASSUME NEW t \in Thread, Holds(t), updateObject(t)
    PROVE  Holds(t)'
<1> DEFINE r == reg[t]
           o == r.res
           x == [o EXCEPT !.meta = r.call.meta]
           b == [r EXCEPT !.obj = x, !.parent = o.parent]
           s == Tail(todo[t])
<1>1. At(t, "edit") /\ Quiet
    BY DEF updateObject, Quiet, tableVars, bufferVars, cacheVars
<1>2. "edit" \in CoreLabel
    BY DEF CoreLabel
<1>3. Core(All, Waits, todo[t], r) /\ Hd(todo[t]) = "edit" /\ Settled("edit") /\ r \in WorkType
    BY <1>1, <1>2, CoreAt
<1>4. /\ todo[t] = Editing /\ r.call.op = "update" /\ Right(All, o, r.call.id)
      /\ r.call.id \notin {CDS_ID_ROOT, CDS_ID_FS_ROOT}
    <2> HIDE DEF r
    <2> QED BY <1>3, CoreEdit
<1>5. s = Done
    BY <1>4, ListFacts
<1>6. lastID \in Nat /\ TableOK(All, lastID, Waits)
    BY DEF Holds, TypeInv
<1>7. \/ Then(t, <<>>) /\ UNCHANGED reg
      \/ o.kind = "file" /\ Set(t, [b EXCEPT !.path = Up[o.loc]]) /\ Then(t, <<"flush", "ensure", "update">>)
      \/ o.kind = "ref" /\ Set(t, [b EXCEPT !.id = o.ref]) /\ Then(t, <<"flush", "load", "update">>)
      \/ o.kind = "virt" /\ Set(t, b) /\ Then(t, <<"flush", "update">>)
      \/ o.kind = "dir" /\ Set(t, b) /\ Then(t, <<"flush", "throw">>)
    BY DEF updateObject
<1>8. /\ x \in ObjType /\ x.kind = o.kind /\ x.parent = o.parent
      /\ x.ref = o.ref /\ x.loc = o.loc /\ o.parent \in Int /\ o.ref \in Int
      /\ \A q : q.call = r.call /\ q.obj = x => Changing(All, q)
      /\ x.kind = "file" => x.loc \in Files
    <2>1. o \in ObjType
        BY <1>3 DEF WorkType
    <2>2. o.parent \in Int /\ o.ref \in Int
        BY <2>1 DEF ObjType
    <2>3. b.call = r.call /\ b.obj = x
        BY <1>3 DEF WorkType
    <2> HIDE DEF b
    <2>4. /\ x \in ObjType /\ x.kind = o.kind /\ x.parent = o.parent
          /\ x.ref = o.ref /\ x.loc = o.loc
          /\ x.kind = "file" => x.loc \in Files
        BY <1>3, <1>4, <1>6, <2>3, EditedObject
    <2>5. ASSUME NEW q, q.call = r.call, q.obj = x PROVE Changing(All, q)
        BY <1>3, <1>4, <1>6, <2>5, EditedObject
    <2> QED BY <2>2, <2>4, <2>5
<1> HIDE DEF x
<1>9. b \in WorkType /\ b.call = r.call /\ b.obj = x /\ b.parent = x.parent
    BY <1>3, <1>8 DEF WorkType
<1>10. /\ "flush" \in Label /\ "ensure" \in Label /\ "update" \in Label /\ "load" \in Label
       /\ "throw" \in Label /\ ~Unsettling("flush")
       /\ Done \in Seq(Label) /\ Updating \in Seq(Label) /\ <<"update">> \o Done = Updating
       /\ <<"throw">> \o Done = <<"throw", "answer">>
    BY Lists, Cons DEF Label, Unsettling
<1> HIDE DEF b, s
<1>11. ASSUME NEW steps, Then(t, steps), NEW q \in WorkType, Set(t, q), NEW m,
              EditTo(m, q), steps \o Tail(todo[t]) = <<"flush">> \o m
       PROVE  Holds(t)'
    <2>1. \A k : Starts(k, "flush", m) => Point(All, lastID, Waits, k, q)
        BY <1>11 DEF EditTo, Point, Starts
    <2> QED BY <1>1, <1>3, <1>10, <1>11, <2>1, QuietTo DEF EditTo
<1>12. CASE Then(t, <<>>) /\ UNCHANGED reg
    <2>1. Set(t, r)
        BY <1>12, SameRegisters DEF Holds
    <2>2. Core(All, Waits, s, r)
        BY <1>4, <1>5, ListFacts DEF Core, AnswerOK
    <2> QED BY <1>1, <1>3, <1>12, <2>1, <2>2, QuietNone DEF s
<1>13. CASE /\ o.kind = "file" /\ Set(t, [b EXCEPT !.path = Up[o.loc]])
            /\ Then(t, <<"flush", "ensure", "update">>)
    <2> DEFINE q == [b EXCEPT !.path = Up[o.loc]]
               m == <<"ensure">> \o Updating
    <2>1. Up[o.loc] \in AnyPath
        BY <1>8, <1>13, PathsAssumption DEF AnyPath, Paths
    <2>2. q \in WorkType /\ q.call = r.call /\ q.obj = x /\ q.path = Up[x.loc]
        BY <1>8, <1>9, <2>1 DEF WorkType
    <2> HIDE DEF q
    <2>3. EnsureAt(All, {}, Updating, q)
        BY <1>8, <1>13, <2>2 DEF EnsureAt
    <2>4. m \in Seq(Label) /\ m # <<>> /\ Head(m) = "ensure" /\ Tail(m) = Updating
        BY <1>10, PushOne
    <2> HIDE DEF m
    <2>5. Core(All, {}, m, q)
        BY <2>3, <2>4 DEF Core
    <2>6. EditTo(m, q)
        BY <2>4, <2>5 DEF EditTo, AfterFlush
    <2>7. <<"flush", "ensure", "update">> \o Tail(todo[t]) = <<"flush">> \o m
        <3>1. "flush" \in Label /\ "ensure" \in Label /\ "update" \in Label /\ Done \in Seq(Label)
            BY <1>10
        <3>2. <<"flush", "ensure", "update">> \o Done = <<"flush">> \o (<<"ensure">> \o (<<"update">> \o Done))
            BY <3>1, PushThree
        <3> QED BY <1>5, <1>10, <3>2 DEF s, m
    <2> QED BY <1>11, <1>13, <2>2, <2>6, <2>7 DEF q
<1>14. CASE /\ o.kind = "ref" /\ Set(t, [b EXCEPT !.id = o.ref])
            /\ Then(t, <<"flush", "load", "update">>)
    <2> DEFINE q == [b EXCEPT !.id = o.ref]
               m == <<"load">> \o Updating
    <2>1. q \in WorkType /\ q.call = r.call /\ q.obj = x /\ q.id = x.ref /\ q.parent = x.parent
        BY <1>8, <1>9 DEF WorkType
    <2> HIDE DEF q
    <2>2. LoadAt(All, {}, Updating, q)
        BY <1>8, <1>14, <2>1 DEF LoadAt
    <2>3. m \in Seq(Label) /\ m # <<>> /\ Head(m) = "load" /\ Tail(m) = Updating
        BY <1>10, PushOne
    <2> HIDE DEF m
    <2>4. Core(All, {}, m, q)
        BY <2>2, <2>3 DEF Core
    <2>5. EditTo(m, q)
        BY <2>3, <2>4 DEF EditTo, AfterFlush
    <2>6. <<"flush", "load", "update">> \o Tail(todo[t]) = <<"flush">> \o m
        <3>1. "flush" \in Label /\ "load" \in Label /\ "update" \in Label /\ Done \in Seq(Label)
            BY <1>10
        <3>2. <<"flush", "load", "update">> \o Done = <<"flush">> \o (<<"load">> \o (<<"update">> \o Done))
            BY <3>1, PushThree
        <3> QED BY <1>5, <1>10, <3>2 DEF s, m
    <2> QED BY <1>11, <1>14, <2>1, <2>5, <2>6 DEF q
<1>15. CASE o.kind = "virt" /\ Set(t, b) /\ Then(t, <<"flush", "update">>)
    <2>1. UpdateAt(All, {}, b)
        BY <1>8, <1>9 DEF UpdateAt
    <2>2. Updating # <<>>
        BY ListFacts
    <2>3. Core(All, {}, Updating, b)
        BY <2>1, <2>2 DEF Core
    <2>4. EditTo(Updating, b)
        BY <1>10, <2>2, <2>3 DEF EditTo, AfterFlush
    <2>5. <<"flush", "update">> \o Tail(todo[t]) = <<"flush">> \o Updating
        BY <1>5, <1>10, Push DEF s
    <2> QED BY <1>9, <1>11, <1>15, <2>4, <2>5
<1>16. CASE o.kind = "dir" /\ Set(t, b) /\ Then(t, <<"flush", "throw">>)
    <2> DEFINE m == <<"throw">> \o Done
    <2>1. m \in Seq(Label) /\ m # <<>> /\ m = <<"throw", "answer">>
        BY <1>10, PushOne
    <2> HIDE DEF m
    <2>2. Core(All, {}, m, b)
        BY <1>4, <1>9, <2>1 DEF Core
    <2>3. EditTo(m, b)
        BY <2>1, <2>2 DEF EditTo, AfterFlush
    <2>4. <<"flush", "throw">> \o Tail(todo[t]) = <<"flush">> \o m
        BY <1>5, <1>10, Push DEF s, m
    <2> QED BY <1>9, <1>11, <1>16, <2>3, <2>4
<1> QED BY <1>7, <1>12, <1>13, <1>14, <1>15, <1>16

LEMMA throwDirectoryKeeps ==
    ASSUME NEW t \in Thread, Holds(t), throwDirectory(t)
    PROVE  Holds(t)'
<1> DEFINE r == reg[t]
           q == [r EXCEPT !.res = NoObject, !.num = Unknown, !.list = {}]
<1>1. At(t, "throw") /\ Quiet /\ Throw(t)
    BY DEF throwDirectory, Quiet, tableVars, bufferVars, cacheVars
<1>2. "throw" \in CoreLabel
    BY DEF CoreLabel
<1>3. Core(All, Waits, todo[t], r) /\ Hd(todo[t]) = "throw" /\ Settled("throw") /\ r \in WorkType
    BY <1>1, <1>2, CoreAt
<1>4. r.call.op = "update"
    <2> HIDE DEF r
    <2> QED BY <1>3, CoreListing
<1>5. q.call = r.call
    BY <1>3, SMTT(30) DEF WorkType
<1> HIDE DEF q
<1>6. AnswerOK(All, q)
    BY <1>4, <1>5 DEF AnswerOK
<1> QED BY <1>1, <1>3, <1>6, ThrowKeeps DEF q

LEMMA NoWorkType == NoWork \in WorkType
<1>1. NoCall \in CallType
    BY DEF NoCall, CallType, Unknown, AnyPath, AnyMeta
<1>2. NoLocation \in Location
    BY DEF NoLocation, Location, AnyPath
<1>3. <<>> \in Seq(Paths) /\ <<>> \in UNION {[S -> Int] : S \in SUBSET Int}
    <2>1. <<>> \in [{} -> Int]
        OBVIOUS
    <2> QED BY <2>1, SMTT(30)
<1> QED BY <1>1, <1>2, <1>3, NoObjectType DEF NoWork, WorkType, Unknown, AnyPath, AnyType

LEMMA AnswerKeeps ==
    ASSUME NEW t \in Thread, Holds(t), Answer(t)
    PROVE  Holds(t)'
<1>1. At(t, "answer") /\ Quiet /\ Set(t, NoWork) /\ Then(t, <<>>)
    BY DEF Answer, Quiet, tableVars, bufferVars, cacheVars
<1>2. "answer" \in CoreLabel
    BY DEF CoreLabel
<1>3. Core(All, Waits, todo[t], reg[t]) /\ Hd(todo[t]) = "answer" /\ Settled("answer")
    BY <1>1, <1>2, CoreAt
<1>4. Tail(todo[t]) = <<>>
    BY <1>3, CoreCases, ListFacts
<1>5. Moves(t, <<>> \o Tail(todo[t]), NoWork)
    BY <1>1, MovesBy DEF Holds
<1>6. <<>> \o Tail(todo[t]) = <<>> /\ <<>> \in Seq(Label)
    BY <1>4, ConcatEmptySeq
<1>7. Point(All, lastID, Waits, <<>>, NoWork) /\ ~Unsettling(Hd(<<>>))
    BY DEF Point, Unsettling, Hd
<1> QED BY <1>1, <1>3, <1>5, <1>6, <1>7, NoWorkType, QuietKeeps

-----------------------------------------------------------------------------
(* The steps that add an object.                                           *)

\* What the cache knows of the others stays right when one object is added, but
\* for the number of children of its parent.
LEMMA GrownSound ==
    ASSUME NEW o, NEW n \in Nat, NEW w, TableOK(o, n, w), NEW row, NEW o2,
           o2 = With(o, n + 1, row), NEW h, h \in [DOMAIN h -> EntryType], NEW l,
           SoundCache(o, w, h, l)
    PROVE  /\ \A i \in DOMAIN h : /\ SoundObj(o2, h[i], i) /\ SoundType(o2, h[i], i)
                                  /\ SoundNum(o2, h[i], i, i = row.parent)
           /\ LocationsOK(o2, l)
           /\ \A i \in w : Visible(h, l, i)
<1>1. /\ DOMAIN o \subseteq DOMAIN o2
      /\ \A i \in DOMAIN o : Object(o2, i) = Object(o, i)
      /\ \A i \in DOMAIN o : \A x : Right(o2, x, i) <=> Right(o, x, i)
      /\ \A i \in DOMAIN o : TypeOf(o2[i]) = TypeOf(o[i])
    <2>1. DOMAIN o \subseteq DOMAIN o2
        BY Grown
    <2>4. \A i \in DOMAIN o : Object(o2, i) = Object(o, i)
        BY Grown
    <2>2. ASSUME NEW i \in DOMAIN o PROVE \A x : Right(o2, x, i) <=> Right(o, x, i)
        BY Grown
    <2>3. ASSUME NEW i \in DOMAIN o PROVE TypeOf(o2[i]) = TypeOf(o[i])
        BY Grown
    <2> QED BY <2>1, <2>2, <2>3, <2>4
<1>2. ASSUME NEW i \in DOMAIN h
      PROVE  /\ SoundObj(o2, h[i], i) /\ SoundType(o2, h[i], i)
             /\ SoundNum(o2, h[i], i, i = row.parent)
    <2>1. SoundObj(o, h[i], i) /\ SoundType(o, h[i], i) /\ SoundNum(o, h[i], i, FALSE)
        BY DEF SoundCache, SoundEntry
    <2>2. SoundObj(o2, h[i], i)
        BY <1>1, <2>1 DEF SoundObj, Right
    <2>3. SoundType(o2, h[i], i)
        BY <1>1, <2>1 DEF SoundType
    <2>4. SoundNum(o2, h[i], i, i = row.parent)
        <3>1. h[i].num \in Int
            BY DEF EntryType
        <3>2. h[i].num # Unknown => h[i].num = Cardinality(ChildrenOf(o, i))
            BY <2>1, <3>1 DEF SoundNum
        <3>3. CASE i = row.parent
            <4>1. Cardinality(ChildrenOf(o2, i)) = Cardinality(ChildrenOf(o, i)) + 1
                BY <3>3, GrownChildren
            <4> QED BY <3>2, <3>3, <4>1 DEF SoundNum
        <3>4. CASE i # row.parent
            <4>1. ChildrenOf(o2, i) = ChildrenOf(o, i)
                BY <3>4, GrownChildren
            <4> QED BY <3>1, <3>2, <3>4, <4>1 DEF SoundNum
        <3> QED BY <3>3, <3>4
    <2> QED BY <2>2, <2>3, <2>4
<1>3. LocationsOK(o2, l)
    <2>1. LocationsOK(o, l)
        BY DEF SoundCache
    <2> QED BY <1>1, <2>1 DEF LocationsOK
<1> QED BY <1>2, <1>3 DEF SoundCache

\* A row and the object that goes into the cache for it.
ItemOK(o, n, row, x, c) ==
    /\ row \in RowType /\ row.kind \in {"file", "ref"} /\ row.parent \in Conts(o)
    /\ row.parent = c /\ x.parent = c
    /\ Placed(With(o, n + 1, row), n + 1)
    /\ row.loc[2] # NoPath => ~Located(o, row.loc)
    /\ x \in ObjType /\ x.kind \in ItemKinds
    /\ Right(With(o, n + 1, row), x, n + 1)

\* The row and the object of reg.obj when it is added as n.
RowOf(r) ==
    LET o == r.obj
        p == r.parent
    IN  IF o.kind = "file" THEN Row("file", p, NoRef, <<"F", o.loc>>, o.meta)
        ELSE Row("ref", p, o.ref, NoLocation,
                 IF o.meta = r.res.meta THEN NoMeta ELSE o.meta)

AddedObject(n, r) == [r.obj EXCEPT !.id = n, !.parent = r.parent]

LEMMA GrownPlaces ==
    ASSUME NEW o, NEW n \in Nat, NEW w, TableOK(o, n, w), NEW row
    PROVE  /\ Conts(o) \subseteq Conts(With(o, n + 1, row))
           /\ \A c, p : DirectoryOf(o, c, p) => DirectoryOf(With(o, n + 1, row), c, p)
<1> DEFINE o2 == With(o, n + 1, row)
<1>1. /\ \A i \in DOMAIN o : i \in DOMAIN o2 /\ o2[i] = o[i]
    BY DEF TableOK, With
<1> HIDE DEF o2
<1>2. Conts(o) \subseteq Conts(o2)
    BY <1>1 DEF Conts
<1>3. \A c, p : DirectoryOf(o, c, p) => DirectoryOf(o2, c, p)
    BY <1>1, <1>2 DEF DirectoryOf, Conts
<1> QED BY <1>2, <1>3 DEF o2

LEMMA PlacedObject ==
    ASSUME NEW i \in Int, NEW r, r.obj \in ObjType, r.parent \in Int
    PROVE  LET x == AddedObject(i, r)
           IN  /\ x \in ObjType /\ x.id = i /\ x.kind = r.obj.kind /\ x.parent = r.parent
               /\ x.ref = r.obj.ref /\ x.loc = r.obj.loc /\ x.meta = r.obj.meta
<1>1. \A a \in ObjType, c \in Int :
         LET x == [a EXCEPT !.id = i, !.parent = c]
         IN  /\ x \in ObjType /\ x.id = i /\ x.kind = a.kind /\ x.parent = c
             /\ x.ref = a.ref /\ x.loc = a.loc /\ x.meta = a.meta
    BY DEF ObjType
<1> QED BY <1>1 DEF AddedObject

LEMMA ImportedItem ==
    ASSUME NEW o, NEW n \in Nat, NEW w, TableOK(o, n, w), NEW r, r \in WorkType,
           Importing(o, r), DirectoryOf(o, r.parent, Up[r.call.path])
    PROVE  ItemOK(o, n, RowOf(r), AddedObject(n + 1, r), r.parent)
<1> DEFINE p == r.call.path
           m == r.call.meta
           c == r.parent
           row == RowOf(r)
           x == AddedObject(n + 1, r)
           o2 == With(o, n + 1, row)
<1>1. /\ p \in Files /\ p \in Paths /\ p # NoPath /\ p \in AnyPath /\ m \in AnyMeta /\ c \in Int
      /\ c \in Conts(o) /\ ~Located(o, <<"F", p>>)
    BY PathsAssumption DEF Importing, WorkType, CallType, DirectoryOf, Paths, AnyPath
<1>2. /\ r.obj \in ObjType /\ r.obj.kind = "file" /\ r.obj.loc = p /\ r.obj.meta = m
      /\ r.obj.ref = NoRef
    BY DEF Importing, WorkType, NoObject
<1>3. /\ row = [kind |-> "file", parent |-> c, ref |-> NoRef, persistent |-> FALSE,
                loc |-> <<"F", p>>, meta |-> m]
    BY <1>2 DEF RowOf, Row
<1>4. NoRef \in Int /\ <<"F", p>> \in Location
    BY <1>1 DEF NoRef, Tree!NoRef, Location
<1>5. row \in RowType
    BY <1>1, <1>3, <1>4 DEF RowType, ItemKinds
<1>6. /\ x \in ObjType /\ x.id = n + 1 /\ x.kind = "file" /\ x.parent = c /\ x.ref = NoRef
      /\ x.loc = p /\ x.meta = m
    <2>1. n + 1 \in Int /\ r.obj \in ObjType /\ r.parent \in Int
        BY <1>1, <1>2
    <2> QED BY <1>1, <1>2, <2>1, PlacedObject
<1>7. /\ row.kind = "file" /\ row.parent = c /\ row.ref = NoRef /\ row.loc = <<"F", p>>
      /\ row.meta = m
    BY <1>3
<1> HIDE DEF row, x
<1>8. o2[n + 1] = row /\ n + 1 \in DOMAIN o2
    BY DEF With
<1>9. Conts(o) \subseteq Conts(o2) /\ DirectoryOf(o2, c, Up[p])
    BY GrownPlaces
<1> HIDE DEF o2
<1>10. Placed(o2, n + 1)
    <2>1. n + 1 # CDS_ID_FS_ROOT \/ n + 1 = CDS_ID_FS_ROOT
        OBVIOUS
    <2> QED BY <1>1, <1>7, <1>8, <1>9 DEF Placed
<1>11. Object(o2, n + 1).loc = p /\ Object(o2, n + 1).meta = m
    BY <1>7, <1>8 DEF Object
<1>12. Right(o2, x, n + 1)
    BY <1>6, <1>7, <1>8, <1>11 DEF Right
<1> QED BY <1>1, <1>5, <1>6, <1>7, <1>10, <1>12 DEF ItemOK, o2, ItemKinds, row, x

LEMMA ReferenceItem ==
    ASSUME NEW o, NEW n \in Nat, NEW w, TableOK(o, n, w), NEW r, r \in WorkType, RefAt(o, r)
    PROVE  ItemOK(o, n, RowOf(r), AddedObject(n + 1, r), r.parent)
<1> DEFINE i == r.call.id
           c == r.parent
           row == RowOf(r)
           y == row.meta
           x == AddedObject(n + 1, r)
           o2 == With(o, n + 1, row)
<1>1. /\ i \in DOMAIN o /\ o[i].kind = "file" /\ c \in Conts(o) /\ c \in Int /\ i \in Int
      /\ r.res.loc = Object(o, i).loc /\ r.call.meta \in AnyMeta
    BY DEF RefAt, Linking, Right, WorkType, CallType
<1>2. /\ r.obj \in ObjType /\ r.obj.kind = "ref" /\ r.obj.loc = r.res.loc /\ r.obj.ref = i
      /\ r.obj.meta \in AnyMeta
    BY <1>1 DEF RefAt, WorkType, NoObject
<1>3. row = [kind |-> "ref", parent |-> c, ref |-> i, persistent |-> FALSE,
             loc |-> NoLocation, meta |-> IF r.obj.meta = r.res.meta THEN NoMeta ELSE r.obj.meta]
    BY <1>2 DEF RowOf, Row
<1>4. /\ row.kind = "ref" /\ row.parent = c /\ row.ref = i /\ row.loc = NoLocation
      /\ y \in {NoMeta, r.obj.meta} /\ y \in AnyMeta
    BY <1>2, <1>3 DEF AnyMeta
<1>5. row \in RowType
    <2>1. NoLocation \in Location
        BY DEF NoLocation, Location, AnyPath
    <2>2. row = [kind |-> "ref", parent |-> c, ref |-> i, persistent |-> FALSE,
                 loc |-> NoLocation, meta |-> y]
        BY <1>3
    <2> HIDE DEF row, y
    <2> QED BY <1>1, <1>4, <2>1, <2>2 DEF RowType, ItemKinds
<1>6. /\ x \in ObjType /\ x.id = n + 1 /\ x.kind = "ref" /\ x.parent = c /\ x.ref = i
      /\ x.loc = r.res.loc /\ x.meta = r.obj.meta
    <2>1. n + 1 \in Int /\ r.obj \in ObjType /\ r.parent \in Int
        BY <1>1, <1>2
    <2> QED BY <1>1, <1>2, <2>1, PlacedObject
<1> HIDE DEF row, x, y
<1>7. o2[n + 1] = row /\ n + 1 \in DOMAIN o2 /\ i \in DOMAIN o2 /\ o2[i] = o[i]
    BY <1>1 DEF With, TableOK
<1>8. Conts(o) \subseteq Conts(o2)
    BY GrownPlaces
<1> HIDE DEF o2
<1>9. Placed(o2, n + 1)
    BY <1>1, <1>4, <1>7, <1>8 DEF Placed
<1>10. /\ Object(o2, n + 1).loc = o[i].loc[2]
       /\ y # NoMeta => Object(o2, n + 1).meta = y
    BY <1>4, <1>7 DEF Object, y
<1>11. Object(o, i).loc = o[i].loc[2]
    BY <1>1, PlainObject
<1>12. Right(o2, x, n + 1)
    BY <1>1, <1>4, <1>6, <1>7, <1>10, <1>11 DEF Right, y
<1>13. row.loc[2] = NoPath
    BY <1>4 DEF NoLocation
<1> QED BY <1>1, <1>4, <1>5, <1>6, <1>9, <1>12, <1>13 DEF ItemOK, o2, ItemKinds, row, x

\* A row that has its place is one the contract allows to be added.
LEMMA PlacedWell ==
    ASSUME NEW o, NEW n \in Nat, NEW w, TableOK(o, n, w), NEW row \in RowType,
           row.parent \in Conts(o), Placed(With(o, n + 1, row), n + 1)
    PROVE  Tree!WellPlaced(o, row)
<1>1. With(o, n + 1, row)[n + 1] = row /\ DOMAIN With(o, n + 1, row) = DOMAIN o \union {n + 1}
      /\ \A i \in DOMAIN o : i # n + 1 => With(o, n + 1, row)[i] = o[i]
    BY DEF With
<1>2. DOMAIN o \subseteq Nat /\ row.kind \in ItemKinds \union ContainerKinds
    BY DEF TableOK, RowType
<1>3. row.parent \in Tree!Containers(o)
    BY DEF Conts, Tree!Containers, ContainerKinds, Tree!ContainerKinds
<1>4. row.kind # "ref" => row.ref = NoRef
    BY <1>1 DEF Placed
<1>5. ASSUME row.kind = "ref" PROVE row.ref \in DOMAIN o /\ o[row.ref].kind = "file" /\ row.ref # NoRef
    <2>1. row.ref \in DOMAIN o \union {n + 1} /\ With(o, n + 1, row)[row.ref].kind = "file"
        BY <1>1, <1>5 DEF Placed
    <2>2. row.ref # n + 1
        BY <1>1, <1>5, <2>1
    <2>3. NoRef \notin Nat
        BY DEF NoRef, Tree!NoRef
    <2> QED BY <1>1, <1>2, <2>1, <2>2, <2>3
<1>6. NoRef = Tree!NoRef
    BY DEF NoRef
<1>7. row.kind \in Tree!ContainerKinds \union Tree!ItemKinds
    BY <1>2 DEF ItemKinds, ContainerKinds, Tree!ItemKinds, Tree!ContainerKinds
<1> QED BY <1>3, <1>4, <1>5, <1>6, <1>7 DEF Tree!WellPlaced

\* An object is added to table and buffer, as the contract says.
Grows == \E row : All' = With(All, lastID + 1, row) /\ Tree!WellPlaced(All, row)

LEMMA appendKeeps ==
    ASSUME NEW t \in Thread, Holds(t), append(t)
    PROVE  Holds(t)' /\ Grows /\ todo[t] = Adding
<1> DEFINE r == reg[t]
           k == todo[t]
           n == lastID
           row == RowOf(r)
           x == AddedObject(n + 1, r)
           q == [r EXCEPT !.id = r.parent, !.res = x]
           k2 == <<"buffered">> \o Storing
<1>1. /\ At(t, "append") /\ lastID' = n + 1 /\ Then(t, <<"buffered">>)
      /\ UNCHANGED <<rows, insertBufferEmpty, idHash, locationHash>>
      /\ Set(t, q) /\ buffer' = With(buffer, n + 1, row)
    BY DEF append, Appended, cacheVars, getNextID, NewRow, RowOf, AddedObject
<1>2. "append" \in CoreLabel
    BY DEF CoreLabel, ChainLabel
<1>3. /\ Core(All, Waits, k, r) /\ Hd(k) = "append" /\ r \in WorkType
      /\ SoundCache(All, Waits, idHash, locationHash)
    BY <1>1, <1>2, CoreAt
<1>4. k = Adding /\ (ChainAt(All, r.parent, k, r) \/ RefAt(All, r))
    <2> HIDE DEF r, k
    <2> QED BY <1>3, CoreCases
<1>5. n \in Nat /\ TableOK(All, n, Waits) /\ idHash \in [DOMAIN idHash -> EntryType]
    BY DEF Holds, TypeInv
<1>6. ItemOK(All, n, row, x, r.parent) /\ Adds(r)
    <2>1. CASE RefAt(All, r)
        BY <1>3, <1>5, <2>1, ReferenceItem DEF RefAt, Linking, Adds
    <2>2. CASE ChainAt(All, r.parent, k, r)
        <3>1. Hd(Referring) = "original" /\ Hd(MakingDir) = "create" /\ Hd(MakingVirt) = "create"
            BY ListFacts DEF Hd
        <3>2. Importing(All, r) /\ DirectoryOf(All, r.parent, Up[r.call.path])
            BY <1>3, <2>2, <3>1 DEF ChainAt
        <3> QED BY <1>3, <1>5, <3>2, ImportedItem DEF Importing, Adds
    <2> QED BY <1>4, <2>1, <2>2
<1> HIDE DEF row, x
<1>7. q \in WorkType /\ q.id = r.parent /\ q.res = x /\ q.call = r.call
    BY <1>3, <1>6 DEF WorkType, ItemOK
<1> HIDE DEF q
<1>8. n + 1 \notin DOMAIN All /\ DOMAIN All = DOMAIN rows \union DOMAIN buffer
    BY <1>5 DEF TableOK, All, Over
<1>9. All' = With(All, n + 1, row)
    <2>1. \A f : f = Over(rows, With(buffer, n + 1, row)) => f = With(Over(rows, buffer), n + 1, row)
        <3>1. /\ DOMAIN Over(rows, With(buffer, n + 1, row)) = DOMAIN With(Over(rows, buffer), n + 1, row)
              /\ \A i \in DOMAIN With(Over(rows, buffer), n + 1, row) :
                    Over(rows, With(buffer, n + 1, row))[i] = With(Over(rows, buffer), n + 1, row)[i]
            BY <1>8 DEF Over, With
        <3> QED BY <3>1 DEF Over, With
    <2> QED BY <1>1, <2>1 DEF All
<1>10. Waits' = Waits \union {n + 1}
    BY <1>1, <1>8 DEF Waits, With
<1>11. /\ k2 \in Seq(Label) /\ Hd(k2) = "buffered" /\ Uncounted(k2)
       /\ todo' = [todo EXCEPT ![t] = k2]
    <2>1. "buffered" \in Label /\ Storing \in Seq(Label)
        BY Lists DEF Label
    <2>2. Tail(k) = Storing
        BY <1>4, ListFacts
    <2> QED BY <1>1, <2>1, <2>2, PushOne DEF Uncounted, Then, Holds, TypeInv
<1> HIDE DEF k2, k
<1>12. Moves(t, k2, q)
    BY <1>1, <1>11 DEF Moves, Set
<1>13. todo'[t] = k2 /\ reg'[t] = q /\ todo' \in [Thread -> Seq(Label)] /\ reg' \in [Thread -> WorkType]
    BY <1>7, <1>11, <1>12, Moved DEF Holds
<1>14. TypeInv'
    <2>1. buffer' \in [DOMAIN buffer' -> RowType]
        BY <1>1, <1>6, WithType DEF Holds, TypeInv, ItemOK
    <2> QED BY <1>1, <1>5, <1>13, <2>1 DEF Holds, TypeInv
<1>15. TableOK(All', n + 1, Waits')
    <2>1. /\ row \in RowType /\ row.kind \in {"file", "ref"} /\ row.parent \in Conts(All)
          /\ row.loc[2] # NoPath => ~Located(All, row.loc)
          /\ Placed(All', n + 1)
        BY <1>6, <1>9 DEF ItemOK
    <2>2. row.kind \notin ContainerKinds
        BY <2>1 DEF ContainerKinds
    <2> HIDE DEF r
    <2> QED BY <1>5, <1>9, <1>10, <2>1, <2>2, GrownTable
<1>16. BufferOK(Waits', DOMAIN buffer', insertBufferEmpty, k2)
    <2>1. Waits = DOMAIN buffer
        BY <1>3 DEF Holds, Good, BufferOK, k
    <2>2. Waits' = DOMAIN buffer'
        BY <1>1, <1>10, <2>1 DEF With
    <2> QED BY <1>11, <2>2 DEF BufferOK
<1>17. CacheOK(All', n + 1, Waits', idHash, locationHash, k2, q)
    <2>1. /\ \A i \in DOMAIN idHash : /\ SoundObj(All', idHash[i], i) /\ SoundType(All', idHash[i], i)
                                      /\ SoundNum(All', idHash[i], i, i = row.parent)
          /\ LocationsOK(All', locationHash)
          /\ \A i \in Waits : Visible(idHash, locationHash, i)
        <3> HIDE DEF r
        <3> QED BY <1>3, <1>5, <1>9, GrownSound
    <2>2. row.parent = q.id
        BY <1>6, <1>7 DEF ItemOK
    <2>3. \A i : Owed(k2, q, i) <=> i = row.parent
        BY <1>11, <2>2 DEF Owed
    <2>4. \A i : SoundNum(All', idHash[i], i, i = row.parent)
                 => SoundNum(All', idHash[i], i, Owed(k2, q, i))
        BY <2>3 DEF SoundNum
    <2> QED BY <1>10, <1>11, <2>1, <2>4 DEF CacheOK
<1>18. Point(All', n + 1, Waits', k2, q)
    <2>1. NewAt(All', n + 1, q)
        BY <1>6, <1>7, <1>9 DEF NewAt, ItemOK, Adds
    <2> QED BY <1>11, <2>1 DEF Point
<1>19. Grows /\ k = Adding
    <2>1. row \in RowType /\ row.parent \in Conts(All) /\ Placed(With(All, n + 1, row), n + 1)
        BY <1>6 DEF ItemOK
    <2>2. Tree!WellPlaced(All, row)
        BY <1>5, <2>1, PlacedWell
    <2> QED BY <1>4, <1>9, <2>2 DEF Grows, k
<1>20. Holds(t)'
    BY <1>1, <1>13, <1>14, <1>15, <1>16, <1>17, <1>18 DEF Holds, Good
<1> QED BY <1>19, <1>20 DEF k

\* The first of the paths that wait in r gets its container; in q it waits no
\* longer.
Served(o, o2, r, q, pre) ==
    /\ r.pend \in Seq(Paths) /\ r.pend # <<>> /\ q.pend = Tail(r.pend)
    /\ \A at : Located(o2, at) <=> Located(o, at) \/ at = <<pre, Head(r.pend)>>

LEMMA Waited ==
    ASSUME NEW o, NEW o2, NEW r, NEW q, NEW pre, NEW S, NEW g,
           Served(o, o2, r, q, pre), Waiting(o, r, pre, S, g)
    PROVE  /\ Head(r.pend) \in S /\ ~Located(o, <<pre, Head(r.pend)>>)
           /\ q.pend \in Seq(Paths)
           /\ q.pend = <<>> => Head(r.pend) = g
           /\ q.pend # <<>> => Waiting(o2, q, pre, S, g)
<1> DEFINE a == r.pend
           b == Tail(a)
           n == Len(b)
<1> USE DEF Served
<1>1. /\ b \in Seq(Paths) /\ n \in Nat /\ Len(a) = n + 1 /\ Head(a) = a[1]
      /\ \A m \in 1 .. n : b[m] = a[m + 1]
    BY HeadTailProperties, LenProperties
<1>2. /\ a[Len(a)] = g
      /\ \A m \in 1 .. Len(a) : a[m] \in S /\ ~Located(o, <<pre, a[m]>>)
      /\ \A m, k \in 1 .. Len(a) : a[m] = a[k] => m = k
    BY DEF Waiting
<1>3. b = <<>> <=> n = 0
    BY <1>1, EmptySeq
<1> HIDE DEF b, n
<1>4. \A m \in 1 .. n : m + 1 \in 1 .. n + 1 /\ m + 1 # 1 /\ 1 \in 1 .. n + 1
    BY <1>1
<1>5. Head(a) \in S /\ ~Located(o, <<pre, Head(a)>>)
    <2>1. 1 \in 1 .. Len(a)
        BY <1>1
    <2> QED BY <1>1, <1>2, <2>1
<1>6. b = <<>> => Head(a) = g
    BY <1>1, <1>2, <1>3
<1>7. ASSUME b # <<>> PROVE Waiting(o2, q, pre, S, g)
    <2>1. b[n] = g
        <3>1. n \in 1 .. n
            BY <1>1, <1>3, <1>7
        <3> QED BY <1>1, <1>2, <3>1
    <2>2. \A m \in 1 .. n : b[m] \in S /\ b[m] # Head(a) /\ ~Located(o, <<pre, b[m]>>)
        BY <1>1, <1>2, <1>4
    <2>3. \A m \in 1 .. n : ~Located(o2, <<pre, b[m]>>)
        BY <2>2
    <2>4. \A m, k \in 1 .. n : b[m] = b[k] => m = k
        <3> TAKE m \in 1 .. n, k \in 1 .. n
        <3>1. a[m + 1] = a[k + 1] => m + 1 = k + 1
            BY <1>1, <1>2, <1>4
        <3> QED BY <1>1, <3>1
    <2> QED BY <2>1, <2>2, <2>3, <2>4 DEF Waiting, b, n
<1> QED BY <1>1, <1>5, <1>6, <1>7 DEF b

\* The row of a container, which is made for the path p.
ContainerRow(p, c) ==
    IF p \in Dirs THEN Row("dir", c, NoRef, <<"D", p>>, NoMeta)
    ELSE Row("virt", c, NoRef, <<"V", p>>, NoMeta)

LEMMA NewContainer ==
    ASSUME NEW o, NEW n \in Nat, NEW w, TableOK(o, n, w), NEW p \in Dirs \union Virtuals,
           NEW c \in Conts(o), c \in Int
    PROVE  LET row == ContainerRow(p, c)
               o2 == With(o, n + 1, row)
           IN  /\ row \in RowType /\ row.kind \in ContainerKinds /\ row.kind # "ref"
               /\ row.parent = c
               /\ row.loc = <<IF p \in Dirs THEN "D" ELSE "V", p>>
               /\ Placed(o2, n + 1)
               /\ n + 1 \in Conts(o2) /\ o2[n + 1].parent = c /\ o2[n + 1].loc = row.loc
               /\ ChildrenOf(o2, n + 1) = {}
<1> DEFINE row == ContainerRow(p, c)
           o2 == With(o, n + 1, row)
<1>1. /\ row.kind \in ContainerKinds /\ row.kind # "ref" /\ row.parent = c
      /\ row.loc = <<IF p \in Dirs THEN "D" ELSE "V", p>>
      /\ row.kind = "dir" => p \in Dirs
      /\ row.kind = "virt" => p \in Virtuals /\ p \notin Dirs
      /\ row.ref = NoRef /\ row.persistent = FALSE /\ row.meta = NoMeta
      /\ row.kind \in {"dir", "virt"}
    BY PathsAssumption DEF ContainerRow, Row, ContainerKinds
<1>2. row \in RowType
    <2>1. p \in AnyPath /\ NoMeta \in AnyMeta /\ NoRef \in Int
        BY DEF AnyPath, Paths, AnyMeta, NoRef, Tree!NoRef
    <2>2. <<"D", p>> \in Location /\ <<"V", p>> \in Location
        BY <2>1 DEF Location
    <2> QED BY <2>1, <2>2 DEF ContainerRow, Row, RowType, ContainerKinds
<1> HIDE DEF row
<1>3. o2[n + 1] = row /\ n + 1 \in DOMAIN o2
    BY DEF With
<1>4. Conts(o) \subseteq Conts(o2)
    BY GrownPlaces
<1>5. ChildrenOf(o2, n + 1) = {}
    <2>1. DOMAIN o2 = DOMAIN o \union {n + 1} /\ n + 1 \notin DOMAIN o
          /\ \A i \in DOMAIN o : o2[i] = o[i]
        BY DEF With, TableOK
    <2>2. c # n + 1
        BY <2>1 DEF Conts
    <2>3. ASSUME NEW i \in DOMAIN o PROVE o[i].parent # n + 1
        <3>1. CASE i = CDS_ID_ROOT
            <4>1. o[i].parent = -1
                BY <3>1 DEF TableOK, Roots
            <4> QED BY <4>1
        <3>2. CASE i # CDS_ID_ROOT
            <4>1. o[i].parent \in Conts(o)
                BY <3>2, RowFacts DEF Placed
            <4> QED BY <2>1, <4>1 DEF Conts
        <3> QED BY <3>1, <3>2
    <2> HIDE DEF o2
    <2> QED BY <1>1, <1>3, <2>1, <2>2, <2>3 DEF ChildrenOf
<1> HIDE DEF o2
<1>6. Placed(o2, n + 1)
    BY <1>1, <1>3, <1>4 DEF Placed
<1>7. n + 1 \in Conts(o2)
    BY <1>1, <1>3 DEF Conts
<1> QED BY <1>1, <1>2, <1>3, <1>5, <1>6, <1>7 DEF o2, row

\* The location of the container of p.
ContainerLoc(p) == <<IF p \in Dirs THEN "D" ELSE "V", p>>

\* o2 is o and the new container n of the first path that waits in r; in q it
\* waits no longer.
Created(o, o2, n, r, q) ==
    /\ q.call = r.call /\ q.obj = r.obj /\ q.pend = Tail(r.pend)
    /\ DOMAIN o \subseteq DOMAIN o2
    /\ \A i \in DOMAIN o : o2[i] = o[i]
    /\ \A at : Located(o2, at) <=> Located(o, at) \/ at = ContainerLoc(Head(r.pend))
    /\ n \in Conts(o2) /\ o2[n].loc = ContainerLoc(Head(r.pend))

\* The chain goes on below the new container n.
LEMMA ChainGrown ==
    ASSUME NEW o, NEW o2, NEW n, NEW c, NEW k, NEW r, r.pend \in Seq(Paths),
           ChainAt(o, c, k, r), Hd(k) = "create", NEW q, Created(o, o2, n, r, q)
    PROVE  /\ ~Located(o, ContainerLoc(Head(r.pend)))
           /\ \/ /\ Tail(k) = Adding
                 /\ ChainAt(o2, n, IF q.pend = <<>> THEN Adding ELSE MakingDir, q)
              \/ /\ Tail(k) = Referring
                 /\ ChainAt(o2, n, IF q.pend = <<>> THEN Referring ELSE MakingVirt, q)
<1> DEFINE p == Head(r.pend)
<1>1. Hd(Adding) = "append" /\ Hd(Referring) = "original"
    BY ListFacts DEF Hd
<1>c. /\ q.call = r.call /\ q.obj = r.obj /\ q.pend = Tail(r.pend)
      /\ DOMAIN o \subseteq DOMAIN o2
      /\ \A i \in DOMAIN o : o2[i] = o[i]
      /\ \A at : Located(o2, at) <=> Located(o, at) \/ at = ContainerLoc(p)
      /\ n \in Conts(o2) /\ o2[n].loc = ContainerLoc(p)
    BY DEF Created
<1>p. r.pend # <<>> => Head(r.pend) = r.pend[1] /\ 1 \in 1 .. Len(r.pend)
    BY HeadTailProperties, LenProperties, EmptySeq
<1> HIDE DEF p
<1>2. CASE /\ k = MakingDir /\ Importing(o, r) /\ c \in Conts(o)
           /\ r.pend # <<>> /\ Waiting(o, r, "D", Dirs, Up[r.call.path])
    <2> DEFINE g == Up[r.call.path]
    <2>1. p \in Dirs /\ ContainerLoc(p) = <<"D", p>>
        BY <1>2, <1>p DEF Waiting, p, ContainerLoc
    <2>2. \A at : Located(o2, at) <=> Located(o, at) \/ at = <<"D", Head(r.pend)>>
        BY <1>c, <2>1 DEF p
    <2>3. /\ ~Located(o, <<"D", p>>)
          /\ q.pend = <<>> => p = g
          /\ q.pend # <<>> => Waiting(o2, q, "D", Dirs, g)
        <3>1. Waiting(o, r, "D", Dirs, g) /\ Served(o, o2, r, q, "D")
            BY <1>2, <1>c, <2>2 DEF Served
        <3> HIDE DEF g
        <3>2. /\ ~Located(o, <<"D", Head(r.pend)>>)
              /\ q.pend = <<>> => Head(r.pend) = g
              /\ q.pend # <<>> => Waiting(o2, q, "D", Dirs, g)
            BY <3>1, Waited
        <3> QED BY <3>2 DEF p
    <2>4. Importing(o2, q)
        <3>1. <<"F", r.call.path>> # <<"D", p>>
            OBVIOUS
        <3>2. ~Located(o2, <<"F", r.call.path>>)
            BY <1>2, <1>c, <2>1, <3>1 DEF Importing
        <3> QED BY <1>2, <1>c, <3>2 DEF Importing
    <2>5. DirectoryOf(o2, n, p)
        BY <1>c, <2>1 DEF DirectoryOf
    <2>6. ChainAt(o2, n, IF q.pend = <<>> THEN Adding ELSE MakingDir, q)
        BY <1>c, <2>3, <2>4, <2>5 DEF ChainAt
    <2> QED BY <1>2, <2>1, <2>3, <2>6, ListFacts DEF p
<1>3. CASE /\ k = MakingVirt /\ Linking(o, r) /\ c \in Conts(o)
           /\ r.pend # <<>> /\ Waiting(o, r, "V", Virtuals, r.call.path)
    <2> DEFINE g == r.call.path
    <2>1. p \in Virtuals /\ p \notin Dirs /\ ContainerLoc(p) = <<"V", p>>
        <3>1. p \in Virtuals
            BY <1>3, <1>p DEF Waiting, p
        <3> QED BY <3>1, PathsAssumption DEF ContainerLoc
    <2>2. \A at : Located(o2, at) <=> Located(o, at) \/ at = <<"V", Head(r.pend)>>
        BY <1>c, <2>1 DEF p
    <2>3. /\ ~Located(o, <<"V", p>>)
          /\ q.pend # <<>> => Waiting(o2, q, "V", Virtuals, g)
        <3>1. Waiting(o, r, "V", Virtuals, g) /\ Served(o, o2, r, q, "V")
            BY <1>3, <1>c, <2>2 DEF Served
        <3> HIDE DEF g
        <3>2. /\ ~Located(o, <<"V", Head(r.pend)>>)
              /\ q.pend = <<>> => Head(r.pend) = g
              /\ q.pend # <<>> => Waiting(o2, q, "V", Virtuals, g)
            BY <3>1, Waited
        <3> QED BY <3>2 DEF p
    <2>4. Linking(o2, q)
        BY <1>3, <1>c DEF Linking
    <2>6. ChainAt(o2, n, IF q.pend = <<>> THEN Referring ELSE MakingVirt, q)
        BY <1>c, <2>3, <2>4 DEF ChainAt
    <2> QED BY <1>3, <2>1, <2>3, <2>6, ListFacts DEF p
<1> QED BY <1>1, <1>2, <1>3 DEF ChainAt

LEMMA createContainerKeeps ==
    ASSUME NEW t \in Thread, Holds(t), createContainer(t)
    PROVE  Holds(t)' /\ Grows /\ todo[t] \in {MakingDir, MakingVirt}
<1> DEFINE r == reg[t]
           k == todo[t]
           s == Tail(k)
           n == lastID
           p == Head(r.pend)
           row == ContainerRow(p, r.parent)
           q == [r EXCEPT !.id = n + 1, !.pend = Tail(@)]
           steps == IF Tail(r.pend) = <<>> THEN <<"inform">> ELSE <<"inform", "create">>
           m == IF Tail(r.pend) = <<>> THEN s ELSE <<"create">> \o s
           k2 == <<"inform">> \o m
           o2 == With(All, n + 1, row)
<1>1. /\ At(t, "create") /\ lastID' = n + 1 /\ Then(t, steps)
      /\ UNCHANGED <<buffer, insertBufferEmpty, idHash, locationHash>>
      /\ Set(t, q) /\ rows' = With(rows, n + 1, row)
    BY DEF createContainer, cacheVars, bufferVars, getNextID, ContainerRow
<1>2. "create" \in CoreLabel
    BY DEF CoreLabel, ChainLabel
<1>3. /\ Core(All, Waits, k, r) /\ Hd(k) = "create" /\ r \in WorkType
      /\ SoundCache(All, Waits, idHash, locationHash) /\ s \in Seq(Label)
    BY <1>1, <1>2, CoreAt
<1>4. ChainAt(All, r.parent, k, r)
    <2> HIDE DEF r, k
    <2> QED BY <1>3, CoreCases
<1>5. n \in Nat /\ TableOK(All, n, Waits) /\ idHash \in [DOMAIN idHash -> EntryType]
    BY DEF Holds, TypeInv
<1>6. /\ r.pend \in Seq(Paths) /\ r.pend # <<>> /\ r.parent \in Int /\ r.parent \in Conts(All)
      /\ Tail(r.pend) \in Seq(Paths) /\ p \in Dirs \union Virtuals
    <2>1. Hd(Adding) = "append" /\ Hd(Referring) = "original"
        BY ListFacts DEF Hd
    <2>2. r.pend # <<>> /\ r.parent \in Conts(All) /\ r.pend \in Seq(Paths) /\ r.parent \in Int
        BY <1>3, <1>4, <2>1 DEF ChainAt, WorkType
    <2>3. Head(r.pend) = r.pend[1] /\ 1 \in 1 .. Len(r.pend) /\ Tail(r.pend) \in Seq(Paths)
        BY <2>2, HeadTailProperties, LenProperties, EmptySeq
    <2> QED BY <1>3, <1>4, <2>1, <2>2, <2>3 DEF ChainAt, Waiting
<1>7. /\ row \in RowType /\ row.kind \in ContainerKinds /\ row.kind # "ref" /\ row.parent = r.parent
      /\ row.loc = <<IF p \in Dirs THEN "D" ELSE "V", p>>
      /\ Placed(o2, n + 1)
      /\ n + 1 \in Conts(o2) /\ o2[n + 1].parent = r.parent /\ o2[n + 1].loc = row.loc
      /\ ChildrenOf(o2, n + 1) = {}
    <2> DEFINE c == r.parent
    <2>1. c \in Conts(All) /\ c \in Int
        BY <1>6
    <2> HIDE DEF c, p
    <2> QED BY <1>5, <1>6, <2>1, NewContainer DEF c
<1> HIDE DEF row
<1>8. /\ q \in WorkType /\ q.id = n + 1 /\ q.pend = Tail(r.pend) /\ q.call = r.call
      /\ q.obj = r.obj /\ q.parent = r.parent
    <2> DEFINE b == Tail(r.pend)
    <2>1. b \in Seq(Paths) /\ n + 1 \in Int /\ q = [r EXCEPT !.id = n + 1, !.pend = b]
        BY <1>5, <1>6
    <2> HIDE DEF b, r, q
    <2>2. /\ q \in WorkType /\ q.id = n + 1 /\ q.pend = b /\ q.call = r.call
          /\ q.obj = r.obj /\ q.parent = r.parent
        BY <1>3, <2>1 DEF WorkType
    <2> QED BY <2>2 DEF b
<1>9. /\ n + 1 \notin DOMAIN All /\ DOMAIN All = DOMAIN rows \union DOMAIN buffer
      /\ DOMAIN o2 = DOMAIN All \union {n + 1} /\ o2[n + 1] = row
      /\ \A i \in DOMAIN All : o2[i] = All[i]
    BY <1>5 DEF TableOK, All, Over, With
<1>10. All' = o2
    <2>1. \A f : f = Over(With(rows, n + 1, row), buffer) => f = With(Over(rows, buffer), n + 1, row)
        <3>1. /\ DOMAIN Over(With(rows, n + 1, row), buffer) = DOMAIN With(Over(rows, buffer), n + 1, row)
              /\ \A i \in DOMAIN With(Over(rows, buffer), n + 1, row) :
                    Over(With(rows, n + 1, row), buffer)[i] = With(Over(rows, buffer), n + 1, row)[i]
            BY <1>9 DEF Over, With
        <3> QED BY <3>1 DEF Over, With
    <2> QED BY <1>1, <2>1 DEF All
<1>11. Waits' = Waits
    BY <1>1, <1>9 DEF Waits, With
<1> HIDE DEF q
<1>12. /\ p \in Dirs \union Virtuals /\ ~Located(All, row.loc)
       /\ ChainAt(o2, n + 1, m, q) /\ m \in Seq(Label)
    <2>1. o2 = With(All, n + 1, row)
        OBVIOUS
    <2>2. \A at : Located(o2, at) <=> Located(All, at) \/ at = row.loc
        BY <1>9 DEF Located
    <2>3. /\ ~Located(All, row.loc)
          /\ \/ s = Adding /\ ChainAt(o2, n + 1, IF q.pend = <<>> THEN Adding ELSE MakingDir, q)
             \/ s = Referring /\ ChainAt(o2, n + 1, IF q.pend = <<>> THEN Referring ELSE MakingVirt, q)
        <3> HIDE DEF r, s, k, o2
        <3>1. /\ r.pend \in Seq(Paths) /\ ChainAt(All, r.parent, k, r) /\ Hd(k) = "create"
              /\ row.loc = ContainerLoc(p)
            BY <1>3, <1>4, <1>6, <1>7 DEF ContainerLoc
        <3>2. Created(All, o2, n + 1, r, q)
            BY <1>7, <1>8, <1>9, <2>2, <3>1 DEF Created
        <3> HIDE DEF p
        <3> QED BY <3>1, <3>2, ChainGrown DEF s, p
    <2>4. m = IF q.pend = <<>> THEN s ELSE <<"create">> \o s
        BY <1>8
    <2>5. /\ <<"create">> \o Adding = MakingDir /\ <<"create">> \o Referring = MakingVirt
          /\ Adding \in Seq(Label) /\ MakingDir \in Seq(Label) /\ Referring \in Seq(Label)
          /\ MakingVirt \in Seq(Label)
        BY Cons, Lists
    <2> HIDE DEF m, s, o2
    <2> QED BY <1>6, <2>3, <2>4, <2>5
<1>13. /\ Starts(k2, "inform", m) /\ k2 \in Seq(Label) /\ todo' = [todo EXCEPT ![t] = k2]
    <2>1. "inform" \in Label /\ "create" \in Label
        BY DEF Label
    <2>2. steps \o s = k2
        <3>1. CASE Tail(r.pend) = <<>>
            BY <3>1
        <3>2. CASE Tail(r.pend) # <<>>
            <4>1. <<"inform", "create">> \o s = <<"inform">> \o (<<"create">> \o s)
                BY <1>3, <2>1, Push
            <4> QED BY <3>2, <4>1
        <3> QED BY <3>1, <3>2
    <2>3. todo' = [todo EXCEPT ![t] = steps \o s]
        BY <1>1 DEF Then, Holds, TypeInv
    <2> HIDE DEF m, s, steps
    <2> QED BY <1>12, <2>1, <2>2, <2>3, PushOne DEF Starts
<1> HIDE DEF k2, k, steps, m
<1>14. Moves(t, k2, q)
    BY <1>1, <1>13 DEF Moves, Set
<1>15. todo'[t] = k2 /\ reg'[t] = q /\ todo' \in [Thread -> Seq(Label)] /\ reg' \in [Thread -> WorkType]
    BY <1>8, <1>13, <1>14, Moved DEF Holds
<1> HIDE DEF r, s, p
<1>16. TypeInv'
    <2>1. rows' \in [DOMAIN rows' -> RowType]
        BY <1>1, <1>7, WithType DEF Holds, TypeInv
    <2> QED BY <1>1, <1>5, <1>15, <2>1 DEF Holds, TypeInv
<1>17. TableOK(o2, n + 1, Waits)
    <2>1. /\ row \in RowType /\ row.kind \in ContainerKinds /\ row.parent \in Conts(All)
          /\ Placed(o2, n + 1) /\ ~Located(All, row.loc) /\ row.kind # "ref"
        BY <1>6, <1>7, <1>12
    <2>2. o2 = With(All, n + 1, row)
        OBVIOUS
    <2> HIDE DEF o2
    <2> QED BY <1>5, <2>1, <2>2, GrownTable
<1>18. BufferOK(Waits, DOMAIN buffer, insertBufferEmpty, k2)
    <2>1. BufferOK(Waits, DOMAIN buffer, insertBufferEmpty, k)
        BY DEF Holds, Good, k
    <2> QED BY <1>3, <1>13, <2>1 DEF BufferOK, Starts
<1>19. CacheOK(o2, n + 1, Waits, idHash, locationHash, k2, q)
    <2>1. /\ \A i \in DOMAIN idHash : /\ SoundObj(o2, idHash[i], i) /\ SoundType(o2, idHash[i], i)
                                      /\ SoundNum(o2, idHash[i], i, i = row.parent)
          /\ LocationsOK(o2, locationHash)
          /\ \A i \in Waits : Visible(idHash, locationHash, i)
        <3>1. o2 = With(All, n + 1, row)
            OBVIOUS
        <3> HIDE DEF o2
        <3> QED BY <1>3, <1>5, <3>1, GrownSound
    <2>2. row.parent = q.parent /\ Hd(k2) = "inform" /\ ~Uncounted(k2)
        BY <1>7, <1>8, <1>13, UncountedHead DEF Starts
    <2>3. \A i : Owed(k2, q, i) <=> i = row.parent
        BY <2>2 DEF Owed
    <2>4. \A i : SoundNum(o2, idHash[i], i, i = row.parent)
                 => SoundNum(o2, idHash[i], i, Owed(k2, q, i))
        BY <2>3 DEF SoundNum
    <2> HIDE DEF o2
    <2> QED BY <2>1, <2>4 DEF CacheOK
<1>20. Point(o2, n + 1, Waits, k2, q)
    <2> HIDE DEF o2
    <2> QED BY <1>7, <1>8, <1>12, <1>13 DEF Point, Starts
<1>21. Grows
    <2>1. row.parent \in Conts(All) /\ Placed(With(All, n + 1, row), n + 1)
        BY <1>6, <1>7
    <2>2. Tree!WellPlaced(All, row)
        BY <1>5, <1>7, <2>1, PlacedWell
    <2> QED BY <1>10, <2>2 DEF Grows
<1> HIDE DEF o2
<1>22. Holds(t)'
    BY <1>1, <1>10, <1>11, <1>15, <1>16, <1>17, <1>18, <1>19, <1>20 DEF Holds, Good
<1>23. todo[t] \in {MakingDir, MakingVirt}
    <2>1. Hd(Adding) = "append" /\ Hd(Referring) = "original"
        BY ListFacts DEF Hd
    <2> QED BY <1>3, <1>4, <2>1 DEF ChainAt, k
<1> QED BY <1>21, <1>22, <1>23

-----------------------------------------------------------------------------
(* The end of a removal and of a run: the cache is emptied.                *)

LEMMA EmptiedKeeps ==
    ASSUME NEW t \in Thread, Holds(t), Hd(todo[t]) \notin {"buffered", "flushed"},
           NEW r \in WorkType, Moves(t, Done, r), r.call.op \in {"remove", "shutdown"},
           UNCHANGED <<rows, buffer, insertBufferEmpty>>, Waits = {},
           lastID' \in Nat, TableOK(All, lastID', {}),
           idHash' = <<>>, locationHash' = <<>>
    PROVE  Holds(t)'
<1>1. All' = All /\ Waits' = Waits
    BY DEF All, Waits
<1>2. Done \in Seq(Label) /\ Hd(Done) = "answer" /\ Done # <<>>
    BY Lists, ListFacts DEF Hd
<1> HIDE DEF Done
<1>3. todo'[t] = Done /\ reg'[t] = r /\ todo' \in [Thread -> Seq(Label)] /\ reg' \in [Thread -> WorkType]
    BY <1>2, Moved DEF Holds
<1>4. TypeInv'
    BY <1>3 DEF Holds, TypeInv
<1>5. BufferOK(Waits, DOMAIN buffer, insertBufferEmpty, Done)
    BY <1>2 DEF Holds, Good, BufferOK
<1>6. CacheOK(All, lastID', Waits, <<>>, <<>>, Done, r)
    <2>1. SoundCache(All, Waits, <<>>, <<>>)
        BY DEF SoundCache, LocationsOK
    <2> QED BY <1>2, <2>1, SoundIsOK
<1>7. Point(All, lastID', Waits, Done, r)
    BY <1>2 DEF Point, Core, AnswerOK
<1> QED BY <1>1, <1>3, <1>4, <1>5, <1>6, <1>7 DEF Holds, Good

LEMMA clearCacheKeeps ==
    ASSUME NEW t \in Thread, Holds(t), clearCache(t)
    PROVE  Holds(t)'
<1>1. /\ At(t, "clearCache") /\ Then(t, <<>>) /\ UNCHANGED reg
      /\ UNCHANGED <<rows, buffer, insertBufferEmpty, lastID>>
      /\ idHash' = <<>> /\ locationHash' = <<>>
    BY DEF clearCache, tableVars, bufferVars
<1>2. /\ Tail(todo[t]) = Done /\ reg[t].call.op = "remove" /\ Waits = {}
      /\ Hd(todo[t]) = "clearCache" /\ reg[t] \in WorkType
    BY <1>1, PointAt, PointCases
<1>3. <<>> \o Done = Done
    BY Lists, ConcatEmptySeq
<1>4. Moves(t, Done, reg[t])
    BY <1>1, <1>2, <1>3, MovesBy DEF Holds
<1>5. lastID' \in Nat /\ TableOK(All, lastID', {})
    BY <1>1, <1>2 DEF Holds, TypeInv
<1> QED BY <1>1, <1>2, <1>4, <1>5, EmptiedKeeps

\* The restart reads the highest id.
LEMMA LargestId ==
    ASSUME NEW S, S # {}, NEW n \in Nat, S \subseteq 0 .. n
    PROVE  Max(S) \in S /\ \A i \in S : i <= Max(S)
<1> DEFINE R == OpToRel(<, Nat)
           T == {n - i : i \in S}
<1>1. T # {} /\ T \subseteq Nat
    <2>1. PICK i \in S : TRUE
        OBVIOUS
    <2>2. n - i \in T
        BY <2>1
    <2>3. \A j \in S : j \in 0 .. n /\ n - j \in Nat
        OBVIOUS
    <2> QED BY <2>2, <2>3
<1>2. IsWellFoundedOn(R, Nat)
    BY NatLessThanWellFounded
<1>3. \A x, y \in Nat : <<y, x>> \in R <=> y < x
    BY DEF OpToRel
<1>w. PICK x \in T : \A y \in T : x <= y
    <2> HIDE DEF T, R
    <2>1. PICK x \in T : \A y \in T : ~(<<y, x>> \in R)
        BY ONLY <1>1, <1>2, WFMin
    <2>2. \A y \in T : ~(y < x)
        BY <1>1, <1>3, <2>1
    <2> QED BY <1>1, <2>2
<1>4. PICK i \in S : x = n - i
    OBVIOUS
<1>5. \A j \in S : j <= i
    <2> TAKE j \in S
    <2>1. n - j \in T
        OBVIOUS
    <2>2. n - i <= n - j
        BY <1>w, <1>4, <2>1
    <2> QED BY <2>2
<1> QED BY <1>5 DEF Max

LEMMA restartKeeps ==
    ASSUME NEW t \in Thread, Holds(t), restart(t)
    PROVE  Holds(t)'
<1>1. /\ At(t, "restart") /\ Then(t, <<>>) /\ UNCHANGED reg /\ lastID' = Max(DOMAIN rows)
      /\ UNCHANGED <<rows, buffer, insertBufferEmpty>>
      /\ idHash' = <<>> /\ locationHash' = <<>>
    BY DEF restart, bufferVars
<1>2. "restart" \in CoreLabel
    BY DEF CoreLabel
<1>3. Core(All, Waits, todo[t], reg[t]) /\ Hd(todo[t]) = "restart" /\ reg[t] \in WorkType
    BY <1>1, <1>2, CoreAt
<1>4. Tail(todo[t]) = Done /\ reg[t].call.op = "shutdown" /\ Waits = {}
    BY <1>3, CoreListing
<1>5. <<>> \o Done = Done
    BY Lists, ConcatEmptySeq
<1>6. Moves(t, Done, reg[t])
    BY <1>1, <1>4, <1>5, MovesBy DEF Holds
<1>7. TableOK(All, lastID, {}) /\ lastID \in Nat /\ DOMAIN rows = DOMAIN All
    BY <1>4, RowsAreAll DEF Holds, TypeInv
<1>8. DOMAIN rows # {} /\ DOMAIN rows \subseteq 0 .. lastID
    BY <1>7 DEF TableOK, Roots
<1>9. lastID' \in DOMAIN rows /\ \A i \in DOMAIN rows : i <= lastID'
    BY <1>1, <1>7, <1>8, LargestId
<1>10. lastID' \in Nat /\ DOMAIN All \subseteq 0 .. lastID'
    BY <1>7, <1>8, <1>9
<1>11. TableOK(All, lastID', {})
    BY <1>7, <1>10 DEF TableOK
<1> QED BY <1>1, <1>3, <1>4, <1>6, <1>10, <1>11, EmptiedKeeps

-----------------------------------------------------------------------------
(* Changing an object.                                                     *)

\* o2 is o, but for the metadata of i.
Edited(o, o2, i, m) ==
    /\ DOMAIN o2 = DOMAIN o
    /\ \A j \in DOMAIN o : /\ o2[j].kind = o[j].kind /\ o2[j].parent = o[j].parent
                           /\ o2[j].ref = o[j].ref /\ o2[j].persistent = o[j].persistent
                           /\ o2[j].loc = o[j].loc /\ o2[j] \in RowType
    /\ \A j \in DOMAIN o \ {i} : o2[j] = o[j]
    /\ o2[i].meta = m

LEMMA EditedTable ==
    ASSUME NEW o, NEW n \in Nat, NEW w, TableOK(o, n, w), NEW i, NEW m, NEW o2, Edited(o, o2, i, m),
           o2 \in [DOMAIN o2 -> RowType]
    PROVE  TableOK(o2, n, w)
<1> USE DEF Edited
<1>1. Conts(o2) = Conts(o)
    BY DEF Conts
<1>2. \A c, p : DirectoryOf(o2, c, p) <=> DirectoryOf(o, c, p)
    BY <1>1 DEF DirectoryOf, Conts
<1>3. Roots(o2) /\ OnePerPath(o2)
    BY DEF TableOK, Roots, OnePerPath
<1>4. ASSUME NEW j \in DOMAIN o2 PROVE Placed(o2, j)
    <2>1. Placed(o, j)
        BY DEF TableOK
    <2> QED BY <1>1, <1>2, <2>1 DEF Placed
<1>5. Ordered(o2, w)
    <2>1. Ordered(o, w)
        BY DEF TableOK
    <2> QED BY <1>1, <2>1 DEF Ordered
<1> QED BY <1>3, <1>4, <1>5 DEF TableOK

\* What the callers and the cache know of the others is still right.
LEMMA EditedObjects ==
    ASSUME NEW o, NEW n \in Nat, NEW w, TableOK(o, n, w), NEW i, NEW m, NEW o2, Edited(o, o2, i, m),
           NEW j \in DOMAIN o
    PROVE  /\ Object(o2, j).loc = Object(o, j).loc
           /\ CacheLocation(Object(o2, j)) = CacheLocation(Object(o, j))
           /\ TypeOf(o2[j]) = TypeOf(o[j])
           /\ j # i => \A x : Right(o, x, j) => Right(o2, x, j)
           /\ j = i /\ o[i].kind # "ref" => Object(o2, i).meta = m
           /\ j = i /\ m # NoMeta => Object(o2, i).meta = m
<1> USE DEF Edited
<1>1. o[j].kind = "ref" => o[j].ref \in DOMAIN o
    BY RowFacts DEF Placed
<1>2. Object(o2, j).loc = Object(o, j).loc
    BY <1>1 DEF Object
<1>3. Object(o2, j).kind = Object(o, j).kind
    BY ObjectFields
<1>4. CacheLocation(Object(o2, j)) = CacheLocation(Object(o, j))
    BY <1>2, <1>3 DEF CacheLocation
<1>5. ASSUME j # i, ~(o[j].kind = "ref" /\ o[j].meta = NoMeta)
      PROVE  Object(o2, j).meta = Object(o, j).meta
    BY <1>1, <1>5 DEF Object
<1>6. ASSUME j # i, NEW x, Right(o, x, j) PROVE Right(o2, x, j)
    BY <1>2, <1>5, <1>6 DEF Right
<1>7. j = i /\ o[i].kind # "ref" => Object(o2, i).meta = m
    BY DEF Object
<1>8. j = i /\ m # NoMeta => Object(o2, i).meta = m
    BY DEF Object
<1> QED BY <1>2, <1>4, <1>6, <1>7, <1>8 DEF TypeOf, IsContainer

\* The object of the update is right when its row is changed.
LEMMA EditedRight ==
    ASSUME NEW o, NEW n \in Nat, NEW w, TableOK(o, n, w), NEW r \in WorkType, Changing(o, r),
           NEW m, NEW o2, Edited(o, o2, r.call.id, m),
           m = r.obj.meta \/ (r.obj.kind = "ref" /\ m = NoMeta)
    PROVE  Right(o2, r.obj, r.call.id)
<1> DEFINE i == r.call.id
           x == r.obj
<1>1. /\ i \in DOMAIN o /\ x.id = i /\ x.kind = o[i].kind /\ x.parent = o[i].parent
      /\ x.ref = o[i].ref /\ x.loc = Object(o, i).loc /\ x \in ObjType
    BY DEF Changing, WorkType
<1> HIDE DEF i, x
<1>2. Edited(o, o2, i, m) /\ (m = x.meta \/ (x.kind = "ref" /\ m = NoMeta))
    BY DEF i, x
<1>3. /\ Object(o2, i).loc = Object(o, i).loc
      /\ o[i].kind # "ref" => Object(o2, i).meta = m
      /\ m # NoMeta => Object(o2, i).meta = m
    BY <1>1, <1>2, EditedObjects
<1>4. /\ i \in DOMAIN o2 /\ o2[i].kind = o[i].kind /\ o2[i].parent = o[i].parent
      /\ o2[i].ref = o[i].ref /\ o2[i].meta = m
    BY <1>1, <1>2 DEF Edited
<1>5. Right(o2, x, i)
    BY <1>1, <1>2, <1>3, <1>4 DEF Right
<1> QED BY <1>5 DEF i, x

\* The rest of the cache is right too.
LEMMA EditedCache ==
    ASSUME NEW o, NEW n \in Nat, NEW w, TableOK(o, n, w), NEW i, NEW m, NEW o2, Edited(o, o2, i, m),
           NEW h, NEW l, SoundCache(o, {}, h, l), NEW k, NEW r, Hd(k) = "store", Outdated(k, r, i)
    PROVE  CacheOK(o2, n, {}, h, l, k, r)
<1>1. \A c : ChildrenOf(o2, c) = ChildrenOf(o, c)
    BY DEF ChildrenOf, Edited
<1>2. ASSUME NEW j \in DOMAIN h
      PROVE  /\ Outdated(k, r, j) \/ SoundObj(o2, h[j], j)
             /\ SoundType(o2, h[j], j)
             /\ SoundNum(o2, h[j], j, Owed(k, r, j))
    <2>1. SoundObj(o, h[j], j) /\ SoundType(o, h[j], j) /\ SoundNum(o, h[j], j, FALSE)
        BY DEF SoundCache, SoundEntry
    <2>2. SoundType(o2, h[j], j)
        BY <2>1, EditedObjects DEF SoundType, Edited
    <2>3. ~Owed(k, r, j)
        BY UncountedHead DEF Owed
    <2>4. SoundNum(o2, h[j], j, Owed(k, r, j))
        BY <1>1, <2>1, <2>3 DEF SoundNum
    <2>5. CASE j = i
        BY <2>2, <2>4, <2>5
    <2>6. CASE j # i
        <3>1. h[j].obj # NoObject => Right(o2, h[j].obj, j)
            <4>1. h[j].obj # NoObject => j \in DOMAIN o /\ Right(o, h[j].obj, j)
                BY <2>1 DEF SoundObj, Right
            <4> QED BY <2>6, <4>1, EditedObjects
        <3> QED BY <2>2, <2>4, <3>1 DEF SoundObj
    <2> QED BY <2>5, <2>6
<1>3. LocationsOK(o2, l)
    <2>1. LocationsOK(o, l) /\ DOMAIN o2 = DOMAIN o
        BY DEF SoundCache, Edited
    <2> QED BY <2>1, EditedObjects DEF LocationsOK
<1> QED BY <1>2, <1>3 DEF CacheOK

\* The object i is changed, as the contract says.
Edits(i) == i \in DOMAIN All /\ \E m : Edited(All, All', i, m)

LEMMA updateRowKeeps ==
    ASSUME NEW t \in Thread, Holds(t), updateRow(t)
    PROVE  Holds(t)' /\ Edits(reg[t].call.id) /\ todo[t] = Updating
<1> DEFINE r == reg[t]
           x == r.obj
           i == r.call.id
           meta == IF x.kind = "ref" /\ x.meta = r.res.meta THEN NoMeta ELSE x.meta
           q == [r EXCEPT !.res = x]
           k == <<"store">> \o Done
<1>1. /\ At(t, "update") /\ Then(t, <<"store">>)
      /\ UNCHANGED <<buffer, insertBufferEmpty, lastID, idHash, locationHash>>
      /\ rows' = IF x.id \in DOMAIN rows
                 THEN [rows EXCEPT ![x.id].meta = meta, ![x.id].parent = r.parent] ELSE rows
      /\ Set(t, [r EXCEPT !.res = [x EXCEPT !.parent = r.parent]])
    BY DEF updateRow, bufferVars, cacheVars
<1>2. "update" \in CoreLabel
    BY DEF CoreLabel
<1>3. /\ Core(All, Waits, todo[t], r) /\ Hd(todo[t]) = "update" /\ r \in WorkType
      /\ SoundCache(All, Waits, idHash, locationHash)
    BY <1>1, <1>2, CoreAt
<1>4. todo[t] = Updating /\ UpdateAt(All, Waits, r)
    <2> HIDE DEF r
    <2> QED BY <1>3, CoreAdding
<1>5. /\ Waits = {} /\ Changing(All, r) /\ r.parent = x.parent /\ x.id = i /\ i \in DOMAIN All
      /\ x.parent = All[i].parent /\ x \in ObjType /\ r.call.op = "update"
    BY <1>3, <1>4 DEF UpdateAt, Changing, WorkType
<1>6. lastID \in Nat /\ TableOK(All, lastID, {}) /\ rows \in [DOMAIN rows -> RowType]
    BY <1>5 DEF Holds, TypeInv
<1>7. DOMAIN rows = DOMAIN All /\ \A j \in DOMAIN rows : rows[j] = All[j]
    BY <1>5, RowsAreAll DEF Holds
<1>8. [x EXCEPT !.parent = r.parent] = x
    <2>1. \A a \in ObjType : [a EXCEPT !.parent = a.parent] = a
        BY DEF ObjType
    <2> QED BY <1>5, <2>1
<1>9. Set(t, q)
    BY <1>1, <1>8
<1>10. q \in WorkType /\ q.res = x /\ q.call = r.call
    <2> HIDE DEF x
    <2> QED BY <1>3, <1>5 DEF WorkType
<1>11. meta \in AnyMeta
    BY <1>5 DEF ObjType, AnyMeta
<1> HIDE DEF meta
<1>12. DOMAIN rows' = DOMAIN rows /\ rows'[i] = [rows[i] EXCEPT !.meta = meta]
       /\ \A j \in DOMAIN rows \ {i} : rows'[j] = rows[j]
    <2>1. \A a \in RowType : \A p : p = a.parent =>
             [[a EXCEPT !.meta = meta] EXCEPT !.parent = p] = [a EXCEPT !.meta = meta]
        BY DEF RowType
    <2>2. rows' = [rows EXCEPT ![i].meta = meta, ![i].parent = r.parent]
        BY <1>1, <1>5, <1>7
    <2>3. rows[i] \in RowType /\ r.parent = rows[i].parent /\ i \in DOMAIN rows
        BY <1>5, <1>6, <1>7
    <2> HIDE DEF i
    <2>4. /\ DOMAIN rows' = DOMAIN rows
          /\ rows'[i] = [[rows[i] EXCEPT !.meta = meta] EXCEPT !.parent = r.parent]
          /\ \A j \in DOMAIN rows \ {i} : rows'[j] = rows[j]
        BY <2>2, <2>3
    <2> QED BY <2>1, <2>3, <2>4
<1> HIDE DEF i, x
<1>13. Edited(rows, rows', i, meta)
    <2>1. rows[i] \in RowType
        BY <1>5, <1>6, <1>7
    <2>2. LET a == [rows[i] EXCEPT !.meta = meta]
          IN  /\ a.kind = rows[i].kind /\ a.parent = rows[i].parent /\ a.ref = rows[i].ref
              /\ a.persistent = rows[i].persistent /\ a.loc = rows[i].loc /\ a \in RowType
              /\ a.meta = meta
        BY <1>11, <2>1 DEF RowType
    <2> QED BY <1>6, <1>12, <2>2 DEF Edited
<1>14. DOMAIN All' = DOMAIN All /\ \A j \in DOMAIN All : All'[j] = rows'[j]
    <2>1. DOMAIN buffer \subseteq DOMAIN rows
        BY <1>5 DEF Waits
    <2>2. All' = Over(rows', buffer)
        BY <1>1 DEF All
    <2> QED BY <1>7, <1>12, <2>1, <2>2 DEF Over
<1>15. Edited(All, All', i, meta)
    BY <1>5, <1>7, <1>13, <1>14 DEF Edited
<1>16. Waits' = Waits
    BY <1>1, <1>12 DEF Waits
<1>17. All' \in [DOMAIN All' -> RowType]
    <2>1. \A f, g : Over(f, g) = [j \in DOMAIN Over(f, g) |-> Over(f, g)[j]]
        BY DEF Over
    <2>2. All' = Over(rows', buffer')
        BY DEF All
    <2>3. All' = [j \in DOMAIN All' |-> All'[j]]
        BY <2>1, <2>2
    <2>4. \A v : v = [j \in DOMAIN v |-> v[j]] /\ (\A j \in DOMAIN v : v[j] \in RowType)
                    => v \in [DOMAIN v -> RowType]
        OBVIOUS
    <2>5. \A j \in DOMAIN All' : All'[j] \in RowType
        BY <1>15 DEF Edited
    <2> QED BY <2>3, <2>4, <2>5
<1>18. TableOK(All', lastID, {})
    BY <1>6, <1>15, <1>17, EditedTable
<1>19. k \in Seq(Label) /\ k # <<>> /\ Hd(k) = "store" /\ Tail(k) = Done
    <2>1. "store" \in Label /\ Done \in Seq(Label)
        BY Lists DEF Label
    <2> HIDE DEF Done
    <2> QED BY <2>1, PushOne
<1>20. Moves(t, k, q)
    <2>1. Tail(Updating) = Done
        BY ListFacts
    <2> QED BY <1>1, <1>4, <1>9, <2>1, MovesBy DEF Holds
<1>21. Outdated(k, q, i)
    BY <1>5, <1>10 DEF Outdated
<1> HIDE DEF k, q
<1>22. todo'[t] = k /\ reg'[t] = q /\ todo' \in [Thread -> Seq(Label)] /\ reg' \in [Thread -> WorkType]
    BY <1>10, <1>19, <1>20, Moved DEF Holds
<1>23. TypeInv'
    <2>1. rows' \in [DOMAIN rows' -> RowType]
        <3> DEFINE f == [rows EXCEPT ![x.id].meta = meta]
                   g == [f EXCEPT ![x.id].parent = r.parent]
        <3>0. g = [j \in DOMAIN g |-> g[j]] /\ rows = [j \in DOMAIN rows |-> rows[j]]
            BY <1>6
        <3>2. rows' = IF x.id \in DOMAIN rows THEN g ELSE rows
            BY <1>1
        <3> HIDE DEF g
        <3>1. rows' = [j \in DOMAIN rows' |-> rows'[j]]
            BY <3>0, <3>2
        <3> QED BY <1>12, <1>13, <3>1 DEF Edited
    <2> QED BY <1>1, <1>22, <2>1 DEF Holds, TypeInv
<1>24. BufferOK(Waits, DOMAIN buffer, insertBufferEmpty, k)
    <2>1. BufferOK(Waits, DOMAIN buffer, insertBufferEmpty, todo[t])
        BY DEF Holds, Good
    <2> QED BY <1>3, <1>19, <2>1 DEF BufferOK
<1>25. CacheOK(All', lastID, {}, idHash, locationHash, k, q)
    BY <1>3, <1>5, <1>6, <1>15, <1>19, <1>21, EditedCache
<1>26. Point(All', lastID, {}, k, q)
    <2>1. Right(All', x, i)
        <3>1. meta = x.meta \/ (x.kind = "ref" /\ meta = NoMeta)
            BY DEF meta
        <3> QED BY <1>3, <1>5, <1>6, <1>15, <3>1, EditedRight DEF x, i
    <2>2. Core(All', {}, Done, q)
        <3>1. Done # <<>>
            BY ListFacts
        <3> QED BY <1>5, <1>10, <3>1 DEF Core, AnswerOK
    <2>3. q.res.id = i
        BY <1>5, <1>10
    <2> QED BY <1>10, <1>19, <2>1, <2>2, <2>3 DEF Point
<1>27. Edits(reg[t].call.id)
    BY <1>5, <1>15 DEF Edits, i
<1>28. Holds(t)'
    BY <1>1, <1>5, <1>16, <1>18, <1>22, <1>23, <1>24, <1>25, <1>26 DEF Holds, Good
<1> QED BY <1>4, <1>27, <1>28

-----------------------------------------------------------------------------
(* The contract.  It is about any tree, whatever its variables stand for.  *)

VARIABLES anyTree, anyRequest
Cds == INSTANCE CdsTree WITH objs <- anyTree, pending <- anyRequest

LEMMA SameTree ==
    ASSUME NEW o, NEW ids, NEW all
    PROVE  /\ Tree!Gone(o, ids, all) = Cds!Gone(o, ids, all)
           /\ Tree!Without(o, ids) = Cds!Without(o, ids)
           /\ Tree!Containers(o) = Cds!Containers(o)
<1>1. Tree!Containers(o) = Cds!Containers(o)
    BY DEF Tree!Containers, Tree!ContainerKinds, Cds!Containers, Cds!ContainerKinds
<1>2. Tree!Without(o, ids) = Cds!Without(o, ids)
    BY DEF Tree!Without, Tree!Restrict, Cds!Without, Cds!Restrict
<1>3. Tree!Doomed(o, ids, all) = Cds!Doomed(o, ids, all)
    <2>1. \A X : Tree!Closed(o, X, all) <=> Cds!Closed(o, X, all)
        BY DEF Tree!Closed, Cds!Closed
    <2> QED BY <2>1 DEF Tree!Doomed, Cds!Doomed
<1>4. ASSUME NEW gone PROVE Tree!Emptied(o, gone) = Cds!Emptied(o, gone)
    <2>1. \A X : Tree!Emptying(o, gone, X) = Cds!Emptying(o, gone, X)
        BY <1>1 DEF Tree!Emptying, Cds!Emptying, Tree!Children, Cds!Children
    <2> QED BY <2>1 DEF Tree!Emptied, Cds!Emptied
<1> QED BY <1>1, <1>2, <1>3, <1>4 DEF Tree!Gone, Cds!Gone

\* Taking objects away changes none of the others.
LEMMA WithoutKeeps ==
    ASSUME NEW o, NEW gone
    PROVE  /\ DOMAIN Cds!Without(o, gone) = DOMAIN o \ gone
           /\ \A i \in DOMAIN o \ gone : Cds!Without(o, gone)[i] = o[i]
           /\ \A S : o \in [DOMAIN o -> S] => Cds!Without(o, gone) \in [DOMAIN o \ gone -> S]
BY DEF Cds!Without, Cds!Restrict

\* The doomed objects are closed, like the sets they are the intersection of:
\* children and references of a doomed object are doomed.
LEMMA DoomedClosed ==
    ASSUME NEW o, NEW ids, NEW all, NEW i \in DOMAIN o,
           o[i].parent \in Cds!Doomed(o, ids, all) \/ o[i].ref \in Cds!Doomed(o, ids, all)
    PROVE  i \in Cds!Doomed(o, ids, all)
<1> DEFINE closed == {X \in SUBSET DOMAIN o : ids \subseteq X /\ Cds!Closed(o, X, all)}
<1>1. ASSUME NEW X \in closed PROVE i \in X
    BY <1>1 DEF Cds!Doomed, Cds!Closed
<1> QED BY <1>1 DEF Cds!Doomed

\* Emptying more containers never keeps another one from being emptied.
LEMMA EmptyingMonotonic ==
    ASSUME NEW o, NEW gone, NEW A, NEW B, A \subseteq B
    PROVE  Cds!Emptying(o, gone, A) \subseteq Cds!Emptying(o, gone, B)
BY DEF Cds!Emptying

\* The emptied containers are a fixed point: whatever is in one of them goes.
LEMMA EmptiedAreEmptying ==
    ASSUME NEW o, NEW gone
    PROVE  Cds!Emptied(o, gone) \subseteq Cds!Emptying(o, gone, Cds!Emptied(o, gone))
<1> DEFINE closed == {X \in SUBSET DOMAIN o : Cds!Emptying(o, gone, X) \subseteq X}
           E == Cds!Emptied(o, gone)
           F == Cds!Emptying(o, gone, E)
<1>1. F \subseteq E
    <2>1. ASSUME NEW X \in closed PROVE F \subseteq X
        <3>1. E \subseteq X
            BY DEF Cds!Emptied
        <3>2. F \subseteq Cds!Emptying(o, gone, X)
            BY <3>1, EmptyingMonotonic
        <3> QED BY <3>2
    <2>2. F \subseteq DOMAIN o
        BY DEF Cds!Emptying, Cds!Containers
    <2> QED BY <2>1, <2>2 DEF Cds!Emptied
<1>2. Cds!Emptying(o, gone, F) \subseteq F
    BY <1>1, EmptyingMonotonic
<1>3. F \in closed
    BY <1>2 DEF Cds!Emptying, Cds!Containers
<1> QED BY <1>3 DEF Cds!Emptied

\* What stays has its container, and the file it refers to.
Survives(o, o2, j) ==
    /\ j \in DOMAIN o2 /\ o2[j] = o[j]
    /\ o[j].parent \in Cds!Containers(o) => o[j].parent \in Cds!Containers(o2)
    /\ o[j].ref \in DOMAIN o /\ o[o[j].ref].kind = "file" =>
           o[j].ref \in DOMAIN o2 /\ o2[o[j].ref] = o[o[j].ref]

LEMMA Surviving ==
    ASSUME NEW o, NEW ids, NEW all, NEW gone, gone = Cds!Gone(o, ids, all),
           NEW o2, o2 = Cds!Without(o, gone), NEW j \in DOMAIN o \ gone
    PROVE  Survives(o, o2, j)
<1> DEFINE doomed == Cds!Doomed(o, ids, all)
           emptied == Cds!Emptied(o, doomed)
<1>1. gone = doomed \union emptied
    BY DEF Cds!Gone
<1>2. DOMAIN o2 = DOMAIN o \ gone /\ \A i \in DOMAIN o \ gone : o2[i] = o[i]
    <2>1. DOMAIN Cds!Without(o, gone) = DOMAIN o \ gone
        BY WithoutKeeps
    <2>2. \A i \in DOMAIN o \ gone : Cds!Without(o, gone)[i] = o[i]
        BY WithoutKeeps
    <2> QED BY <2>1, <2>2
<1>3. \A c \in emptied : /\ c \in Cds!Containers(o)
                         /\ Cds!Children(o, c) \subseteq doomed \union emptied
    BY EmptiedAreEmptying DEF Cds!Emptying
<1>4. o[j].parent \notin doomed /\ o[j].ref \notin doomed
    BY <1>1, DoomedClosed
<1>5. o[j].parent \notin emptied
    BY <1>1, <1>3 DEF Cds!Children
<1>6. o[j].ref \in DOMAIN o /\ o[o[j].ref].kind = "file" => o[j].ref \notin emptied
    BY <1>3 DEF Cds!Containers, Cds!ContainerKinds
<1>7. o[j].parent \in Cds!Containers(o) => o[j].parent \in Cds!Containers(o2)
    BY <1>1, <1>2, <1>4, <1>5 DEF Cds!Containers
<1> QED BY <1>1, <1>2, <1>4, <1>6, <1>7 DEF Survives

-----------------------------------------------------------------------------
(* Removing an object.                                                     *)

LEMMA RootsStay ==
    ASSUME NEW o, NEW n \in Nat, NEW w, TableOK(o, n, w), NEW ids, NEW all,
           ids \subseteq DOMAIN o \ {CDS_ID_ROOT, CDS_ID_FS_ROOT}
    PROVE  {CDS_ID_ROOT, CDS_ID_FS_ROOT} \intersect Cds!Gone(o, ids, all) = {}
<1> DEFINE roots == {CDS_ID_ROOT, CDS_ID_FS_ROOT}
           X == DOMAIN o \ roots
           doomed == Cds!Doomed(o, ids, all)
<1>1. /\ CDS_ID_ROOT \in DOMAIN o /\ CDS_ID_FS_ROOT \in DOMAIN o /\ DOMAIN o \subseteq Nat
      /\ o[CDS_ID_ROOT].kind = "virt" /\ o[CDS_ID_FS_ROOT].kind = "dir"
      /\ o[CDS_ID_ROOT].parent = -1 /\ o[CDS_ID_FS_ROOT].parent = CDS_ID_ROOT
      /\ \A i \in roots : o[i].persistent
    BY DEF TableOK, Roots
<1>2. \A i \in roots : o[i].ref = NoRef
    BY <1>1, RowFacts DEF Placed
<1>3. NoRef \notin DOMAIN o /\ -1 \notin DOMAIN o
    BY <1>1 DEF NoRef, Tree!NoRef
<1>4. ASSUME NEW j \in DOMAIN o
      PROVE  /\ o[j].parent \in X \/ o[j].ref \in X => j \in X
             /\ all /\ j \in X /\ o[j].kind = "ref" => o[j].ref \in X
    <2>1. j \in roots => o[j].parent \notin X /\ o[j].ref \notin X
        BY <1>1, <1>2, <1>3
    <2>2. o[j].kind = "ref" => o[j].ref \in X
        BY <1>1, RowFacts DEF Placed
    <2> QED BY <2>1, <2>2
<1>5. Cds!Closed(o, X, all)
    BY <1>4 DEF Cds!Closed
<1>6. roots \intersect doomed = {}
    <2>1. X \in {Y \in SUBSET DOMAIN o : ids \subseteq Y /\ Cds!Closed(o, Y, all)}
        BY <1>5
    <2> HIDE DEF X
    <2>2. doomed \subseteq X
        BY <2>1 DEF Cds!Doomed
    <2> QED BY <2>2 DEF X
<1>7. \A c \in Cds!Emptied(o, doomed) : ~o[c].persistent
    <2> HIDE DEF doomed
    <2> QED BY EmptiedAreEmptying DEF Cds!Emptying
<1> QED BY <1>1, <1>6, <1>7 DEF Cds!Gone

LEMMA RemovedTable ==
    ASSUME NEW o, NEW n \in Nat, TableOK(o, n, {}), NEW i \in DOMAIN o, NEW all,
           i \notin {CDS_ID_ROOT, CDS_ID_FS_ROOT}
    PROVE  LET o2 == Cds!Without(o, Cds!Gone(o, {i}, all))
           IN  TableOK(o2, n, {}) /\ o2 \in [DOMAIN o2 -> RowType]
<1> DEFINE gone == Cds!Gone(o, {i}, all)
           o2 == Cds!Without(o, gone)
<1>1. {CDS_ID_ROOT, CDS_ID_FS_ROOT} \intersect gone = {}
    <2>1. {i} \subseteq DOMAIN o \ {CDS_ID_ROOT, CDS_ID_FS_ROOT}
        OBVIOUS
    <2> QED BY <2>1, RootsStay
<1>2. DOMAIN o2 = DOMAIN o \ gone /\ o2 \in [DOMAIN o2 -> RowType]
    <2>1. o \in [DOMAIN o -> RowType]
        BY DEF TableOK
    <2> QED BY <2>1, WithoutKeeps
<1>3. \A j \in DOMAIN o \ gone : Survives(o, o2, j)
    <2> gone = Cds!Gone(o, {i}, all) /\ o2 = Cds!Without(o, gone)
        OBVIOUS
    <2> HIDE DEF gone, o2
    <2> QED BY Surviving
<1> HIDE DEF gone, o2
<1>4. \A j \in DOMAIN o2 : j \in DOMAIN o /\ o2[j] = o[j]
    BY <1>2, <1>3 DEF Survives
<1>5. Conts(o) = Cds!Containers(o) /\ Conts(o2) = Cds!Containers(o2)
    BY DEF Conts, Cds!Containers, ContainerKinds, Cds!ContainerKinds
<1>6. Roots(o2)
    <2>1. Roots(o)
        BY DEF TableOK
    <2> QED BY <1>1, <1>2, <1>4, <2>1 DEF Roots
<1>7. OnePerPath(o2)
    BY <1>4 DEF TableOK, OnePerPath
<1>8. ASSUME NEW j \in DOMAIN o2 PROVE Placed(o2, j)
    <2>1. Placed(o, j) /\ Survives(o, o2, j) /\ o2[j] = o[j]
        BY <1>2, <1>3, <1>4 DEF TableOK
    <2>2. j # CDS_ID_ROOT => o[j].parent \in Conts(o) /\ o[j].parent \in Conts(o2)
        BY <1>5, <2>1 DEF Placed, Survives
    <2>3. o[j].kind = "ref" => o[j].ref \in DOMAIN o2 /\ o2[o[j].ref].kind = "file"
        BY <2>1 DEF Placed, Survives
    <2>4. \A p : DirectoryOf(o, o[j].parent, p) /\ o[j].parent \in Conts(o2)
                 => DirectoryOf(o2, o[j].parent, p)
        BY <1>4 DEF DirectoryOf, Conts
    <2>5. o[j].kind = "file" => j # CDS_ID_ROOT
        BY DEF TableOK, Roots
    <2> QED BY <2>1, <2>2, <2>3, <2>4, <2>5 DEF Placed
<1>9. Ordered(o2, {})
    BY <1>4 DEF Ordered, TableOK
<1>10. DOMAIN o2 \subseteq 0 .. n
    BY <1>2 DEF TableOK
<1>11. TableOK(o2, n, {})
    BY <1>2, <1>6, <1>7, <1>8, <1>9, <1>10 DEF TableOK
<1> QED BY <1>2, <1>11 DEF o2, gone

\* The object i goes, with what the contract lets go with it.
Shrinks(i, all) ==
    All' = IF i \in DOMAIN All THEN Tree!Without(All, Tree!Gone(All, {i}, all)) ELSE All

LEMMA removeObjectKeeps ==
    ASSUME NEW t \in Thread, Holds(t), removeObject(t)
    PROVE  /\ Holds(t)'
           /\ Shrinks(reg[t].call.id, reg[t].call.all) /\ Tail(todo[t]) = Done
           /\ UNCHANGED reg /\ reg[t].call.id \notin {CDS_ID_ROOT, CDS_ID_FS_ROOT}
<1> DEFINE r == reg[t]
           i == r.call.id
           k == <<"clearCache">> \o Done
<1>1. /\ At(t, "delete") /\ UNCHANGED <<buffer, insertBufferEmpty, lastID, idHash, locationHash, reg>>
      /\ IF i \in DOMAIN rows
         THEN /\ rows' = Tree!Without(rows, Tree!Gone(rows, {i}, r.call.all))
              /\ Then(t, <<"clearCache">>)
         ELSE Then(t, <<>>) /\ UNCHANGED rows
    BY DEF removeObject, bufferVars, cacheVars
<1>2. "delete" \in CoreLabel
    BY DEF CoreLabel
<1>3. Core(All, Waits, todo[t], r) /\ Hd(todo[t]) = "delete" /\ r \in WorkType /\ Settled("delete")
    BY <1>1, <1>2, CoreAt
<1>4. /\ Tail(todo[t]) = Done /\ Waits = {} /\ r.call.op = "remove"
      /\ i \notin {CDS_ID_ROOT, CDS_ID_FS_ROOT}
    <2> HIDE DEF r
    <2>1. /\ Tail(todo[t]) = Done /\ Waits = {} /\ r.call.op = "remove"
          /\ r.call.id \notin {CDS_ID_ROOT, CDS_ID_FS_ROOT}
        BY <1>3, CoreListing
    <2> QED BY <2>1
<1>5. Done # <<>>
    BY ListFacts
<1> HIDE DEF Done
<1>6. CASE i \notin DOMAIN rows
    <2>1. Core(All, Waits, Done, r)
        BY <1>4, <1>5 DEF Core, AnswerOK
    <2>2. Quiet /\ Set(t, r) /\ Then(t, <<>>)
        BY <1>1, <1>6 DEF Quiet, Set, Holds, TypeInv
    <2>3. Holds(t)'
        BY <1>1, <1>3, <1>4, <2>1, <2>2, QuietNone
    <2>4. All' = All
        BY <1>1, <1>6 DEF All
    <2>5. i \notin DOMAIN All
        BY <1>4, <1>6, RowsAreAll DEF Holds
    <2>6. Shrinks(i, r.call.all)
        BY <2>4, <2>5 DEF Shrinks
    <2> QED BY <1>1, <1>4, <2>3, <2>6
<1>7. CASE i \in DOMAIN rows
    <2>1. DOMAIN buffer = {}
        BY <1>3, <1>4 DEF Holds, Good, BufferOK
    <2>2. /\ rows \in [DOMAIN rows -> RowType] /\ lastID \in Nat /\ TableOK(All, lastID, {})
        BY <1>4 DEF Holds, TypeInv
    <2>3. All = rows
        BY <2>1, <2>2 DEF All, Over
    <2> DEFINE o2 == Cds!Without(rows, Cds!Gone(rows, {i}, r.call.all))
    <2>4. rows' = o2
        BY <1>1, <1>7, SameTree
    <2>5. TableOK(o2, lastID, {}) /\ o2 \in [DOMAIN o2 -> RowType]
        <3> HIDE DEF i
        <3> QED BY <1>4, <1>7, <2>2, <2>3, RemovedTable
    <2> HIDE DEF o2
    <2>6. All' = o2
        <3>1. \A f, g : f \in [DOMAIN f -> RowType] /\ DOMAIN g = {} => Over(f, g) = f
            BY DEF Over
        <3>2. All' = Over(o2, buffer)
            BY <1>1, <2>4 DEF All
        <3> QED BY <2>1, <2>5, <3>1, <3>2
    <2>7. Waits' = {}
        BY <1>1, <2>1 DEF Waits
    <2>8. k \in Seq(Label) /\ k # <<>> /\ Hd(k) = "clearCache" /\ Tail(k) = Done
        <3>1. "clearCache" \in Label /\ Done \in Seq(Label)
            BY Lists DEF Label
        <3> QED BY <3>1, PushOne
    <2>9. Moves(t, k, r)
        BY <1>1, <1>4, <1>7, MovesBy DEF Holds
    <2> HIDE DEF k
    <2>10. todo'[t] = k /\ reg'[t] = r /\ todo' \in [Thread -> Seq(Label)] /\ reg' \in [Thread -> WorkType]
        BY <1>3, <2>8, <2>9, Moved DEF Holds
    <2>11. TypeInv'
        BY <1>1, <2>4, <2>5, <2>10 DEF Holds, TypeInv
    <2>12. BufferOK({}, DOMAIN buffer, insertBufferEmpty, k)
        BY <2>1, <2>8 DEF BufferOK
    <2>13. CacheOK(o2, lastID, {}, idHash, locationHash, k, r)
        BY <2>8 DEF CacheOK
    <2>14. Point(o2, lastID, {}, k, r)
        BY <1>4, <2>8 DEF Point
    <2>15. Holds(t)'
        BY <1>1, <2>5, <2>6, <2>7, <2>10, <2>11, <2>12, <2>13, <2>14 DEF Holds, Good
    <2>16. Shrinks(i, r.call.all)
        <3>1. o2 = Tree!Without(rows, Tree!Gone(rows, {i}, r.call.all))
            BY <1>1, <1>7, <2>4
        <3> HIDE DEF i, r
        <3> QED BY <1>7, <2>3, <2>6, <3>1 DEF Shrinks
    <2> QED BY <1>1, <1>4, <2>15, <2>16
<1> QED BY <1>6, <1>7

-----------------------------------------------------------------------------
(* The calls.                                                              *)

LEMMA ChainList == <<"chain", "original", "load", "duplicate">> \o Done = <<"chain">> \o Referring
<1> DEFINE a == <<"chain", "original", "load", "duplicate">>
           k == <<"chain", "original", "load", "duplicate", "answer">>
           b == Done
<1>1. /\ a \in Seq(Label) /\ Len(a) = 4 /\ k \in Seq(Label) /\ Len(k) = 5
      /\ k # <<>> /\ Head(k) = "chain" /\ Tail(k) = Referring
    BY DEF Label, Referring
<1>2. /\ b \in Seq(Label) /\ Len(b) = 1
      /\ \A m \in 1 .. 5 : (IF m <= 4 THEN a[m] ELSE b[m - 4]) = k[m]
    BY DEF Done, Label
<1> HIDE DEF a, b, k
<1>3. /\ a \o b \in Seq(Label) /\ Len(a \o b) = Len(a) + Len(b)
      /\ \A m \in 1 .. Len(a) + Len(b) : (a \o b)[m] = IF m <= Len(a) THEN a[m] ELSE b[m - Len(a)]
    BY <1>1, <1>2, ConcatProperties
<1>4. \A m \in 1 .. 5 : (a \o b)[m] = k[m]
    BY <1>1, <1>2, <1>3
<1>5. a \o b = k
    <2>1. a \o b \in Seq(Label) /\ Len(a \o b) = Len(k) /\ Len(k) = 5
        BY <1>1, <1>2, <1>3
    <2>2. \A m \in 1 .. Len(k) : (a \o b)[m] = k[m]
        BY <1>4, <2>1
    <2> QED BY <1>1, <2>1, <2>2, SeqEqual
<1>6. <<"chain">> \o Referring = k
    BY <1>1, HeadOn
<1> QED BY <1>5, <1>6 DEF a, b

LEMMA CorePoint ==
    ASSUME NEW o, NEW n, NEW w, NEW k, NEW r, Core(o, w, k, r)
    PROVE  Point(o, n, w, k, r)
BY DEF Point

\* A call begins with y and goes on with m.
LEMMA CallKeeps ==
    ASSUME NEW t \in Thread, Holds(t), Idle(t), Quiet, NEW steps,
           todo' = [todo EXCEPT ![t] = steps \o <<"answer">>],
           NEW y \in Label, ~Unsettling(y), NEW m \in Seq(Label), steps \o Done = <<y>> \o m,
           NEW q \in WorkType, Set(t, q),
           \A k : Starts(k, y, m) => Point(All, lastID, Waits, k, q)
    PROVE  Holds(t)'
<1> DEFINE k == <<y>> \o m
<1>1. k \in Seq(Label) /\ k # <<>> /\ Hd(k) = y /\ Head(k) = y /\ Tail(k) = m
    BY PushOne
<1>2. Moves(t, k, q)
    BY DEF Moves, Set, Done
<1>3. Starts(k, y, m)
    BY <1>1 DEF Starts
<1>4. Settled(Hd(todo[t]))
    BY DEF Idle, Hd, Settled
<1> HIDE DEF k
<1> QED BY <1>1, <1>2, <1>3, <1>4, QuietKeeps

\* What the registers of a new call are.
Begun(q, op, c, r) ==
    /\ q \in WorkType
    /\ q.call.op = op /\ q.call.id = c.id /\ q.call.path = c.path /\ q.call.meta = c.meta
    /\ q.id = r.id /\ q.path = r.path /\ q.loc = r.loc /\ q.pend = r.pend /\ q.counts = r.counts

LEMMA BegunCall ==
    ASSUME NEW op \in Queries \union Changes, NEW c \in CallType, NEW r \in WorkType
    PROVE  Begun([r EXCEPT !.call = [c EXCEPT !.op = op]], op, c, r)
<1> DEFINE d == [c EXCEPT !.op = op]
<1>1. d \in CallType /\ d.op = op /\ d.id = c.id /\ d.path = c.path /\ d.meta = c.meta
    BY DEF CallType
<1> HIDE DEF d
<1> DEFINE q == [r EXCEPT !.call = d]
<1>2. /\ q \in WorkType /\ q.call = d /\ q.id = r.id /\ q.path = r.path /\ q.loc = r.loc
      /\ q.pend = r.pend /\ q.counts = r.counts
    BY <1>1 DEF WorkType
<1> HIDE DEF q
<1>3. Begun(q, op, c, r)
    BY <1>1, <1>2 DEF Begun
<1> QED BY <1>3 DEF q, d

\* The arguments of a call.
LEMMA NewCall ==
    /\ NoCall \in CallType
    /\ \A i \in Int : LET c == [NoCall EXCEPT !.id = i] IN c \in CallType /\ c.id = i
    /\ \A p \in AnyPath : LET c == [NoCall EXCEPT !.path = p] IN c \in CallType /\ c.path = p
    /\ \A p \in AnyPath, m \in AnyMeta :
           LET c == [NoCall EXCEPT !.path = p, !.meta = m] IN c \in CallType /\ c.path = p
    /\ \A i \in Int, m \in AnyMeta :
           LET c == [NoCall EXCEPT !.id = i, !.meta = m] IN c \in CallType /\ c.id = i
    /\ \A i \in Int, all \in BOOLEAN :
           LET c == [NoCall EXCEPT !.id = i, !.all = all] IN c \in CallType /\ c.id = i
<1>1. NoCall \in CallType
    BY DEF NoCall, CallType, Unknown, AnyPath, AnyMeta
<1>2. ASSUME NEW a \in CallType
      PROVE
    /\ \A i \in Int : LET c == [a EXCEPT !.id = i] IN c \in CallType /\ c.id = i
    /\ \A p \in AnyPath : LET c == [a EXCEPT !.path = p] IN c \in CallType /\ c.path = p
    /\ \A p \in AnyPath, m \in AnyMeta :
           LET c == [a EXCEPT !.path = p, !.meta = m] IN c \in CallType /\ c.path = p
    /\ \A i \in Int, m \in AnyMeta :
           LET c == [a EXCEPT !.id = i, !.meta = m] IN c \in CallType /\ c.id = i
    /\ \A i \in Int, all \in BOOLEAN :
           LET c == [a EXCEPT !.id = i, !.all = all] IN c \in CallType /\ c.id = i
    BY DEF CallType
<1> QED BY <1>1, <1>2

LinkArguments(i, p, m) == [NoCall EXCEPT !.id = i, !.path = p, !.meta = m]

LEMMA NewLink ==
    ASSUME NEW i \in Int, NEW p \in AnyPath, NEW m \in AnyMeta
    PROVE  /\ LinkArguments(i, p, m) \in CallType
           /\ LinkArguments(i, p, m).id = i /\ LinkArguments(i, p, m).path = p
<1>1. NoCall \in CallType
    BY NewCall
<1>2. \A b \in CallType : LET c == [b EXCEPT !.id = i, !.path = p, !.meta = m]
                         IN  c \in CallType /\ c.id = i /\ c.path = p
    BY DEF CallType
<1> QED BY <1>1, <1>2 DEF LinkArguments

LEMMA NewWork ==
    /\ NoWork \in WorkType /\ NoWork.pend = <<>> /\ DOMAIN NoWork.counts = {}
    /\ \A i \in Int : LET r == [NoWork EXCEPT !.id = i]
                      IN  /\ r \in WorkType /\ r.id = i
                          /\ r.pend = NoWork.pend /\ r.counts = NoWork.counts
    /\ \A at \in Location : LET r == [NoWork EXCEPT !.loc = at]
                            IN  r \in WorkType /\ r.loc = at /\ r.pend = NoWork.pend
    /\ \A i \in Int, p \in AnyPath :
           LET r == [NoWork EXCEPT !.id = i, !.path = p]
           IN  r \in WorkType /\ r.id = i /\ r.path = p /\ r.pend = NoWork.pend
<1>1. NoWork \in WorkType
    BY NoWorkType
<1>2. NoWork.pend = <<>> /\ NoWork.counts = <<>>
    BY DEF NoWork
<1>3. DOMAIN NoWork.counts = {}
    BY <1>2
<1>4. ASSUME NEW a \in WorkType
      PROVE
    /\ \A i \in Int : LET r == [a EXCEPT !.id = i]
                      IN  r \in WorkType /\ r.id = i /\ r.pend = a.pend /\ r.counts = a.counts
    /\ \A at \in Location : LET r == [a EXCEPT !.loc = at]
                            IN  r \in WorkType /\ r.loc = at /\ r.pend = a.pend
    /\ \A i \in Int, p \in AnyPath :
           LET r == [a EXCEPT !.id = i, !.path = p]
           IN  r \in WorkType /\ r.id = i /\ r.path = p /\ r.pend = a.pend
    BY DEF WorkType
<1> QED BY <1>1, <1>2, <1>3, <1>4, ZenonT(30)

LEMMA LoadKeeps ==
    ASSUME NEW t \in Thread, Holds(t), Idle(t), NEW i \in Ids, Load(t, i)
    PROVE  Holds(t)'
<1> DEFINE c == [NoCall EXCEPT !.id = i]
           r == [NoWork EXCEPT !.id = i]
           q == [r EXCEPT !.call = [c EXCEPT !.op = "load"]]
<1>1. todo' = [todo EXCEPT ![t] = <<"load">> \o <<"answer">>] /\ Set(t, q) /\ Quiet
    BY DEF Load, Begin, Quiet, tableVars, bufferVars, cacheVars
<1>2. i \in Int
    BY DEF Ids, Holds, TypeInv
<1>3. c \in CallType /\ c.id = i /\ r \in WorkType /\ r.id = i
    BY <1>2, NewCall, NewWork
<1>4. "load" \in Label /\ Done \in Seq(Label) /\ "load" \in Queries
    BY Lists DEF Label, Queries
<1> HIDE DEF c, r
<1>5. Begun(q, "load", c, r)
    BY <1>3, <1>4, BegunCall
<1> HIDE DEF q
<1>6. q \in WorkType /\ LoadAt(All, Waits, Done, q)
    BY <1>3, <1>5 DEF Begun, LoadAt
<1>7. ASSUME NEW k, Starts(k, "load", Done) PROVE Point(All, lastID, Waits, k, q)
    <2>1. Core(All, Waits, k, q)
        BY <1>6, <1>7 DEF Starts, Core
    <2> QED BY <2>1, CorePoint
<1>8. ~Unsettling("load")
    BY DEF Unsettling
<1> QED BY <1>1, <1>4, <1>6, <1>7, <1>8, CallKeeps

LEMMA FindKeeps ==
    ASSUME NEW t \in Thread, Holds(t), Idle(t), NEW p \in Files, Find(t, p)
    PROVE  Holds(t)'
<1> DEFINE c == [NoCall EXCEPT !.path = p]
           r == [NoWork EXCEPT !.loc = <<"F", p>>]
           q == [r EXCEPT !.call = [c EXCEPT !.op = "find"]]
<1>1. todo' = [todo EXCEPT ![t] = <<"lookup">> \o <<"answer">>] /\ Set(t, q) /\ Quiet
    BY DEF Find, Begin, Quiet, tableVars, bufferVars, cacheVars
<1>2. p \in AnyPath /\ <<"F", p>> \in Location
    BY DEF AnyPath, Paths, Location
<1>3. c \in CallType /\ c.path = p /\ r \in WorkType /\ r.loc = <<"F", p>>
    BY <1>2, NewCall, NewWork
<1>4. "lookup" \in Label /\ Done \in Seq(Label) /\ "find" \in Queries
    BY Lists DEF Label, Queries
<1> HIDE DEF c, r
<1>5. Begun(q, "find", c, r)
    BY <1>3, <1>4, BegunCall
<1> HIDE DEF q
<1>6. q \in WorkType /\ LookupAt(All, Waits, Done, q)
    BY <1>3, <1>5 DEF Begun, LookupAt
<1>7. ASSUME NEW k, Starts(k, "lookup", Done) PROVE Point(All, lastID, Waits, k, q)
    <2>1. Core(All, Waits, k, q)
        BY <1>6, <1>7 DEF Starts, Core
    <2> QED BY <2>1, CorePoint
<1>8. ~Unsettling("lookup")
    BY DEF Unsettling
<1> QED BY <1>1, <1>4, <1>6, <1>7, <1>8, CallKeeps

LEMMA CountKeeps ==
    ASSUME NEW t \in Thread, Holds(t), Idle(t), NEW i \in Conts(All), Count(t, i)
    PROVE  Holds(t)'
<1> DEFINE c == [NoCall EXCEPT !.id = i]
           r == [NoWork EXCEPT !.id = i]
           q == [r EXCEPT !.call = [c EXCEPT !.op = "count"]]
<1>1. todo' = [todo EXCEPT ![t] = <<"childCount">> \o <<"answer">>] /\ Set(t, q) /\ Quiet
    BY DEF Count, Begin, Quiet, tableVars, bufferVars, cacheVars
<1>2. i \in Int
    BY DEF Conts, TableOK, Holds
<1>3. c \in CallType /\ c.id = i /\ r \in WorkType /\ r.id = i
    BY <1>2, NewCall, NewWork
<1>4. "childCount" \in Label /\ Done \in Seq(Label) /\ "count" \in Queries
    BY Lists DEF Label, Queries
<1> HIDE DEF c, r
<1>5. Begun(q, "count", c, r)
    BY <1>3, <1>4, BegunCall
<1> HIDE DEF q
<1>6. q \in WorkType /\ CountAt(All, Waits, Done, q)
    BY <1>3, <1>5 DEF Begun, CountAt
<1>7. ASSUME NEW k, Starts(k, "childCount", Done) PROVE Point(All, lastID, Waits, k, q)
    <2>1. Core(All, Waits, k, q)
        BY <1>6, <1>7 DEF Starts, Core
    <2> QED BY <2>1, CorePoint
<1>8. ~Unsettling("childCount")
    BY DEF Unsettling
<1> QED BY <1>1, <1>4, <1>6, <1>7, <1>8, CallKeeps

\* A call that flushes the buffer first.
LEMMA FlushedCall ==
    ASSUME NEW t \in Thread, Holds(t), Idle(t), Quiet,
           NEW y \in {"throw", "type", "kids", "conts", "objects", "delete", "restart"},
           todo' = [todo EXCEPT ![t] = <<"flush", y>> \o <<"answer">>],
           NEW q \in WorkType, Set(t, q), Core(All, {}, <<y, "answer">>, q)
    PROVE  Holds(t)'
<1> DEFINE m == <<y>> \o Done
<1>1. "flush" \in Label /\ y \in Label /\ Done \in Seq(Label) /\ ~Unsettling("flush")
    BY Lists DEF Label, Unsettling
<1>2. m = <<y, "answer">> /\ m \in Seq(Label) /\ <<"flush", y>> \o Done = <<"flush">> \o m
    BY <1>1, Cons, Push
<1> HIDE DEF m
<1>3. ASSUME NEW k, Starts(k, "flush", m) PROVE Point(All, lastID, Waits, k, q)
    <2>1. Core(All, {}, m, q)
        BY <1>2
    <2> QED BY <1>3, <2>1 DEF Starts, Point, AfterFlush
<1> QED BY <1>1, <1>2, <1>3, CallKeeps

LEMMA BrowseKeeps ==
    ASSUME NEW t \in Thread, Holds(t), Idle(t), NEW i \in Ids, Browse(t, i)
    PROVE  Holds(t)'
<1> DEFINE c == [NoCall EXCEPT !.id = i]
           r == [NoWork EXCEPT !.id = i]
           q == [r EXCEPT !.call = [c EXCEPT !.op = "browse"]]
<1>1. todo' = [todo EXCEPT ![t] = <<"flush", "type">> \o <<"answer">>] /\ Set(t, q) /\ Quiet
    BY DEF Browse, Begin, Quiet, tableVars, bufferVars, cacheVars
<1>2. i \in Int /\ "browse" \in Queries
    BY DEF Ids, Holds, TypeInv, Queries
<1>3. c \in CallType /\ c.id = i /\ r \in WorkType /\ r.id = i /\ DOMAIN r.counts = {}
    BY <1>2, NewCall, NewWork
<1> HIDE DEF c, r
<1>5. Begun(q, "browse", c, r)
    BY <1>2, <1>3, BegunCall
<1> HIDE DEF q
<1>6. q \in WorkType /\ Browsing(q)
    BY <1>3, <1>5 DEF Begun, Browsing
<1>7. Core(All, {}, <<"type", "answer">>, q)
    BY <1>6 DEF Core
<1> QED BY <1>1, <1>6, <1>7, FlushedCall

LEMMA ObjectsKeeps ==
    ASSUME NEW t \in Thread, Holds(t), Idle(t), NEW i \in Conts(All), Objects(t, i)
    PROVE  Holds(t)'
<1> DEFINE c == [NoCall EXCEPT !.id = i]
           r == [NoWork EXCEPT !.id = i]
           q == [r EXCEPT !.call = [c EXCEPT !.op = "objects"]]
<1>1. todo' = [todo EXCEPT ![t] = <<"flush", "objects">> \o <<"answer">>] /\ Set(t, q) /\ Quiet
    BY DEF Objects, Begin, Quiet, tableVars, bufferVars, cacheVars
<1>2. i \in Int /\ "objects" \in Queries
    BY DEF Conts, TableOK, Holds, Queries
<1>3. c \in CallType /\ c.id = i /\ r \in WorkType /\ r.id = i
    BY <1>2, NewCall, NewWork
<1> HIDE DEF c, r
<1>5. Begun(q, "objects", c, r)
    BY <1>2, <1>3, BegunCall
<1> HIDE DEF q
<1>6. q \in WorkType /\ q.call.op = "objects" /\ q.id = q.call.id
    BY <1>3, <1>5 DEF Begun
<1>7. Core(All, {}, <<"objects", "answer">>, q)
    BY <1>6 DEF Core
<1> QED BY <1>1, <1>6, <1>7, FlushedCall

LEMMA ImportKeeps ==
    ASSUME NEW t \in Thread, Holds(t), Idle(t), NEW p \in Files, Import(t, p)
    PROVE  Holds(t)'
<1> DEFINE c == [NoCall EXCEPT !.path = p, !.meta = NewMeta]
           r == [NoWork EXCEPT !.loc = <<"F", p>>]
           q == [r EXCEPT !.call = [c EXCEPT !.op = "import"]]
<1>1. /\ todo' = [todo EXCEPT ![t] = <<"lookup", "addFile">> \o <<"answer">>]
      /\ Set(t, q) /\ Quiet
    BY DEF Import, Begin, Quiet, tableVars, bufferVars, cacheVars
<1>2. p \in AnyPath /\ <<"F", p>> \in Location /\ NewMeta \in AnyMeta
    BY DEF AnyPath, Paths, Location, AnyMeta
<1>3. c \in CallType /\ c.path = p /\ r \in WorkType /\ r.loc = <<"F", p>> /\ r.pend = <<>>
    BY <1>2, NewCall, NewWork
<1>4. "lookup" \in Label /\ "addFile" \in Label /\ Done \in Seq(Label) /\ "import" \in Changes
    BY Lists DEF Label, Changes
<1> HIDE DEF c, r
<1>5. Begun(q, "import", c, r)
    BY <1>3, <1>4, BegunCall
<1> HIDE DEF q
<1>6. q \in WorkType /\ LookupAt(All, Waits, AddingFile, q)
    BY <1>3, <1>5 DEF Begun, LookupAt
<1>7. ASSUME NEW k, Starts(k, "lookup", AddingFile) PROVE Point(All, lastID, Waits, k, q)
    <2>1. Core(All, Waits, k, q)
        BY <1>6, <1>7 DEF Starts, Core
    <2> QED BY <2>1, CorePoint
<1>8. ~Unsettling("lookup")
    BY DEF Unsettling
<1>9. AddingFile \in Seq(Label) /\ <<"lookup", "addFile">> \o Done = <<"lookup">> \o AddingFile
    <2>1. <<"addFile">> \o Done = AddingFile
        BY Cons
    <2>2. <<"lookup", "addFile">> \o Done = <<"lookup">> \o (<<"addFile">> \o Done)
        BY <1>4, Push
    <2> QED BY <2>1, <2>2, Lists
<1> QED BY <1>1, <1>4, <1>6, <1>7, <1>8, <1>9, CallKeeps

LEMMA LinkKeeps ==
    ASSUME NEW t \in Thread, Holds(t), Idle(t), NEW i \in DOMAIN All, NEW p \in Virtuals,
           NEW a \in Meta \union {NewMeta}, Link(t, i, p, a)
    PROVE  Holds(t)'
<1> DEFINE c == LinkArguments(i, p, a)
           r == [NoWork EXCEPT !.id = i, !.path = p]
           q == [r EXCEPT !.call = [c EXCEPT !.op = "link"]]
           steps == <<"chain", "original", "load", "duplicate">>
<1>1. todo' = [todo EXCEPT ![t] = steps \o <<"answer">>] /\ Set(t, q) /\ Quiet /\ All[i].kind = "file"
    BY DEF Link, LinkArguments, Begin, Quiet, tableVars, bufferVars, cacheVars
<1>2. i \in Int /\ p \in AnyPath /\ a \in AnyMeta
    BY DEF AnyPath, Paths, AnyMeta, Holds, TableOK
<1>3. /\ c \in CallType /\ c.id = i /\ c.path = p
      /\ r \in WorkType /\ r.id = i /\ r.path = p /\ r.pend = <<>>
    <2>1. c \in CallType /\ c.id = i /\ c.path = p
        BY <1>2, NewLink
    <2>2. r \in WorkType /\ r.id = i /\ r.path = p /\ r.pend = <<>>
        <3>1. \A j \in Int, u \in AnyPath :
                 LET d == [NoWork EXCEPT !.id = j, !.path = u]
                 IN  d \in WorkType /\ d.id = j /\ d.path = u /\ d.pend = NoWork.pend
            BY NewWork
        <3>2. NoWork.pend = <<>>
            BY NewWork
        <3> QED BY <1>2, <3>1, <3>2
    <2> QED BY <2>1, <2>2
<1>4. "chain" \in Label /\ Referring \in Seq(Label) /\ "link" \in Changes
    BY Lists DEF Label, Changes
<1> HIDE DEF c, r
<1>5. Begun(q, "link", c, r)
    BY <1>3, <1>4, BegunCall
<1> HIDE DEF q
<1>6. q \in WorkType /\ Linking(All, q) /\ q.path = q.call.path /\ q.pend = <<>> /\ q.path \in Virtuals
    BY <1>1, <1>3, <1>5 DEF Begun, Linking
<1>7. Climbing(All, q, "V", Virtuals, q.call.path)
    <2>1. Len(q.pend) = 0
        BY <1>6
    <2> QED BY <1>6, <2>1 DEF Climbing, Waiting
<1>8. ASSUME NEW k, Starts(k, "chain", Referring) PROVE Point(All, lastID, Waits, k, q)
    <2>1. Core(All, Waits, k, q)
        BY <1>6, <1>7, <1>8 DEF Starts, Core
    <2> QED BY <2>1, CorePoint
<1>9. ~Unsettling("chain") /\ steps \o Done = <<"chain">> \o Referring
    BY ChainList DEF Unsettling
<1> HIDE DEF steps
<1> QED BY <1>1, <1>4, <1>6, <1>8, <1>9, CallKeeps

LEMMA UpdateKeeps ==
    ASSUME NEW t \in Thread, Holds(t), Idle(t), NEW i \in Ids \ {CDS_ID_ROOT, CDS_ID_FS_ROOT},
           NEW a \in Meta, Update(t, i, a)
    PROVE  Holds(t)'
<1> DEFINE c == [NoCall EXCEPT !.id = i, !.meta = a]
           r == [NoWork EXCEPT !.id = i]
           q == [r EXCEPT !.call = [c EXCEPT !.op = "update"]]
<1>1. todo' = [todo EXCEPT ![t] = <<"load", "edit">> \o <<"answer">>] /\ Set(t, q) /\ Quiet
    BY DEF Update, Begin, Quiet, tableVars, bufferVars, cacheVars
<1>2. i \in Int /\ a \in AnyMeta
    BY DEF AnyMeta, Ids, Holds, TypeInv
<1>3. c \in CallType /\ c.id = i /\ r \in WorkType /\ r.id = i
    BY <1>2, NewCall, NewWork
<1>4. "load" \in Label /\ "edit" \in Label /\ Done \in Seq(Label) /\ "update" \in Changes
    BY Lists DEF Label, Changes
<1> HIDE DEF c, r
<1>5. Begun(q, "update", c, r)
    BY <1>3, <1>4, BegunCall
<1> HIDE DEF q
<1>6. q \in WorkType /\ LoadAt(All, Waits, Editing, q)
    BY <1>3, <1>5 DEF Begun, LoadAt
<1>7. ASSUME NEW k, Starts(k, "load", Editing) PROVE Point(All, lastID, Waits, k, q)
    <2>1. Core(All, Waits, k, q)
        BY <1>6, <1>7 DEF Starts, Core
    <2> QED BY <2>1, CorePoint
<1>8. ~Unsettling("load")
    BY DEF Unsettling
<1>9. Editing \in Seq(Label) /\ <<"load", "edit">> \o Done = <<"load">> \o Editing
    <2>1. <<"edit">> \o Done = Editing
        BY Cons
    <2>2. <<"load", "edit">> \o Done = <<"load">> \o (<<"edit">> \o Done)
        BY <1>4, Push
    <2> QED BY <2>1, <2>2, Lists
<1> QED BY <1>1, <1>4, <1>6, <1>7, <1>8, <1>9, CallKeeps

LEMMA RemoveKeeps ==
    ASSUME NEW t \in Thread, Holds(t), Idle(t), NEW i \in Ids \ {CDS_ID_ROOT, CDS_ID_FS_ROOT},
           NEW all \in BOOLEAN, Remove(t, i, all)
    PROVE  Holds(t)'
<1> DEFINE c == [NoCall EXCEPT !.id = i, !.all = all]
           q == [NoWork EXCEPT !.call = [c EXCEPT !.op = "remove"]]
<1>1. todo' = [todo EXCEPT ![t] = <<"flush", "delete">> \o <<"answer">>] /\ Set(t, q) /\ Quiet
    BY DEF Remove, Begin, Quiet, tableVars, bufferVars, cacheVars
<1>2. i \in Int /\ "remove" \in Changes
    BY DEF Ids, Holds, TypeInv, Changes
<1>3. c \in CallType /\ c.id = i /\ NoWork \in WorkType
    BY <1>2, NewCall, NewWork
<1> HIDE DEF c, NoWork
<1>5. Begun(q, "remove", c, NoWork)
    BY <1>2, <1>3, BegunCall
<1> HIDE DEF q
<1>6. /\ q \in WorkType /\ q.call.op = "remove"
      /\ q.call.id \notin {CDS_ID_ROOT, CDS_ID_FS_ROOT}
    BY <1>3, <1>5 DEF Begun
<1>7. Core(All, {}, <<"delete", "answer">>, q)
    BY <1>6 DEF Core
<1> QED BY <1>1, <1>6, <1>7, FlushedCall

LEMMA ShutdownKeeps ==
    ASSUME NEW t \in Thread, Holds(t), Idle(t), Shutdown(t)
    PROVE  Holds(t)'
<1> DEFINE q == [NoWork EXCEPT !.call = [NoCall EXCEPT !.op = "shutdown"]]
<1>1. todo' = [todo EXCEPT ![t] = <<"flush", "restart">> \o <<"answer">>] /\ Set(t, q) /\ Quiet
    BY DEF Shutdown, Begin, Quiet, tableVars, bufferVars, cacheVars
<1>2. "shutdown" \in Changes /\ NoCall \in CallType /\ NoWork \in WorkType
    BY NewCall, NewWork DEF Changes
<1> HIDE DEF NoCall, NoWork
<1>5. Begun(q, "shutdown", NoCall, NoWork)
    BY <1>2, BegunCall
<1> HIDE DEF q
<1>6. q \in WorkType /\ q.call.op = "shutdown"
    BY <1>5 DEF Begun
<1>7. Core(All, {}, <<"restart", "answer">>, q)
    BY <1>6 DEF Core
<1> QED BY <1>1, <1>6, <1>7, FlushedCall

LEMMA CallsKeep ==
    ASSUME NEW t \in Thread, Holds(t), Call(t)
    PROVE  Holds(t)'
<1>1. Idle(t)
    BY DEF Call
<1>2. Tree!Containers(All) = Conts(All)
    BY DEF Tree!Containers, Tree!ContainerKinds, Conts, ContainerKinds
<1>3. Tree!Forbidden = {CDS_ID_ROOT, CDS_ID_FS_ROOT}
    BY DEF Tree!Forbidden, Tree!CDS_ID_ROOT, Tree!CDS_ID_FS_ROOT, CDS_ID_ROOT, CDS_ID_FS_ROOT
<1>4. CASE \E i \in Ids : Load(t, i) \/ Browse(t, i)
    BY <1>1, <1>4, LoadKeeps, BrowseKeeps
<1>5. CASE \E i \in Conts(All) : Count(t, i) \/ Objects(t, i)
    BY <1>1, <1>5, CountKeeps, ObjectsKeeps
<1>6. CASE \E p \in Files : Find(t, p) \/ Import(t, p)
    BY <1>1, <1>6, FindKeeps, ImportKeeps
<1>7. CASE \E i \in DOMAIN All, p \in Virtuals, m \in Meta \union {NewMeta} : Link(t, i, p, m)
    BY <1>1, <1>7, LinkKeeps
<1>8. CASE \E i \in Ids \ {CDS_ID_ROOT, CDS_ID_FS_ROOT}, m \in Meta : Update(t, i, m)
    BY <1>1, <1>8, UpdateKeeps
<1>9. CASE \E i \in Ids \ {CDS_ID_ROOT, CDS_ID_FS_ROOT}, all \in BOOLEAN : Remove(t, i, all)
    BY <1>1, <1>9, RemoveKeeps
<1>10. CASE Shutdown(t)
    BY <1>1, <1>10, ShutdownKeeps
<1> QED BY <1>2, <1>3, <1>4, <1>5, <1>6, <1>7, <1>8, <1>9, <1>10 DEF Call

-----------------------------------------------------------------------------
(* Every step keeps the invariant, as long as calls do not overlap.        *)

\* A step changes what its own thread does, and nobody else's.
Own(t) == \E k : todo' = [todo EXCEPT ![t] = k]

LEMMA OwnSteps ==
    ASSUME NEW t \in Thread, Step(t)
    PROVE  ~Idle(t) /\ Own(t)
<1>1. \A steps : Then(t, steps) => Own(t)
    BY DEF Then, Own
<1>2. Throw(t) => Own(t)
    BY DEF Throw, Own
<1>3. \A x : At(t, x) => ~Idle(t)
    BY DEF At, Idle
<1>4. \A h, i, e, o : Fill(t, h, i, e, o) => Own(t)
    BY <1>1 DEF Fill
<1>5. flushInsertBuffer(t) \/ clearBuffer(t) \/ append(t) \/ addToInsertBuffer(t)
          => ~Idle(t) /\ Own(t)
    BY <1>1, <1>3 DEF flushInsertBuffer, clearBuffer, append, Appended, addToInsertBuffer
<1>6. unlockCache(t) \/ addObjectToCache(t) \/ addNewToCache(t) \/ StoreCount(t) \/ StoreType(t)
          \/ clearCache(t) => ~Idle(t) /\ Own(t)
    BY <1>1, <1>3, <1>4 DEF unlockCache, addObjectToCache, addNewToCache, StoreCount, StoreType, clearCache
<1>7. loadObject(t) \/ selectObject(t) \/ _findObjectByPath(t) \/ searchPath(t)
          => ~Idle(t) /\ Own(t)
    BY <1>1, <1>2, <1>3 DEF loadObject, selectObject, _findObjectByPath, searchPath
<1>8. ensurePathExistence(t) \/ _ensurePathExistence(t) \/ addContainerChain(t)
          \/ createContainer(t) \/ informCache(t) => ~Idle(t) /\ Own(t)
    BY <1>1, <1>3, <1>4 DEF ensurePathExistence, _ensurePathExistence, addContainerChain, Above,
       createContainer, informCache
<1>9. getChildCount(t) \/ countRows(t) \/ browseType(t) \/ selectType(t) => ~Idle(t) /\ Own(t)
    BY <1>1, <1>2, <1>3 DEF getChildCount, countRows, browseType, selectType
<1>10. browseList(t) \/ browseRow(t) \/ browseCount(t) \/ browseCounted(t) \/ getObjects(t)
          => ~Idle(t) /\ Own(t)
    BY <1>1, <1>3 DEF browseList, browseRow, browseCount, browseCounted, getObjects
<1>11. _addFile(t) \/ checkRefID(t) \/ checkDuplicate(t) \/ firstChild(t) => ~Idle(t) /\ Own(t)
    BY <1>1, <1>3 DEF _addFile, checkRefID, checkDuplicate, firstChild
<1>12. updateObject(t) \/ throwDirectory(t) \/ updateRow(t) \/ removeObject(t)
          \/ restart(t) \/ Answer(t) => ~Idle(t) /\ Own(t)
    BY <1>1, <1>2, <1>3 DEF updateObject, throwDirectory, updateRow, removeObject, restart, Answer
<1> QED BY <1>5, <1>6, <1>7, <1>8, <1>9, <1>10, <1>11, <1>12 DEF Step

LEMMA OwnCalls ==
    ASSUME TypeInv, NEW t \in Thread, Call(t)
    PROVE  Own(t) /\ todo'[t] # <<>>
<1>1. ASSUME NEW op, NEW c, NEW r, NEW steps, Begin(t, op, c, r, steps)
      PROVE  Own(t) /\ todo'[t] = steps \o <<"answer">>
    BY <1>1 DEF Begin, Own, TypeInv
<1>2. ASSUME NEW x \in Label
      PROVE  <<x>> \o <<"answer">> # <<>>
    <2>1. Done \in Seq(Label)
        BY Lists
    <2>2. <<x>> \o Done # <<>>
        BY <2>1, PushOne
    <2> QED BY <2>2 DEF Done
<1>3. ASSUME NEW x \in Label, NEW y \in Label
      PROVE  <<x, y>> \o <<"answer">> # <<>>
    <2>1. Done \in Seq(Label)
        BY Lists
    <2>2. <<x, y>> \o Done # <<>>
        BY <2>1, PushTwo
    <2> QED BY <2>2 DEF Done
<1>4. <<"chain", "original", "load", "duplicate">> \o <<"answer">> # <<>>
    <2>1. "chain" \in Label /\ Referring \in Seq(Label)
        BY Lists DEF Label
    <2>2. <<"chain">> \o Referring # <<>>
        BY <2>1, PushOne
    <2> QED BY <2>2, ChainList DEF Done
<1>5. {"load", "lookup", "childCount", "flush", "type", "objects", "addFile", "edit", "delete",
       "restart"} \subseteq Label
    BY DEF Label
<1>6. ASSUME NEW i, Load(t, i) \/ Count(t, i) \/ Find(t, i) PROVE Own(t) /\ todo'[t] # <<>>
    BY <1>1, <1>2, <1>5, <1>6 DEF Load, Count, Find
<1>7. ASSUME NEW i, Browse(t, i) \/ Objects(t, i) \/ Import(t, i) PROVE Own(t) /\ todo'[t] # <<>>
    BY <1>1, <1>3, <1>5, <1>7 DEF Browse, Objects, Import
<1>8. ASSUME NEW i, NEW a, Update(t, i, a) \/ Remove(t, i, a) PROVE Own(t) /\ todo'[t] # <<>>
    BY <1>1, <1>3, <1>5, <1>8 DEF Update, Remove
<1>9. ASSUME NEW i, NEW p, NEW a, Link(t, i, p, a) PROVE Own(t) /\ todo'[t] # <<>>
    BY <1>1, <1>4, <1>9 DEF Link
<1>10. Shutdown(t) => Own(t) /\ todo'[t] # <<>>
    BY <1>1, <1>3, <1>5 DEF Shutdown
<1> QED BY <1>6, <1>7, <1>8, <1>9, <1>10 DEF Call

\* Whoever does a step is the only one in a call.
LEMMA StepAlone ==
    ASSUME TypeInv, Serial, Serial', NEW t \in Thread, Step(t) \/ Call(t)
    PROVE  Alone(t) /\ Own(t)
<1>1. CASE Step(t)
    BY <1>1, OwnSteps DEF Serial, Alone
<1>2. CASE Call(t)
    <2>1. Own(t) /\ ~Idle(t)'
        BY <1>2, OwnCalls DEF Idle
    <2>2. ASSUME NEW u \in Thread \ {t} PROVE Idle(u)
        <3>1. todo'[u] = todo[u]
            BY <2>1 DEF Own, TypeInv
        <3>2. Idle(u)'
            BY <2>1 DEF Serial
        <3> QED BY <3>1, <3>2 DEF Idle
    <2> QED BY <2>1, <2>2 DEF Alone
<1> QED BY <1>1, <1>2

LEMMA StepsKeep ==
    ASSUME NEW t \in Thread, Holds(t), Step(t)
    PROVE  Holds(t)'
<1>1. CASE flushInsertBuffer(t) \/ clearBuffer(t) \/ append(t) \/ addToInsertBuffer(t)
    BY <1>1, flushInsertBufferKeeps, clearBufferKeeps, appendKeeps, addToInsertBufferKeeps
<1>2. CASE unlockCache(t) \/ addObjectToCache(t) \/ addNewToCache(t)
    BY <1>2, unlockCacheKeeps, addObjectToCacheKeeps, addNewToCacheKeeps
<1>3. CASE StoreCount(t) \/ StoreType(t) \/ clearCache(t)
    BY <1>3, StoreCountKeeps, StoreTypeKeeps, clearCacheKeeps
<1>4. CASE loadObject(t) \/ selectObject(t) \/ _findObjectByPath(t) \/ searchPath(t)
    BY <1>4, loadObjectKeeps, selectObjectKeeps, _findObjectByPathKeeps, searchPathKeeps
<1>5. CASE ensurePathExistence(t) \/ _ensurePathExistence(t) \/ addContainerChain(t)
    BY <1>5, ensurePathExistenceKeeps, _ensurePathExistenceKeeps, addContainerChainKeeps
<1>6. CASE createContainer(t) \/ informCache(t)
    BY <1>6, createContainerKeeps, informCacheKeeps
<1>7. CASE getChildCount(t) \/ countRows(t) \/ browseType(t) \/ selectType(t)
    BY <1>7, getChildCountKeeps, countRowsKeeps, browseTypeKeeps, selectTypeKeeps
<1>8. CASE browseList(t) \/ browseRow(t) \/ browseCount(t) \/ browseCounted(t) \/ getObjects(t)
    BY <1>8, browseListKeeps, browseRowKeeps, browseCountKeeps, browseCountedKeeps, getObjectsKeeps
<1>9. CASE _addFile(t) \/ checkRefID(t) \/ checkDuplicate(t) \/ firstChild(t)
    BY <1>9, _addFileKeeps, checkRefIDKeeps, checkDuplicateKeeps, firstChildKeeps
<1>10. CASE updateObject(t) \/ throwDirectory(t) \/ updateRow(t)
    BY <1>10, updateObjectKeeps, throwDirectoryKeeps, updateRowKeeps
<1>11. CASE removeObject(t) \/ restart(t) \/ Answer(t)
    BY <1>11, removeObjectKeeps, restartKeeps, AnswerKeeps
<1> QED BY <1>1, <1>2, <1>3, <1>4, <1>5, <1>6, <1>7, <1>8, <1>9, <1>10, <1>11 DEF Step

\* Between calls it does not matter who asks.
IdleGood(o, n, w, b, e, h, l) ==
    /\ BufferOK(w, b, e, <<>>)
    /\ SoundCache(o, w, h, l)

LEMMA IdleIsGood ==
    ASSUME NEW o, NEW n, NEW w, NEW b, NEW e, NEW h, NEW l, NEW r
    PROVE  BufferOK(w, b, e, <<>>) /\ CacheOK(o, n, w, h, l, <<>>, r)
               <=> IdleGood(o, n, w, b, e, h, l)
<1>1. Hd(<<>>) = "idle"
    BY DEF Hd
<1> QED BY <1>1, CacheSound, SoundIsOK DEF IdleGood

\* What holds for a thread that is alone holds for the others, when it has
\* finished.
LEMMA HoldsForAll ==
    ASSUME TypeInv, NEW t \in Thread, Alone(t), Own(t), Holds(t)'
    PROVE  Inv'
<1>1. \A u \in Thread \ {t} : todo'[u] = <<>>
    BY DEF Own, Alone, Idle, TypeInv
<1>2. ASSUME NEW u \in Thread, Alone(u)' PROVE Good(u)'
    <2>1. CASE u = t
        BY <2>1 DEF Holds
    <2>2. CASE u # t
        <3>1. todo'[t] = <<>> /\ todo'[u] = <<>>
            BY <1>1, <1>2, <2>2 DEF Alone, Idle
        <3>2. /\ BufferOK(Waits', DOMAIN buffer', insertBufferEmpty', <<>>)
              /\ CacheOK(All', lastID', Waits', idHash', locationHash', <<>>, reg'[t])
            BY <3>1 DEF Holds, Good
        <3>3. CacheOK(All', lastID', Waits', idHash', locationHash', <<>>, reg'[u])
            BY <3>2, IdleIsGood
        <3>4. Point(All', lastID', Waits', <<>>, reg'[u])
            BY DEF Point
        <3> QED BY <3>1, <3>2, <3>3, <3>4 DEF Good
    <2> QED BY <2>1, <2>2
<1> QED BY <1>2 DEF Inv, Holds

LEMMA InvInit == ASSUME Init PROVE Inv
<1>1. /\ rows = [i \in {CDS_ID_ROOT, CDS_ID_FS_ROOT} |->
                    [IF i = CDS_ID_ROOT THEN Row("virt", -1, NoRef, NoLocation, NoMeta)
                     ELSE Row("dir", CDS_ID_ROOT, NoRef, NoLocation, NoMeta)
                       EXCEPT !.persistent = TRUE]]
      /\ lastID = 1 /\ buffer = <<>> /\ insertBufferEmpty = TRUE
      /\ idHash = <<>> /\ locationHash = <<>>
      /\ todo = [t \in Thread |-> <<>>] /\ reg = [t \in Thread |-> NoWork]
    BY DEF Init, Tree!Forbidden, Tree!CDS_ID_ROOT, Tree!CDS_ID_FS_ROOT, CDS_ID_ROOT, CDS_ID_FS_ROOT
<1> DEFINE a == [Row("virt", -1, NoRef, NoLocation, NoMeta) EXCEPT !.persistent = TRUE]
           b == [Row("dir", CDS_ID_ROOT, NoRef, NoLocation, NoMeta) EXCEPT !.persistent = TRUE]
<1>2. DOMAIN rows = {0, 1} /\ rows[0] = a /\ rows[1] = b
    BY <1>1 DEF CDS_ID_ROOT, CDS_ID_FS_ROOT
<1>3. /\ a.kind = "virt" /\ a.parent = -1 /\ a.persistent
      /\ b.kind = "dir" /\ b.parent = 0 /\ b.persistent
      /\ \A x \in {a, b} : x.ref = NoRef /\ x.loc = NoLocation
    BY DEF Row, CDS_ID_ROOT
<1>4. a \in RowType /\ b \in RowType
    <2>1. NoLocation \in Location /\ NoMeta \in AnyMeta /\ NoRef \in Int
        BY DEF NoLocation, Location, AnyPath, AnyMeta, NoRef, Tree!NoRef
    <2>2. Row("virt", -1, NoRef, NoLocation, NoMeta) \in RowType
        BY <2>1 DEF Row, RowType, ContainerKinds
    <2>3. Row("dir", CDS_ID_ROOT, NoRef, NoLocation, NoMeta) \in RowType
        BY <2>1 DEF Row, RowType, ContainerKinds, CDS_ID_ROOT
    <2>4. \A x \in RowType : [x EXCEPT !.persistent = TRUE] \in RowType
        BY DEF RowType
    <2> QED BY <2>2, <2>3, <2>4
<1> HIDE DEF a, b
<1>5. rows \in [DOMAIN rows -> RowType]
    <2>1. rows = [i \in DOMAIN rows |-> rows[i]]
        BY <1>1
    <2> QED BY <1>2, <1>4, <2>1
<1>6. All = rows /\ Waits = {} /\ DOMAIN buffer = {}
    BY <1>1, <1>5 DEF All, Over, Waits
<1>7. TypeInv
    <2>1. NoWork \in WorkType /\ <<>> \in Seq(Label)
        BY NoWorkType
    <2> QED BY <1>1, <1>5, <1>6, <2>1 DEF TypeInv
<1>8. TableOK(All, lastID, Waits)
    <2>1. Roots(rows)
        BY <1>2, <1>3 DEF Roots, CDS_ID_ROOT, CDS_ID_FS_ROOT
    <2>2. OnePerPath(rows)
        BY <1>2, <1>3 DEF OnePerPath, NoLocation
    <2>3. \A i \in DOMAIN rows : Placed(rows, i)
        BY <1>2, <1>3 DEF Placed, Conts, ContainerKinds, CDS_ID_ROOT, CDS_ID_FS_ROOT
    <2>4. Ordered(rows, {})
        BY <1>2, <1>3 DEF Ordered
    <2>5. DOMAIN rows \subseteq 0 .. 1
        BY <1>2
    <2>6. TableOK(rows, 1, {})
        BY <1>5, <2>1, <2>2, <2>3, <2>4, <2>5 DEF TableOK
    <2> QED BY <1>1, <1>6, <2>6
<1>9. ASSUME NEW t \in Thread PROVE Good(t)
    <2>1. todo[t] = <<>>
        BY <1>1
    <2>2. BufferOK({}, {}, TRUE, <<>>) /\ SoundCache(All, {}, <<>>, <<>>)
        BY DEF BufferOK, SoundCache, LocationsOK, Hd
    <2>3. CacheOK(All, lastID, {}, <<>>, <<>>, <<>>, reg[t])
        BY <2>2, IdleIsGood DEF IdleGood
    <2> QED BY <1>1, <1>6, <2>1, <2>2, <2>3 DEF Good, Point
<1> QED BY <1>7, <1>8, <1>9 DEF Inv

LEMMA InvNext ==
    ASSUME Inv, Serial, Serial', [Next]_vars
    PROVE  Inv'
<1>1. CASE Next
    <2>1. PICK t \in Thread : Step(t) \/ Call(t)
        BY <1>1 DEF Next
    <2>2. TypeInv
        BY DEF Inv
    <2>3. Alone(t) /\ Own(t)
        BY <2>1, <2>2, StepAlone
    <2>4. Holds(t)
        BY <2>3 DEF Inv, Holds
    <2>5. Holds(t)'
        BY <2>1, <2>4, StepsKeep, CallsKeep
    <2> QED BY <2>2, <2>3, <2>5, HoldsForAll
<1>2. CASE UNCHANGED vars
    <2>1. /\ UNCHANGED <<rows, buffer, insertBufferEmpty, lastID, idHash, locationHash, todo, reg>>
          /\ All' = All /\ Waits' = Waits
        BY <1>2 DEF vars, tableVars, bufferVars, cacheVars, All, Waits
    <2>2. TypeInv' /\ TableOK(All', lastID', Waits')
        BY <2>1 DEF Inv, TypeInv
    <2>3. \A t \in Thread : Alone(t)' => Good(t)'
        BY <2>1 DEF Inv, Alone, Idle, Good
    <2> QED BY <2>2, <2>3 DEF Inv
<1> QED BY <1>1, <1>2

LEMMA InvHolds == Spec /\ []Serial => []Inv
<1>1. Init => Inv
    BY InvInit
<1>2. Inv /\ Serial /\ Serial' /\ [Next]_vars => Inv'
    BY InvNext
<1> QED BY <1>1, <1>2, PTL DEF Spec

\* With one thread calls cannot overlap: then the theorems below hold without their
\* hypothesis.
LEMMA OneThreadIsSerial == ASSUME \A t, u \in Thread : t = u PROVE []Serial
<1>1. Serial
    BY DEF Serial
<1> QED BY <1>1, PTL

\* No container waits, and a reference never gets ahead of its original.
LEMMA InvInOrder == ASSUME Inv PROVE BufferLossOrphansNothing
<1>1. TypeInv /\ TableOK(All, lastID, Waits)
    BY DEF Inv
<1>2. ASSUME NEW n \in 0 .. lastID, NEW i \in DOMAIN All \ Lost(n)
      PROVE  /\ All[i].parent \notin Lost(n)
             /\ All[i].kind = "ref" => All[i].ref \notin Lost(n)
    <2>1. Lost(n) = {j \in Waits : j > n}
        BY DEF Lost, Waits
    <2>2. Placed(All, i) /\ Ordered(All, Waits) /\ Roots(All)
        BY <1>1 DEF TableOK
    <2>3. /\ DOMAIN All \subseteq 0 .. lastID /\ lastID \in Nat
          /\ Waits \subseteq DOMAIN All /\ Waits \intersect Conts(All) = {}
        BY <1>1, <2>2 DEF TableOK, TypeInv, Ordered
    <2>4. All[i].parent \notin Lost(n)
        <3>1. CASE i # CDS_ID_ROOT
            BY <2>1, <2>2, <2>3, <3>1 DEF Placed
        <3>2. CASE i = CDS_ID_ROOT
            BY <2>1, <2>2, <2>3, <3>2 DEF Roots
        <3> QED BY <3>1, <3>2
    <2>5. ASSUME All[i].kind = "ref" PROVE All[i].ref \notin Lost(n)
        <3>1. CASE i \notin Waits
            BY <2>1, <2>2, <2>5, <3>1 DEF Ordered
        <3>2. CASE i \in Waits
            <4>1. All[i].ref < i /\ All[i].ref \in DOMAIN All
                BY <2>2, <2>5 DEF Ordered, Placed
            <4>2. ~(i > n) /\ i \in Nat /\ n \in Nat /\ All[i].ref \in Nat
                BY <2>1, <2>3, <3>2, <4>1
            <4> QED BY <2>1, <4>1, <4>2
        <3> QED BY <3>1, <3>2
    <2> QED BY <2>4, <2>5
<1> QED BY <1>2 DEF BufferLossOrphansNothing

\* What a crash leaves of the insert buffer, with the table, needs nothing of what
\* it loses: for what addObject() and createContainer() write, in their order.
THEOREM NothingOrphanedByBufferLoss == Spec /\ []Serial => []BufferLossOrphansNothing
<1>1. Inv => BufferLossOrphansNothing
    BY InvInOrder
<1> QED BY <1>1, InvHolds, PTL

\* A path is one object, although findObjectByPath() looks into the cache and the
\* table only.
THEOREM PathsAreUnique == Spec /\ []Serial => []OneObjectPerPath
<1>1. Inv => OneObjectPerPath
    BY DEF Inv, TableOK, OnePerPath, OneObjectPerPath
<1> QED BY <1>1, InvHolds, PTL

\* What the callers may get is what they are told.
LEMMA RightIsSame ==
    ASSUME TableOK(All, lastID, Waits), lastID \in Nat, NEW x, NEW i, Right(All, x, i)
    PROVE  Same(x, i)
<1> DEFINE y == Object(All, i)
<1>1. Right(All, y, i)
    BY ObjectIsRight DEF Right
<1>2. /\ x \in ObjType /\ y \in ObjType
      /\ x.id = y.id /\ x.kind = y.kind /\ x.parent = y.parent /\ x.ref = y.ref /\ x.loc = y.loc
      /\ x.meta = y.meta \/ (All[i].kind = "ref" /\ All[i].meta = NoMeta)
      /\ y.kind = All[i].kind
    BY <1>1 DEF Right
<1> HIDE DEF y
<1>3. [x EXCEPT !.meta = y.meta] = y
    BY <1>2 DEF ObjType
<1>4. x.meta = y.meta => x = y
    BY <1>2 DEF ObjType
<1> QED BY <1>2, <1>3, <1>4 DEF Same, y

LEMMA InvCached == ASSUME Inv, Thread # {} PROVE CorrectlyInCache
<1> SUFFICES ASSUME \A t \in Thread : Idle(t)
             PROVE  /\ \A i \in DOMAIN buffer : Visible(idHash, locationHash, i)
                    /\ \A i \in DOMAIN idHash :
                          /\ KnowsObject(i) => i \in DOMAIN All /\ Same(idHash[i].obj, i)
                          /\ KnowsNumChildren(i) =>
                                 idHash[i].num = Cardinality(ChildrenOf(All, i))
    BY DEF CorrectlyInCache, Visible, KnowsObject, Knows
<1>1. PICK t \in Thread : TRUE
    OBVIOUS
<1>2. todo[t] = <<>> /\ Good(t)
    BY DEF Inv, Alone, Idle
<1>3. Hd(todo[t]) = "idle" /\ Hd(<<>>) = "idle"
    BY <1>2 DEF Hd
<1>4. DOMAIN buffer = Waits
    BY <1>2, <1>3 DEF Good, BufferOK
<1>5. SoundCache(All, Waits, idHash, locationHash)
    BY <1>2, <1>3, CacheSound DEF Good
<1>6. ASSUME NEW i \in DOMAIN idHash
      PROVE  /\ KnowsObject(i) => i \in DOMAIN All /\ Same(idHash[i].obj, i)
             /\ KnowsNumChildren(i) => idHash[i].num = Cardinality(ChildrenOf(All, i))
    <2>1. SoundEntry(All, idHash[i], i) /\ idHash[i] \in EntryType
        BY <1>5 DEF SoundCache, Inv, TypeInv
    <2>2. KnowsObject(i) => Right(All, idHash[i].obj, i)
        BY <2>1 DEF SoundEntry, SoundObj, KnowsObject
    <2>3. KnowsNumChildren(i) => idHash[i].num + 0 = Cardinality(ChildrenOf(All, i))
        BY <2>1 DEF SoundEntry, SoundNum, KnowsNumChildren
    <2>4. idHash[i].num \in Int
        BY <2>1 DEF EntryType
    <2>5. KnowsObject(i) => i \in DOMAIN All /\ Same(idHash[i].obj, i)
        BY <2>2, RightIsSame DEF Inv, TypeInv, Right
    <2> QED BY <2>3, <2>4, <2>5
<1> QED BY <1>4, <1>5, <1>6 DEF SoundCache

\* Whatever waits in the buffer is in the cache, and the cache is right.
THEOREM CacheIsCorrect == Spec /\ []Serial => []CorrectlyInCache
<1>1. Inv => CorrectlyInCache
    BY InvCached, StoreAssumption
<1> QED BY <1>1, InvHolds, PTL

LEMMA InvAnswers == ASSUME Inv, Serial PROVE AnswersRight
<1> SUFFICES ASSUME NEW t \in Thread, At(t, "answer")
             PROVE  LET r == reg[t]
        IN  CASE r.call.op = "load"    -> ObjectRight(r.res, {r.call.id} \intersect DOMAIN All)
              [] r.call.op = "find"    -> ObjectRight(r.res, {i \in DOMAIN All : All[i].loc = r.loc})
              [] r.call.op = "count"   -> r.num = Cardinality(ChildrenOf(All, r.call.id))
              [] r.call.op = "browse"  -> ListRight(r)
              [] r.call.op = "objects" -> r.list = ChildrenOf(All, r.call.id)
              [] OTHER -> TRUE
    BY DEF AnswersRight
<1> DEFINE r == reg[t]
<1>1. ~Idle(t)
    BY DEF At, Idle
<1>2. Alone(t)
    BY <1>1 DEF Serial, Alone
<1>3. Holds(t)
    BY <1>2 DEF Inv, Holds
<1>4. AnswerOK(All, r)
    <2>1. "answer" \in CoreLabel
        BY DEF CoreLabel
    <2>2. Core(All, Waits, todo[t], r) /\ Hd(todo[t]) = "answer"
        BY <1>3, <2>1, CoreAt
    <2> QED BY <2>2, CoreCases
<1>5. /\ TableOK(All, lastID, Waits) /\ lastID \in Nat /\ r \in WorkType
    BY DEF Inv, TypeInv
<1> HIDE DEF r
<1>6. CASE r.call.op = "load"
    <2>1. ObjectRight(r.res, {r.call.id} \intersect DOMAIN All)
        <3>1. CASE r.call.id \in DOMAIN All
            <4>1. Same(r.res, r.call.id)
                BY <1>4, <1>5, <1>6, <3>1, RightIsSame DEF AnswerOK
            <4> QED BY <3>1, <4>1 DEF ObjectRight
        <3>2. CASE r.call.id \notin DOMAIN All
            BY <1>4, <1>6, <3>2 DEF AnswerOK, ObjectRight
        <3> QED BY <3>1, <3>2
    <2> QED BY <1>6, <2>1 DEF r
<1>7. CASE r.call.op = "find"
    <2>1. ObjectRight(r.res, {i \in DOMAIN All : All[i].loc = r.loc})
        <3>1. CASE Located(All, r.loc)
            <4>1. Right(All, r.res, r.res.id) /\ All[r.res.id].loc = r.loc
                BY <1>4, <1>7, <3>1 DEF AnswerOK
            <4>2. Same(r.res, r.res.id) /\ r.res.id \in DOMAIN All
                BY <1>5, <4>1, RightIsSame DEF Right
            <4> QED BY <4>1, <4>2 DEF ObjectRight
        <3>2. CASE ~Located(All, r.loc)
            BY <1>4, <1>7, <3>2 DEF AnswerOK, ObjectRight, Located
        <3> QED BY <3>1, <3>2
    <2> QED BY <1>7, <2>1 DEF r
<1>8. CASE r.call.op = "browse"
    <2>1. ListRight(r)
        <3>1. CASE r.call.id \in DOMAIN All
            <4>1. ListOK(All, r)
                BY <1>4, <1>8, <3>1 DEF AnswerOK
            <4>2. \A x \in r.list : Same(x, x.id)
                BY <1>5, <4>1, RightIsSame DEF ListOK
            <4>3. Listed(All, r.call.id) = IF IsContainer(All[r.call.id])
                                           THEN ChildrenOf(All, r.call.id) ELSE {r.call.id}
                BY DEF Listed, IsContainer, ContainerKinds
            <4> QED BY <3>1, <4>1, <4>2, <4>3 DEF ListRight, ListOK, CountsOK
        <3>2. CASE r.call.id \notin DOMAIN All
            BY <1>4, <1>8, <3>2 DEF AnswerOK, ListRight, CountsOK
        <3> QED BY <3>1, <3>2
    <2> QED BY <1>8, <2>1 DEF r
<1>9. CASE r.call.op \in {"count", "objects"}
    BY <1>4, <1>9 DEF AnswerOK, r
<1>10. CASE r.call.op \notin {"load", "find", "browse", "count", "objects"}
    BY <1>10 DEF r
<1> QED BY <1>6, <1>7, <1>8, <1>9, <1>10

\* Neither the buffer nor the cache shows in an answer.
THEOREM AnswersAreRight == Spec /\ []Serial => []AnswersRight
<1>1. Inv /\ Serial => AnswersRight
    BY InvAnswers
<1> QED BY <1>1, InvHolds, PTL

-----------------------------------------------------------------------------
(* Table and buffer are the tree of the contract.                          *)

Deletes(k) == \E n \in DOMAIN k : k[n] = "delete"

\* The request of a thread that has k to do for the call c.
RequestBy(k, c, o) ==
    IF Deletes(k) /\ c.id \in DOMAIN o THEN [ids |-> {c.id}, all |-> c.all] ELSE Tree!NoRequest

\* Request, of any lists and registers.
RemovingIn(td, rg, o) ==
    {t \in Thread : /\ \E n \in DOMAIN td[t] : td[t][n] = "delete"
                    /\ rg[t].call.id \in DOMAIN o}
RequestIn(td, rg, o) ==
    IF RemovingIn(td, rg, o) = {} THEN [ids |-> {}, all |-> FALSE]
    ELSE LET t == CHOOSE t \in RemovingIn(td, rg, o) : TRUE
         IN  [ids |-> {rg[t].call.id}, all |-> rg[t].call.all]

LEMMA RequestOfOne ==
    ASSUME NEW td, NEW rg, NEW o, NEW t \in Thread, \A u \in Thread \ {t} : td[u] = <<>>
    PROVE  RequestIn(td, rg, o) = RequestBy(td[t], rg[t].call, o)
<1> DEFINE R == RemovingIn(td, rg, o)
<1>1. \A u \in Thread \ {t} : u \notin R
    BY DEF RemovingIn
<1>2. t \in R <=> Deletes(td[t]) /\ rg[t].call.id \in DOMAIN o
    BY DEF RemovingIn, Deletes
<1>3. R \subseteq Thread
    BY DEF RemovingIn
<1> HIDE DEF R
<1>4. CASE t \in R
    <2>1. R = {t}
        BY <1>1, <1>3, <1>4
    <2>2. (CHOOSE u \in R : TRUE) = t
        BY <2>1
    <2> QED BY <1>2, <1>4, <2>1, <2>2 DEF RequestIn, RequestBy, R
<1>5. CASE t \notin R
    <2>1. R = {}
        BY <1>1, <1>3, <1>5
    <2> QED BY <1>2, <1>5, <2>1 DEF RequestIn, RequestBy, R, Tree!NoRequest
<1> QED BY <1>4, <1>5

\* The request before and after a step of the only thread in a call.
LEMMA Requests ==
    ASSUME TypeInv, NEW t \in Thread, Alone(t), Own(t)
    PROVE  /\ Request = RequestBy(todo[t], reg[t].call, All)
           /\ Request' = RequestBy(todo'[t], reg'[t].call, All')
<1>1. \A u \in Thread \ {t} : todo[u] = <<>> /\ todo'[u] = <<>>
    BY DEF Own, Alone, Idle, TypeInv
<1>2. Request = RequestIn(todo, reg, All)
    BY DEF Request, Removing, RequestIn, RemovingIn
<1>3. Request' = RequestIn(todo', reg', All')
    BY DEF Request, Removing, RequestIn, RemovingIn
<1>4. RequestIn(todo, reg, All) = RequestBy(todo[t], reg[t].call, All)
    BY <1>1, RequestOfOne
<1>5. RequestIn(todo', reg', All') = RequestBy(todo'[t], reg'[t].call, All')
    BY <1>1, RequestOfOne
<1> QED BY <1>2, <1>3, <1>4, <1>5

-----------------------------------------------------------------------------
(* Which lists have a removal.                                             *)

LEMMA DeletesJoined ==
    ASSUME NEW a \in Seq(Label), NEW b \in Seq(Label)
    PROVE  Deletes(a \o b) <=> Deletes(a) \/ Deletes(b)
<1> DEFINE c == a \o b
<1>1. /\ Len(a) \in Nat /\ Len(b) \in Nat /\ DOMAIN a = 1 .. Len(a) /\ DOMAIN b = 1 .. Len(b)
    BY LenProperties
<1>2. /\ c \in Seq(Label) /\ Len(c) = Len(a) + Len(b)
      /\ \A n \in 1 .. Len(a) + Len(b) : c[n] = IF n <= Len(a) THEN a[n] ELSE b[n - Len(a)]
    BY ConcatProperties
<1> HIDE DEF c
<1>3. DOMAIN c = 1 .. Len(a) + Len(b)
    BY <1>2, LenProperties
<1>4. ASSUME Deletes(c) PROVE Deletes(a) \/ Deletes(b)
    <2>1. PICK n \in 1 .. Len(a) + Len(b) : c[n] = "delete"
        BY <1>3, <1>4 DEF Deletes
    <2>2. CASE n <= Len(a)
        <3>1. n \in DOMAIN a /\ a[n] = "delete"
            BY <1>1, <1>2, <2>1, <2>2
        <3> QED BY <3>1 DEF Deletes
    <2>3. CASE n > Len(a)
        <3>1. n - Len(a) \in DOMAIN b /\ b[n - Len(a)] = "delete"
            BY <1>1, <1>2, <2>1, <2>3
        <3> QED BY <3>1 DEF Deletes
    <2> QED BY <1>1, <2>1, <2>2, <2>3
<1>5. ASSUME Deletes(a) PROVE Deletes(c)
    <2>1. PICK n \in 1 .. Len(a) : a[n] = "delete"
        BY <1>1, <1>5 DEF Deletes
    <2>2. n \in DOMAIN c /\ c[n] = "delete"
        BY <1>1, <1>2, <1>3, <2>1
    <2> QED BY <2>2 DEF Deletes
<1>6. ASSUME Deletes(b) PROVE Deletes(c)
    <2>1. PICK n \in 1 .. Len(b) : b[n] = "delete"
        BY <1>1, <1>6 DEF Deletes
    <2>2. n + Len(a) \in 1 .. Len(a) + Len(b) /\ ~(n + Len(a) <= Len(a))
          /\ (n + Len(a)) - Len(a) = n
        BY <1>1, <2>1
    <2>3. n + Len(a) \in DOMAIN c /\ c[n + Len(a)] = "delete"
        BY <1>2, <1>3, <2>1, <2>2
    <2> QED BY <2>3 DEF Deletes
<1> QED BY <1>4, <1>5, <1>6 DEF c

\* Lists that do not.
Plain(k) == k \in Seq(Label) /\ ~Deletes(k)

LEMMA PlainSteps ==
    /\ Plain(<<>>)
    /\ \A x \in Label \ {"delete"} : Plain(<<x>>)
    /\ \A x, y \in Label \ {"delete"} : Plain(<<x, y>>)
    /\ \A x, y, z \in Label \ {"delete"} : Plain(<<x, y, z>>)
    /\ \A x, y, z, u \in Label \ {"delete"} : Plain(<<x, y, z, u>>)
<1>1. Plain(<<>>)
    BY DEF Plain, Deletes
<1>2. ASSUME NEW x \in Label \ {"delete"} PROVE Plain(<<x>>)
    BY DEF Plain, Deletes
<1>3. ASSUME NEW x \in Label \ {"delete"}, NEW y \in Label \ {"delete"} PROVE Plain(<<x, y>>)
    BY DEF Plain, Deletes
<1>4. ASSUME NEW x \in Label \ {"delete"}, NEW y \in Label \ {"delete"},
             NEW z \in Label \ {"delete"}
      PROVE  Plain(<<x, y, z>>)
    BY DEF Plain, Deletes
<1>5. ASSUME NEW x \in Label \ {"delete"}, NEW y \in Label \ {"delete"},
             NEW z \in Label \ {"delete"}, NEW u \in Label \ {"delete"}
      PROVE  Plain(<<x, y, z, u>>)
    BY DEF Plain, Deletes
<1> QED BY <1>1, <1>2, <1>3, <1>4, <1>5

LEMMA PlainJoined ==
    ASSUME NEW a, NEW b, Plain(a), Plain(b)
    PROVE  Plain(a \o b)
<1>1. a \o b \in Seq(Label)
    BY ConcatProperties DEF Plain
<1> QED BY <1>1, DeletesJoined DEF Plain

LEMMA PlainRest ==
    ASSUME NEW s \in Seq(Label), s # <<>>, Head(s) # "delete"
    PROVE  Deletes(s) <=> Deletes(Tail(s))
<1>1. Head(s) \in Label /\ Tail(s) \in Seq(Label)
    BY HeadTailProperties
<1>2. Plain(<<Head(s)>>)
    BY <1>1, PlainSteps
<1>3. s = <<Head(s)>> \o Tail(s)
    BY HeadOn
<1>4. Deletes(<<Head(s)>> \o Tail(s)) <=> Deletes(<<Head(s)>>) \/ Deletes(Tail(s))
    BY <1>1, <1>2, DeletesJoined DEF Plain
<1> QED BY <1>2, <1>3, <1>4 DEF Plain

LEMMA PlainLists ==
    \A k \in {Done, Adding, MakingDir, MakingVirt, Updating, Deciding, Editing, Fetching,
              Referring, AddingFile, Hearing, Counting, Storing} : Plain(k)
<1> USE DEF Label
<1>1. \A k \in {Done, Deciding, Editing, Updating, AddingFile, Hearing} : Plain(k)
    BY PlainSteps DEF Done, Deciding, Editing, Updating, AddingFile, Hearing
<1>2. Plain(Fetching) /\ Plain(Counting) /\ Plain(Referring) /\ Plain(Storing)
    BY PlainSteps DEF Fetching, Counting, Referring, Storing
<1>3. Plain(Adding) /\ Plain(MakingVirt) /\ Plain(MakingDir)
    <2>1. Plain(<<"append">>) /\ Plain(<<"create">>)
        BY PlainSteps
    <2>2. <<"append">> \o Storing = Adding /\ <<"create">> \o Referring = MakingVirt
          /\ <<"create">> \o Adding = MakingDir
        BY Cons
    <2>3. Plain(Adding)
        BY <1>2, <2>1, <2>2, PlainJoined
    <2> QED BY <1>2, <2>1, <2>2, <2>3, PlainJoined
<1> QED BY <1>1, <1>2, <1>3

-----------------------------------------------------------------------------
(* The steps of the contract.                                              *)

\* A step the contract does not see.
LEMMA Unseen ==
    ASSUME TypeInv, NEW t \in Thread, Alone(t), Own(t), All' = All,
           Deletes(todo'[t]) <=> Deletes(todo[t]),
           Deletes(todo[t]) => reg'[t].call = reg[t].call
    PROVE  UNCHANGED Tree!cdsVars
<1>1. /\ Request = RequestBy(todo[t], reg[t].call, All)
      /\ Request' = RequestBy(todo'[t], reg'[t].call, All)
    BY Requests
<1>2. CASE Deletes(todo[t])
    BY <1>1, <1>2 DEF RequestBy, Tree!cdsVars
<1>3. CASE ~Deletes(todo[t])
    BY <1>1, <1>3 DEF RequestBy, Tree!cdsVars
<1> QED BY <1>2, <1>3

LEMMA Added ==
    ASSUME TypeInv, NEW t \in Thread, Alone(t), Own(t), TableOK(All, lastID, Waits), Grows,
           ~Deletes(todo[t]), ~Deletes(todo'[t])
    PROVE  Tree!Add
<1>1. Request = Tree!NoRequest /\ Request' = Tree!NoRequest
    BY Requests DEF RequestBy
<1>2. PICK row : All' = With(All, lastID + 1, row) /\ Tree!WellPlaced(All, row)
    BY DEF Grows
<1>3. DOMAIN All \subseteq 0 .. lastID /\ lastID \in Nat
    BY DEF TableOK, TypeInv
<1>4. /\ lastID + 1 \in DOMAIN All' /\ DOMAIN All' = DOMAIN All \union {lastID + 1}
      /\ All'[lastID + 1] = row
      /\ \A j \in DOMAIN All : j < lastID + 1 /\ All'[j] = All[j]
    BY <1>2, <1>3 DEF With
<1> QED BY <1>1, <1>2, <1>4 DEF Tree!Add

LEMMA Changed ==
    ASSUME TypeInv, NEW t \in Thread, Alone(t), Own(t), NEW i, Edits(i),
           ~Deletes(todo[t]), ~Deletes(todo'[t])
    PROVE  Tree!Change
<1>1. Request = Tree!NoRequest /\ Request' = Tree!NoRequest
    BY Requests DEF RequestBy
<1>2. PICK m : i \in DOMAIN All /\ Edited(All, All', i, m)
    BY DEF Edits
<1>3. /\ DOMAIN All' = DOMAIN All
      /\ All'[i].kind = All[i].kind /\ All'[i].parent = All[i].parent /\ All'[i].ref = All[i].ref
      /\ \A j \in DOMAIN All \ {i} : All'[j] = All[j]
    BY <1>2 DEF Edited
<1> QED BY <1>1, <1>2, <1>3 DEF Tree!Change

LEMMA Removed ==
    ASSUME TypeInv, NEW t \in Thread, Alone(t), Own(t), UNCHANGED reg,
           Shrinks(reg[t].call.id, reg[t].call.all),
           Deletes(todo[t]), ~Deletes(todo'[t])
    PROVE  [Tree!Remove]_(Tree!cdsVars)
<1> DEFINE i == reg[t].call.id
           all == reg[t].call.all
<1>1. Request' = Tree!NoRequest
    BY Requests DEF RequestBy
<1>2. CASE i \in DOMAIN All
    <2>1. Request = [ids |-> {i}, all |-> all]
        BY <1>2, Requests DEF RequestBy
    <2>2. Request # Tree!NoRequest /\ Request.ids = {i} /\ Request.all = all
        BY <2>1 DEF Tree!NoRequest
    <2>3. All' = Tree!Without(All, Tree!Gone(All, {i}, all))
        BY <1>2 DEF Shrinks
    <2> HIDE DEF i, all
    <2> QED BY <1>1, <2>2, <2>3 DEF Tree!Remove
<1>3. CASE i \notin DOMAIN All
    <2>1. Request = Tree!NoRequest /\ All' = All
        BY <1>3, Requests DEF RequestBy, Shrinks
    <2> QED BY <1>1, <2>1 DEF Tree!cdsVars
<1> QED BY <1>2, <1>3

LEMMA AskedFor ==
    ASSUME TypeInv, NEW t \in Thread, Alone(t), Own(t), All' = All, ~Deletes(todo[t]),
           reg'[t].call.id \notin {CDS_ID_ROOT, CDS_ID_FS_ROOT}, reg'[t].call.all \in BOOLEAN
    PROVE  [Tree!Ask]_(Tree!cdsVars)
<1> DEFINE i == reg'[t].call.id
           all == reg'[t].call.all
<1>1. Request = Tree!NoRequest
    BY Requests DEF RequestBy
<1>2. Request' \in {Tree!NoRequest, [ids |-> {i}, all |-> all]}
      /\ (Request' # Tree!NoRequest => i \in DOMAIN All)
    BY Requests DEF RequestBy
<1>3. CASE Request' = Tree!NoRequest
    BY <1>1, <1>3 DEF Tree!cdsVars
<1>4. CASE Request' = [ids |-> {i}, all |-> all] /\ i \in DOMAIN All
    <2>1. Request'.ids = {i} /\ Request'.all = all
        BY <1>4
    <2>2. {i} \subseteq DOMAIN All \ Tree!Forbidden
        BY <1>4 DEF Tree!Forbidden, CDS_ID_ROOT, CDS_ID_FS_ROOT, Tree!CDS_ID_ROOT, Tree!CDS_ID_FS_ROOT
    <2> HIDE DEF i, all
    <2>3. all \in BOOLEAN /\ {i} # {}
        BY DEF all
    <2> QED BY <1>1, <1>4, <2>1, <2>2, <2>3 DEF Tree!Ask
<1> QED BY <1>2, <1>3, <1>4

-----------------------------------------------------------------------------
(* Which step of the contract a step of a call is.                         *)

\* A step that leaves the objects and a removal alone.
Aside(t) ==
    /\ All' = All
    /\ \/ \E steps : Plain(steps) /\ Then(t, steps) /\ todo[t] # <<>> /\ Head(todo[t]) # "delete"
       \/ ~Deletes(todo[t]) /\ ~Deletes(todo'[t])
    /\ Deletes(todo[t]) => reg'[t].call = reg[t].call

LEMMA AsideUnseen ==
    ASSUME TypeInv, NEW t \in Thread, Alone(t), Own(t), Aside(t)
    PROVE  UNCHANGED Tree!cdsVars
<1>1. CASE \E steps : Plain(steps) /\ Then(t, steps) /\ todo[t] # <<>> /\ Head(todo[t]) # "delete"
    <2>1. PICK steps : Plain(steps) /\ Then(t, steps) /\ todo[t] # <<>> /\ Head(todo[t]) # "delete"
        BY <1>1
    <2> DEFINE s == todo[t]
    <2>2. s \in Seq(Label) /\ s # <<>> /\ Head(s) # "delete" /\ todo'[t] = steps \o Tail(s)
        BY <2>1 DEF Then, TypeInv
    <2> HIDE DEF s
    <2>3. Deletes(s) <=> Deletes(Tail(s))
        BY <2>2, PlainRest
    <2>4. Tail(s) \in Seq(Label)
        BY <2>2, HeadTailProperties
    <2>5. Deletes(steps \o Tail(s)) <=> Deletes(steps) \/ Deletes(Tail(s))
        BY <2>1, <2>4, DeletesJoined DEF Plain
    <2>6. Deletes(todo'[t]) <=> Deletes(todo[t])
        BY <2>1, <2>2, <2>3, <2>5 DEF Plain, s
    <2> QED BY <2>6, Unseen DEF Aside
<1>2. CASE ~Deletes(todo[t]) /\ ~Deletes(todo'[t])
    BY <1>2, Unseen DEF Aside
<1> QED BY <1>1, <1>2 DEF Aside

\* What most steps do.
Goes(t) == /\ todo[t] # <<>> /\ Head(todo[t]) # "delete"
           /\ \E steps : Plain(steps) /\ Then(t, steps)
SameCall(t) == reg'[t].call = reg[t].call
Still == UNCHANGED <<rows, buffer>>

LEMMA GoesAside ==
    ASSUME NEW t, Goes(t), SameCall(t), Still
    PROVE  Aside(t)
<1>1. All' = All
    BY DEF Still, All
<1> QED BY <1>1 DEF Goes, SameCall, Aside

LEMMA HasCall ==
    ASSUME TypeInv, NEW t \in Thread
    PROVE  /\ DOMAIN reg = Thread /\ "call" \in DOMAIN reg[t]
           /\ UNCHANGED reg => SameCall(t)
           /\ \A r : Set(t, r) /\ r.call = reg[t].call => SameCall(t)
<1>1. reg[t] \in WorkType /\ DOMAIN reg = Thread
    BY DEF TypeInv
<1>2. "call" \in DOMAIN reg[t]
    BY <1>1 DEF WorkType
<1> QED BY <1>1, <1>2 DEF SameCall, Set

\* Steps of the cache.
LEMMA CacheAside ==
    ASSUME TypeInv, NEW t \in Thread,
           \/ unlockCache(t) \/ addObjectToCache(t) \/ addNewToCache(t) \/ StoreCount(t)
           \/ StoreType(t) \/ clearCache(t) \/ informCache(t)
    PROVE  Aside(t)
<1>1. ASSUME NEW h, NEW i, NEW e, NEW o, NEW x, Fill(t, h, i, e, o), At(t, x), x # "delete"
      PROVE  Goes(t) /\ Still
    <2>1. Plain(<<>>) /\ Plain(<<"flush", "unlock">>)
        BY PlainSteps DEF Label
    <2>2. Still /\ (Then(t, <<>>) \/ Then(t, <<"flush", "unlock">>))
        BY <1>1 DEF Fill, Still, tableVars, bufferVars
    <2> QED BY <1>1, <2>1, <2>2 DEF Goes, At
<1>2. CASE unlockCache(t) \/ clearCache(t)
    <2>1. Plain(<<>>)
        BY PlainSteps
    <2>2. Goes(t) /\ Still /\ UNCHANGED reg
        BY <1>2, <2>1 DEF unlockCache, clearCache, Goes, At, Still, tableVars, bufferVars
    <2> QED BY <2>2, HasCall, GoesAside
<1>3. CASE addObjectToCache(t) \/ addNewToCache(t) \/ StoreCount(t) \/ StoreType(t)
    <2>1. Goes(t) /\ Still /\ UNCHANGED reg
        BY <1>1, <1>3 DEF addObjectToCache, addNewToCache, StoreCount, StoreType
    <2> QED BY <2>1, HasCall, GoesAside
<1>4. CASE informCache(t)
    <2>1. Goes(t) /\ Still
        BY <1>1, <1>4 DEF informCache
    <2>2. SameCall(t)
        BY <1>4, HasCall DEF informCache
    <2> QED BY <2>1, <2>2, GoesAside
<1> QED BY <1>2, <1>3, <1>4

\* Steps of the buffer.
LEMMA BufferAside ==
    ASSUME NEW t \in Thread, Holds(t), flushInsertBuffer(t) \/ clearBuffer(t) \/ addToInsertBuffer(t)
    PROVE  Aside(t)
<1>1. TypeInv /\ Plain(<<>>) /\ Plain(<<"flushed">>)
    BY PlainSteps DEF Holds, Label
<1>2. Goes(t) /\ UNCHANGED reg
    BY <1>1 DEF flushInsertBuffer, clearBuffer, addToInsertBuffer, At, Goes, cacheVars
<1>3. All' = All
    <2>1. CASE UNCHANGED <<rows, buffer>>
        BY <2>1 DEF All
    <2>2. CASE rows' = Over(rows, buffer) /\ UNCHANGED buffer
        BY <1>1, <2>2, FlushRows
    <2>3. CASE clearBuffer(t)
        <3>1. At(t, "flushed") /\ UNCHANGED rows /\ buffer' = <<>>
            BY <2>3 DEF clearBuffer, tableVars
        <3>2. Waits = {}
            BY <1>1, <3>1, Left DEF Holds, Good, BufferOK
        <3> QED BY <3>1, <3>2 DEF Waits, All, Over
    <2> QED BY <2>1, <2>2, <2>3 DEF flushInsertBuffer, _flushInsertBuffer, addToInsertBuffer
<1>4. SameCall(t)
    BY <1>1, <1>2, HasCall
<1> QED BY <1>2, <1>3, <1>4 DEF Goes, SameCall, Aside

\* An exception ends a call that is no removal.
LEMMA ThrowAside ==
    ASSUME NEW t \in Thread, Holds(t), Throw(t), Still, NEW x \in {"select", "selectType", "throw"},
           At(t, x)
    PROVE  Aside(t)
<1>1. TypeInv /\ todo'[t] = Done /\ Plain(Done)
    BY PlainLists DEF Throw, Done, Holds, TypeInv
<1>2. Tail(todo[t]) \in {Done, Deciding, Editing, Updating}
    <2> DEFINE k == todo[t]
               r == reg[t]
    <2>1. Point(All, lastID, Waits, k, r) /\ k # <<>> /\ Hd(k) = x
        BY PointAt
    <2> HIDE DEF k, r
    <2>2. CASE x = "select"
        <3>1. LoadAt(All, Waits, Tail(k), r)
            BY <2>1, <2>2, PointCases
        <3> QED BY <3>1 DEF LoadAt, k
    <2>3. CASE x = "selectType"
        BY <2>1, <2>3, PointCases DEF k
    <2>4. CASE x = "throw"
        <3>1. Core(All, Waits, k, r)
            BY <2>1, <2>4, PointCases DEF CoreLabel
        <3> QED BY <2>1, <2>4, <3>1, CoreListing DEF k
    <2> QED BY <2>2, <2>3, <2>4
<1>3. ~Deletes(todo[t])
    <2>1. todo[t] \in Seq(Label) /\ todo[t] # <<>> /\ Head(todo[t]) = x
        BY <1>1, Left
    <2>2. ~Deletes(Tail(todo[t]))
        BY <1>2, PlainLists DEF Plain
    <2> QED BY <2>1, <2>2, PlainRest
<1>4. All' = All
    BY DEF Still, All
<1> QED BY <1>1, <1>3, <1>4 DEF Aside, Plain

\* Steps that look for something.
LEMMA LookAside ==
    ASSUME NEW t \in Thread, Holds(t),
           loadObject(t) \/ selectObject(t) \/ _findObjectByPath(t) \/ searchPath(t)
           \/ getChildCount(t) \/ countRows(t) \/ browseType(t) \/ selectType(t)
    PROVE  Aside(t)
<1>1. Still /\ TypeInv
    BY DEF loadObject, selectObject, _findObjectByPath, searchPath, getChildCount, countRows,
       browseType, selectType, Still, tableVars, bufferVars, Holds
<1>2. /\ Plain(<<>>) /\ Plain(<<"flush", "countRows">>)
      /\ \A x \in {"select", "store", "search", "storeCount", "selectType", "storeType"} :
             Plain(<<x>>)
      /\ \A y : Plain(ListOf(y))
    BY PlainSteps DEF Label, ListOf
<1>3. \A y : Plain(<<"storeType">> \o ListOf(y))
    BY <1>2, PlainJoined
<1>4. DOMAIN reg = Thread /\ "call" \in DOMAIN reg[t]
    BY <1>1, HasCall
<1>5. CASE loadObject(t) \/ _findObjectByPath(t) \/ searchPath(t)
    <2>1. Goes(t)
        BY <1>2, <1>5 DEF loadObject, _findObjectByPath, searchPath, Goes, At
    <2>2. SameCall(t)
        BY <1>4, <1>5 DEF loadObject, _findObjectByPath, searchPath, SameCall, Set
    <2> QED BY <1>1, <2>1, <2>2, GoesAside
<1>6. CASE getChildCount(t) \/ countRows(t) \/ browseType(t)
    <2>1. Goes(t)
        BY <1>2, <1>6 DEF getChildCount, countRows, browseType, Goes, At
    <2>2. SameCall(t)
        BY <1>4, <1>6 DEF getChildCount, countRows, browseType, SameCall, Set
    <2> QED BY <1>1, <2>1, <2>2, GoesAside
<1>7. CASE selectObject(t) /\ reg[t].id \in DOMAIN rows
    <2>1. Goes(t)
        BY <1>2, <1>7 DEF selectObject, Goes, At
    <2>2. SameCall(t)
        BY <1>4, <1>7 DEF selectObject, SameCall, Set
    <2> QED BY <1>1, <2>1, <2>2, GoesAside
<1>8. CASE selectType(t) /\ reg[t].id \in DOMAIN rows
    <2>1. Goes(t)
        BY <1>3, <1>8 DEF selectType, Goes, At
    <2>2. SameCall(t)
        BY <1>4, <1>8 DEF selectType, SameCall, Set
    <2> QED BY <1>1, <2>1, <2>2, GoesAside
<1>9. CASE (selectObject(t) \/ selectType(t)) /\ reg[t].id \notin DOMAIN rows
    <2>1. Throw(t) /\ (At(t, "select") \/ At(t, "selectType"))
        BY <1>9 DEF selectObject, selectType
    <2> QED BY <1>1, <2>1, ThrowAside
<1> QED BY <1>5, <1>6, <1>7, <1>8, <1>9

\* Steps that list objects.
LEMMA ListAside ==
    ASSUME TypeInv, NEW t \in Thread,
           browseList(t) \/ browseRow(t) \/ browseCount(t) \/ browseCounted(t) \/ getObjects(t)
    PROVE  Aside(t)
<1>1. Still
    BY DEF browseList, browseRow, browseCount, browseCounted, getObjects, Still, tableVars, bufferVars
<1>2. /\ Plain(<<>>) /\ Plain(<<"kids">>) /\ Plain(<<"conts">>) /\ Plain(<<"store", "kids">>)
      /\ Plain(<<"childCount", "counted">>)
    BY PlainSteps DEF Label
<1>3. Goes(t)
    BY <1>2 DEF browseList, browseRow, browseCount, browseCounted, getObjects, Goes, At
<1>4. DOMAIN reg = Thread /\ "call" \in DOMAIN reg[t]
    BY HasCall
<1>5. browseList(t) => SameCall(t)
    BY <1>4 DEF browseList, SameCall, Set
<1>6. browseRow(t) => SameCall(t)
    BY <1>4 DEF browseRow, SameCall, Set
<1>7. browseCount(t) => SameCall(t)
    BY <1>4 DEF browseCount, SameCall, Set
<1>8. browseCounted(t) \/ getObjects(t) => SameCall(t)
    BY <1>4 DEF browseCounted, getObjects, SameCall, Set
<1> QED BY <1>1, <1>3, <1>5, <1>6, <1>7, <1>8, GoesAside

\* Steps that make sure of a container.
LEMMA PathAside ==
    ASSUME TypeInv, NEW t \in Thread,
           ensurePathExistence(t) \/ _ensurePathExistence(t) \/ addContainerChain(t)
    PROVE  Aside(t)
<1>1. Still
    BY DEF ensurePathExistence, _ensurePathExistence, addContainerChain, Still, tableVars, bufferVars
<1>2. /\ Plain(<<>>) /\ Plain(<<"lookup", "ensured">>)
      /\ \A x \in {"ensure", "chain"} : Plain(<<x>>) /\ Plain(<<x, "create">>)
    BY PlainSteps DEF Label
<1>3. Goes(t)
    BY <1>2 DEF ensurePathExistence, _ensurePathExistence, addContainerChain, Above, Goes, At
<1>4. SameCall(t)
    BY HasCall DEF ensurePathExistence, _ensurePathExistence, addContainerChain, Above, SameCall, Set
<1> QED BY <1>1, <1>3, <1>4, GoesAside

\* Steps that decide what is added or changed, and the end of a call.
LEMMA DecisionAside ==
    ASSUME NEW t \in Thread, Holds(t),
           _addFile(t) \/ checkRefID(t) \/ checkDuplicate(t) \/ firstChild(t) \/ updateObject(t)
           \/ restart(t)
    PROVE  Aside(t)
<1>1. Still /\ TypeInv
    BY DEF _addFile, checkRefID, checkDuplicate, firstChild, updateObject, restart, Still,
       tableVars, bufferVars, Holds
<1>2. /\ Plain(<<>>) /\ Plain(<<"load">>) /\ Plain(<<"childCount", "first">>) /\ Plain(AddSteps)
      /\ Plain(<<"ensure">>) /\ Plain(<<"flush", "update">>) /\ Plain(<<"flush", "throw">>)
      /\ Plain(<<"flush", "ensure", "update">>) /\ Plain(<<"flush", "load", "update">>)
    BY PlainSteps DEF Label, AddSteps
<1>3. Plain(<<"ensure">> \o AddSteps)
    BY <1>2, PlainJoined
<1>4. DOMAIN reg = Thread /\ "call" \in DOMAIN reg[t]
    BY <1>1, HasCall
<1>5. CASE _addFile(t) \/ checkDuplicate(t)
    <2>1. Goes(t)
        BY <1>2, <1>3, <1>5 DEF _addFile, checkDuplicate, Goes, At
    <2>2. SameCall(t)
        BY <1>4, <1>5 DEF _addFile, checkDuplicate, SameCall, Set
    <2> QED BY <1>1, <2>1, <2>2, GoesAside
<1>6. CASE checkRefID(t) \/ firstChild(t) \/ restart(t)
    <2>1. Goes(t)
        BY <1>2, <1>6 DEF checkRefID, firstChild, restart, Goes, At
    <2>2. SameCall(t)
        BY <1>4, <1>6 DEF checkRefID, firstChild, restart, SameCall, Set
    <2> QED BY <1>1, <2>1, <2>2, GoesAside
<1>7. CASE updateObject(t)
    <2>1. Goes(t)
        BY <1>2, <1>7 DEF updateObject, Goes, At
    <2>2. SameCall(t)
        BY <1>4, <1>7 DEF updateObject, SameCall, Set
    <2> QED BY <1>1, <2>1, <2>2, GoesAside
<1> QED BY <1>5, <1>6, <1>7

LEMMA EndAside ==
    ASSUME NEW t \in Thread, Holds(t), Answer(t) \/ throwDirectory(t)
    PROVE  Aside(t)
<1>1. Still /\ TypeInv
    BY DEF Answer, throwDirectory, Still, tableVars, bufferVars, Holds
<1>2. CASE throwDirectory(t)
    BY <1>1, <1>2, ThrowAside DEF throwDirectory
<1>3. CASE Answer(t)
    <2>1. At(t, "answer") /\ Then(t, <<>>)
        BY <1>3 DEF Answer
    <2>2. todo[t] = Done
        <3>1. "answer" \in CoreLabel
            BY DEF CoreLabel
        <3> DEFINE k == todo[t]
                   r == reg[t]
        <3>2. Core(All, Waits, k, r) /\ Hd(k) = "answer"
            BY <2>1, <3>1, CoreAt
        <3> HIDE DEF k, r
        <3>3. k = Done
            BY <3>2, CoreCases
        <3> QED BY <3>3 DEF k
    <2>3. todo'[t] = <<>>
        <3>1. todo'[t] = <<>> \o Tail(todo[t]) /\ Tail(Done) = <<>>
            BY <1>1, <2>1, ListFacts DEF Then, TypeInv
        <3>2. <<>> \in Seq(Label)
            OBVIOUS
        <3> QED BY <2>2, <3>1, <3>2, ConcatEmptySeq
    <2>4. Plain(Done) /\ Plain(<<>>)
        BY PlainLists, PlainSteps
    <2>5. All' = All
        BY <1>1 DEF Still, All
    <2> QED BY <2>2, <2>3, <2>4, <2>5 DEF Aside, Plain
<1> QED BY <1>2, <1>3

\* A call begins, and asks for a removal if it is one.
LEMMA BeginAside ==
    ASSUME NEW t \in Thread, Holds(t), Idle(t), NEW op, NEW c, NEW r, NEW steps, Plain(steps),
           Begin(t, op, c, r, steps)
    PROVE  Aside(t)
<1>1. TypeInv /\ All' = All
    BY DEF Begin, Holds, All, tableVars, bufferVars
<1>2. todo[t] = <<>> /\ todo'[t] = steps \o Done
    BY <1>1 DEF Begin, Idle, TypeInv, Done
<1>3. Plain(<<>>) /\ Plain(steps \o Done)
    <2>1. Plain(<<>>) /\ Plain(Done)
        BY PlainSteps, PlainLists
    <2> HIDE DEF Done
    <2> QED BY <2>1, PlainJoined
<1> HIDE DEF Done
<1> QED BY <1>1, <1>2, <1>3 DEF Aside, Plain

LEMMA CallImplements ==
    ASSUME NEW t \in Thread, Holds(t), Alone(t), Own(t), Call(t)
    PROVE  [Tree!CdsNext]_(Tree!cdsVars)
<1>1. Idle(t) /\ TypeInv
    BY DEF Call, Holds
<1>2. /\ Plain(<<"load">>) /\ Plain(<<"lookup">>) /\ Plain(<<"childCount">>)
      /\ Plain(<<"flush", "type">>) /\ Plain(<<"flush", "objects">>)
      /\ Plain(<<"lookup", "addFile">>)
      /\ Plain(<<"chain", "original", "load", "duplicate">>)
      /\ Plain(<<"load", "edit">>) /\ Plain(<<"flush", "restart">>)
    BY PlainSteps DEF Label
<1>3. CASE \E i : Load(t, i) \/ Browse(t, i) \/ Count(t, i) \/ Objects(t, i)
    <2>1. Aside(t)
        BY <1>1, <1>2, <1>3, BeginAside DEF Load, Browse, Count, Objects
    <2> QED BY <1>1, <2>1, AsideUnseen
<1>4. CASE \E p : Find(t, p) \/ Import(t, p)
    <2>1. Aside(t)
        BY <1>1, <1>2, <1>4, BeginAside DEF Find, Import
    <2> QED BY <1>1, <2>1, AsideUnseen
<1>5. CASE (\E i, p, m : Link(t, i, p, m)) \/ (\E i, m : Update(t, i, m)) \/ Shutdown(t)
    <2>1. Aside(t)
        BY <1>1, <1>2, <1>5, BeginAside DEF Link, Update, Shutdown
    <2> QED BY <1>1, <2>1, AsideUnseen
<1>6. CASE \E i \in Ids \ Tree!Forbidden, all \in BOOLEAN : Remove(t, i, all)
    <2>1. PICK i \in Ids \ Tree!Forbidden, all \in BOOLEAN : Remove(t, i, all)
        BY <1>6
    <2>2. All' = All /\ reg' = [reg EXCEPT ![t] =
              [NoWork EXCEPT !.call = [[NoCall EXCEPT !.id = i, !.all = all] EXCEPT !.op = "remove"]]]
        BY <2>1 DEF Remove, Begin, Set, All, tableVars, bufferVars
    <2>3. reg'[t].call = [[NoCall EXCEPT !.id = i, !.all = all] EXCEPT !.op = "remove"]
        BY <1>1, <2>2 DEF TypeInv, NoWork
    <2>4. reg'[t].call.id = i /\ reg'[t].call.all = all
        BY <2>3 DEF NoCall
    <2>5. i \notin {CDS_ID_ROOT, CDS_ID_FS_ROOT}
        BY DEF Tree!Forbidden, CDS_ID_ROOT, CDS_ID_FS_ROOT, Tree!CDS_ID_ROOT, Tree!CDS_ID_FS_ROOT
    <2>6. ~Deletes(todo[t])
        <3>1. todo[t] = <<>> /\ Plain(<<>>)
            BY <1>1, PlainSteps DEF Idle
        <3> QED BY <3>1 DEF Plain
    <2>7. [Tree!Ask]_(Tree!cdsVars)
        BY <1>1, <2>2, <2>4, <2>5, <2>6, AskedFor
    <2> QED BY <2>7 DEF Tree!CdsNext
<1> QED BY <1>3, <1>4, <1>5, <1>6 DEF Call

LEMMA StepImplements ==
    ASSUME NEW t \in Thread, Holds(t), Alone(t), Own(t), Step(t)
    PROVE  [Tree!CdsNext]_(Tree!cdsVars)
<1>1. TypeInv /\ TableOK(All, lastID, Waits)
    BY DEF Holds
<1>2. CASE append(t)
    <2>1. Grows /\ todo[t] = Adding
        BY <1>2, appendKeeps
    <2>2. ~Deletes(todo[t])
        BY <2>1, PlainLists DEF Plain
    <2>3. ~Deletes(todo'[t])
        <3>1. todo'[t] = <<"buffered">> \o Storing
            BY <1>1, <1>2, <2>1, ListFacts DEF append, Appended, Then, TypeInv
        <3>2. Plain(<<"buffered">>) /\ Plain(Storing)
            BY PlainSteps, PlainLists DEF Label
        <3> QED BY <3>1, <3>2, PlainJoined DEF Plain
    <2>4. Tree!Add
        BY <1>1, <2>1, <2>2, <2>3, Added
    <2> QED BY <2>4 DEF Tree!CdsNext
<1>3. CASE createContainer(t)
    <2>1. Grows /\ todo[t] \in {MakingDir, MakingVirt}
        BY <1>3, createContainerKeeps
    <2>2. ~Deletes(todo[t])
        BY <2>1, PlainLists DEF Plain
    <2>3. ~Deletes(todo'[t])
        <3>1. PICK steps \in {<<"inform">>, <<"inform", "create">>} : todo'[t] = steps \o Tail(todo[t])
            BY <1>1, <1>3 DEF createContainer, Then, TypeInv
        <3>2. Tail(todo[t]) \in {Adding, Referring}
            BY <2>1, ListFacts
        <3>3. Plain(steps) /\ Plain(Tail(todo[t]))
            BY <3>2, PlainSteps, PlainLists DEF Label
        <3> QED BY <3>1, <3>3, PlainJoined DEF Plain
    <2>4. Tree!Add
        BY <1>1, <2>1, <2>2, <2>3, Added
    <2> QED BY <2>4 DEF Tree!CdsNext
<1>4. CASE updateRow(t)
    <2>1. Edits(reg[t].call.id) /\ todo[t] = Updating
        BY <1>4, updateRowKeeps
    <2>2. ~Deletes(todo[t])
        BY <2>1, PlainLists DEF Plain
    <2>3. ~Deletes(todo'[t])
        <3>1. todo'[t] = <<"store">> \o Done
            BY <1>1, <1>4, <2>1, ListFacts DEF updateRow, Then, TypeInv
        <3>2. Plain(<<"store">>) /\ Plain(Done)
            BY PlainSteps, PlainLists DEF Label
        <3> QED BY <3>1, <3>2, PlainJoined DEF Plain
    <2>4. Tree!Change
        BY <1>1, <2>1, <2>2, <2>3, Changed
    <2> QED BY <2>4 DEF Tree!CdsNext
<1>5. CASE removeObject(t)
    <2>1. /\ Shrinks(reg[t].call.id, reg[t].call.all) /\ Tail(todo[t]) = Done /\ UNCHANGED reg
        BY <1>5, removeObjectKeeps
    <2>2. Deletes(todo[t])
        <3>1. todo[t] \in Seq(Label) /\ todo[t] # <<>> /\ Head(todo[t]) = "delete"
            BY <1>1, <1>5, Left DEF removeObject
        <3>2. Len(todo[t]) \in Nat /\ Len(todo[t]) # 0 /\ DOMAIN todo[t] = 1 .. Len(todo[t])
              /\ todo[t][1] = "delete"
            BY <3>1, LenProperties, HeadTailProperties, EmptySeq
        <3> QED BY <3>2 DEF Deletes
    <2>3. ~Deletes(todo'[t])
        <3>1. PICK steps \in {<<>>, <<"clearCache">>} : todo'[t] = steps \o Done
            BY <1>1, <1>5, <2>1 DEF removeObject, Then, TypeInv
        <3>2. Plain(steps) /\ Plain(Done)
            BY PlainSteps, PlainLists DEF Label
        <3> HIDE DEF Done
        <3> QED BY <3>1, <3>2, PlainJoined DEF Plain
    <2>4. [Tree!Remove]_(Tree!cdsVars)
        BY <1>1, <2>1, <2>2, <2>3, Removed
    <2> QED BY <2>4 DEF Tree!CdsNext
<1>6. CASE ~(append(t) \/ createContainer(t) \/ updateRow(t) \/ removeObject(t))
    <2>1. Aside(t)
        BY <1>1, <1>6, CacheAside, BufferAside, LookAside, ListAside, PathAside, DecisionAside,
           EndAside DEF Step
    <2> QED BY <1>1, <2>1, AsideUnseen
<1> QED BY <1>2, <1>3, <1>4, <1>5, <1>6

LEMMA InitImplements == ASSUME Init PROVE Tree!CdsInit
<1>1. TypeInv /\ TableOK(All, lastID, Waits)
    BY InvInit DEF Inv
<1>2. /\ DOMAIN All = Tree!Forbidden /\ todo = [t \in Thread |-> <<>>]
    <2>1. DOMAIN rows = Tree!Forbidden /\ DOMAIN buffer = {}
        BY DEF Init
    <2> QED BY <2>1 DEF Init, All, Over
<1>3. Request = Tree!NoRequest
    BY <1>2 DEF Request, Removing, Tree!NoRequest
<1>4. Roots(All)
    BY <1>1 DEF TableOK
<1>5. \A i \in {CDS_ID_ROOT, CDS_ID_FS_ROOT} : All[i].ref = NoRef
    BY <1>1, <1>4, RowFacts DEF Roots, Placed
<1> QED BY <1>2, <1>3, <1>4, <1>5 DEF Tree!CdsInit, Roots, Tree!Forbidden, CDS_ID_ROOT,
       CDS_ID_FS_ROOT, Tree!CDS_ID_ROOT, Tree!CDS_ID_FS_ROOT, Tree!CDS_ID_BLACKHOLE, NoRef,
       Tree!ContainerKinds

LEMMA NextImplements ==
    ASSUME Inv, Serial, Serial', [Next]_vars
    PROVE  [Tree!CdsNext]_(Tree!cdsVars)
<1>1. CASE Next
    <2>1. PICK t \in Thread : Step(t) \/ Call(t)
        BY <1>1 DEF Next
    <2>2. Alone(t) /\ Own(t)
        BY <2>1, StepAlone DEF Inv
    <2>3. Holds(t)
        BY <2>2 DEF Inv, Holds
    <2> QED BY <2>1, <2>2, <2>3, StepImplements, CallImplements
<1>2. CASE UNCHANGED vars
    BY <1>2 DEF vars, tableVars, bufferVars, Tree!cdsVars, All, Request, Removing
<1> QED BY <1>1, <1>2

\* Table and buffer together are the tree the storage promises: addObject(),
\* updateObject() and removeObject() do in one step what the contract says, and
\* flushing, caching and answering do not touch the tree.
THEOREM StoreImplementsTree == Spec /\ []Serial => ImplementsTree
<1>1. Init => Tree!CdsInit
    BY InitImplements
<1>2. Inv /\ Serial /\ Serial' /\ [Next]_vars => [Tree!CdsNext]_(Tree!cdsVars)
    BY NextImplements
<1> QED BY <1>1, <1>2, InvHolds, PTL DEF Spec, ImplementsTree, Tree!CdsSpec

-----------------------------------------------------------------------------
(* What the contract keeps.                                                *)

\* The inductive form of NoOrphans: references lead to files, which no emptied
\* container is.
Anchored(o) ==
    \A i \in DOMAIN o \ {Cds!CDS_ID_ROOT} :
        /\ o[i].parent \in Cds!Containers(o)
        /\ o[i].ref = Cds!NoRef \/ (o[i].ref \in DOMAIN o /\ o[o[i].ref].kind = "file")

\* What is left after a removal is as well anchored as before.
LEMMA RemovalAnchored ==
    ASSUME NEW o, NEW ids, NEW all, Anchored(o)
    PROVE  Anchored(Cds!Without(o, Cds!Gone(o, ids, all)))
<1> DEFINE gone == Cds!Gone(o, ids, all)
           left == Cds!Without(o, gone)
<1>1. DOMAIN left = DOMAIN o \ gone
    BY WithoutKeeps
<1>2. \A i \in DOMAIN o \ gone : Survives(o, left, i)
    <2> gone = Cds!Gone(o, ids, all) /\ left = Cds!Without(o, gone)
        OBVIOUS
    <2> HIDE DEF gone, left
    <2> QED BY Surviving
<1> HIDE DEF gone, left
<1>3. Anchored(left)
    BY <1>1, <1>2 DEF Anchored, Survives
<1> QED BY <1>3 DEF gone, left

\* Additions go under a container of the tree and refer to a file of it.
LEMMA AdditionAnchored ==
    ASSUME Anchored(anyTree), Cds!Add
    PROVE  Anchored(anyTree')
<1> PICK n \in DOMAIN anyTree' :
        /\ Cds!WellPlaced(anyTree, anyTree'[n])
        /\ DOMAIN anyTree' = DOMAIN anyTree \union {n}
        /\ \A j \in DOMAIN anyTree : anyTree'[j] = anyTree[j]
    BY DEF Cds!Add
<1>1. Cds!Containers(anyTree) \subseteq Cds!Containers(anyTree')
    BY DEF Cds!Containers
<1>2. \A i \in DOMAIN anyTree \ {Cds!CDS_ID_ROOT} :
          /\ anyTree'[i].parent \in Cds!Containers(anyTree')
          /\ anyTree'[i].ref = Cds!NoRef
             \/ (anyTree'[i].ref \in DOMAIN anyTree' /\ anyTree'[anyTree'[i].ref].kind = "file")
    BY <1>1 DEF Anchored
<1>3. /\ anyTree'[n].parent \in Cds!Containers(anyTree')
      /\ anyTree'[n].ref = Cds!NoRef
         \/ (anyTree'[n].ref \in DOMAIN anyTree' /\ anyTree'[anyTree'[n].ref].kind = "file")
    BY <1>1 DEF Cds!WellPlaced
<1> QED BY <1>2, <1>3 DEF Anchored

\* A change leaves kinds, places and references alone.
LEMMA ChangeAnchored ==
    ASSUME Anchored(anyTree), Cds!Change
    PROVE  Anchored(anyTree')
<1>1. /\ DOMAIN anyTree' = DOMAIN anyTree
      /\ \A i \in DOMAIN anyTree : /\ anyTree'[i].kind = anyTree[i].kind
                                   /\ anyTree'[i].parent = anyTree[i].parent
                                   /\ anyTree'[i].ref = anyTree[i].ref
    BY DEF Cds!Change
<1>2. Cds!Containers(anyTree') = Cds!Containers(anyTree)
    BY <1>1 DEF Cds!Containers
<1> QED BY <1>1, <1>2 DEF Anchored

\* Whatever is added, changed and removed, every object but the root has a
\* container of the tree as its parent and every reference leads to an object
\* that is there: the removal of Storage::removeObject() and removeObjects(), as
\* the contract states it, never leaves an orphan behind.
THEOREM NothingOrphaned == Cds!CdsSpec => []Cds!NoOrphans
<1>1. Cds!CdsInit => Anchored(anyTree)
    BY DEF Cds!CdsInit, Anchored, Cds!Containers, Cds!Forbidden, Cds!CDS_ID_ROOT,
       Cds!CDS_ID_FS_ROOT
<1>2. Anchored(anyTree) /\ [Cds!CdsNext]_(Cds!cdsVars) => Anchored(anyTree)'
    <2> SUFFICES ASSUME Anchored(anyTree), [Cds!CdsNext]_(Cds!cdsVars) PROVE Anchored(anyTree')
        BY DEF Anchored, Cds!Containers
    <2>1. CASE Cds!Add
        BY <2>1, AdditionAnchored
    <2>2. CASE Cds!Change
        BY <2>2, ChangeAnchored
    <2>3. CASE Cds!Ask
        BY <2>3 DEF Cds!Ask
    <2>4. CASE Cds!Remove
        BY <2>4, RemovalAnchored DEF Cds!Remove
    <2>5. CASE UNCHANGED Cds!cdsVars
        BY <2>5 DEF Cds!cdsVars
    <2> QED BY <2>1, <2>2, <2>3, <2>4, <2>5 DEF Cds!CdsNext
<1>3. Anchored(anyTree) => Cds!NoOrphans
    BY DEF Anchored, Cds!NoOrphans
<1> QED BY <1>1, <1>2, <1>3, PTL DEF Cds!CdsSpec
=============================================================================
