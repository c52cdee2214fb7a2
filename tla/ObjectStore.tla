---------------------------- MODULE ObjectStore ----------------------------
(***************************************************************************)
(* SQLStorage above the table: the insert buffer, in which added items     *)
(* wait for the next flush, and the StorageCache, through which they have  *)
(* to be found meanwhile.  Calls of ContentManager, the web interface and  *)
(* UPnP run in several threads.  A call is a list of steps, todo, and the  *)
(* local variables of its functions, reg; a step holds no lock when it     *)
(* ends unless cacheMutex or mutex say so, and a statement sent to the     *)
(* database is one step.                                                   *)
(*                                                                         *)
(* A removal is one statement here (ObjectTree has its loops and portions).*)
(* Left out: containers made from a playlist, which refer to it (the refID *)
(* of createContainer()), and edits of a file's location.                  *)
(***************************************************************************)
EXTENDS Integers, Sequences, FiniteSets, FiniteSetsExt, Functions

CONSTANTS
    Thread,
    Calls,         \* which calls a thread makes
    Files, Dirs, Virtuals,   \* paths of files, directories and virtual containers
    Slash,         \* the path both trees start from
    Up,            \* the path above a path
    Meta,          \* values of the metadata that are set by an edit
    NewMeta,       \* the one of a file that has just been read
    MaxId,         \* bound: nothing is added when this id has been handed out
    MaxFill,       \* STORAGE_CACHE_MAXFILL
    BufferLimit    \* when the buffer is flushed by itself, in statements

Queries == {"load", "find", "count", "browse", "objects"}
Changes == {"import", "link", "update", "remove", "shutdown"}

Paths == Files \union Dirs \union Virtuals
NoPath == "no path"
NoMeta == "NULL"
NoLocation == <<"NULL", NoPath>>

ASSUME StoreAssumption ==
    /\ Thread # {}
    /\ Calls \in [Thread -> SUBSET (Queries \union Changes)]
    /\ Up \in [Paths -> Dirs \union Virtuals \union {Slash}]
    /\ MaxId \in Nat
    /\ MaxFill \in Nat \ {0}
    /\ BufferLimit \in Nat

\* Paths of different kinds are different, a path is above one of its own tree,
\* and whoever goes up comes to an end.
ASSUME PathsAssumption ==
    /\ Files \intersect Dirs = {} /\ Dirs \intersect Virtuals = {}
    /\ Slash \notin Paths /\ NoPath \notin Paths \union {Slash}
    /\ \A p \in Files \union Dirs : Up[p] \in Dirs \union {Slash}
    /\ \A p \in Virtuals : Up[p] \in Virtuals \union {Slash}
    /\ \A S \in SUBSET Paths : S # {} => \E p \in S : Up[p] \notin S

VARIABLES
    rows,          \* the table mt_cds_object: a function from ids to rows
    buffer,        \* the insert buffer: the rows of its statements
    insertBufferEmpty,
    statements,    \* insertBufferStatementCount, standing for the byte count too
    lastID,
    idHash,        \* StorageCache: what is known of an id
    locationHash,  \* StorageCache: the ids known at a location
    mutex,         \* who holds the mutex of the storage
    cacheMutex,    \* who holds the mutex of the cache
    todo, reg

bufferVars == <<buffer, insertBufferEmpty, statements, mutex>>
cacheVars  == <<idHash, locationHash, cacheMutex>>
tableVars  == <<rows, lastID>>
vars == <<tableVars, bufferVars, cacheVars, todo, reg>>

\* The entries of f, and those of g for what f does not have.
Over(f, g) == [x \in DOMAIN f \union DOMAIN g |-> IF x \in DOMAIN f THEN f[x] ELSE g[x]]

\* f with the entry v at x.
With(f, x, v) == [y \in DOMAIN f \union {x} |-> IF y = x THEN v ELSE f[y]]

\* Everything that was added: the table and what is on its way there.
All == Over(rows, buffer)

Removing == {t \in Thread : /\ \E n \in DOMAIN todo[t] : todo[t][n] = "delete"
                            /\ reg[t].call.id \in DOMAIN All}

\* What the removal that is under way was asked for.
Request ==
    IF Removing = {} THEN [ids |-> {}, all |-> FALSE]
    ELSE LET t == CHOOSE t \in Removing : TRUE
         IN  [ids |-> {reg[t].call.id}, all |-> reg[t].call.all]

Tree == INSTANCE CdsTree WITH objs <- All, pending <- Request

CDS_ID_ROOT    == 0
CDS_ID_FS_ROOT == 1
NoRef  == Tree!NoRef
Nobody == "nobody"
Unknown == -1

Row(kind, parent, ref, loc, meta) ==
    [kind |-> kind, parent |-> parent, ref |-> ref, persistent |-> FALSE,
     loc |-> loc, meta |-> meta]

IsContainer(o) == o.kind \in {"dir", "virt"}
TypeOf(o) == IF IsContainer(o) THEN "container" ELSE "item"

\* An object as the callers see it: the path without its prefix, and what a
\* reference leaves out taken from the item it refers to (a LEFT JOIN in o).
Object(o, i) ==
    LET r == o[i]
        joined == IF r.kind = "ref" /\ r.ref \in DOMAIN o THEN o[r.ref] ELSE r
    IN  [id |-> i, kind |-> r.kind, parent |-> r.parent, ref |-> r.ref,
         loc  |-> joined.loc[2],
         meta |-> IF r.meta = NoMeta THEN joined.meta ELSE r.meta]

NoObject == [id |-> Unknown, kind |-> "none", parent |-> Unknown, ref |-> NoRef,
             loc |-> NoPath, meta |-> NoMeta]

ChildrenOf(o, c) == {i \in DOMAIN o : o[i].parent = c}

NoCall == [op |-> "none", id |-> Unknown, path |-> NoPath, meta |-> NoMeta, all |-> FALSE]
NoWork == [call |-> NoCall, id |-> Unknown, path |-> NoPath, loc |-> NoLocation,
           pend |-> <<>>, parent |-> Unknown, obj |-> NoObject, res |-> NoObject,
           type |-> "?", num |-> Unknown, total |-> Unknown,
           list |-> {}, kids |-> {}, conts |-> {}, counts |-> <<>>]

Init ==
    /\ rows = [i \in Tree!Forbidden |->
                 [IF i = CDS_ID_ROOT THEN Row("virt", -1, NoRef, NoLocation, NoMeta)
                  ELSE Row("dir", CDS_ID_ROOT, NoRef, NoLocation, NoMeta)
                    EXCEPT !.persistent = TRUE]]
    /\ lastID = CDS_ID_FS_ROOT
    /\ buffer = <<>> /\ insertBufferEmpty = TRUE /\ statements = 0
    /\ idHash = <<>> /\ locationHash = <<>>
    /\ mutex = Nobody /\ cacheMutex = Nobody
    /\ todo = [t \in Thread |-> <<>>]
    /\ reg = [t \in Thread |-> NoWork]

-----------------------------------------------------------------------------
(* Steps of thread t: the first of todo[t] is done and replaced by more.   *)

At(t, step) == todo[t] # <<>> /\ Head(todo[t]) = step
Then(t, steps) == todo' = [todo EXCEPT ![t] = steps \o Tail(@)]
Set(t, r) == reg' = [reg EXCEPT ![t] = r]

\* An exception leaves the call with nothing.
Throw(t) ==
    /\ todo' = [todo EXCEPT ![t] = <<"answer">>]
    /\ Set(t, [reg[t] EXCEPT !.res = NoObject, !.num = Unknown, !.list = {}])

getNextID == lastID + 1

-----------------------------------------------------------------------------
(* The insert buffer.                                                      *)

\* The row of the object reg.obj: a reference leaves out what it shares with
\* its original, which is in reg.res.
NewRow(t) ==
    LET o == reg[t].obj
        p == reg[t].parent
    IN  IF o.kind = "file" THEN Row("file", p, NoRef, <<"F", o.loc>>, o.meta)
        ELSE Row("ref", p, o.ref, NoLocation,
                 IF o.meta = reg[t].res.meta THEN NoMeta ELSE o.meta)

\* The statements are executed while the mutex is held ...
_flushInsertBuffer(t) ==
    /\ rows' = Over(rows, buffer)
    /\ mutex' = t

flushInsertBuffer(t) ==
    /\ At(t, "flush")
    /\ mutex = Nobody
    /\ \/ /\ insertBufferEmpty
          /\ Then(t, <<>>)
          /\ UNCHANGED <<rows, mutex>>
       \/ /\ ~insertBufferEmpty
          /\ _flushInsertBuffer(t)
          /\ Then(t, <<"flushed">>)
    /\ UNCHANGED <<lastID, buffer, insertBufferEmpty, statements, cacheVars, reg>>

\* ... and then the buffer is cleared.
clearBuffer(t) ==
    /\ At(t, "flushed")
    /\ buffer' = <<>>
    /\ insertBufferEmpty' = TRUE
    /\ statements' = 0
    /\ mutex' = Nobody
    /\ Then(t, <<>>)
    /\ UNCHANGED <<tableVars, cacheVars, reg>>

Appended(t) ==
    /\ At(t, "append")
    /\ lastID' = getNextID
    /\ Set(t, [reg[t] EXCEPT !.id = reg[t].parent,
                             !.res = [reg[t].obj EXCEPT !.id = getNextID, !.parent = reg[t].parent]])
    /\ Then(t, <<"buffered">>)
    /\ UNCHANGED <<insertBufferEmpty, statements, mutex, cacheVars>>

\* Mutant of append: references go around the buffer, like containers.
AppendFilesOnly(t) ==
    /\ Appended(t)
    /\ IF reg[t].obj.kind = "file"
       THEN buffer' = With(buffer, getNextID, NewRow(t)) /\ UNCHANGED rows
       ELSE rows' = With(rows, getNextID, NewRow(t)) /\ UNCHANGED buffer

\* addToInsertBuffer() appends without the mutex, and counts with it.
append(t) ==
    /\ Appended(t)
    /\ buffer' = With(buffer, getNextID, NewRow(t))
    /\ UNCHANGED rows

addToInsertBuffer(t) ==
    /\ At(t, "buffered")
    /\ mutex = Nobody
    /\ insertBufferEmpty' = FALSE
    /\ statements' = statements + 1
    /\ IF statements' > BufferLimit
       THEN _flushInsertBuffer(t) /\ Then(t, <<"flushed">>)
       ELSE Then(t, <<>>) /\ UNCHANGED <<rows, mutex>>
    /\ UNCHANGED <<lastID, buffer, cacheVars, reg>>

-----------------------------------------------------------------------------
(* The cache.                                                              *)

Entry == [obj |-> NoObject, num |-> Unknown, type |-> "?"]

Knows(i) == i \in DOMAIN idHash
KnowsObject(i) == Knows(i) /\ idHash[i].obj # NoObject
KnowsNumChildren(i) == Knows(i) /\ idHash[i].num # Unknown
KnowsObjectType(i) == Knows(i) /\ idHash[i].type # "?"

\* The location of a cached object: directories get the prefix of files.
CacheLocation(o) == <<IF o.kind = "virt" /\ o.loc # NoPath THEN "V" ELSE "F", o.loc>>
IsVirtual(o) == o.kind = "ref" \/ (o.kind = "virt" /\ o.loc # NoPath)

\* What is known of i so far.
Known(i) == IF Knows(i) THEN idHash[i] ELSE Entry

addChild(h, c) ==
    IF c \in DOMAIN h /\ h[c].num # Unknown THEN [h EXCEPT ![c].num = @ + 1] ELSE h

checkLocation(l, i, o) ==
    LET at == CacheLocation(o)
        there == IF at \in DOMAIN l THEN l[at] ELSE {}
    IN  IF o = NoObject THEN l ELSE With(l, at, there \union {i})

\* ensureFillLevelOk(): a cache that is full is emptied as a whole.
Full(h, l) == Cardinality(DOMAIN h) >= MaxFill \/ Cardinality(DOMAIN l) >= MaxFill

\* Mutant of Fill: a cache that was emptied does not flush the buffer.
FillUnflushed(t, h, i, e, o) ==
    LET flushed == i \notin DOMAIN h /\ Full(h, locationHash)
        ids  == IF flushed THEN <<>> ELSE h
        locs == IF flushed THEN <<>> ELSE locationHash
    IN  /\ cacheMutex = Nobody
        /\ idHash' = With(ids, i, e)
        /\ locationHash' = checkLocation(locs, i, o)
        /\ Then(t, <<>>)
        /\ UNCHANGED <<tableVars, bufferVars, cacheMutex>>

\* getObjectDefinitely(i) in h, the entry e put there and the location of o
\* noted.  If the cache was emptied for it, the buffer is flushed before the
\* cache is unlocked.
Fill(t, h, i, e, o) ==
    LET flushed == i \notin DOMAIN h /\ Full(h, locationHash)
        ids  == IF flushed THEN <<>> ELSE h
        locs == IF flushed THEN <<>> ELSE locationHash
    IN  /\ cacheMutex = Nobody
        /\ idHash' = With(ids, i, e)
        /\ locationHash' = checkLocation(locs, i, o)
        /\ IF flushed
           THEN cacheMutex' = t /\ Then(t, <<"flush", "unlock">>)
           ELSE UNCHANGED cacheMutex /\ Then(t, <<>>)
        /\ UNCHANGED <<tableVars, bufferVars>>

unlockCache(t) ==
    /\ At(t, "unlock")
    /\ cacheMutex' = Nobody
    /\ Then(t, <<>>)
    /\ UNCHANGED <<tableVars, bufferVars, idHash, locationHash, reg>>

\* CacheObject::setObject() keeps the number of children.
WithObject(o) == [Known(o.id) EXCEPT !.obj = o, !.type = TypeOf(o)]

addObjectToCache(t) ==
    LET o == reg[t].res
    IN  /\ At(t, "store")
        /\ Fill(t, idHash, o.id, WithObject(o), o)
        /\ UNCHANGED reg

\* Mutant of addNewToCache: the parent's number of children is left alone.
AddedUncounted(t) ==
    LET o == reg[t].res
    IN  /\ At(t, "storeNew")
        /\ Fill(t, idHash, o.id, WithObject(o), o)
        /\ UNCHANGED reg

\* Mutant of addNewToCache: checkLocation() is forgotten.
AddedUnlocated(t) ==
    LET o == reg[t].res
    IN  /\ At(t, "storeNew")
        /\ Fill(t, addChild(idHash, o.parent), o.id, WithObject(o), NoObject)
        /\ UNCHANGED reg

\* The end of addObject().
addNewToCache(t) ==
    LET o == reg[t].res
    IN  /\ At(t, "storeNew")
        /\ Fill(t, addChild(idHash, o.parent), o.id, WithObject(o), o)
        /\ UNCHANGED reg

StoreCount(t) ==
    LET c == reg[t].id
    IN  /\ At(t, "storeCount")
        /\ Fill(t, idHash, c, [Known(c) EXCEPT !.num = reg[t].num], NoObject)
        /\ UNCHANGED reg

StoreType(t) ==
    LET i == reg[t].id
    IN  /\ At(t, "storeType")
        /\ Fill(t, idHash, i, [Known(i) EXCEPT !.type = reg[t].type], NoObject)
        /\ UNCHANGED reg

clearCache(t) ==
    /\ At(t, "clearCache")
    /\ cacheMutex = Nobody
    /\ idHash' = <<>>
    /\ locationHash' = <<>>
    /\ Then(t, <<>>)
    /\ UNCHANGED <<tableVars, bufferVars, cacheMutex, reg>>

-----------------------------------------------------------------------------
(* Finding one object.                                                     *)

\* loadObject(): in the cache, or else in the table, but not in the buffer.
loadObject(t) ==
    LET i == reg[t].id
    IN  /\ At(t, "load")
        /\ cacheMutex = Nobody
        /\ IF KnowsObject(i)
           THEN Set(t, [reg[t] EXCEPT !.res = idHash[i].obj]) /\ Then(t, <<>>)
           ELSE Then(t, <<"select">>) /\ UNCHANGED reg
        /\ UNCHANGED <<tableVars, bufferVars, cacheVars>>

selectObject(t) ==
    LET i == reg[t].id
    IN  /\ At(t, "select")
        /\ IF i \in DOMAIN rows
           THEN Set(t, [reg[t] EXCEPT !.res = Object(rows, i)]) /\ Then(t, <<"store">>)
           ELSE Throw(t)
        /\ UNCHANGED <<tableVars, bufferVars, cacheVars>>

\* _findObjectByPath() with the location reg.loc.
_findObjectByPath(t) ==
    LET loc == reg[t].loc
        known == IF loc \in DOMAIN locationHash THEN locationHash[loc] ELSE {}
        hits == {i \in known : KnowsObject(i) /\ ~IsVirtual(idHash[i].obj)}
    IN  /\ At(t, "lookup")
        /\ cacheMutex = Nobody
        /\ \/ /\ hits = {}
              /\ Then(t, <<"search">>)
              /\ UNCHANGED reg
           \/ \E i \in hits :
              /\ Set(t, [reg[t] EXCEPT !.res = idHash[i].obj])
              /\ Then(t, <<>>)
        /\ UNCHANGED <<tableVars, bufferVars, cacheVars>>

searchPath(t) ==
    LET found == {i \in DOMAIN rows : rows[i].loc = reg[t].loc /\ rows[i].ref = NoRef}
    IN  /\ At(t, "search")
        /\ \/ /\ found = {}
              /\ Set(t, [reg[t] EXCEPT !.res = NoObject])
              /\ Then(t, <<>>)
           \/ \E i \in found :
              /\ Set(t, [reg[t] EXCEPT !.res = Object(rows, i)])
              /\ Then(t, <<"store">>)
        /\ UNCHANGED <<tableVars, bufferVars, cacheVars>>

-----------------------------------------------------------------------------
(* Containers.  pend has the paths whose call waits for the one above.     *)

ensurePathExistence(t) ==
    LET p == reg[t].path
    IN  /\ At(t, "ensure")
        /\ IF p = Slash
           THEN Set(t, [reg[t] EXCEPT !.parent = CDS_ID_FS_ROOT]) /\ Then(t, <<>>)
           ELSE Set(t, [reg[t] EXCEPT !.loc = <<"D", p>>]) /\ Then(t, <<"lookup", "ensured">>)
        /\ UNCHANGED <<tableVars, bufferVars, cacheVars>>

\* What calls createContainer(p) after the container above is there; one "create"
\* is done as often as paths wait.
Above(t, step) ==
    LET p == reg[t].path
    IN  /\ Set(t, [reg[t] EXCEPT !.pend = <<p>> \o @, !.path = Up[p]])
        /\ Then(t, IF reg[t].pend = <<>> THEN <<step, "create">> ELSE <<step>>)

_ensurePathExistence(t) ==
    /\ At(t, "ensured")
    /\ IF reg[t].res # NoObject
       THEN Set(t, [reg[t] EXCEPT !.parent = reg[t].res.id]) /\ Then(t, <<>>)
       ELSE Above(t, "ensure")
    /\ UNCHANGED <<tableVars, bufferVars, cacheVars>>

addContainerChain(t) ==
    LET p == reg[t].path
        found == {i \in DOMAIN rows : rows[i].loc = <<"V", p>>}
    IN  /\ At(t, "chain")
        /\ \/ /\ p = Slash
              /\ Set(t, [reg[t] EXCEPT !.parent = CDS_ID_ROOT])
              /\ Then(t, <<>>)
           \/ \E i \in found :
              /\ Set(t, [reg[t] EXCEPT !.parent = i])
              /\ Then(t, <<>>)
           \/ p # Slash /\ found = {} /\ Above(t, "chain")
        /\ UNCHANGED <<tableVars, bufferVars, cacheVars>>

\* A container goes into the table at once.  It refers to nothing: no container
\* made from a playlist is among the objects here.
createContainer(t) ==
    LET p == Head(reg[t].pend)
        row == IF p \in Dirs THEN Row("dir", reg[t].parent, NoRef, <<"D", p>>, NoMeta)
               ELSE Row("virt", reg[t].parent, NoRef, <<"V", p>>, NoMeta)
    IN  /\ At(t, "create")
        /\ lastID' = getNextID
        /\ rows' = With(rows, getNextID, row)
        /\ Set(t, [reg[t] EXCEPT !.id = getNextID, !.pend = Tail(@)])
        /\ Then(t, IF Tail(reg[t].pend) = <<>> THEN <<"inform">> ELSE <<"inform", "create">>)
        /\ UNCHANGED <<bufferVars, cacheVars>>

informCache(t) ==
    LET c == reg[t].id
    IN  /\ At(t, "inform")
        /\ Fill(t, addChild(idHash, reg[t].parent), c,
                [Known(c) EXCEPT !.num = 0, !.type = "container"], NoObject)
        /\ Set(t, [reg[t] EXCEPT !.parent = reg[t].id])

-----------------------------------------------------------------------------
(* Counting and listing.                                                   *)

getChildCount(t) ==
    LET c == reg[t].id
    IN  /\ At(t, "childCount")
        /\ cacheMutex = Nobody
        /\ IF KnowsNumChildren(c)
           THEN Set(t, [reg[t] EXCEPT !.num = idHash[c].num]) /\ Then(t, <<>>)
           ELSE Then(t, <<"flush", "countRows">>) /\ UNCHANGED reg
        /\ UNCHANGED <<tableVars, bufferVars, cacheVars>>

countRows(t) ==
    /\ At(t, "countRows")
    /\ Set(t, [reg[t] EXCEPT !.num = Cardinality(ChildrenOf(rows, reg[t].id))])
    /\ Then(t, <<"storeCount">>)
    /\ UNCHANGED <<tableVars, bufferVars, cacheVars>>

\* browse(): the type decides whether the children or the object are listed.
ListOf(type) == IF type = "container" THEN <<"childCount", "list">> ELSE <<"list">>

browseType(t) ==
    LET i == reg[t].id
    IN  /\ At(t, "type")
        /\ cacheMutex = Nobody
        /\ IF KnowsObjectType(i)
           THEN /\ Set(t, [reg[t] EXCEPT !.type = idHash[i].type])
                /\ Then(t, ListOf(idHash[i].type))
           ELSE Then(t, <<"selectType">>) /\ UNCHANGED reg
        /\ UNCHANGED <<tableVars, bufferVars, cacheVars>>

selectType(t) ==
    LET i == reg[t].id
    IN  /\ At(t, "selectType")
        /\ IF i \in DOMAIN rows
           THEN /\ Set(t, [reg[t] EXCEPT !.type = TypeOf(rows[i])])
                /\ Then(t, <<"storeType">> \o ListOf(TypeOf(rows[i])))
           ELSE Throw(t)
        /\ UNCHANGED <<tableVars, bufferVars, cacheVars>>

browseList(t) ==
    LET i == reg[t].id
        ids == IF reg[t].type = "container" THEN ChildrenOf(rows, i) ELSE {i} \intersect DOMAIN rows
        found == {Object(rows, j) : j \in ids}
    IN  /\ At(t, "list")
        /\ Set(t, [reg[t] EXCEPT
                      !.list = found, !.kids = found,
                      !.total = IF reg[t].type = "container" THEN reg[t].num ELSE 1])
        /\ Then(t, <<"kids">>)
        /\ UNCHANGED <<tableVars, bufferVars, cacheVars>>

\* createObjectFromRow() for one row after the other.
browseRow(t) ==
    /\ At(t, "kids")
    /\ \/ /\ reg[t].kids = {}
          /\ Set(t, [reg[t] EXCEPT !.conts = {o.id : o \in {o \in reg[t].list : IsContainer(o)}}])
          /\ Then(t, <<"conts">>)
       \/ \E o \in reg[t].kids :
          /\ Set(t, [reg[t] EXCEPT !.kids = @ \ {o}, !.res = o])
          /\ Then(t, <<"store", "kids">>)
    /\ UNCHANGED <<tableVars, bufferVars, cacheVars>>

\* The number of children of every container of the list.
browseCount(t) ==
    /\ At(t, "conts")
    /\ \/ reg[t].conts = {} /\ Then(t, <<>>) /\ UNCHANGED reg
       \/ \E c \in reg[t].conts :
          /\ Set(t, [reg[t] EXCEPT !.id = c, !.conts = @ \ {c}])
          /\ Then(t, <<"childCount", "counted">>)
    /\ UNCHANGED <<tableVars, bufferVars, cacheVars>>

browseCounted(t) ==
    /\ At(t, "counted")
    /\ Set(t, [reg[t] EXCEPT !.counts = With(@, reg[t].id, reg[t].num)])
    /\ Then(t, <<"conts">>)
    /\ UNCHANGED <<tableVars, bufferVars, cacheVars>>

getObjects(t) ==
    /\ At(t, "objects")
    /\ Set(t, [reg[t] EXCEPT !.list = ChildrenOf(rows, reg[t].id)])
    /\ Then(t, <<>>)
    /\ UNCHANGED <<tableVars, bufferVars, cacheVars>>

-----------------------------------------------------------------------------
(* Adding, changing and removing.                                          *)

AddSteps == <<"append", "storeNew", "childCount", "first">>

\* ContentManager::_addFile(), when the path has been looked for.
_addFile(t) ==
    LET c == reg[t].call
    IN  /\ At(t, "addFile")
        /\ IF reg[t].res # NoObject
           THEN Then(t, <<>>) /\ UNCHANGED reg
           ELSE /\ Set(t, [reg[t] EXCEPT
                              !.path = Up[c.path],
                              !.obj = [NoObject EXCEPT !.kind = "file", !.loc = c.path,
                                                       !.meta = c.meta]])
                /\ Then(t, <<"ensure">> \o AddSteps)
        /\ UNCHANGED <<tableVars, bufferVars, cacheVars>>

\* The check for a duplicate in _addUpdateObject(), which looks at the table: the
\* call ends, and addObject() goes on with the count of the children.  Titles are
\* not among the data here: that of a row which is there may be the same or not.
checkDuplicate(t) ==
    LET c == reg[t].call
        p == reg[t].parent
        there == \E i \in DOMAIN rows : rows[i].parent = p /\ rows[i].ref = c.id
    IN  /\ At(t, "duplicate")
        /\ \E sameTitle \in BOOLEAN :
              IF there /\ sameTitle
              THEN /\ Set(t, [reg[t] EXCEPT !.id = p])
                   /\ Then(t, <<"childCount", "first">>)
              ELSE /\ Set(t, [reg[t] EXCEPT
                                 !.obj = [NoObject EXCEPT !.kind = "ref", !.ref = c.id,
                                                          !.loc = reg[t].res.loc, !.meta = c.meta]])
                   /\ Then(t, AddSteps)
        /\ UNCHANGED <<tableVars, bufferVars, cacheVars>>

\* ContentManager::addObject(): the container above hears of a first child.
firstChild(t) ==
    /\ At(t, "first")
    /\ Then(t, IF reg[t].num = 1 THEN <<"load">> ELSE <<>>)
    /\ UNCHANGED <<tableVars, bufferVars, cacheVars, reg>>

\* ContentManager::updateObject() and the beginning of SQLStorage's: what has
\* to be known besides the object depends on its kind.
updateObject(t) ==
    LET o == reg[t].res
        r == [reg[t] EXCEPT !.obj = [o EXCEPT !.meta = reg[t].call.meta], !.parent = o.parent]
    IN  /\ At(t, "edit")
        /\ \/ /\ o.meta = reg[t].call.meta
              /\ Then(t, <<>>)
              /\ UNCHANGED reg
           \/ /\ o.meta # reg[t].call.meta
              /\ \/ /\ o.kind = "file"
                    /\ Set(t, [r EXCEPT !.path = Up[o.loc]])
                    /\ Then(t, <<"flush", "ensure", "update">>)
                 \/ /\ o.kind = "ref"
                    /\ Set(t, [r EXCEPT !.id = o.ref])
                    /\ Then(t, <<"flush", "load", "update">>)
                 \/ /\ o.kind = "virt"
                    /\ Set(t, r)
                    /\ Then(t, <<"flush", "update">>)
                 \/ /\ o.kind = "dir"
                    /\ Set(t, r)
                    /\ Then(t, <<"flush", "throw">>)
        /\ UNCHANGED <<tableVars, bufferVars, cacheVars>>

throwDirectory(t) ==
    /\ At(t, "throw")
    /\ Throw(t)
    /\ UNCHANGED <<tableVars, bufferVars, cacheVars>>

updateRow(t) ==
    LET o == reg[t].obj
        meta == IF o.kind = "ref" /\ o.meta = reg[t].res.meta THEN NoMeta ELSE o.meta
    IN  /\ At(t, "update")
        /\ rows' = IF o.id \in DOMAIN rows
                   THEN [rows EXCEPT ![o.id].meta = meta, ![o.id].parent = reg[t].parent]
                   ELSE rows
        /\ Set(t, [reg[t] EXCEPT !.res = [o EXCEPT !.parent = reg[t].parent]])
        /\ Then(t, <<"store">>)
        /\ UNCHANGED <<lastID, bufferVars, cacheVars>>

removeObject(t) ==
    LET i == reg[t].call.id
    IN  /\ At(t, "delete")
        /\ IF i \in DOMAIN rows
           THEN /\ rows' = Tree!Without(rows, Tree!Gone(rows, {i}, reg[t].call.all))
                /\ Then(t, <<"clearCache">>)
           ELSE Then(t, <<>>) /\ UNCHANGED rows
        /\ UNCHANGED <<lastID, bufferVars, cacheVars, reg>>

\* After shutdown() the next start has an empty cache and reads the last id.
restart(t) ==
    /\ At(t, "restart")
    /\ lastID' = Max(DOMAIN rows)
    /\ idHash' = <<>>
    /\ locationHash' = <<>>
    /\ Then(t, <<>>)
    /\ UNCHANGED <<rows, bufferVars, cacheMutex, reg>>

-----------------------------------------------------------------------------
(* The calls.                                                              *)

Idle(t) == todo[t] = <<>>
Ids == 0 .. lastID

Begin(t, op, c, r, steps) ==
    /\ op \in Calls[t]
    /\ todo' = [todo EXCEPT ![t] = steps \o <<"answer">>]
    /\ Set(t, [r EXCEPT !.call = [c EXCEPT !.op = op]])
    /\ UNCHANGED <<tableVars, bufferVars, cacheVars>>

Load(t, i) ==
    Begin(t, "load", [NoCall EXCEPT !.id = i], [NoWork EXCEPT !.id = i], <<"load">>)

Find(t, p) ==
    Begin(t, "find", [NoCall EXCEPT !.path = p], [NoWork EXCEPT !.loc = <<"F", p>>], <<"lookup">>)

Count(t, i) ==
    Begin(t, "count", [NoCall EXCEPT !.id = i], [NoWork EXCEPT !.id = i], <<"childCount">>)

Browse(t, i) ==
    Begin(t, "browse", [NoCall EXCEPT !.id = i], [NoWork EXCEPT !.id = i], <<"flush", "type">>)

Objects(t, i) ==
    Begin(t, "objects", [NoCall EXCEPT !.id = i], [NoWork EXCEPT !.id = i], <<"flush", "objects">>)

Import(t, p) ==
    /\ lastID < MaxId
    /\ Begin(t, "import", [NoCall EXCEPT !.path = p, !.meta = NewMeta],
             [NoWork EXCEPT !.loc = <<"F", p>>], <<"lookup", "addFile">>)

\* The layout makes a container and puts a reference to an imported file there.
Link(t, i, p, m) ==
    /\ lastID < MaxId
    /\ All[i].kind = "file"
    /\ Begin(t, "link", [NoCall EXCEPT !.id = i, !.path = p, !.meta = m],
             [NoWork EXCEPT !.id = i, !.path = p], <<"chain", "original", "load", "duplicate">>)

Update(t, i, m) ==
    Begin(t, "update", [NoCall EXCEPT !.id = i, !.meta = m], [NoWork EXCEPT !.id = i],
          <<"load", "edit">>)

\* Mutant of Remove: the buffer is not flushed before.
RemoveUnflushed(t, i, all) ==
    Begin(t, "remove", [NoCall EXCEPT !.id = i, !.all = all], NoWork, <<"delete">>)

Remove(t, i, all) ==
    Begin(t, "remove", [NoCall EXCEPT !.id = i, !.all = all], NoWork, <<"flush", "delete">>)

Shutdown(t) ==
    /\ \A u \in Thread : Idle(u)
    /\ Begin(t, "shutdown", NoCall, NoWork, <<"flush", "restart">>)

\* checkRefID() loads the original.
checkRefID(t) ==
    /\ At(t, "original")
    /\ Set(t, [reg[t] EXCEPT !.id = reg[t].call.id])
    /\ Then(t, <<>>)
    /\ UNCHANGED <<tableVars, bufferVars, cacheVars>>

Answer(t) ==
    /\ At(t, "answer")
    /\ Then(t, <<>>)
    /\ Set(t, NoWork)
    /\ UNCHANGED <<tableVars, bufferVars, cacheVars>>

Step(t) ==
    \/ flushInsertBuffer(t) \/ clearBuffer(t) \/ append(t) \/ addToInsertBuffer(t)
    \/ unlockCache(t) \/ addObjectToCache(t) \/ addNewToCache(t) \/ StoreCount(t)
    \/ StoreType(t) \/ clearCache(t)
    \/ loadObject(t) \/ selectObject(t) \/ _findObjectByPath(t) \/ searchPath(t)
    \/ ensurePathExistence(t) \/ _ensurePathExistence(t) \/ addContainerChain(t)
    \/ createContainer(t) \/ informCache(t)
    \/ getChildCount(t) \/ countRows(t) \/ browseType(t) \/ selectType(t)
    \/ browseList(t) \/ browseRow(t) \/ browseCount(t) \/ browseCounted(t) \/ getObjects(t)
    \/ _addFile(t) \/ checkRefID(t) \/ checkDuplicate(t) \/ firstChild(t)
    \/ updateObject(t) \/ throwDirectory(t) \/ updateRow(t) \/ removeObject(t)
    \/ restart(t) \/ Answer(t)

Call(t) ==
    /\ Idle(t)
    /\ \/ \E i \in Ids : Load(t, i) \/ Browse(t, i)
       \/ \E i \in Tree!Containers(All) : Count(t, i) \/ Objects(t, i)
       \/ \E p \in Files : Find(t, p) \/ Import(t, p)
       \/ \E i \in DOMAIN All, p \in Virtuals, m \in Meta \union {NewMeta} : Link(t, i, p, m)
       \/ \E i \in Ids \ Tree!Forbidden, m \in Meta : Update(t, i, m)
       \/ \E i \in Ids \ Tree!Forbidden, all \in BOOLEAN : Remove(t, i, all)
       \/ Shutdown(t)

Next == \E t \in Thread : Step(t) \/ Call(t)

Spec == Init /\ [][Next]_vars

-----------------------------------------------------------------------------
(* What makes it correct.                                                  *)

\* The object a caller got is the object of the table and the buffer.  What a
\* reference inherits is left out: a cached reference is not refreshed when the
\* item it refers to is changed.
Same(got, i) ==
    LET o == Object(All, i)
    IN  \/ got = o
        \/ o.kind = "ref" /\ All[i].meta = NoMeta /\ [got EXCEPT !.meta = o.meta] = o

ObjectRight(got, ids) ==
    IF ids = {} THEN got = NoObject ELSE \E i \in ids : Same(got, i)

ListRight(r) ==
    LET i == r.call.id
        ids == IF i \notin DOMAIN All THEN {}
               ELSE IF IsContainer(All[i]) THEN ChildrenOf(All, i) ELSE {i}
    IN  /\ {o.id : o \in r.list} = ids
        /\ \A o \in r.list : Same(o, o.id)
        /\ i \in DOMAIN All => r.total = Cardinality(ids)
        /\ \A c \in DOMAIN r.counts : r.counts[c] = Cardinality(ChildrenOf(All, c))

\* Whatever answers a call, the cache, the table or both, the answer is the one
\* the objects added, changed and removed so far give: the insert buffer and the
\* cache are invisible to loadObject(), findObjectByPath(), getChildCount(),
\* browse() and getObjects().
AnswersRight ==
    \A t \in Thread : At(t, "answer") =>
        LET r == reg[t]
        IN  CASE r.call.op = "load"    -> ObjectRight(r.res, {r.call.id} \intersect DOMAIN All)
              [] r.call.op = "find"    -> ObjectRight(r.res, {i \in DOMAIN All : All[i].loc = r.loc})
              [] r.call.op = "count"   -> r.num = Cardinality(ChildrenOf(All, r.call.id))
              [] r.call.op = "browse"  -> ListRight(r)
              [] r.call.op = "objects" -> r.list = ChildrenOf(All, r.call.id)
              [] OTHER -> TRUE

\* Between calls the cache and the storage agree: whatever waits in the insert
\* buffer can be found by its id and its path, what the cache knows exists, and
\* its numbers of children are right.
CorrectlyInCache ==
    (\A t \in Thread : Idle(t)) =>
        /\ \A i \in DOMAIN buffer :
              /\ KnowsObject(i)
              /\ CacheLocation(idHash[i].obj) \in DOMAIN locationHash
              /\ i \in locationHash[CacheLocation(idHash[i].obj)]
        /\ \A i \in DOMAIN idHash :
              /\ KnowsObject(i) => i \in DOMAIN All /\ Same(idHash[i].obj, i)
              /\ KnowsNumChildren(i) => idHash[i].num = Cardinality(ChildrenOf(All, i))

\* A file, a directory and a virtual container are added once, although the
\* search before _addFile() and createContainer() does not flush the buffer.
OneObjectPerPath ==
    LET o == All
    IN  \A i, j \in DOMAIN o : o[i].loc = o[j].loc /\ o[i].loc[2] # NoPath => i = j

\* The waiting rows that a crash loses when the statements of the buffer up to the
\* id n have been executed: they are executed in the order in which they were
\* appended, and MySQL's tables (MyISAM) keep what a transaction has done so far.
Lost(n) == {i \in DOMAIN buffer \ DOMAIN rows : i > n}

\* A crash that loses the insert buffer, or the rest of it while it is being
\* flushed, takes the parent of no object that is left, and the original of no
\* virtual item, although containers go around the buffer.
BufferLossOrphansNothing ==
    \A n \in 0 .. lastID : \A i \in DOMAIN All \ Lost(n) :
        /\ All[i].parent \notin Lost(n)
        /\ All[i].kind = "ref" => All[i].ref \notin Lost(n)

\* Table and buffer together are the tree of CdsTree: each call adds, changes or
\* removes exactly what the contract says, in one step.
ImplementsTree == Tree!CdsSpec
=============================================================================
