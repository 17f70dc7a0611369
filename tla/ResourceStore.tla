--------------------------- MODULE ResourceStore ----------------------------
(***************************************************************************)
(* The two stores behind the API, as functions from a database and the     *)
(* arguments of a call to the database after it: the Redis store           *)
(* (internal/store/redis/store.go) and the memory store                    *)
(* (internal/store/memory/store.go).  Every operator on a Redis database   *)
(* is one round trip, a MULTI/EXEC pipeline or a single command; every     *)
(* operator on a memory database runs under its mutex.                     *)
(*                                                                         *)
(* The four kinds of resource never meet: they have key prefixes, or maps, *)
(* of their own.  A database here is the part of one kind:                 *)
(*   objects    the records, by key                                        *)
(*   index      the members of the global index (Redis)                    *)
(*   byAtespace the members of the index of each atespace (Redis)          *)
(* Atespaces and names are sequences of characters and an id is a pair of  *)
(* them, the default atespace filled in.  Nothing validates them: a colon  *)
(* in an atespace makes two ids one key.  The scores that order an index   *)
(* are left out.                                                           *)
(***************************************************************************)
EXTENDS Naturals, Sequences, FiniteSets

CONSTANTS
    Ids,     \* the <<atespace, name>> of the resources
    Limit    \* how many tasks ListTasks returns at most (50)

ASSUME ResourceAssumption ==
    /\ \A id \in Ids : id \in Seq(STRING) \X Seq(STRING)
    /\ Limit \in Nat \ {0}

Atespaces == {id[1] : id \in Ids}
Names == {id[2] : id \in Ids}

\* What a GET of a missing key gives: redis.Nil, store.ErrNotFound.
None == [id |-> <<>>]

\* The atespace of a list request that asks for all of them, "" or "*".
All == <<>>

\* Mutant: the parts of a key are not separated.
KeyJoined(id) == id[1] \o id[2]

\* gwKey, modelKey, wsKey and taskKey, after their prefix.
Key(id) == id[1] \o <<":">> \o id[2]

\* fmt.Sprintf("%s:%s", atespace, name)
Member(id) == id[1] \o <<":">> \o id[2]

\* strings.SplitN(m, ":", 2)
SplitN(m) ==
    LET at == CHOOSE i \in DOMAIN m : m[i] = ":" /\ \A j \in 1..(i - 1) : m[j] # ":"
    IN <<SubSeq(m, 1, at - 1), SubSeq(m, at + 1, Len(m))>>

Keys == {Key(id) : id \in Ids}

EmptyDB ==
    [objects |-> [k \in Keys |-> None], index |-> {}, byAtespace |-> [a \in Atespaces |-> {}]]

-----------------------------------------------------------------------------
(* Redis.                                                                  *)

\* SET and two ZADDs.
Put(db, r) ==
    [objects    |-> [db.objects EXCEPT ![Key(r.id)] = r],
     index      |-> db.index \cup {Member(r.id)},
     byAtespace |-> [db.byAtespace EXCEPT ![r.id[1]] = @ \cup {r.id[2]}]]

\* DEL and two ZREMs.
Remove(db, id) ==
    [objects    |-> [db.objects EXCEPT ![Key(id)] = None],
     index      |-> db.index \ {Member(id)},
     byAtespace |-> [db.byAtespace EXCEPT ![id[1]] = @ \ {id[2]}]]

Fetch(db, id) == db.objects[Key(id)]

\* ZREVRANGE: the members to fetch, of all atespaces or of one, taken apart.
Members(db, scope) ==
    {SplitN(m) : m \in IF scope = All THEN db.index
                       ELSE {Member(<<scope, n>>) : n \in db.byAtespace[scope]}}

\* MGET: keys that are gone by now are skipped.
MGet(db, ids) == {Fetch(db, id) : id \in ids} \ {None}

SaveGateway(db, r) == Put(db, r)
SaveModel(db, r) == Put(db, r)
SaveWorkspace(db, r) == Put(db, r)

\* Mutant: the phase is not filled in.
SaveTaskPlain(db, r) == Put(db, r)

\* A task without a phase is Pending.  The pipeline also publishes to the
\* watchers and to the stream: see ApiClients.
SaveTask(db, r) == Put(db, [r EXCEPT !.phase = IF @ = "" THEN "Pending" ELSE @])

DeleteGateway(db, id) == Remove(db, id)
DeleteModel(db, id) == Remove(db, id)
DeleteWorkspace(db, id) == Remove(db, id)
DeleteTask(db, id) == Remove(db, id)

GetGateway(db, id) == Fetch(db, id)
GetModel(db, id) == Fetch(db, id)
GetWorkspace(db, id) == Fetch(db, id)
GetTask(db, id) == Fetch(db, id)

\* The second round trip of a list, for the ids the first one found.
ListGateways(db, ids) == MGet(db, ids)
ListModels(db, ids) == MGet(db, ids)
ListWorkspaces(db, ids) == MGet(db, ids)
ListTasks(db, ids) == MGet(db, ids)

\* UpdateTaskStatus and MarkTaskDeleting write the record they have read
\* before, and not the indexes.
SetRecord(db, r) == [db EXCEPT !.objects[Key(r.id)] = r]

-----------------------------------------------------------------------------
(* Memory.                                                                 *)

MemoryPut(db, r) == [db EXCEPT !.objects[Key(r.id)] = r]
MemoryRemove(db, id) == [db EXCEPT !.objects[Key(id)] = None]

\* Map entries whose metadata name the atespace.
MemoryList(db, scope) ==
    {r \in {db.objects[k] : k \in Keys} \ {None} : scope \in {All, r.id[1]}}

MemorySaveTask(db, r) == MemoryPut(db, [r EXCEPT !.phase = IF @ = "" THEN "Pending" ELSE @])
MemorySaveGateway(db, r) == MemoryPut(db, r)
MemorySaveModel(db, r) == MemoryPut(db, r)
MemorySaveWorkspace(db, r) == MemoryPut(db, r)

MemoryDeleteTask(db, id) == MemoryRemove(db, id)
MemoryDeleteGateway(db, id) == MemoryRemove(db, id)
MemoryDeleteModel(db, id) == MemoryRemove(db, id)
MemoryDeleteWorkspace(db, id) == MemoryRemove(db, id)

MemoryGetTask(db, id) == Fetch(db, id)
MemoryGetGateway(db, id) == Fetch(db, id)
MemoryGetModel(db, id) == Fetch(db, id)
MemoryGetWorkspace(db, id) == Fetch(db, id)

MemoryListTasks(db, scope) == MemoryList(db, scope)
MemoryListGateways(db, scope) == MemoryList(db, scope)
MemoryListModels(db, scope) == MemoryList(db, scope)
MemoryListWorkspaces(db, scope) == MemoryList(db, scope)

-----------------------------------------------------------------------------
(* The store.Store interface: the calls of a kind on the store in use.     *)

Save(store, kind, db, r) ==
    IF store = "redis"
    THEN CASE kind = "task"      -> SaveTask(db, r)
           [] kind = "gateway"   -> SaveGateway(db, r)
           [] kind = "model"     -> SaveModel(db, r)
           [] kind = "workspace" -> SaveWorkspace(db, r)
    ELSE CASE kind = "task"      -> MemorySaveTask(db, r)
           [] kind = "gateway"   -> MemorySaveGateway(db, r)
           [] kind = "model"     -> MemorySaveModel(db, r)
           [] kind = "workspace" -> MemorySaveWorkspace(db, r)

Delete(store, kind, db, id) ==
    IF store = "redis"
    THEN CASE kind = "task"      -> DeleteTask(db, id)
           [] kind = "gateway"   -> DeleteGateway(db, id)
           [] kind = "model"     -> DeleteModel(db, id)
           [] kind = "workspace" -> DeleteWorkspace(db, id)
    ELSE CASE kind = "task"      -> MemoryDeleteTask(db, id)
           [] kind = "gateway"   -> MemoryDeleteGateway(db, id)
           [] kind = "model"     -> MemoryDeleteModel(db, id)
           [] kind = "workspace" -> MemoryDeleteWorkspace(db, id)

Get(store, kind, db, id) ==
    IF store = "redis"
    THEN CASE kind = "task"      -> GetTask(db, id)
           [] kind = "gateway"   -> GetGateway(db, id)
           [] kind = "model"     -> GetModel(db, id)
           [] kind = "workspace" -> GetWorkspace(db, id)
    ELSE CASE kind = "task"      -> MemoryGetTask(db, id)
           [] kind = "gateway"   -> MemoryGetGateway(db, id)
           [] kind = "model"     -> MemoryGetModel(db, id)
           [] kind = "workspace" -> MemoryGetWorkspace(db, id)

\* The step of a list that reads records: in the memory store the only one.
List(store, kind, db, ids, scope) ==
    IF store = "redis"
    THEN CASE kind = "task"      -> ListTasks(db, ids)
           [] kind = "gateway"   -> ListGateways(db, ids)
           [] kind = "model"     -> ListModels(db, ids)
           [] kind = "workspace" -> ListWorkspaces(db, ids)
    ELSE CASE kind = "task"      -> MemoryListTasks(db, scope)
           [] kind = "gateway"   -> MemoryListGateways(db, scope)
           [] kind = "model"     -> MemoryListModels(db, scope)
           [] kind = "workspace" -> MemoryListWorkspaces(db, scope)
=============================================================================
