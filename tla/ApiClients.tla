----------------------------- MODULE ApiClients -----------------------------
(***************************************************************************)
(* Commands of the CLI (cmd/ax/main.go) against the API server             *)
(* (internal/server/server.go) over either store: apply, get, describe,    *)
(* watch, delete, suspend and resume, several of them at the same time,    *)
(* and the controller that handles the events of tasks.                    *)
(*                                                                         *)
(* A step is one round trip to Redis, one call of the memory store, or one *)
(* send on its event channel, which comes after its mutex is released.     *)
(* The gRPC stream of a watch is reliable and in order: the server's Send  *)
(* and the CLI's Recv are one step.  The creation timestamp that           *)
(* defaultMetadata looks up, and the text a command prints, are left out.  *)
(* The controller's passes are those of ControlPlane in two steps, a read  *)
(* and a write, and it may crash or fail between them.                     *)
(***************************************************************************)
EXTENDS ResourceStore

CONSTANTS
    Clients,      \* CLI processes
    Kinds,        \* of "task", "gateway", "model", "workspace"
    Stores,       \* of "redis", "memory"
    Manifests,    \* what apply may be given: sequences of documents
    ChanCap,      \* capacity of the memory store's watch channels (10)
    EventCap,     \* capacity of the memory store's event channel (1000)
    MaxCommands   \* bound: commands issued in a behaviour

\* All that is told apart in a spec is, for tasks, whether it says suspend.
Specs == {"plain", "suspend"}

Phases == {"Pending", "Running", "Suspended", "Completed", "Failed", "Terminating"}

\* A document of a manifest.  A task may come with a status, and so a phase.
Documents == [id : Ids, spec : Specs, phase : Phases \cup {""}]

ASSUME ClientsAssumption ==
    /\ Kinds \subseteq {"task", "gateway", "model", "workspace"}
    /\ Stores \subseteq {"redis", "memory"}
    /\ Manifests \subseteq Seq(Documents) \ {<<>>}
    /\ ChanCap \in Nat \ {0} /\ EventCap \in Nat \ {0} /\ MaxCommands \in Nat

VARIABLES
    backend, kind,  \* the store in use and the kind of resource looked at
    db,             \* what the store holds of that kind
    events,         \* task events nobody has taken
    unserved,       \* history: keys of tasks whose last event was dropped or given up
    clients,        \* the command each CLI process is running
    subs,           \* its subscription to a task, while it watches
    work,           \* the event the controller is handling, and the task it read
    truth,          \* history: ids that were saved and not deleted since
    hist,           \* history: of a list under way, the ids that were there all
                    \* the time, and the ids that were there at some time
    issued          \* how many commands were issued

vars == <<backend, kind, db, events, unserved, clients, subs, work, truth, hist, issued>>

NoId == <<>>
NoSub == [id |-> NoId, ch |-> <<>>, lost |-> FALSE]
NoWork == [id |-> NoId]

\* A process without a command.
Idle ==
    [cmd |-> "none", pc |-> "idle", id |-> NoId, docs |-> <<>>, held |-> None,
     scope |-> All, members |-> {}, result |-> {}, event |-> ""]

\* What the store has under an id.
Stored(id) == Get(backend, kind, db, id)

IsMemoryTask == backend = "memory" /\ kind = "task"

Init ==
    /\ backend \in Stores /\ kind \in Kinds
    /\ db = EmptyDB
    /\ events = <<>> /\ unserved = {}
    /\ clients = [c \in Clients |-> Idle]
    /\ subs = [c \in Clients |-> NoSub]
    /\ work = NoWork
    /\ truth = {}
    /\ hist = [c \in Clients |-> [stable |-> {}, seen |-> {}]]
    /\ issued = 0

-----------------------------------------------------------------------------
(* Watch channels and events.                                              *)

Subscribers(id) == {c \in Clients : subs[c].id # NoId /\ Key(subs[c].id) = Key(id)}

\* A publication on a task's channel.  With Redis it waits in the connection
\* of each subscriber, the goroutine of WatchTask and its channel, which are one
\* queue, or is lost while the connection is broken; the memory store skips a
\* full channel.
Publish(id, phase) ==
    \E reached \in SUBSET Subscribers(id) :
        /\ backend = "memory" => reached = {c \in Subscribers(id) : Len(subs[c].ch) < ChanCap}
        /\ subs' = [c \in Clients |->
              CASE c \in reached -> [subs[c] EXCEPT !.ch = Append(@, phase), !.lost = FALSE]
                [] c \in Subscribers(id) \ reached -> [subs[c] EXCEPT !.lost = TRUE]
                [] OTHER -> subs[c]]

\* What the history of lists becomes in a step.
Track ==
    hist' = [c \in Clients |->
        CASE clients'[c].cmd # "list" -> [stable |-> {}, seen |-> {}]
          [] clients[c].cmd # "list" /\ clients'[c].cmd = "list" ->
                [stable |-> truth', seen |-> truth']
          [] clients[c].pc = "shown" -> hist[c]
          [] OTHER -> [stable |-> hist[c].stable \cap truth',
                       seen   |-> hist[c].seen \cup truth']]

\* A task's event is queued,
Queue(id, action) ==
    /\ events' = Append(events, [id |-> id, action |-> action])
    /\ unserved' = unserved \ {Key(id)}

\* or not handled: history notes it unless a later one in evs is.
Unserved(id, evs) ==
    unserved' = IF \E i \in DOMAIN evs : Key(evs[i].id) = Key(id) THEN unserved
                ELSE unserved \cup {Key(id)}

\* What follows a finished update: the next document, the wait for a
\* deletion, or the end of the command.
Continue(r) ==
    CASE r.docs # <<>>     -> [r EXCEPT !.pc = "update", !.held = None, !.event = ""]
      [] r.cmd = "delete"  -> [r EXCEPT !.pc = "poll", !.held = None, !.event = ""]
      [] OTHER             -> Idle

\* A write of a task that is published and raises an event: in Redis one
\* pipeline, in the memory store the event comes after the mutex.
WriteTask(c, newDB, r, id, phase, action) ==
    /\ db' = newDB
    /\ Publish(id, phase)
    /\ IF backend = "redis"
       THEN /\ Queue(id, action)
            /\ clients' = [clients EXCEPT ![c] = Continue(r)]
       ELSE /\ clients' = [clients EXCEPT ![c] = [r EXCEPT !.pc = "emit", !.id = id, !.event = action]]
            /\ UNCHANGED <<events, unserved>>

\* The non-blocking send on the memory store's event channel.
Emit(c) ==
    /\ clients[c].pc = "emit"
    /\ IF Len(events) < EventCap
       THEN Queue(clients[c].id, clients[c].event)
       ELSE Unserved(clients[c].id, events) /\ UNCHANGED events
    /\ clients' = [clients EXCEPT ![c] = Continue(@)]
    /\ truth' = truth
    /\ Track
    /\ UNCHANGED <<backend, kind, db, subs, work, issued>>

-----------------------------------------------------------------------------
(* Commands.                                                               *)

Start(c, r) ==
    /\ clients[c] = Idle /\ issued < MaxCommands
    /\ clients' = [clients EXCEPT ![c] = r]
    /\ issued' = issued + 1
    /\ truth' = truth
    /\ Track
    /\ UNCHANGED <<backend, kind, db, events, unserved, subs, work>>

runApply(c) ==
    \E m \in Manifests : Start(c, [Idle EXCEPT !.cmd = "apply", !.pc = "update", !.docs = m])
runList(c) ==
    \E s \in Atespaces \cup {All} : Start(c, [Idle EXCEPT !.cmd = "list", !.pc = "range", !.scope = s])
\* get or describe with a name: one read, printed.
runGet(c) == Start(c, Idle)
runDescribe(c) == Start(c, Idle)
runDelete(c) ==
    \E id \in Ids : Start(c, [Idle EXCEPT !.cmd = "delete", !.pc = "delete", !.id = id])
runWatch(c) ==
    /\ kind = "task"
    /\ \E id \in Ids : Start(c, [Idle EXCEPT !.cmd = "watch", !.pc = "subscribe", !.id = id])
runSuspend(c) ==
    /\ kind = "task"
    /\ \E id \in Ids : Start(c, [Idle EXCEPT !.cmd = "suspend", !.pc = "read", !.id = id])
runResume(c) ==
    /\ kind = "task"
    /\ \E id \in Ids : Start(c, [Idle EXCEPT !.cmd = "resume", !.pc = "read", !.id = id])

\* A step of c that touches nothing but its own command.
Become(c, r) ==
    /\ clients' = [clients EXCEPT ![c] = r]
    /\ truth' = truth
    /\ Track
    /\ UNCHANGED <<backend, kind, db, events, unserved, work, issued>>

\* The command ends early: a timeout, an error of a call, an interrupt.  A
\* call of the memory store that has begun is not cut short.
Abort(c) ==
    /\ clients[c].pc \notin {"idle", "emit"}
    /\ Become(c, Idle)
    /\ subs' = [subs EXCEPT ![c] = NoSub]

\* SaveGateway, SaveModel, SaveWorkspace or SaveTask by client c.
SaveRecord(c, record, r) ==
    /\ LET newDB == Save(backend, kind, db, record)
       IN IF kind = "task"
          THEN WriteTask(c, newDB, r, record.id, Get(backend, kind, newDB, record.id).phase, "reconcile")
          ELSE /\ db' = newDB
               /\ clients' = [clients EXCEPT ![c] = Continue(r)]
               /\ UNCHANGED <<events, unserved, subs>>
    /\ truth' = truth \cup {record.id}
    /\ Track
    /\ UNCHANGED <<backend, kind, work, issued>>

\* applyDocument: UpdateTask, with the status of the manifest, UpdateGateway,
\* UpdateWorkspace or UpdateModel, which have none.  The lookup before it only
\* decides between the words created, unchanged and configured.
Update(c) ==
    /\ clients[c].pc = "update"
    /\ LET doc == Head(clients[c].docs)
           record == [doc EXCEPT !.phase = IF kind = "task" THEN @ ELSE ""]
       IN SaveRecord(c, record, [clients[c] EXCEPT !.docs = Tail(@)])

\* SuspendTask and ResumeTask read the task,
SuspendRead(c) ==
    /\ clients[c].pc = "read"
    /\ Become(c, IF Stored(clients[c].id) = None THEN Idle
                 ELSE [clients[c] EXCEPT !.pc = "save", !.held = Stored(clients[c].id)])
    /\ UNCHANGED subs

\* change its spec, and save it with the status it had.
SuspendSave(c) ==
    /\ clients[c].pc = "save"
    /\ SaveRecord(c, [clients[c].held EXCEPT !.spec = IF clients[c].cmd = "suspend" THEN "suspend" ELSE "plain"],
                  clients[c])

\* DeleteGateway, DeleteModel, DeleteWorkspace: one step, missing or not.
DeleteNow(c) ==
    /\ clients[c].pc = "delete" /\ kind # "task"
    /\ db' = Delete(backend, kind, db, clients[c].id)
    /\ truth' = truth \ {clients[c].id}
    /\ clients' = [clients EXCEPT ![c] = Continue(@)]
    /\ Track
    /\ UNCHANGED <<backend, kind, events, unserved, subs, work, issued>>

Terminating(r) == [r EXCEPT !.phase = "Terminating"]

\* MarkTaskDeleting: with Redis a read and a write, in the memory store one.
MarkRead(c) ==
    /\ clients[c].pc = "delete" /\ kind = "task"
    /\ LET task == Stored(clients[c].id)
       IN \/ task = None /\ Become(c, Idle) /\ UNCHANGED subs
          \/ /\ task # None /\ backend = "redis"
             /\ Become(c, [clients[c] EXCEPT !.pc = "mark", !.held = task])
             /\ UNCHANGED subs
          \/ /\ task # None /\ backend = "memory"
             /\ WriteTask(c, SetRecord(db, Terminating(task)), clients[c], clients[c].id, "Terminating", "delete")
             /\ truth' = truth
             /\ Track
             /\ UNCHANGED <<backend, kind, work, issued>>

MarkWrite(c) ==
    /\ clients[c].pc = "mark"
    /\ WriteTask(c, SetRecord(db, Terminating(clients[c].held)), clients[c], clients[c].id, "Terminating", "delete")
    /\ truth' = truth
    /\ Track
    /\ UNCHANGED <<backend, kind, work, issued>>

\* waitForDeletion: a lookup that finds the resource is repeated.
WaitForDeletion(c) ==
    /\ clients[c].pc = "poll" /\ Stored(clients[c].id) = None
    /\ Become(c, Idle)
    /\ UNCHANGED subs

\* A page of at most Limit of them: for tasks, the only kind that is paged.
Pages(s) ==
    IF kind = "task" /\ Cardinality(s) > Limit THEN {p \in SUBSET s : Cardinality(p) = Limit} ELSE {s}

\* The Redis store's list, first round trip.
ListRange(c) ==
    /\ clients[c].pc = "range" /\ backend = "redis"
    /\ \E page \in Pages(Members(db, clients[c].scope)) :
          Become(c, [clients[c] EXCEPT !.pc = "fetch", !.members = page])
    /\ UNCHANGED subs

\* Its second round trip, or the memory store's list.
ListFetch(c) ==
    /\ \/ clients[c].pc = "fetch"
       \/ clients[c].pc = "range" /\ backend = "memory"
    /\ \E page \in Pages(List(backend, kind, db, clients[c].members, clients[c].scope)) :
          Become(c, [clients[c] EXCEPT !.pc = "shown", !.members = {}, !.result = page])
    /\ UNCHANGED subs

\* The command prints what it has and exits.
Done(c) ==
    /\ clients[c].pc = "shown"
    /\ Become(c, Idle)
    /\ UNCHANGED subs

-----------------------------------------------------------------------------
(* Watching a task.                                                        *)

Final == {"Running", "Completed", "Failed"}

\* Store.WatchTask
Subscribe(c) ==
    /\ clients[c].pc = "subscribe"
    /\ subs' = [subs EXCEPT ![c] = [NoSub EXCEPT !.id = clients[c].id]]
    /\ Become(c, [clients[c] EXCEPT !.pc = "initial"])

\* No INITIAL, and the stream all the same.
SkipInitial(c) ==
    /\ Become(c, [clients[c] EXCEPT !.pc = "stream"])
    /\ subs' = [subs EXCEPT ![c].lost = TRUE]

\* Mutant: a task that is already final is sent like any other.
SendInitialOnly(c) ==
    /\ clients[c].pc = "initial"
    /\ \/ /\ Become(c, [clients[c] EXCEPT !.pc = "stream"])
          /\ subs' = [subs EXCEPT ![c].lost = FALSE]
       \/ backend = "redis" /\ SkipInitial(c)

\* INITIAL, unless the task is missing or GetTask fails, as it may with Redis.
\* The CLI is done when it is final.
SendInitial(c) ==
    /\ clients[c].pc = "initial"
    /\ \/ LET task == Stored(clients[c].id)
          IN IF task # None /\ task.phase \in Final
             THEN Become(c, Idle) /\ subs' = [subs EXCEPT ![c] = NoSub]
             ELSE /\ Become(c, [clients[c] EXCEPT !.pc = "stream"])
                  /\ subs' = [subs EXCEPT ![c].lost = FALSE]
       \/ backend = "redis" /\ SkipInitial(c)

\* MODIFIED.  Server and CLI are done when it is final.
SendModified(c) ==
    /\ clients[c].pc = "stream" /\ subs[c].ch # <<>>
    /\ IF Head(subs[c].ch) \in Final
       THEN Become(c, Idle) /\ subs' = [subs EXCEPT ![c] = NoSub]
       ELSE Become(c, clients[c]) /\ subs' = [subs EXCEPT ![c].ch = Tail(@)]

-----------------------------------------------------------------------------
(* The controller: processEvent.                                           *)

Outcomes(task) == {"Failed", IF task.spec = "suspend" THEN "Suspended" ELSE "Running"}

\* Subscription.Next, and GetTask unless the event is a deletion.
Take ==
    /\ events # <<>> /\ work = NoWork
    /\ LET ev == Head(events)
           task == Get(backend, kind, db, ev.id)
       IN work' = IF ev.action = "reconcile" /\ task = None THEN NoWork
                  ELSE [id |-> ev.id, action |-> ev.action,
                        phases |-> IF ev.action = "delete" THEN {} ELSE Outcomes(task)]
    /\ events' = Tail(events)
    /\ UNCHANGED <<backend, kind, db, unserved, clients, subs, truth, hist, issued>>

\* UpdateTaskStatus, when the task is still there.
WriteStatus ==
    /\ work # NoWork /\ work.action = "reconcile"
    /\ LET task == Get(backend, kind, db, work.id)
       IN IF task = None THEN UNCHANGED <<db, subs>>
          ELSE \E phase \in work.phases :
                  /\ db' = SetRecord(db, [task EXCEPT !.phase = phase])
                  /\ Publish(work.id, phase)
    /\ work' = NoWork
    /\ UNCHANGED <<backend, kind, events, unserved, clients, truth, hist, issued>>

\* DeleteTask, after a cleanup that went well.
FinishDelete ==
    /\ work # NoWork /\ work.action = "delete"
    /\ db' = Delete(backend, kind, db, work.id)
    /\ truth' = truth \ {work.id}
    /\ work' = NoWork
    /\ clients' = clients
    /\ Track
    /\ UNCHANGED <<backend, kind, events, unserved, subs, issued>>

\* A cleanup that fails, or, with Redis, a read or write that fails, or a crash
\* of the controller: it does nothing more about the event.
GiveUp ==
    /\ work # NoWork /\ (backend = "redis" \/ work.action = "delete")
    /\ Unserved(work.id, events)
    /\ work' = NoWork
    /\ UNCHANGED <<backend, kind, db, events, clients, subs, truth, hist, issued>>

-----------------------------------------------------------------------------
Commands(c) ==
    \/ runApply(c) \/ runList(c) \/ runGet(c) \/ runDescribe(c) \/ runDelete(c)
    \/ runWatch(c) \/ runSuspend(c) \/ runResume(c)

\* The steps of c's command, in the CLI and in the server.
Step(c) ==
    \/ Update(c) \/ Emit(c) \/ SuspendRead(c) \/ SuspendSave(c)
    \/ DeleteNow(c) \/ MarkRead(c) \/ MarkWrite(c) \/ WaitForDeletion(c)
    \/ ListRange(c) \/ ListFetch(c) \/ Done(c)
    \/ Subscribe(c) \/ SendInitial(c) \/ SendModified(c)

Controller == Take \/ WriteStatus \/ FinishDelete

Next ==
    \/ \E c \in Clients : Commands(c) \/ Step(c) \/ Abort(c)
    \/ Controller \/ GiveUp

\* Servers and the controller go on; nobody has to issue a command.
Spec ==
    /\ Init /\ [][Next]_vars
    /\ \A c \in Clients : WF_vars(Step(c))
    /\ WF_vars(Controller)

-----------------------------------------------------------------------------
\* The phases of stored records: a task always has one.
RecordPhases == IF kind = "task" THEN Phases ELSE {""}

Records == {None} \cup [id : Ids, spec : Specs, phase : RecordPhases]

\* The variables have their types; every stored record is complete, and what a
\* list is about to fetch is the key of some resource.
TypeOK ==
    /\ backend \in Stores /\ kind \in Kinds
    /\ db.objects \in [Keys -> Records]
    /\ db.index \subseteq {Member(id) : id \in Ids}
    /\ db.byAtespace \in [Atespaces -> SUBSET Names]
    /\ events \in Seq([id : Ids, action : {"reconcile", "delete"}])
    /\ unserved \subseteq Keys
    /\ \A c \in Clients :
          /\ clients[c].held \in Records /\ clients[c].result \subseteq Records
          /\ \A p \in clients[c].members : Key(p) \in Keys
          /\ clients[c].id \in Ids \cup {NoId}
          /\ subs[c].id \in Ids \cup {NoId} /\ subs[c].lost \in BOOLEAN
          /\ subs[c].ch \in Seq(Phases)
          /\ backend = "memory" => Len(subs[c].ch) <= ChanCap
    /\ truth \subseteq Ids
    /\ issued \in 0..MaxCommands

\* The resources whose name, joined with colons, is no other's.
Apart == {id \in Ids : \A x \in Ids : Member(x) = Member(id) => x = id}

InScope(ids, scope) == {id \in ids : scope \in {All, id[1]}}

\* What `ax get` lists (server List calls over both stores) is faithful
\* although the index and the records are read in two round trips: every
\* resource shown existed in the atespace asked for at some time during the
\* command, and every one that existed all the time is shown, unless there
\* were more tasks than fit a page.  It says nothing of resources that share
\* a key with another one, as a colon in an atespace makes them: such a pair
\* overwrites and deletes each other's record.
ListFaithful ==
    \A c \in Clients : clients[c].cmd = "list" /\ clients[c].pc = "shown" =>
        LET shown == {r.id : r \in clients[c].result}
            seen == InScope(hist[c].seen, clients[c].scope)
            stable == InScope(hist[c].stable, clients[c].scope)
        IN /\ shown \cap Apart \subseteq seen
           /\ \/ stable \cap Apart \subseteq shown
              \/ kind = "task" /\ Cardinality(seen) > Limit

\* The task is there and is meant to run.
Wanted(id) ==
    LET task == Stored(id)
    IN task # None /\ task.spec = "plain" /\ task.phase # "Terminating"

\* A watch on a task that is meant to run, whose last event is or was handled,
\* and of which the watch has not missed the latest news.
Owed(c) ==
    /\ clients[c].cmd = "watch" /\ Wanted(clients[c].id)
    /\ ~subs[c].lost /\ Key(clients[c].id) \notin unserved

\* `ax watch` ends: whatever saves, deletions and status writes happen
\* around its subscription and its first read, a watch cannot wait for ever
\* on a task that stays there and is meant to run, because WatchTask
\* subscribes before it reads.  Two things are an excuse, each until the next
\* update of the task makes up for it.  The watch missed the latest news: its
\* first read failed, which WatchTask passes over in silence, the publication
\* was lost over a reconnect to Redis, or the memory store's channel was full.
\* Or nobody handled the last event: the memory store's queue was full, or
\* the controller crashed or failed over it.
WatchEnds == \A c \in Clients : []<> ~Owed(c)
=============================================================================
