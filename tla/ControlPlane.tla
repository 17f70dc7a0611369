---------------------------- MODULE ControlPlane ----------------------------
(***************************************************************************)
(* The AX control plane: concurrent API calls (internal/server/server.go)  *)
(* and controller workers (internal/controller/worker.go) that share the   *)
(* Redis store and drive one Substrate actor per task.                     *)
(*                                                                         *)
(* Steps.  An API handler or a worker moves from one remote call to the    *)
(* next; each call to Redis or to Substrate is one atomic step, and steps  *)
(* of different handlers interleave.  pc[w] names the call worker w is     *)
(* about to make.                                                          *)
(*                                                                         *)
(* Failures.  Faults selects which calls may fail: "store" (Redis),        *)
(* "substrate" (the actor API), "model" (a Model resource that cannot be   *)
(* turned into a configuration) and "crash" (a worker dies and comes back  *)
(* as a new consumer of the same group; a shutdown that cancels the        *)
(* context in mid-call is the same).  A call that fails may or may not     *)
(* have taken effect.                                                      *)
(*                                                                         *)
(* The egress policy, the conditions and the actor templates of a          *)
(* reconcile are in module Reconciler; delivery and acknowledgement of     *)
(* events are in module TaskQueue.                                         *)
(***************************************************************************)
EXTENDS RedisStore

CONSTANTS
    Workers,    \* controller workers of the group ax-controllers
    Clients,    \* API calls in progress at the same time
    BatchSize,  \* Options.ReadBatchSize
    Faults      \* which calls may fail

ASSUME ControlPlaneAssumption ==
    /\ BatchSize \in Nat \ {0}
    /\ Faults \subseteq {"store", "substrate", "model", "crash"}

VARIABLES
    actor,      \* state of the Substrate actor named after each task
    call,       \* the API call each client has under way
    pending,    \* subscription.pending: delivered, not yet handed to Run
    pc,         \* the next remote call of each worker
    cur,        \* the event being processed
    snap,       \* the task processEvent fetched, its status updated in place
    seen,       \* the task UpdateTaskStatus read back, with the new status
    outcome     \* history: how the last event of each task ended

workerVars == <<pending, pc, cur, snap, seen>>
vars == <<tasks, index, stream, actor, call, pending, pc, cur, snap, seen, outcome>>

ActorStates == {"absent", "suspended", "running", "crashed", "deleting"}

NoCall == [op |-> "none"]
Call == [op : {"save", "mark"}, task : Tasks, rec : Record]

NoEvent == [action |-> "none"]

ReconcilePCs == {"prepare", "ensure", "inspect", "reap", "recreate", "actuate",
                 "statusGet", "statusSet"}
DeletePCs == {"delActor", "delRecord"}
PCs == {"idle", "fetch"} \cup ReconcilePCs \cup DeletePCs

Outcomes == {"ok", "reconcileFailed", "deleteFailed", "lost"}

TypeOK ==
    /\ StoreTypeOK
    /\ actor \in [Tasks -> ActorStates]
    /\ call \in [Clients -> Call \cup {NoCall}]
    /\ pending \in [Workers -> Seq(Event)]
    /\ pc \in [Workers -> PCs]
    /\ cur \in [Workers -> Event \cup {NoEvent}]
    /\ snap \in [Workers -> Record \cup {NoTask}]
    /\ seen \in [Workers -> Record \cup {NoTask}]
    /\ outcome \in [Tasks -> Outcomes]
    /\ \A w \in Workers :
        /\ pc[w] # "idle" => cur[w] \in Event
        /\ pc[w] \in ReconcilePCs => snap[w] \in Record
        /\ pc[w] = "statusSet" => seen[w] \in Record

Init ==
    /\ StoreInit
    /\ actor = [t \in Tasks |-> "absent"]
    /\ call = [c \in Clients |-> NoCall]
    /\ pending = [w \in Workers |-> <<>>]
    /\ pc = [w \in Workers |-> "idle"]
    /\ cur = [w \in Workers |-> NoEvent]
    /\ snap = [w \in Workers |-> NoTask]
    /\ seen = [w \in Workers |-> NoTask]
    /\ outcome = [t \in Tasks |-> "ok"]

-----------------------------------------------------------------------------
(* The API server.  UpdateTask reads the stored record only to keep its    *)
(* creation timestamp, so its one effect is the save.  SuspendTask,        *)
(* ResumeTask and DeleteTask read the record and write it back whole.      *)

UpdateTask(c, t, task) ==
    /\ call[c] = NoCall
    /\ SaveTask(t, task)
    /\ UNCHANGED <<actor, call, workerVars, outcome>>

SetSuspendGet(c, t, suspend) ==
    /\ call[c] = NoCall
    /\ Exists(t)
    /\ call' = [call EXCEPT ![c] =
                  [op |-> "save", task |-> t, rec |-> SetSuspend(GetTask(t), suspend)]]
    /\ UNCHANGED <<storeVars, actor, workerVars, outcome>>

SuspendTask(c, t) == SetSuspendGet(c, t, TRUE)
ResumeTask(c, t) == SetSuspendGet(c, t, FALSE)

SetSuspendSave(c) ==
    /\ call[c].op = "save"
    /\ SaveTask(call[c].task, call[c].rec)
    /\ call' = [call EXCEPT ![c] = NoCall]
    /\ UNCHANGED <<actor, workerVars, outcome>>

DeleteTaskGet(c, t) ==
    /\ call[c] = NoCall
    /\ Exists(t)
    /\ call' = [call EXCEPT ![c] = [op |-> "mark", task |-> t, rec |-> SetPhase(GetTask(t), "Terminating")]]
    /\ UNCHANGED <<storeVars, actor, workerVars, outcome>>

DeleteTaskMark(c) ==
    /\ call[c].op = "mark"
    /\ MarkTaskDeletingSet(call[c].task, call[c].rec)
    /\ call' = [call EXCEPT ![c] = NoCall]
    /\ UNCHANGED <<actor, workerVars, outcome>>

\* The second round trip fails without effect, or the server dies before it.
CallAborts(c) ==
    /\ "store" \in Faults
    /\ call[c] # NoCall
    /\ call' = [call EXCEPT ![c] = NoCall]
    /\ UNCHANGED <<storeVars, actor, workerVars, outcome>>

ClientNext ==
    \E c \in Clients :
        \/ \E t \in Tasks :
            \/ \E task \in Submitted : UpdateTask(c, t, task)
            \/ SuspendTask(c, t)
            \/ ResumeTask(c, t)
            \/ DeleteTaskGet(c, t)
        \/ SetSuspendSave(c)
        \/ DeleteTaskMark(c)
        \/ CallAborts(c)

-----------------------------------------------------------------------------
(* What Substrate does with each request.                                  *)

Created(a) == IF a = "absent" THEN "suspended" ELSE a

Deleted(a) == IF a = "absent" THEN "absent" ELSE "deleting"

Actuated(a, suspend) ==
    IF a \notin {"suspended", "running"} THEN a
    ELSE IF suspend THEN "suspended" ELSE "running"

SetActor(t, a) == actor' = [actor EXCEPT ![t] = a]

FinishDelete(t) ==
    /\ actor[t] = "deleting"
    /\ SetActor(t, "absent")
    /\ UNCHANGED <<storeVars, call, workerVars, outcome>>

ActorCrash(t) ==
    /\ actor[t] = "running"
    /\ SetActor(t, "crashed")
    /\ UNCHANGED <<storeVars, call, workerVars, outcome>>

-----------------------------------------------------------------------------
(* The event loop of a worker.                                             *)

BatchLen == IF Len(stream) < BatchSize THEN Len(stream) ELSE BatchSize

Batch == SubSeq(stream, 1, BatchLen)

Unread == SubSeq(stream, BatchLen + 1, Len(stream))

Mentions(s, t) == \E i \in 1..Len(s) : s[i].task = t

\* The events of these sequences will never be handed to a worker again.
Lose(s) == outcome' = [t \in Tasks |-> IF Mentions(s, t) THEN "lost" ELSE outcome[t]]

Read(w) ==
    /\ pc[w] = "idle"
    /\ pending[w] = <<>>
    /\ stream # <<>>
    /\ stream' = Unread
    /\ pending' = [pending EXCEPT ![w] = Batch]
    /\ UNCHANGED <<tasks, index, actor, call, pc, cur, snap, seen, outcome>>

\* XREADGROUP hands the batch to this consumer but its reply is lost.
ReadLost(w) ==
    /\ "store" \in Faults
    /\ pc[w] = "idle"
    /\ pending[w] = <<>>
    /\ stream # <<>>
    /\ stream' = Unread
    /\ Lose(Batch)
    /\ UNCHANGED <<tasks, index, actor, call, workerVars>>

Next_(w) ==
    /\ pc[w] = "idle"
    /\ pending[w] # <<>>
    /\ cur' = [cur EXCEPT ![w] = Head(pending[w])]
    /\ pending' = [pending EXCEPT ![w] = Tail(pending[w])]
    /\ pc' = [pc EXCEPT ![w] =
                IF Head(pending[w]).action = "delete" THEN "delActor" ELSE "fetch"]
    /\ UNCHANGED <<storeVars, actor, call, snap, seen, outcome>>

Goto(w, label) == pc' = [pc EXCEPT ![w] = label]

\* processEvent returns; the event is acknowledged whatever the result.
Finish(w, result) ==
    /\ Goto(w, "idle")
    /\ outcome' = [outcome EXCEPT ![cur[w].task] = result]
    /\ cur' = [cur EXCEPT ![w] = NoEvent]
    /\ snap' = [snap EXCEPT ![w] = NoTask]
    /\ seen' = [seen EXCEPT ![w] = NoTask]
    /\ UNCHANGED pending

\* reconcile ends in the given phase and the status write comes next.
EndReconcile(w, phase) ==
    /\ snap' = [snap EXCEPT ![w] = SetPhase(snap[w], phase)]
    /\ Goto(w, "statusGet")

-----------------------------------------------------------------------------
(* processEvent on a reconcile event.                                      *)

\* Mutant: the ErrNotFound return is missing.
FetchUnchecked(w) ==
    /\ pc[w] = "fetch"
    /\ snap' = [snap EXCEPT ![w] = GetTask(cur[w].task)]
    /\ Goto(w, "prepare")
    /\ UNCHANGED <<storeVars, actor, call, pending, cur, seen, outcome>>

Fetch(w) ==
    /\ pc[w] = "fetch"
    /\ \/ /\ ~Exists(cur[w].task)
          /\ Finish(w, "ok")
       \/ /\ Exists(cur[w].task)
          /\ snap' = [snap EXCEPT ![w] = GetTask(cur[w].task)]
          /\ Goto(w, "prepare")
          /\ UNCHANGED <<pending, cur, seen, outcome>>
    /\ UNCHANGED <<storeVars, actor, call>>

\* Mutant: a failed reconcile returns before the status write.
PrepareSilent(w) ==
    /\ pc[w] = "prepare"
    /\ \/ /\ Goto(w, "ensure")
          /\ UNCHANGED <<snap, pending, cur, seen, outcome>>
       \/ /\ Faults \cap {"model", "substrate"} # {}
          /\ Finish(w, "reconcileFailed")
    /\ UNCHANGED <<storeVars, actor, call>>

\* Gateway, workspaces, Model, atespace, environment, template.
Prepare(w) ==
    /\ pc[w] = "prepare"
    /\ \/ /\ Goto(w, "ensure")
          /\ UNCHANGED snap
       \/ /\ Faults \cap {"model", "substrate"} # {}
          /\ EndReconcile(w, "Failed")
    /\ UNCHANGED <<storeVars, actor, call, pending, cur, seen, outcome>>

\* EnsureActor: CreateActor, and GetActor when the name is taken.
EnsureActor(w) ==
    LET t == cur[w].task IN
    /\ pc[w] = "ensure"
    /\ SetActor(t, Created(actor[t]))
    /\ Goto(w, IF actor[t] = "absent" THEN "actuate" ELSE "inspect")
    /\ UNCHANGED <<storeVars, call, pending, cur, snap, seen, outcome>>

InspectActor(w) ==
    LET a == actor[cur[w].task] IN
    /\ pc[w] = "inspect"
    /\ \/ a = "absent"   /\ EndReconcile(w, "Failed")
       \/ a = "crashed"  /\ Goto(w, "reap") /\ UNCHANGED snap
       \/ a = "deleting" /\ Goto(w, "recreate") /\ UNCHANGED snap
       \/ a \in {"suspended", "running"} /\ Goto(w, "actuate") /\ UNCHANGED snap
    /\ UNCHANGED <<storeVars, actor, call, pending, cur, seen, outcome>>

\* The result of this DeleteActor is discarded.
ReapActor(w) ==
    LET t == cur[w].task IN
    /\ pc[w] = "reap"
    /\ \/ SetActor(t, Deleted(actor[t]))
       \/ "substrate" \in Faults /\ UNCHANGED actor
    /\ Goto(w, "recreate")
    /\ UNCHANGED <<storeVars, call, pending, cur, snap, seen, outcome>>

\* Mutant: the retry has no bound.
RecreateForever(w) ==
    LET t == cur[w].task IN
    /\ pc[w] = "recreate"
    /\ actor[t] = "absent"
    /\ SetActor(t, Created(actor[t]))
    /\ Goto(w, "actuate")
    /\ UNCHANGED <<storeVars, call, pending, cur, snap, seen, outcome>>

\* The bounded retry of CreateActor: it creates the actor once the name is
\* free, or gives up after its last attempt found the name still taken.
RecreateActor(w) ==
    LET t == cur[w].task IN
    /\ pc[w] = "recreate"
    /\ SetActor(t, Created(actor[t]))
    /\ \/ actor[t] = "absent" /\ Goto(w, "actuate") /\ UNCHANGED snap
       \/ actor[t] # "absent" /\ EndReconcile(w, "Failed")
    /\ UNCHANGED <<storeVars, call, pending, cur, seen, outcome>>

\* Mutant: the error of SuspendActor or ResumeActor is not looked at.
ActuateUnchecked(w) ==
    LET t == cur[w].task IN
    /\ pc[w] = "actuate"
    /\ SetActor(t, Actuated(actor[t], snap[w].suspend))
    /\ EndReconcile(w, IF snap[w].suspend THEN "Suspended" ELSE "Running")
    /\ UNCHANGED <<storeVars, call, pending, cur, seen, outcome>>

\* SuspendActor or ResumeActor, as spec.suspend of the fetched task says.
ActuateActor(w) ==
    LET t == cur[w].task IN
    /\ pc[w] = "actuate"
    /\ SetActor(t, Actuated(actor[t], snap[w].suspend))
    /\ \/ actor[t] \notin {"suspended", "running"} /\ EndReconcile(w, "Failed")
       \/ /\ actor[t] \in {"suspended", "running"}
          /\ \/ snap[w].suspend /\ EndReconcile(w, "Suspended")
             \/ ~snap[w].suspend /\ EndReconcile(w, "Running")
    /\ UNCHANGED <<storeVars, call, pending, cur, seen, outcome>>

\* A Substrate call of reconcile fails, with or without its effect.
SubstrateError(w) ==
    LET t == cur[w].task IN
    /\ "substrate" \in Faults
    /\ \/ pc[w] \in {"ensure", "inspect", "recreate", "actuate"} /\ UNCHANGED actor
       \/ pc[w] \in {"ensure", "recreate"} /\ SetActor(t, Created(actor[t]))
       \/ pc[w] = "actuate" /\ SetActor(t, Actuated(actor[t], snap[w].suspend))
    /\ EndReconcile(w, "Failed")
    /\ UNCHANGED <<storeVars, call, pending, cur, seen, outcome>>

\* UpdateTaskStatus reads the record again and replaces its status ...
StatusGet(w) ==
    /\ pc[w] = "statusGet"
    /\ \/ /\ ~Exists(cur[w].task)
          /\ Finish(w, "reconcileFailed")
       \/ /\ Exists(cur[w].task)
          /\ seen' = [seen EXCEPT ![w] = SetPhase(GetTask(cur[w].task), snap[w].phase)]
          /\ Goto(w, "statusSet")
          /\ UNCHANGED <<pending, cur, snap, outcome>>
    /\ UNCHANGED <<storeVars, actor, call>>

\* ... and writes it back whole.
StatusSet(w) ==
    /\ pc[w] = "statusSet"
    /\ UpdateTaskStatusSet(cur[w].task, seen[w])
    /\ Finish(w, IF snap[w].phase = "Failed" THEN "reconcileFailed" ELSE "ok")
    /\ UNCHANGED <<actor, call>>

-----------------------------------------------------------------------------
(* processEvent on a delete event: ReconcileDelete, then DeleteTask.       *)

\* Mutant: the request lacks AnyState, so only a suspended actor is deleted.
DeleteActorSuspendedOnly(w) ==
    LET t == cur[w].task IN
    /\ pc[w] = "delActor"
    /\ SetActor(t, IF actor[t] = "suspended" THEN "deleting" ELSE actor[t])
    /\ Goto(w, "delRecord")
    /\ UNCHANGED <<storeVars, call, pending, cur, snap, seen, outcome>>

DeleteActor(w) ==
    LET t == cur[w].task IN
    /\ pc[w] = "delActor"
    /\ SetActor(t, Deleted(actor[t]))
    /\ Goto(w, "delRecord")
    /\ UNCHANGED <<storeVars, call, pending, cur, snap, seen, outcome>>

DeleteActorFails(w) ==
    LET t == cur[w].task IN
    /\ "substrate" \in Faults
    /\ pc[w] = "delActor"
    /\ \/ UNCHANGED actor
       \/ SetActor(t, Deleted(actor[t]))
    /\ Finish(w, "deleteFailed")
    /\ UNCHANGED <<storeVars, call>>

\* Mutant: the second phase of the deletion is missing.
DeleteRecordSkipped(w) ==
    /\ pc[w] = "delRecord"
    /\ Finish(w, "ok")
    /\ UNCHANGED <<storeVars, actor, call>>

DeleteRecord(w) ==
    /\ pc[w] = "delRecord"
    /\ DeleteTask(cur[w].task)
    /\ Finish(w, "ok")
    /\ UNCHANGED <<actor, call>>

\* A Redis call of processEvent fails, with or without its effect.
StoreError(w) ==
    /\ "store" \in Faults
    /\ \/ pc[w] \in {"fetch", "prepare", "statusGet", "statusSet", "delRecord"}
          /\ UNCHANGED storeVars
       \/ pc[w] = "statusSet"
          /\ UpdateTaskStatusSet(cur[w].task, seen[w])
       \/ pc[w] = "delRecord" /\ DeleteTask(cur[w].task)
    /\ Finish(w, IF pc[w] = "delRecord" THEN "deleteFailed" ELSE "reconcileFailed")
    /\ UNCHANGED <<actor, call>>

\* The worker dies: the event in progress and the rest of its batch stay in
\* the group's pending list under its old consumer name, which nobody reads.
Crash(w) ==
    /\ "crash" \in Faults
    /\ \/ pc[w] # "idle"
       \/ pending[w] # <<>>
    /\ Lose(IF pc[w] = "idle" THEN pending[w] ELSE Append(pending[w], cur[w]))
    /\ pending' = [pending EXCEPT ![w] = <<>>]
    /\ Goto(w, "idle")
    /\ cur' = [cur EXCEPT ![w] = NoEvent]
    /\ snap' = [snap EXCEPT ![w] = NoTask]
    /\ seen' = [seen EXCEPT ![w] = NoTask]
    /\ UNCHANGED <<storeVars, actor, call>>

-----------------------------------------------------------------------------
WorkerStep(w) ==
    \/ Read(w) \/ Next_(w)
    \/ Fetch(w) \/ Prepare(w) \/ EnsureActor(w) \/ InspectActor(w) \/ ReapActor(w)
    \/ RecreateActor(w) \/ ActuateActor(w) \/ StatusGet(w) \/ StatusSet(w)
    \/ DeleteActor(w) \/ DeleteRecord(w)

WorkerFault(w) ==
    \/ ReadLost(w) \/ SubstrateError(w) \/ DeleteActorFails(w) \/ StoreError(w)
    \/ Crash(w)

SubstrateNext == \E t \in Tasks : FinishDelete(t) \/ ActorCrash(t)

Next ==
    \/ ClientNext
    \/ \E w \in Workers : WorkerStep(w) \/ WorkerFault(w)
    \/ SubstrateNext

Spec == Init /\ [][Next]_vars

\* Worker.Run loops for as long as the process lives, so a worker that can
\* take a step takes one.  Nothing is assumed of clients or of Substrate.
FairSpec == Spec /\ \A w \in Workers : WF_vars(WorkerStep(w))

-----------------------------------------------------------------------------
(* Properties.                                                             *)

\* An event of t is still to be processed.
Owed(t) ==
    \/ Mentions(stream, t)
    \/ \E w \in Workers : Mentions(pending[w], t)

Quiet(t) ==
    /\ ~Owed(t)
    /\ \A w \in Workers : pc[w] # "idle" => cur[w].task # t

\* The stored record, its phase and the actor agree.  A running actor may
\* crash afterwards without anyone noticing: nothing watches actors.
Converged(t) ==
    \/ ~Exists(t) /\ actor[t] \in {"absent", "deleting"}
    \/ /\ Exists(t)
       /\ IF tasks[t].suspend THEN tasks[t].phase = "Suspended" /\ actor[t] = "suspended"
                              ELSE tasks[t].phase = "Running" /\ actor[t] \in {"running", "crashed"}

\* Once every event of a task has been handled and the last one succeeded,
\* the actor and the reported phase are what the record asks for, however
\* API calls, failures and earlier events interleaved (worker.go processEvent).
ConvergedWhenQuiet == \A t \in Tasks : Quiet(t) /\ outcome[t] = "ok" => Converged(t)

\* A record is gone only when its actor is torn down: DeleteTask "removes the
\* task record ... callers are expected to have cleaned up the task's actor
\* first", and no reconcile recreates the actor of a task that is gone.
NoOrphan == \A t \in Tasks : ~Exists(t) => actor[t] \in {"absent", "deleting"}

\* When the last event of a task was a reconcile that failed and Redis was
\* reachable, the stored phase says Failed (worker.go, the error branch).
FailureVisible ==
    "store" \notin Faults =>
        \A t \in Tasks : Quiet(t) /\ outcome[t] = "reconcileFailed" =>
            Exists(t) /\ tasks[t].phase = "Failed"

\* What a worker holds in memory between its calls is still true of the
\* shared state, or an event that will repair it is queued: the record it is
\* reconciling exists, its copies of the spec are current unless an event is
\* owed, the phase it is about to report is the actor's, and the actor of a
\* record it is about to remove is torn down (worker.go processEvent).
SnapshotCurrent(w) ==
    LET t == cur[w].task IN
    /\ pc[w] \in ReconcilePCs =>
        Exists(t) /\ (~Owed(t) => tasks[t].suspend = snap[w].suspend)
    /\ pc[w] = "statusSet" =>
        /\ seen[w].phase = snap[w].phase
        /\ ~Owed(t) => seen[w].suspend = snap[w].suspend

ReportTrue(w) ==
    pc[w] \in {"statusGet", "statusSet"} =>
        \/ snap[w].phase = "Failed"
        \/ /\ snap[w].phase = "Running"
           /\ ~snap[w].suspend
           /\ actor[cur[w].task] \in {"running", "crashed"}
        \/ /\ snap[w].phase = "Suspended"
           /\ snap[w].suspend
           /\ actor[cur[w].task] = "suspended"

TornDown(w) == pc[w] = "delRecord" => actor[cur[w].task] \in {"absent", "deleting"}

WorkerView == \A w \in Workers : SnapshotCurrent(w) /\ ReportTrue(w) /\ TornDown(w)

\* A settled task is in ListTasks, although MarkTaskDeleting and
\* UpdateTaskStatus write records without touching the index.
ListedWhenQuiet ==
    \A t \in Tasks : Quiet(t) /\ outcome[t] = "ok" /\ Exists(t) => t \in ListTasks

\* Once a delete event is published the record is eventually removed, also
\* when the task is applied again in the meantime.
DeleteOwed(t) ==
    LET asks(s) == \E i \in 1..Len(s) : s[i] = [task |-> t, action |-> "delete"]
    IN asks(stream) \/ \E w \in Workers : asks(pending[w])

DeleteCompletes == \A t \in Tasks : DeleteOwed(t) ~> ~Exists(t)

\* If clients stop calling, every task ends up converged or reported Failed,
\* and stays so.
Settles ==
    <>[][~ClientNext]_vars =>
        \A t \in Tasks :
            <>[](Quiet(t) /\ (Converged(t) \/ (Exists(t) /\ tasks[t].phase = "Failed")))
=============================================================================
