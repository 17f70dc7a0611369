----------------------------- MODULE RedisStore -----------------------------
(***************************************************************************)
(* The task half of the Redis store (internal/store/redis/store.go): the   *)
(* task records, the sorted-set index that ListTasks reads, and the stream *)
(* of task events.  Every operator below is ONE round trip to Redis, so it *)
(* is one atomic step: a MULTI/EXEC pipeline, or a single GET.  A method   *)
(* that makes two round trips (UpdateTaskStatus, MarkTaskDeleting) is two  *)
(* operators here, a read and a write, and its callers may interleave.     *)
(*                                                                         *)
(* A task record keeps what the control flow of the control plane depends  *)
(* on: spec.suspend and status.phase.  The two indexes (global and per     *)
(* atespace) are always written together and are one set here.             *)
(***************************************************************************)
EXTENDS Naturals, Sequences

CONSTANTS
    Tasks,      \* atespace/name keys
    NoTask,     \* what GET returns for a missing key (store.ErrNotFound)
    SubmittedPhases, \* what clients put in status.phase of a manifest
    MaxStream   \* bound on undelivered events, for model checking

Phases == {"Pending", "Running", "Suspended", "Failed", "Terminating"}

Record == [suspend : BOOLEAN, phase : Phases]

Event == [task : Tasks, action : {"reconcile", "delete"}]

ASSUME StoreAssumption ==
    /\ NoTask \notin Record
    /\ SubmittedPhases \subseteq Phases \cup {""}
    /\ MaxStream \in Nat

VARIABLES
    tasks,      \* the record stored under each key, or NoTask
    index,      \* the members of the task index
    stream      \* events the consumer group has not been handed yet

storeVars == <<tasks, index, stream>>

StoreTypeOK ==
    /\ tasks \in [Tasks -> Record \cup {NoTask}]
    /\ index \in SUBSET Tasks
    /\ stream \in Seq(Event)

StoreInit ==
    /\ tasks = [t \in Tasks |-> NoTask]
    /\ index = {}
    /\ stream = <<>>

-----------------------------------------------------------------------------
\* A task in memory with one field assigned.
SetPhase(task, phase) == [suspend |-> task.suspend, phase |-> phase]

SetSuspend(task, suspend) == [suspend |-> suspend, phase |-> task.phase]

GetTask(t) == tasks[t]

Exists(t) == tasks[t] # NoTask

\* XADD.  The stream is bounded here only so that TLC terminates.
Publish(t, action) ==
    /\ Len(stream) < MaxStream
    /\ stream' = Append(stream, [task |-> t, action |-> action])

\* A manifest.  The empty phase is the usual case and is stored as Pending;
\* a phase the client did send is stored as it is.
Submitted == [suspend : BOOLEAN, phase : SubmittedPhases]

DefaultPhase(task) ==
    IF task.phase = "" THEN SetPhase(task, "Pending") ELSE task

\* Mutant: the pipeline lacks its XADD.
SaveTaskNoEvent(t, task) ==
    /\ tasks' = [tasks EXCEPT ![t] = DefaultPhase(task)]
    /\ index' = index \cup {t}
    /\ UNCHANGED stream

\* Mutant: the pipeline lacks its ZADDs.
SaveTaskUnindexed(t, task) ==
    /\ tasks' = [tasks EXCEPT ![t] = DefaultPhase(task)]
    /\ Publish(t, "reconcile")
    /\ UNCHANGED index

SaveTask(t, task) ==
    /\ tasks' = [tasks EXCEPT ![t] = DefaultPhase(task)]
    /\ index' = index \cup {t}
    /\ Publish(t, "reconcile")

\* UpdateTaskStatus reads the record, replaces its status in memory and
\* writes the whole record back: no event, and not the index.
UpdateTaskStatusSet(t, task) ==
    /\ tasks' = [tasks EXCEPT ![t] = task]
    /\ UNCHANGED <<index, stream>>

\* MarkTaskDeleting, likewise, with the phase Terminating and a delete event.
MarkTaskDeletingSet(t, task) ==
    /\ tasks' = [tasks EXCEPT ![t] = task]
    /\ Publish(t, "delete")
    /\ UNCHANGED index

DeleteTask(t) ==
    /\ tasks' = [tasks EXCEPT ![t] = NoTask]
    /\ index' = index \ {t}
    /\ UNCHANGED stream

\* The tasks ListTasks returns: an index member whose record is gone is
\* skipped, a record that is not in the index is never seen.
ListTasks == {t \in index : Exists(t)}
=============================================================================
