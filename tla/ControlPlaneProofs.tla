------------------------- MODULE ControlPlaneProofs -------------------------
(***************************************************************************)
(* Theorems about ControlPlane for every set of tasks, workers and clients *)
(* and every choice of faults.                                             *)
(***************************************************************************)
EXTENDS ControlPlane, TLAPS

-----------------------------------------------------------------------------
(* Sequences of events.                                                    *)

\* XREADGROUP splits the undelivered events in two: no event is invented,
\* dropped or duplicated (redis/store.go, subscription.read).
LEMMA BatchSplits ==
    ASSUME stream \in Seq(Event)
    PROVE  /\ Batch \in Seq(Event)
           /\ Unread \in Seq(Event)
           /\ \A t \in Tasks : Mentions(stream, t) <=> Mentions(Batch, t) \/ Mentions(Unread, t)
<1>1. BatchLen \in 0..Len(stream)
  BY ControlPlaneAssumption DEF BatchLen
<1>2. /\ Batch \in Seq(Event) /\ Len(Batch) = BatchLen
      /\ \A i \in 1..BatchLen : Batch[i] = stream[i]
  BY <1>1 DEF Batch
<1>3. /\ Unread \in Seq(Event) /\ Len(Unread) = Len(stream) - BatchLen
      /\ \A i \in 1..(Len(stream) - BatchLen) : Unread[i] = stream[BatchLen + i]
  BY <1>1 DEF Unread
<1>4. ASSUME NEW t \in Tasks
      PROVE  Mentions(stream, t) <=> Mentions(Batch, t) \/ Mentions(Unread, t)
  <2>1. ASSUME NEW i \in 1..Len(stream), stream[i].task = t
        PROVE  Mentions(Batch, t) \/ Mentions(Unread, t)
    <3>1. CASE i <= BatchLen
      BY <1>1, <1>2, <2>1, <3>1 DEF Mentions
    <3>2. CASE i > BatchLen
      <4>1. i - BatchLen \in 1..(Len(stream) - BatchLen)
        BY <1>1, <3>2
      <4>2. Unread[i - BatchLen] = stream[i]
        BY <1>1, <1>3, <4>1
      <4> QED BY <1>3, <2>1, <4>1, <4>2 DEF Mentions
    <3> QED BY <1>1, <3>1, <3>2
  <2>2. Mentions(Batch, t) => Mentions(stream, t)
    BY <1>1, <1>2 DEF Mentions
  <2>3. Mentions(Unread, t) => Mentions(stream, t)
    BY <1>1, <1>3 DEF Mentions
  <2> QED BY <2>1, <2>2, <2>3 DEF Mentions
<1> QED BY <1>2, <1>3, <1>4

\* XADD appends one event of task t and leaves what is owed to others alone.
LEMMA PublishOwes ==
    ASSUME stream \in Seq(Event), NEW t \in Tasks, NEW a \in {"reconcile", "delete"},
           Publish(t, a), UNCHANGED pending
    PROVE  /\ stream' \in Seq(Event)
           /\ Owed(t)'
           /\ \A u \in Tasks : u # t => (Owed(u)' <=> Owed(u))
<1> DEFINE e == [task |-> t, action |-> a]
<1>1. /\ e \in Event /\ stream' = Append(stream, e)
  BY DEF Publish, Event
<1>2. /\ stream' \in Seq(Event) /\ Len(stream') = Len(stream) + 1
      /\ stream'[Len(stream) + 1] = e
      /\ \A i \in 1..Len(stream) : stream'[i] = stream[i]
  BY <1>1
<1>3. Mentions(stream', t)
  <2>1. Len(stream) + 1 \in 1..Len(stream')
    BY <1>2
  <2> QED BY <1>2, <2>1 DEF Mentions
<1>4. ASSUME NEW u \in Tasks, u # t PROVE Mentions(stream', u) <=> Mentions(stream, u)
  <2>1. \A i \in 1..Len(stream') : i \in 1..Len(stream) \/ i = Len(stream) + 1
    BY <1>2
  <2>2. 1..Len(stream) \subseteq 1..Len(stream')
    BY <1>2
  <2> QED BY <1>2, <1>4, <2>1, <2>2 DEF Mentions
<1> QED BY <1>2, <1>3, <1>4 DEF Owed

\* A step that touches neither the stream nor a batch changes nothing owed.
LEMMA OwedSame ==
    ASSUME UNCHANGED <<stream, pending>>
    PROVE  \A t \in Tasks : Owed(t)' <=> Owed(t)
BY DEF Owed, Mentions

-----------------------------------------------------------------------------
(* Type correctness.                                                       *)

\* Every remote call of every handler keeps the records, events, actor
\* states and in-memory copies well formed; in particular a worker never
\* reaches a status write without a record in hand (worker.go, server.go).
LEMMA TypeInit == Init => TypeOK
BY DEF Init, StoreInit, TypeOK, StoreTypeOK, ActorStates, PCs, ReconcilePCs, Outcomes

\* Assigning a field of a task yields a task.
LEMMA FieldTypes ==
    ASSUME NEW r \in Record
    PROVE  /\ \A p \in Phases : SetPhase(r, p) \in Record
           /\ \A b \in BOOLEAN : SetSuspend(r, b) \in Record
           /\ r.phase \in Phases
           /\ r.suspend \in BOOLEAN
BY DEF Record, SetPhase, SetSuspend

\* Where reconcile ends, the fetched task carries the new phase.
LEMMA EndReconcileType ==
    ASSUME TypeOK, NEW w \in Workers, pc[w] \in ReconcilePCs,
           NEW p \in {"Running", "Suspended", "Failed"}, EndReconcile(w, p)
    PROVE  /\ snap' \in [Workers -> Record \cup {NoTask}]
           /\ snap' = [snap EXCEPT ![w] = SetPhase(snap[w], p)]
           /\ snap'[w] \in Record
           /\ pc' = [pc EXCEPT ![w] = "statusGet"]
<1>1. snap[w] \in Record /\ p \in Phases
  BY DEF TypeOK, Phases
<1>2. SetPhase(snap[w], p) \in Record
  BY <1>1, FieldTypes
<1> QED BY <1>2 DEF TypeOK, EndReconcile, Goto

\* When processEvent returns, the worker forgets the event.
LEMMA FinishType ==
    ASSUME TypeOK, NEW w \in Workers, pc[w] # "idle", NEW r \in Outcomes, Finish(w, r)
    PROVE  /\ pending' \in [Workers -> Seq(Event)]
           /\ pc' \in [Workers -> PCs]
           /\ cur' \in [Workers -> Event \cup {NoEvent}]
           /\ snap' \in [Workers -> Record \cup {NoTask}]
           /\ seen' \in [Workers -> Record \cup {NoTask}]
           /\ outcome' \in [Tasks -> Outcomes]
           /\ \A v \in Workers :
                /\ pc'[v] # "idle" => cur'[v] \in Event
                /\ pc'[v] \in ReconcilePCs => snap'[v] \in Record
                /\ pc'[v] = "statusSet" => seen'[v] \in Record
<1>1. cur[w].task \in Tasks
  BY DEF TypeOK, Event
<1>2. "idle" \in PCs /\ "idle" \notin ReconcilePCs
  BY DEF PCs, ReconcilePCs
<1> QED BY <1>1, <1>2 DEF TypeOK, Finish, Goto

\* A step of reconcile that only moves on, or only touches the actor.
LEMMA GotoTypeOK ==
    ASSUME TypeOK, NEW w \in Workers, pc[w] \in ReconcilePCs,
           NEW l \in ReconcilePCs \ {"statusSet"}, Goto(w, l),
           actor' \in [Tasks -> ActorStates],
           UNCHANGED <<storeVars, call, pending, cur, snap, seen, outcome>>
    PROVE  TypeOK'
<1>1. StoreTypeOK'
  BY DEF TypeOK, StoreTypeOK, storeVars
<1>2. pc' = [pc EXCEPT ![w] = l] /\ l \in PCs /\ pc[w] # "idle"
  BY DEF Goto, PCs, ReconcilePCs
<1> QED BY <1>1, <1>2 DEF TypeOK

\* A step that ends reconcile.
LEMMA EndReconcileTypeOK ==
    ASSUME TypeOK, NEW w \in Workers, pc[w] \in ReconcilePCs,
           NEW p \in {"Running", "Suspended", "Failed"}, EndReconcile(w, p),
           actor' \in [Tasks -> ActorStates],
           UNCHANGED <<storeVars, call, pending, cur, seen, outcome>>
    PROVE  TypeOK'
<1>1. StoreTypeOK'
  BY DEF TypeOK, StoreTypeOK, storeVars
<1>2. /\ snap' \in [Workers -> Record \cup {NoTask}]
      /\ snap' = [snap EXCEPT ![w] = SetPhase(snap[w], p)]
      /\ snap'[w] \in Record
      /\ pc' = [pc EXCEPT ![w] = "statusGet"]
  BY EndReconcileType
<1>3. "statusGet" \in PCs /\ pc[w] # "idle"
  BY DEF PCs, ReconcilePCs
<1> QED BY <1>1, <1>2, <1>3 DEF TypeOK

\* A step that ends processEvent.
LEMMA FinishTypeOK ==
    ASSUME TypeOK, NEW w \in Workers, pc[w] # "idle", NEW r \in Outcomes, Finish(w, r),
           StoreTypeOK', actor' \in [Tasks -> ActorStates], UNCHANGED call
    PROVE  TypeOK'
BY FinishType DEF TypeOK

\* A round trip of an API call keeps the types.
LEMMA TypeClient == TypeOK /\ ClientNext => TypeOK'
<1> SUFFICES ASSUME TypeOK, ClientNext PROVE TypeOK'
  OBVIOUS
<1> USE DEF TypeOK, StoreTypeOK, workerVars, storeVars
<1>1. ASSUME NEW t \in Tasks, NEW task, DefaultPhase(task) \in Record, SaveTask(t, task), UNCHANGED pending
      PROVE StoreTypeOK'
  BY <1>1, PublishOwes DEF SaveTask
<1>2. PICK c \in Clients :
        \/ \E t \in Tasks :
            \/ \E task \in Submitted : UpdateTask(c, t, task)
            \/ SuspendTask(c, t)
            \/ ResumeTask(c, t)
            \/ DeleteTaskGet(c, t)
        \/ SetSuspendSave(c)
        \/ DeleteTaskMark(c)
        \/ CallAborts(c)
  BY DEF ClientNext
<1>3. ASSUME NEW t \in Tasks, NEW task \in Submitted, UpdateTask(c, t, task) PROVE TypeOK'
  <2>1. DefaultPhase(task) \in Record
    BY StoreAssumption DEF DefaultPhase, SetPhase, Submitted, Record, Phases
  <2> QED BY <1>1, <1>3, <2>1 DEF UpdateTask
<1>4. ASSUME NEW t \in Tasks, NEW b \in BOOLEAN, SetSuspendGet(c, t, b) PROVE TypeOK'
  <2>1. tasks[t] \in Record
    BY <1>4 DEF SetSuspendGet, Exists
  <2>2. [op |-> "save", task |-> t, rec |-> SetSuspend(GetTask(t), b)] \in Call
    BY <2>1 DEF GetTask, SetSuspend, Call, Record
  <2> QED BY <1>4, <2>2 DEF SetSuspendGet
<1>5. ASSUME NEW t \in Tasks, DeleteTaskGet(c, t) PROVE TypeOK'
  <2>1. tasks[t] \in Record
    BY <1>5 DEF DeleteTaskGet, Exists
  <2>2. [op |-> "mark", task |-> t, rec |-> SetPhase(GetTask(t), "Terminating")] \in Call
    BY <2>1 DEF GetTask, SetPhase, Call, Record, Phases
  <2> QED BY <1>5, <2>2 DEF DeleteTaskGet
<1>6. call[c].op \in {"save", "mark"} => call[c] \in Call
  BY DEF NoCall
<1>7. CASE SetSuspendSave(c)
  <2>1. call[c].task \in Tasks /\ call[c].rec \in Record
    BY <1>6, <1>7 DEF SetSuspendSave, Call
  <2>2. DefaultPhase(call[c].rec) \in Record
    BY <2>1 DEF DefaultPhase, SetPhase, Record, Phases
  <2> QED BY <1>1, <1>7, <2>1, <2>2 DEF SetSuspendSave
<1>8. CASE DeleteTaskMark(c)
  <2>1. call[c].task \in Tasks /\ call[c].rec \in Record
    BY <1>6, <1>8 DEF DeleteTaskMark, Call
  <2>2. StoreTypeOK'
    BY <1>8, <2>1, PublishOwes DEF DeleteTaskMark, MarkTaskDeletingSet
  <2> QED BY <1>8, <2>2 DEF DeleteTaskMark
<1>9. CASE CallAborts(c)
  BY <1>9 DEF CallAborts
<1> QED BY <1>2, <1>3, <1>4, <1>5, <1>7, <1>8, <1>9 DEF SuspendTask, ResumeTask

\* The parts of the type invariant that speak of one worker.
LEMMA TypeWorkerStep == ASSUME NEW w \in Workers PROVE TypeOK /\ WorkerStep(w) => TypeOK'
<1> SUFFICES ASSUME TypeOK, WorkerStep(w) PROVE TypeOK'
  OBVIOUS
<1>t. /\ actor \in [Tasks -> ActorStates]
      /\ pc[w] # "idle" => cur[w] \in Event /\ cur[w].task \in Tasks
      /\ pc[w] \in ReconcilePCs => snap[w] \in Record
      /\ pc[w] = "statusSet" => seen[w] \in Record
  BY DEF TypeOK, Event
<1>u. ASSUME UNCHANGED storeVars PROVE StoreTypeOK'
  BY <1>u DEF TypeOK, StoreTypeOK, storeVars
<1>1. CASE Read(w)
  BY <1>1, BatchSplits DEF Read, TypeOK, StoreTypeOK
<1>2. CASE Next_(w)
  <2>1. Head(pending[w]) \in Event /\ Tail(pending[w]) \in Seq(Event)
    BY <1>2 DEF Next_, TypeOK
  <2> QED BY <1>2, <1>u, <2>1 DEF Next_, TypeOK, PCs, ReconcilePCs, DeletePCs
<1>3. CASE Fetch(w)
  <2>1. CASE Exists(cur[w].task)
    <3>1. GetTask(cur[w].task) \in Record
      BY <1>3, <1>t, <2>1 DEF Fetch, Exists, GetTask, TypeOK, StoreTypeOK
    <3> QED BY <1>3, <1>u, <2>1, <3>1 DEF Fetch, Goto, TypeOK, PCs, ReconcilePCs
  <2>2. CASE ~Exists(cur[w].task)
    <3>1. Finish(w, "ok") /\ "ok" \in Outcomes /\ pc[w] # "idle"
      BY <1>3, <2>2 DEF Fetch, Outcomes
    <3>2. UNCHANGED <<storeVars, actor, call>>
      BY <1>3 DEF Fetch
    <3> QED BY <1>t, <1>u, <3>1, <3>2, FinishTypeOK
  <2> QED BY <2>1, <2>2
<1>4. CASE Prepare(w)
  <2>1. /\ pc[w] \in ReconcilePCs
        /\ "ensure" \in ReconcilePCs \ {"statusSet"}
        /\ UNCHANGED <<storeVars, actor, call, pending, cur, seen, outcome>>
    BY <1>4 DEF Prepare, ReconcilePCs
  <2>2. CASE EndReconcile(w, "Failed")
    BY <1>t, <2>1, <2>2, EndReconcileTypeOK
  <2>3. CASE Goto(w, "ensure") /\ UNCHANGED snap
    BY <1>t, <2>1, <2>3, GotoTypeOK
  <2> QED BY <1>4, <2>2, <2>3 DEF Prepare
<1>5. CASE EnsureActor(w)
  <2>1. /\ pc[w] \in ReconcilePCs /\ pc[w] # "idle"
        /\ {"actuate", "inspect"} \subseteq ReconcilePCs \ {"statusSet"}
        /\ UNCHANGED <<storeVars, call, pending, cur, snap, seen, outcome>>
    BY <1>5 DEF EnsureActor, ReconcilePCs
  <2>2. actor' \in [Tasks -> ActorStates]
    BY <1>5, <1>t, <2>1 DEF EnsureActor, SetActor, Created, ActorStates
  <2>3. PICK l \in {"actuate", "inspect"} : Goto(w, l)
    BY <1>5 DEF EnsureActor
  <2> QED BY <2>1, <2>2, <2>3, GotoTypeOK
<1>6. CASE InspectActor(w)
  <2>1. /\ pc[w] \in ReconcilePCs
        /\ {"reap", "recreate", "actuate"} \subseteq ReconcilePCs \ {"statusSet"}
        /\ UNCHANGED <<storeVars, actor, call, pending, cur, seen, outcome>>
    BY <1>6 DEF InspectActor, ReconcilePCs
  <2>2. CASE EndReconcile(w, "Failed")
    BY <1>t, <2>1, <2>2, EndReconcileTypeOK
  <2>3. ASSUME NEW l \in {"reap", "recreate", "actuate"}, Goto(w, l), UNCHANGED snap
        PROVE  TypeOK'
    BY <1>t, <2>1, <2>3, GotoTypeOK
  <2> QED BY <1>6, <2>2, <2>3 DEF InspectActor
<1>7. CASE ReapActor(w)
  <2>1. /\ pc[w] \in ReconcilePCs /\ pc[w] # "idle"
        /\ "recreate" \in ReconcilePCs \ {"statusSet"}
        /\ Goto(w, "recreate")
        /\ UNCHANGED <<storeVars, call, pending, cur, snap, seen, outcome>>
    BY <1>7 DEF ReapActor, ReconcilePCs
  <2>2. actor' \in [Tasks -> ActorStates]
    BY <1>7, <1>t, <2>1 DEF ReapActor, SetActor, Deleted, ActorStates
  <2> QED BY <2>1, <2>2, GotoTypeOK
<1>8. CASE RecreateActor(w)
  <2>1. /\ pc[w] \in ReconcilePCs /\ pc[w] # "idle"
        /\ "actuate" \in ReconcilePCs \ {"statusSet"}
        /\ UNCHANGED <<storeVars, call, pending, cur, seen, outcome>>
    BY <1>8 DEF RecreateActor, ReconcilePCs
  <2>2. actor' \in [Tasks -> ActorStates]
    BY <1>8, <1>t, <2>1 DEF RecreateActor, SetActor, Created, ActorStates
  <2>3. CASE EndReconcile(w, "Failed")
    BY <2>1, <2>2, <2>3, EndReconcileTypeOK
  <2>4. CASE Goto(w, "actuate") /\ UNCHANGED snap
    BY <2>1, <2>2, <2>4, GotoTypeOK
  <2> QED BY <1>8, <2>3, <2>4 DEF RecreateActor
<1>9. CASE ActuateActor(w)
  <2>1. /\ pc[w] \in ReconcilePCs /\ pc[w] # "idle"
        /\ UNCHANGED <<storeVars, call, pending, cur, seen, outcome>>
    BY <1>9 DEF ActuateActor, ReconcilePCs
  <2>2. actor' \in [Tasks -> ActorStates]
    BY <1>9, <1>t, <2>1 DEF ActuateActor, SetActor, Actuated, ActorStates
  <2>3. ASSUME NEW p \in {"Running", "Suspended", "Failed"}, EndReconcile(w, p) PROVE TypeOK'
    BY <2>1, <2>2, <2>3, EndReconcileTypeOK
  <2> QED BY <1>9, <2>3 DEF ActuateActor
<1>10. CASE StatusGet(w)
  <2>1. pc[w] = "statusGet" /\ UNCHANGED <<storeVars, actor, call>>
    BY <1>10 DEF StatusGet
  <2>2. cur[w] \in Event /\ cur[w].task \in Tasks /\ snap[w] \in Record
    BY <1>t, <2>1 DEF ReconcilePCs
  <2>3. CASE Exists(cur[w].task)
    <3>1. GetTask(cur[w].task) \in Record /\ snap[w].phase \in Phases
      BY <2>2, <2>3, FieldTypes DEF Exists, GetTask, TypeOK, StoreTypeOK
    <3>2. SetPhase(GetTask(cur[w].task), snap[w].phase) \in Record
      BY <3>1, FieldTypes
    <3>3. /\ seen' = [seen EXCEPT ![w] = SetPhase(GetTask(cur[w].task), snap[w].phase)]
          /\ pc' = [pc EXCEPT ![w] = "statusSet"]
          /\ UNCHANGED <<pending, cur, snap, outcome>>
      BY <1>10, <2>3 DEF StatusGet, Goto
    <3>4. "statusSet" \in PCs
      BY DEF PCs, ReconcilePCs
    <3> QED BY <1>u, <2>1, <2>2, <3>2, <3>3, <3>4 DEF TypeOK
  <2>4. CASE ~Exists(cur[w].task)
    <3>1. Finish(w, "reconcileFailed") /\ "reconcileFailed" \in Outcomes
      BY <1>10, <2>4 DEF StatusGet, Outcomes
    <3> QED BY <1>t, <1>u, <2>1, <3>1, FinishTypeOK
  <2> QED BY <2>3, <2>4
<1>11. CASE StatusSet(w)
  <2>1. /\ pc[w] = "statusSet" /\ UNCHANGED <<actor, call>>
        /\ UpdateTaskStatusSet(cur[w].task, seen[w])
    BY <1>11 DEF StatusSet
  <2>2. StoreTypeOK'
    BY <1>t, <2>1 DEF UpdateTaskStatusSet, TypeOK, StoreTypeOK
  <2>3. PICK r \in Outcomes : Finish(w, r)
    BY <1>11 DEF StatusSet, Outcomes
  <2> QED BY <1>t, <2>1, <2>2, <2>3, FinishTypeOK
<1>12. CASE DeleteActor(w)
  <2>1. /\ pc[w] = "delActor"
        /\ pc' = [pc EXCEPT ![w] = "delRecord"]
        /\ UNCHANGED <<storeVars, call, pending, cur, snap, seen, outcome>>
    BY <1>12 DEF DeleteActor, Goto
  <2>2. actor' \in [Tasks -> ActorStates]
    BY <1>12, <1>t DEF DeleteActor, SetActor, Deleted, ActorStates
  <2>3. "delRecord" \in PCs /\ "delRecord" \notin ReconcilePCs
    BY DEF PCs, ReconcilePCs, DeletePCs
  <2> QED BY <1>u, <2>1, <2>2, <2>3 DEF TypeOK
<1>13. CASE DeleteRecord(w)
  <2>1. /\ pc[w] = "delRecord" /\ UNCHANGED <<actor, call>>
        /\ Finish(w, "ok") /\ "ok" \in Outcomes
    BY <1>13 DEF DeleteRecord, Outcomes
  <2>2. StoreTypeOK'
    BY <1>13, <1>t DEF DeleteRecord, DeleteTask, TypeOK, StoreTypeOK
  <2> QED BY <1>t, <2>1, <2>2, FinishTypeOK
<1> QED BY <1>1, <1>2, <1>3, <1>4, <1>5, <1>6, <1>7, <1>8, <1>9, <1>10, <1>11, <1>12, <1>13
        DEF WorkerStep

\* So do a failing call and a crash of a worker.
LEMMA TypeWorkerFault == ASSUME NEW w \in Workers PROVE TypeOK /\ WorkerFault(w) => TypeOK'
<1> SUFFICES ASSUME TypeOK, WorkerFault(w) PROVE TypeOK'
  OBVIOUS
<1>t. /\ actor \in [Tasks -> ActorStates]
      /\ pc[w] # "idle" => cur[w].task \in Tasks
      /\ pc[w] = "statusSet" => seen[w] \in Record
  BY DEF TypeOK, Event
<1>u. ASSUME UNCHANGED storeVars PROVE StoreTypeOK'
  BY <1>u DEF TypeOK, StoreTypeOK, storeVars
<1>1. CASE ReadLost(w)
  BY <1>1, BatchSplits DEF ReadLost, Lose, Outcomes, TypeOK, StoreTypeOK, workerVars
<1>2. CASE SubstrateError(w)
  <2>1. /\ pc[w] \in ReconcilePCs /\ pc[w] # "idle"
        /\ EndReconcile(w, "Failed")
        /\ UNCHANGED <<storeVars, call, pending, cur, seen, outcome>>
    BY <1>2 DEF SubstrateError, ReconcilePCs
  <2>2. actor' \in [Tasks -> ActorStates]
    BY <1>2, <1>t, <2>1 DEF SubstrateError, SetActor, Created, Actuated, ActorStates
  <2> QED BY <2>1, <2>2, EndReconcileTypeOK
<1>3. CASE DeleteActorFails(w)
  <2>1. /\ pc[w] = "delActor" /\ UNCHANGED <<storeVars, call>>
        /\ Finish(w, "deleteFailed") /\ "deleteFailed" \in Outcomes
    BY <1>3 DEF DeleteActorFails, Outcomes
  <2>2. actor' \in [Tasks -> ActorStates]
    BY <1>3, <1>t DEF DeleteActorFails, SetActor, Deleted, ActorStates
  <2> QED BY <1>u, <2>1, <2>2, FinishTypeOK
<1>4. CASE StoreError(w)
  <2>1. pc[w] # "idle" /\ UNCHANGED <<actor, call>>
    BY <1>4 DEF StoreError
  <2>2. StoreTypeOK'
    BY <1>4, <1>t, <2>1 DEF StoreError, UpdateTaskStatusSet, DeleteTask, TypeOK, StoreTypeOK, storeVars
  <2>3. PICK r \in Outcomes : Finish(w, r)
    BY <1>4 DEF StoreError, Outcomes
  <2> QED BY <1>t, <2>1, <2>2, <2>3, FinishTypeOK
<1>5. CASE Crash(w)
  <2>1. "idle" \in PCs /\ "idle" \notin ReconcilePCs
    BY DEF PCs, ReconcilePCs
  <2> QED BY <1>5, <1>u, <2>1 DEF Crash, Lose, Goto, Outcomes, TypeOK
<1> QED BY <1>1, <1>2, <1>3, <1>4, <1>5 DEF WorkerFault

\* So does what Substrate does by itself.
LEMMA TypeSubstrate == TypeOK /\ SubstrateNext => TypeOK'
BY DEF SubstrateNext, FinishDelete, ActorCrash, SetActor, ActorStates, TypeOK, StoreTypeOK,
       workerVars, storeVars

\* Type correctness of the control plane, for any number of controllers and
\* concurrent API calls and whatever fails.
THEOREM TypeCorrect == Spec => []TypeOK
<1>1. TypeOK /\ [Next]_vars => TypeOK'
  <2>1. TypeOK /\ UNCHANGED vars => TypeOK'
    BY DEF TypeOK, StoreTypeOK, vars
  <2> QED BY <2>1, TypeClient, TypeWorkerStep, TypeWorkerFault, TypeSubstrate DEF Next
<1> QED BY TypeInit, <1>1, PTL DEF Spec

-----------------------------------------------------------------------------
(* One controller: records, phases and actors agree.                       *)

\* The deployment runs a single controller (deploy/ax-controller.yaml).
SingleController == \A v, w \in Workers : v = w

\* What the theorems below say of one task.
TaskOK(t) ==
    /\ ~Exists(t) => actor[t] \in {"absent", "deleting"}
    /\ Quiet(t) /\ outcome[t] = "ok" => Converged(t)
    /\ "store" \notin Faults /\ Quiet(t) /\ outcome[t] = "reconcileFailed" =>
        Exists(t) /\ tasks[t].phase = "Failed"

AllTasksOK == \A t \in Tasks : TaskOK(t)

\* The inductive invariant: the promises about idle tasks need WorkerView,
\* which says why the write a worker is about to make will keep them.
Inv == TypeOK /\ WorkerView /\ AllTasksOK

\* The invariant holds before anything has happened.
LEMMA InvInit == Init => Inv
<1> SUFFICES ASSUME Init PROVE Inv
  OBVIOUS
<1>1. WorkerView
  BY DEF Init, WorkerView, SnapshotCurrent, ReportTrue, TornDown, ReconcilePCs
<1>2. AllTasksOK
  BY DEF Init, StoreInit, AllTasksOK, TaskOK, Exists, Converged
<1> QED BY <1>1, <1>2, TypeInit DEF Inv

\* An API call that writes a record owes the controller an event, so nothing
\* that is promised of quiet tasks or of current snapshots is at stake.
LEMMA ClientWrite ==
    ASSUME Inv, NEW t \in Tasks, NEW r \in Record, NEW a \in {"reconcile", "delete"},
           tasks' = [tasks EXCEPT ![t] = r], Publish(t, a),
           UNCHANGED <<actor, pending, pc, cur, snap, seen, outcome>>
    PROVE  WorkerView' /\ AllTasksOK'
<1>1. /\ Owed(t)'
      /\ \A u \in Tasks : u # t => (Owed(u)' <=> Owed(u))
  BY PublishOwes DEF Inv, TypeOK, StoreTypeOK
<1>2. Exists(t)' /\ \A u \in Tasks : u # t => (tasks'[u] = tasks[u])
  BY StoreAssumption DEF Inv, TypeOK, StoreTypeOK, Exists
<1>3. ASSUME NEW u \in Tasks PROVE TaskOK(u)'
  <2>1. CASE u = t
    BY <1>1, <1>2, <2>1 DEF TaskOK, Quiet
  <2>2. CASE u # t
    <3>1. Quiet(u)' => Quiet(u)
      BY <1>1, <2>2 DEF Quiet
    <3> QED BY <1>2, <2>2, <3>1 DEF Inv, AllTasksOK, TaskOK, Exists, Converged
  <2> QED BY <2>1, <2>2
<1>4. ASSUME NEW w \in Workers PROVE (SnapshotCurrent(w) /\ ReportTrue(w) /\ TornDown(w))'
  <2>1. ReportTrue(w)' /\ TornDown(w)'
    BY DEF Inv, WorkerView, ReportTrue, TornDown
  <2>2. SnapshotCurrent(w)'
    <3>1. CASE pc[w] \notin ReconcilePCs
      BY <3>1 DEF SnapshotCurrent, ReconcilePCs
    <3>2. CASE pc[w] \in ReconcilePCs
      <4>1. cur[w].task \in Tasks
        BY <3>2 DEF Inv, TypeOK, Event, ReconcilePCs
      <4>2. CASE cur[w].task = t
        BY <1>1, <1>2, <3>2, <4>2 DEF Inv, WorkerView, SnapshotCurrent
      <4>3. CASE cur[w].task # t
        BY <1>1, <1>2, <3>2, <4>1, <4>3 DEF Inv, WorkerView, SnapshotCurrent, Exists
      <4> QED BY <4>2, <4>3
    <3> QED BY <3>1, <3>2
  <2> QED BY <2>1, <2>2
<1> QED BY <1>3, <1>4 DEF AllTasksOK, WorkerView

\* An API write that outdates what the worker remembers publishes an event.
LEMMA InvClient == Inv /\ ClientNext => WorkerView' /\ AllTasksOK'
<1> SUFFICES ASSUME Inv, ClientNext PROVE WorkerView' /\ AllTasksOK'
  OBVIOUS
<1>1. PICK c \in Clients :
        \/ \E t \in Tasks :
            \/ \E task \in Submitted : UpdateTask(c, t, task)
            \/ SuspendTask(c, t)
            \/ ResumeTask(c, t)
            \/ DeleteTaskGet(c, t)
        \/ SetSuspendSave(c)
        \/ DeleteTaskMark(c)
        \/ CallAborts(c)
  BY DEF ClientNext
<1>2. ASSUME UNCHANGED <<tasks, stream, actor, pending, pc, cur, snap, seen, outcome>>
      PROVE  WorkerView' /\ AllTasksOK'
  <2>1. \A t \in Tasks : (Owed(t)' <=> Owed(t)) /\ (Quiet(t)' <=> Quiet(t))
    BY <1>2, OwedSame DEF Quiet
  <2>2. AllTasksOK'
    BY <1>2, <2>1 DEF Inv, AllTasksOK, TaskOK, Exists, Converged
  <2>3. \A w \in Workers : pc[w] # "idle" => cur[w].task \in Tasks
    BY DEF Inv, TypeOK, Event
  <2>4. WorkerView'
    BY <1>2, <2>1, <2>3 DEF Inv, WorkerView, SnapshotCurrent, ReportTrue, TornDown, Exists, ReconcilePCs
  <2> QED BY <2>2, <2>4
<1>3. ASSUME NEW t \in Tasks, NEW task \in Submitted, UpdateTask(c, t, task)
      PROVE  WorkerView' /\ AllTasksOK'
  <2>1. DefaultPhase(task) \in Record
    BY StoreAssumption DEF DefaultPhase, SetPhase, Submitted, Record, Phases
  <2> QED BY <1>3, <2>1, ClientWrite DEF UpdateTask, SaveTask, workerVars
<1>4. call[c].op \in {"save", "mark"} => call[c].task \in Tasks /\ call[c].rec \in Record
  BY DEF NoCall, Call, Inv, TypeOK
<1>5. CASE SetSuspendSave(c)
  <2>1. DefaultPhase(call[c].rec) \in Record
    BY <1>4, <1>5 DEF SetSuspendSave, DefaultPhase, SetPhase, Record, Phases
  <2> QED BY <1>4, <1>5, <2>1, ClientWrite DEF SetSuspendSave, SaveTask, workerVars
<1>6. CASE DeleteTaskMark(c)
  BY <1>4, <1>6, ClientWrite DEF DeleteTaskMark, MarkTaskDeletingSet, workerVars
<1>7. ASSUME NEW t \in Tasks, SuspendTask(c, t) \/ ResumeTask(c, t) \/ DeleteTaskGet(c, t)
      PROVE  WorkerView' /\ AllTasksOK'
  BY <1>2, <1>7 DEF SuspendTask, ResumeTask, SetSuspendGet, DeleteTaskGet, storeVars, workerVars
<1>8. CASE CallAborts(c)
  BY <1>2, <1>8 DEF CallAborts, storeVars, workerVars
<1> QED BY <1>1, <1>3, <1>5, <1>6, <1>7, <1>8

\* An actor that crashes or goes away contradicts nothing that is remembered.
LEMMA InvSubstrate == Inv /\ SubstrateNext => WorkerView' /\ AllTasksOK'
<1> SUFFICES ASSUME Inv, NEW t \in Tasks, FinishDelete(t) \/ ActorCrash(t)
             PROVE  WorkerView' /\ AllTasksOK'
  BY DEF SubstrateNext
<1> USE DEF FinishDelete, ActorCrash, SetActor, storeVars, workerVars
<1>1. UNCHANGED <<tasks, stream, pending, pc, cur, snap, seen, outcome>>
  OBVIOUS
<1>2. /\ actor \in [Tasks -> ActorStates]
      /\ \A u \in Tasks : \/ actor'[u] = actor[u]
                          \/ actor[u] = "deleting" /\ actor'[u] = "absent"
                          \/ actor[u] = "running" /\ actor'[u] = "crashed"
  BY DEF Inv, TypeOK
<1>3. \A u \in Tasks : (Owed(u)' <=> Owed(u)) /\ (Quiet(u)' <=> Quiet(u))
  BY <1>1, OwedSame DEF Quiet
<1>4. AllTasksOK'
  BY <1>1, <1>2, <1>3 DEF Inv, AllTasksOK, TaskOK, Exists, Converged
<1>5. \A w \in Workers : pc[w] # "idle" => cur[w].task \in Tasks
  BY DEF Inv, TypeOK, Event
<1>6. WorkerView'
  BY <1>1, <1>2, <1>3, <1>5 DEF Inv, WorkerView, SnapshotCurrent, ReportTrue, TornDown, Exists, ReconcilePCs
<1> QED BY <1>4, <1>6

\* A step of the controller while it handles an event of task t concerns t
\* only: every other task keeps what is promised of it.
LEMMA OthersKept ==
    ASSUME SingleController, Inv, NEW w \in Workers, pc[w] # "idle",
           UNCHANGED <<stream, pending>>,
           NEW u \in Tasks, u # cur[w].task,
           tasks'[u] = tasks[u], actor'[u] = actor[u], outcome'[u] = outcome[u]
    PROVE  TaskOK(u)'
<1>1. Quiet(u)' => Quiet(u)
  BY OwedSame DEF Quiet, SingleController
<1> QED BY <1>1 DEF Inv, AllTasksOK, TaskOK, Exists, Converged

\* A step after which the controller still handles the event: t is not quiet,
\* so it is enough that the step does not leave an actor without a record.
LEMMA BusyStep ==
    ASSUME SingleController, Inv, NEW w \in Workers, pc[w] # "idle", pc'[w] # "idle",
           UNCHANGED <<tasks, stream, pending, cur, outcome>>,
           \A u \in Tasks : u # cur[w].task => actor'[u] = actor[u],
           Exists(cur[w].task) \/ actor'[cur[w].task] \in {"absent", "deleting"}
    PROVE  AllTasksOK'
<1>1. ASSUME NEW u \in Tasks, u # cur[w].task PROVE TaskOK(u)'
  BY <1>1, OthersKept
<1>2. ASSUME NEW u \in Tasks, u = cur[w].task PROVE TaskOK(u)'
  <2>1. ~Quiet(u)'
    BY <1>2 DEF Quiet
  <2> QED BY <1>2, <2>1 DEF TaskOK, Exists
<1> QED BY <1>1, <1>2 DEF AllTasksOK

\* A step that ends the handling of an event leaves the controller idle.
LEMMA IdleView ==
    ASSUME SingleController, NEW w \in Workers, pc'[w] = "idle"
    PROVE  WorkerView'
<1>1. \A v \in Workers : pc'[v] = "idle"
  BY DEF SingleController
<1> QED BY <1>1 DEF WorkerView, SnapshotCurrent, ReportTrue, TornDown, ReconcilePCs

\* A batch is handed out: what was owed in the stream is owed in the batch.
LEMMA InvRead ==
    ASSUME SingleController, Inv, NEW w \in Workers, Read(w)
    PROVE  WorkerView' /\ AllTasksOK'
<1>1. WorkerView'
  BY IdleView DEF Read
<1>2. ASSUME NEW t \in Tasks, Quiet(t)' PROVE Quiet(t)
  <2>1. Mentions(stream, t) <=> Mentions(Batch, t) \/ Mentions(Unread, t)
    BY BatchSplits DEF Inv, TypeOK, StoreTypeOK
  <2>2. /\ stream' = Unread /\ pending'[w] = Batch /\ UNCHANGED <<pc, cur>>
        /\ \A v \in Workers : v = w
    BY DEF Read, Inv, TypeOK, SingleController
  <2>3. ~Mentions(Unread, t) /\ ~Mentions(Batch, t)
    BY <1>2, <2>2 DEF Quiet, Owed
  <2>4. ~Mentions(pending[w], t)
    BY DEF Read, Mentions
  <2> QED BY <1>2, <2>1, <2>2, <2>3, <2>4 DEF Quiet, Owed
<1>3. UNCHANGED <<tasks, actor, outcome>>
  BY DEF Read
<1> QED BY <1>1, <1>2, <1>3 DEF Inv, AllTasksOK, TaskOK, Exists, Converged

\* The same when the reply is lost: the tasks of the batch become "lost".
LEMMA InvReadLost ==
    ASSUME SingleController, Inv, NEW w \in Workers, ReadLost(w)
    PROVE  WorkerView' /\ AllTasksOK'
<1>1. WorkerView'
  BY IdleView DEF ReadLost, workerVars
<1>2. UNCHANGED <<tasks, actor, pending, pc, cur>> /\ stream' = Unread
  BY DEF ReadLost, workerVars
<1>3. ASSUME NEW t \in Tasks, Quiet(t)', outcome'[t] # "lost"
      PROVE  Quiet(t) /\ outcome'[t] = outcome[t]
  <2>1. Mentions(stream, t) <=> Mentions(Batch, t) \/ Mentions(Unread, t)
    BY BatchSplits DEF Inv, TypeOK, StoreTypeOK
  <2>2. ~Mentions(Batch, t) /\ outcome'[t] = outcome[t]
    BY <1>3 DEF ReadLost, Lose
  <2> QED BY <1>2, <1>3, <2>1, <2>2 DEF Quiet, Owed
<1> QED BY <1>1, <1>2, <1>3 DEF Inv, AllTasksOK, TaskOK, Exists, Converged

\* The next event of the batch is taken up: its task is busy, not quiet.
LEMMA InvNext_ ==
    ASSUME SingleController, Inv, NEW w \in Workers, Next_(w)
    PROVE  WorkerView' /\ AllTasksOK'
<1>1. /\ pc'[w] \in {"delActor", "fetch"} /\ \A v \in Workers : v = w
      /\ cur'[w] = Head(pending[w]) /\ pending'[w] = Tail(pending[w])
      /\ UNCHANGED <<tasks, stream, actor, outcome>>
  BY DEF Next_, Inv, TypeOK, SingleController, storeVars
<1>2. WorkerView'
  BY <1>1 DEF WorkerView, SnapshotCurrent, ReportTrue, TornDown, ReconcilePCs
<1>3. ASSUME NEW t \in Tasks, Quiet(t)' PROVE Quiet(t)
  <2>1. pending[w] \in Seq(Event) /\ pending[w] # <<>> /\ pc[w] = "idle"
    BY DEF Next_, Inv, TypeOK
  <2>2. ~Mentions(stream, t) /\ ~Mentions(Tail(pending[w]), t) /\ Head(pending[w]).task # t
    BY <1>1, <1>3 DEF Quiet, Owed
  <2>3. ASSUME NEW i \in 1..Len(pending[w]) PROVE pending[w][i].task # t
    <3>1. CASE i = 1
      BY <2>1, <2>2, <3>1
    <3>2. CASE i > 1
      <4>1. i - 1 \in 1..Len(Tail(pending[w])) /\ Tail(pending[w])[i - 1] = pending[w][i]
        BY <2>1, <3>2
      <4> QED BY <2>2, <4>1 DEF Mentions
    <3> QED BY <3>1, <3>2
  <2> QED BY <1>1, <2>1, <2>2, <2>3 DEF Quiet, Owed, Mentions
<1> QED BY <1>1, <1>2, <1>3 DEF Inv, AllTasksOK, TaskOK, Exists, Converged

\* A crash: whatever the worker held is "lost", the rest was not its business.
LEMMA InvCrash ==
    ASSUME SingleController, Inv, NEW w \in Workers, Crash(w)
    PROVE  WorkerView' /\ AllTasksOK'
<1>1. WorkerView'
  <2>1. pc'[w] = "idle"
    BY DEF Crash, Goto, Inv, TypeOK
  <2> QED BY <2>1, IdleView
<1>2. UNCHANGED <<tasks, stream, actor>>
  BY DEF Crash, storeVars
<1>3. ASSUME NEW t \in Tasks, Quiet(t)', outcome'[t] # "lost"
      PROVE  Quiet(t) /\ outcome'[t] = outcome[t]
  <2> DEFINE held == IF pc[w] = "idle" THEN pending[w] ELSE Append(pending[w], cur[w])
  <2>1. ~Mentions(held, t) /\ outcome'[t] = outcome[t]
    BY <1>3 DEF Crash, Lose
  <2>2. pending[w] \in Seq(Event)
    BY DEF Inv, TypeOK
  <2>3. ~Mentions(pending[w], t)
    <3>1. CASE pc[w] = "idle"
      BY <2>1, <3>1
    <3>2. CASE pc[w] # "idle"
      <4>1. cur[w] \in Event
        BY <3>2 DEF Inv, TypeOK
      <4>2. \A i \in 1..Len(pending[w]) : i \in 1..Len(held) /\ held[i] = pending[w][i]
        BY <2>2, <3>2, <4>1
      <4> QED BY <2>1, <4>2 DEF Mentions
    <3> QED BY <3>1, <3>2
  <2>4. pc[w] # "idle" => cur[w].task # t
    <3> SUFFICES ASSUME pc[w] # "idle" PROVE cur[w].task # t
      OBVIOUS
    <3>1. cur[w] \in Event
      BY DEF Inv, TypeOK
    <3>2. Len(pending[w]) + 1 \in 1..Len(held) /\ held[Len(pending[w]) + 1] = cur[w]
      BY <2>2, <3>1
    <3> QED BY <2>1, <3>2 DEF Mentions
  <2>5. ~Mentions(stream, t)
    BY <1>2, <1>3 DEF Quiet, Owed
  <2>6. \A v \in Workers : v = w
    BY DEF SingleController
  <2> QED BY <2>1, <2>3, <2>4, <2>5, <2>6 DEF Quiet, Owed
<1> QED BY <1>1, <1>2, <1>3 DEF Inv, AllTasksOK, TaskOK, Exists, Converged

\* processEvent fetches the task, or finds that it is gone.
LEMMA InvFetch ==
    ASSUME SingleController, Inv, NEW w \in Workers, Fetch(w)
    PROVE  WorkerView' /\ AllTasksOK'
<1>1. pc[w] = "fetch" /\ cur[w].task \in Tasks /\ UNCHANGED <<tasks, stream, actor>>
  BY DEF Fetch, Inv, TypeOK, Event, storeVars
<1>2. \A v \in Workers : v = w
  BY DEF SingleController
<1>3. CASE ~Exists(cur[w].task)
  <2>1. /\ pc'[w] = "idle" /\ UNCHANGED pending
        /\ outcome' = [outcome EXCEPT ![cur[w].task] = "ok"]
    BY <1>3 DEF Fetch, Finish, Goto, Inv, TypeOK
  <2>2. ASSUME NEW u \in Tasks PROVE TaskOK(u)'
    <3>1. CASE u # cur[w].task
      BY <1>1, <2>1, <3>1, OthersKept DEF Inv, TypeOK
    <3>2. CASE u = cur[w].task
      <4>1. ~Exists(u)' /\ actor'[u] \in {"absent", "deleting"} /\ outcome'[u] = "ok"
        BY <1>1, <1>3, <2>1, <3>2 DEF Inv, TypeOK, AllTasksOK, TaskOK, Exists
      <4> QED BY <4>1 DEF TaskOK, Converged
    <3> QED BY <3>1, <3>2
  <2> QED BY <2>1, <2>2, IdleView DEF AllTasksOK
<1>4. CASE Exists(cur[w].task)
  <2>1. /\ pc'[w] = "prepare" /\ snap'[w] = tasks[cur[w].task]
        /\ UNCHANGED <<pending, cur, seen, outcome>>
    BY <1>4 DEF Fetch, Goto, GetTask, Inv, TypeOK
  <2>2. AllTasksOK'
    BY <1>1, <1>4, <2>1, BusyStep
  <2>3. WorkerView'
    BY <1>1, <1>2, <1>4, <2>1 DEF WorkerView, SnapshotCurrent, ReportTrue, TornDown, Exists, ReconcilePCs
  <2> QED BY <2>2, <2>3
<1> QED BY <1>3, <1>4

\* A step of reconcile that goes on to another call, with the actor of the
\* task possibly changed: nothing that WorkerView says is disturbed.
LEMMA ReconcileGoesOn ==
    ASSUME SingleController, Inv, NEW w \in Workers, pc[w] \in ReconcilePCs,
           pc'[w] \in ReconcilePCs \ {"statusGet", "statusSet"},
           UNCHANGED <<tasks, stream, pending, cur, snap, seen, outcome>>,
           \A u \in Tasks : u # cur[w].task => actor'[u] = actor[u]
    PROVE  WorkerView' /\ AllTasksOK'
<1>1. Exists(cur[w].task) /\ cur[w].task \in Tasks /\ pc[w] # "idle" /\ pc'[w] # "idle"
  BY DEF Inv, WorkerView, SnapshotCurrent, TypeOK, Event, ReconcilePCs
<1>2. AllTasksOK'
  BY <1>1, BusyStep
<1>3. \A v \in Workers : v = w
  BY DEF SingleController
<1>4. Owed(cur[w].task)' <=> Owed(cur[w].task)
  BY <1>1, OwedSame
<1>5. SnapshotCurrent(w)'
  BY <1>1, <1>4 DEF Inv, WorkerView, SnapshotCurrent, Exists
<1>6. ReportTrue(w)' /\ TornDown(w)'
  BY DEF ReportTrue, TornDown, ReconcilePCs
<1> QED BY <1>2, <1>3, <1>5, <1>6 DEF WorkerView

\* A step that ends reconcile: the phase it is about to report is Failed, or
\* is what the actor was just told to do.
LEMMA ReconcileEnds ==
    ASSUME SingleController, Inv, NEW w \in Workers, pc[w] \in ReconcilePCs,
           NEW p \in {"Running", "Suspended", "Failed"}, EndReconcile(w, p),
           UNCHANGED <<tasks, stream, pending, cur, seen, outcome>>,
           \A u \in Tasks : u # cur[w].task => actor'[u] = actor[u],
           p = "Running" => ~snap[w].suspend /\ actor'[cur[w].task] = "running",
           p = "Suspended" => snap[w].suspend /\ actor'[cur[w].task] = "suspended"
    PROVE  WorkerView' /\ AllTasksOK'
<1>1. Exists(cur[w].task) /\ cur[w].task \in Tasks /\ pc[w] # "idle"
  BY DEF Inv, WorkerView, SnapshotCurrent, TypeOK, Event, ReconcilePCs
<1>2. pc'[w] = "statusGet" /\ snap'[w] = SetPhase(snap[w], p)
  BY EndReconcileType DEF Inv, TypeOK
<1>3. snap'[w].phase = p /\ snap'[w].suspend = snap[w].suspend
  BY <1>2 DEF SetPhase
<1>4. AllTasksOK'
  BY <1>1, <1>2, BusyStep
<1>5. \A v \in Workers : v = w
  BY DEF SingleController
<1>6. Owed(cur[w].task)' <=> Owed(cur[w].task)
  BY <1>1, OwedSame
<1>7. SnapshotCurrent(w)'
  BY <1>1, <1>2, <1>3, <1>6 DEF Inv, WorkerView, SnapshotCurrent, Exists
<1>8. ReportTrue(w)' /\ TornDown(w)'
  BY <1>2, <1>3 DEF ReportTrue, TornDown
<1> QED BY <1>4, <1>5, <1>7, <1>8 DEF WorkerView

\* SetActor concerns one actor.
LEMMA SetActorOthers ==
    ASSUME TypeOK, NEW t \in Tasks, NEW a, SetActor(t, a)
    PROVE  actor'[t] = a /\ \A u \in Tasks : u # t => actor'[u] = actor[u]
BY DEF TypeOK, SetActor

\* A reconcile changes only the actor of its own task.
LEMMA InvReconcile ==
    ASSUME SingleController, Inv, NEW w \in Workers,
           \/ Prepare(w) \/ EnsureActor(w) \/ InspectActor(w) \/ ReapActor(w)
           \/ RecreateActor(w) \/ ActuateActor(w) \/ SubstrateError(w)
    PROVE  WorkerView' /\ AllTasksOK'
<1> DEFINE t == cur[w].task
<1> USE DEF storeVars
<1>1. pc[w] \in ReconcilePCs /\ UNCHANGED <<tasks, stream, pending, cur, seen, outcome>>
  BY DEF Prepare, EnsureActor, InspectActor, ReapActor, RecreateActor, ActuateActor,
         SubstrateError, ReconcilePCs
<1>2. t \in Tasks /\ TypeOK /\ pc \in [Workers -> PCs]
  BY <1>1 DEF Inv, TypeOK, Event, ReconcilePCs
<1>3. \A u \in Tasks : u # t => actor'[u] = actor[u]
  <2>1. UNCHANGED actor \/ \E a \in ActorStates : SetActor(t, a)
    BY <1>2 DEF Prepare, EnsureActor, InspectActor, ReapActor, RecreateActor, ActuateActor,
           SubstrateError, Created, Deleted, Actuated, TypeOK, ActorStates
  <2> QED BY <1>2, <2>1, SetActorOthers
<1>4. ASSUME NEW l \in ReconcilePCs \ {"statusGet", "statusSet"}, Goto(w, l), UNCHANGED snap
      PROVE  WorkerView' /\ AllTasksOK'
  <2>1. pc'[w] = l
    BY <1>2, <1>4 DEF Goto
  <2> QED BY <1>1, <1>3, <1>4, <2>1, ReconcileGoesOn
<1>5. CASE EndReconcile(w, "Failed")
  BY <1>1, <1>3, <1>5, ReconcileEnds
<1>6. CASE Prepare(w)
  BY <1>4, <1>5, <1>6 DEF Prepare, ReconcilePCs
<1>7. CASE EnsureActor(w)
  <2>1. CASE actor[t] = "absent"
    BY <1>4, <1>7, <2>1 DEF EnsureActor, ReconcilePCs
  <2>2. CASE actor[t] # "absent"
    BY <1>4, <1>7, <2>2 DEF EnsureActor, ReconcilePCs
  <2> QED BY <2>1, <2>2
<1>8. CASE InspectActor(w)
  BY <1>4, <1>5, <1>8 DEF InspectActor, ReconcilePCs
<1>9. CASE ReapActor(w)
  BY <1>4, <1>9 DEF ReapActor, ReconcilePCs
<1>10. CASE RecreateActor(w)
  BY <1>4, <1>5, <1>10 DEF RecreateActor, ReconcilePCs
<1>11. CASE ActuateActor(w)
  <2>1. actor'[t] = Actuated(actor[t], snap[w].suspend)
    BY <1>2, <1>11, SetActorOthers DEF ActuateActor
  <2>2. CASE actor[t] \notin {"suspended", "running"}
    BY <1>5, <1>11, <2>2 DEF ActuateActor
  <2>3. CASE actor[t] \in {"suspended", "running"} /\ snap[w].suspend
    <3>1. EndReconcile(w, "Suspended") /\ actor'[t] = "suspended"
      BY <1>11, <2>1, <2>3 DEF ActuateActor, Actuated
    <3> QED BY <1>1, <1>3, <2>3, <3>1, ReconcileEnds
  <2>4. CASE actor[t] \in {"suspended", "running"} /\ ~snap[w].suspend
    <3>1. EndReconcile(w, "Running") /\ actor'[t] = "running"
      BY <1>11, <2>1, <2>4 DEF ActuateActor, Actuated
    <3> QED BY <1>1, <1>3, <2>4, <3>1, ReconcileEnds
  <2> QED BY <2>2, <2>3, <2>4
<1>12. CASE SubstrateError(w)
  BY <1>5, <1>12 DEF SubstrateError
<1> QED BY <1>6, <1>7, <1>8, <1>9, <1>10, <1>11, <1>12

\* Facts shared by the steps that end the handling of an event.
LEMMA FinishFacts ==
    ASSUME Inv, NEW w \in Workers, pc[w] # "idle", NEW r, Finish(w, r)
    PROVE  /\ cur[w].task \in Tasks
           /\ pc'[w] = "idle"
           /\ outcome'[cur[w].task] = r
           /\ \A u \in Tasks : u # cur[w].task => outcome'[u] = outcome[u]
           /\ UNCHANGED pending
<1>1. cur[w].task \in Tasks
  BY DEF Inv, TypeOK, Event
<1> QED BY <1>1 DEF Inv, TypeOK, Finish, Goto

\* UpdateTaskStatus reads the record it is about to overwrite.
LEMMA InvStatusGet ==
    ASSUME SingleController, Inv, NEW w \in Workers, StatusGet(w)
    PROVE  WorkerView' /\ AllTasksOK'
<1> DEFINE t == cur[w].task
<1>1. pc[w] = "statusGet" /\ Exists(t) /\ t \in Tasks /\ UNCHANGED <<tasks, stream, actor>>
  BY DEF StatusGet, Inv, WorkerView, SnapshotCurrent, TypeOK, Event, ReconcilePCs, storeVars
<1>2. /\ pc'[w] = "statusSet" /\ seen'[w] = SetPhase(tasks[t], snap[w].phase)
      /\ UNCHANGED <<pending, cur, snap, outcome>>
  BY <1>1 DEF StatusGet, Goto, GetTask, Inv, TypeOK
<1>3. AllTasksOK'
  BY <1>1, <1>2, BusyStep
<1>4. \A v \in Workers : v = w
  BY DEF SingleController
<1>5. Owed(t)' <=> Owed(t)
  BY <1>1, <1>2, OwedSame
<1>6. seen'[w].phase = snap[w].phase /\ seen'[w].suspend = tasks[t].suspend
  BY <1>2 DEF SetPhase
<1>7. SnapshotCurrent(w)'
  BY <1>1, <1>2, <1>5, <1>6 DEF Inv, WorkerView, SnapshotCurrent, Exists, ReconcilePCs
<1>8. ReportTrue(w)' /\ TornDown(w)'
  BY <1>1, <1>2 DEF Inv, WorkerView, ReportTrue, TornDown
<1> QED BY <1>3, <1>4, <1>7, <1>8 DEF WorkerView

\* The status write: when no event is owed, the spec it writes back is the one
\* that was reconciled, and the phase is the actor's or Failed.
LEMMA StatusWritten ==
    ASSUME SingleController, Inv, NEW w \in Workers, pc[w] = "statusSet",
           UpdateTaskStatusSet(cur[w].task, seen[w]), UNCHANGED actor,
           NEW r \in {"ok", "reconcileFailed"}, Finish(w, r),
           r = "ok" => snap[w].phase # "Failed",
           r = "reconcileFailed" => snap[w].phase = "Failed" \/ "store" \in Faults
    PROVE  WorkerView' /\ AllTasksOK'
<1> DEFINE t == cur[w].task
<1>1. /\ t \in Tasks /\ pc'[w] = "idle" /\ outcome'[t] = r
      /\ \A u \in Tasks : u # t => outcome'[u] = outcome[u]
      /\ UNCHANGED <<stream, pending>>
  BY FinishFacts DEF UpdateTaskStatusSet
<1>2. /\ seen[w] \in Record /\ tasks'[t] = seen[w] /\ tasks'[t] # NoTask
      /\ \A u \in Tasks : u # t => tasks'[u] = tasks[u]
  BY <1>1, StoreAssumption DEF UpdateTaskStatusSet, Inv, TypeOK, StoreTypeOK
<1>3. ASSUME NEW u \in Tasks PROVE TaskOK(u)'
  <2>1. CASE u # t
    BY <1>1, <1>2, <2>1, OthersKept
  <2>2. CASE u = t
    <3>1. CASE Owed(t)
      <4>1. ~Quiet(u)'
        BY <1>1, <2>2, <3>1, OwedSame DEF Quiet
      <4> QED BY <1>2, <2>2, <4>1 DEF TaskOK, Exists
    <3>2. CASE ~Owed(t)
      <4>1. seen[w].phase = snap[w].phase /\ seen[w].suspend = snap[w].suspend
        BY <3>2 DEF Inv, WorkerView, SnapshotCurrent
      <4>2. snap[w].suspend \in BOOLEAN
        BY FieldTypes DEF Inv, TypeOK, ReconcilePCs
      <4>3. CASE r = "ok"
        <5>1. Converged(u)'
          BY <1>2, <2>2, <4>1, <4>2, <4>3 DEF Converged, Exists, Inv, WorkerView, ReportTrue
        <5> QED BY <1>1, <1>2, <2>2, <4>3, <5>1 DEF TaskOK, Exists
      <4>4. CASE r = "reconcileFailed"
        BY <1>1, <1>2, <2>2, <4>1, <4>4 DEF TaskOK, Exists
      <4> QED BY <4>3, <4>4
    <3> QED BY <3>1, <3>2
  <2> QED BY <2>1, <2>2
<1> QED BY <1>1, <1>3, IdleView DEF AllTasksOK

\* A status write stores what was read back, with an event owed if that is old.
LEMMA InvStatusSet ==
    ASSUME SingleController, Inv, NEW w \in Workers, StatusSet(w)
    PROVE  WorkerView' /\ AllTasksOK'
<1>1. CASE snap[w].phase = "Failed"
  <2>1. Finish(w, "reconcileFailed")
    BY <1>1 DEF StatusSet
  <2> QED BY <1>1, <2>1, StatusWritten DEF StatusSet
<1>2. CASE snap[w].phase # "Failed"
  <2>1. Finish(w, "ok")
    BY <1>2 DEF StatusSet
  <2> QED BY <1>2, <2>1, StatusWritten DEF StatusSet
<1> QED BY <1>1, <1>2

\* DeleteTask, once the actor is torn down.
LEMMA RecordRemoved ==
    ASSUME SingleController, Inv, NEW w \in Workers, pc[w] = "delRecord",
           DeleteTask(cur[w].task), Finish(w, "ok"), UNCHANGED actor
    PROVE  WorkerView' /\ AllTasksOK'
<1> DEFINE t == cur[w].task
<1>1. /\ t \in Tasks /\ pc'[w] = "idle" /\ outcome'[t] = "ok"
      /\ \A u \in Tasks : u # t => outcome'[u] = outcome[u]
      /\ UNCHANGED <<stream, pending>>
  BY FinishFacts DEF DeleteTask
<1>2. /\ tasks'[t] = NoTask /\ actor'[t] \in {"absent", "deleting"}
      /\ \A u \in Tasks : u # t => tasks'[u] = tasks[u]
  BY <1>1 DEF DeleteTask, Inv, TypeOK, StoreTypeOK, WorkerView, TornDown
<1>3. ASSUME NEW u \in Tasks PROVE TaskOK(u)'
  <2>1. CASE u # t
    BY <1>1, <1>2, <2>1, OthersKept
  <2>2. CASE u = t
    BY <1>1, <1>2, <2>2 DEF TaskOK, Converged, Exists
  <2> QED BY <2>1, <2>2
<1> QED BY <1>1, <1>3, IdleView DEF AllTasksOK

\* The delete path: the actor first, the record after it.
LEMMA InvDelete ==
    ASSUME SingleController, Inv, NEW w \in Workers,
           DeleteActor(w) \/ DeleteActorFails(w) \/ DeleteRecord(w)
    PROVE  WorkerView' /\ AllTasksOK'
<1> DEFINE t == cur[w].task
<1> USE DEF storeVars
<1>1. t \in Tasks /\ TypeOK /\ pc[w] \in DeletePCs /\ pc[w] # "idle"
  BY DEF DeleteActor, DeleteActorFails, DeleteRecord, Inv, TypeOK, Event, DeletePCs
<1>2. CASE DeleteActor(w)
  <2>1. /\ actor'[t] \in {"absent", "deleting"}
        /\ \A u \in Tasks : u # t => actor'[u] = actor[u]
    BY <1>1, <1>2, SetActorOthers DEF DeleteActor, Deleted
  <2>2. pc'[w] = "delRecord" /\ UNCHANGED <<tasks, stream, pending, cur, outcome>>
    BY <1>1, <1>2 DEF DeleteActor, Goto, TypeOK
  <2>3. AllTasksOK'
    BY <1>1, <2>1, <2>2, BusyStep
  <2>4. \A v \in Workers : v = w
    BY DEF SingleController
  <2>5. SnapshotCurrent(w)' /\ ReportTrue(w)' /\ TornDown(w)'
    BY <2>1, <2>2 DEF SnapshotCurrent, ReportTrue, TornDown, ReconcilePCs
  <2> QED BY <2>3, <2>4, <2>5 DEF WorkerView
<1>3. CASE DeleteActorFails(w)
  <2>1. /\ actor'[t] = actor[t] \/ actor'[t] \in {"absent", "deleting"}
        /\ \A u \in Tasks : u # t => actor'[u] = actor[u]
    BY <1>1, <1>3, SetActorOthers DEF DeleteActorFails, Deleted
  <2>2. /\ Finish(w, "deleteFailed") /\ UNCHANGED <<tasks, stream>>
    BY <1>3 DEF DeleteActorFails
  <2>3. /\ pc'[w] = "idle" /\ outcome'[t] = "deleteFailed" /\ UNCHANGED pending
        /\ \A u \in Tasks : u # t => outcome'[u] = outcome[u]
    BY <1>1, <2>2, FinishFacts
  <2>4. ASSUME NEW u \in Tasks PROVE TaskOK(u)'
    <3>1. CASE u # t
      BY <1>1, <2>1, <2>2, <2>3, <3>1, OthersKept
    <3>2. CASE u = t
      BY <2>1, <2>2, <2>3, <3>2 DEF Inv, AllTasksOK, TaskOK, Exists
    <3> QED BY <3>1, <3>2
  <2> QED BY <2>3, <2>4, IdleView DEF AllTasksOK
<1>4. CASE DeleteRecord(w)
  BY <1>1, <1>4, RecordRemoved DEF DeleteRecord
<1> QED BY <1>2, <1>3, <1>4

\* A Redis call of processEvent fails.
LEMMA InvStoreError ==
    ASSUME SingleController, Inv, NEW w \in Workers, StoreError(w)
    PROVE  WorkerView' /\ AllTasksOK'
<1> DEFINE t == cur[w].task
<1>1. PICK r \in {"deleteFailed", "reconcileFailed"} : Finish(w, r)
  BY DEF StoreError
<1>2. /\ pc[w] # "idle" /\ "store" \in Faults /\ UNCHANGED actor
      /\ UNCHANGED <<stream, pending>>
  BY <1>1 DEF StoreError, Finish, UpdateTaskStatusSet, DeleteTask, storeVars
<1>3. /\ t \in Tasks /\ pc'[w] = "idle" /\ outcome'[t] = r
      /\ \A u \in Tasks : u # t => outcome'[u] = outcome[u]
  BY <1>1, <1>2, FinishFacts
<1>4. /\ \A u \in Tasks : u # t => tasks'[u] = tasks[u]
      /\ tasks'[t] # NoTask \/ actor[t] \in {"absent", "deleting"}
  <2>1. CASE UNCHANGED storeVars
    BY <1>3, <2>1 DEF Inv, AllTasksOK, TaskOK, Exists, storeVars
  <2>2. CASE pc[w] = "statusSet" /\ UpdateTaskStatusSet(t, seen[w])
    BY <1>3, <2>2, StoreAssumption DEF UpdateTaskStatusSet, Inv, TypeOK, StoreTypeOK
  <2>3. CASE pc[w] = "delRecord" /\ DeleteTask(t)
    BY <1>3, <2>3 DEF DeleteTask, Inv, TypeOK, StoreTypeOK, WorkerView, TornDown
  <2> QED BY <2>1, <2>2, <2>3 DEF StoreError
<1>5. ASSUME NEW u \in Tasks PROVE TaskOK(u)'
  <2>1. CASE u # t
    BY <1>2, <1>3, <1>4, <2>1, OthersKept
  <2>2. CASE u = t
    BY <1>2, <1>3, <1>4, <2>2 DEF TaskOK, Exists
  <2> QED BY <2>1, <2>2
<1> QED BY <1>3, <1>5, IdleView DEF AllTasksOK

-----------------------------------------------------------------------------
\* The invariant is inductive as long as there is one controller.
LEMMA InvNext == ASSUME SingleController PROVE Inv /\ [Next]_vars => Inv'
<1> SUFFICES ASSUME Inv, [Next]_vars PROVE Inv'
  OBVIOUS
<1>1. TypeOK'
  <2>1. UNCHANGED vars => TypeOK'
    BY DEF Inv, TypeOK, StoreTypeOK, vars
  <2> QED BY <2>1, TypeClient, TypeWorkerStep, TypeWorkerFault, TypeSubstrate DEF Next, Inv
<1>2. WorkerView' /\ AllTasksOK'
  <2>1. CASE ClientNext
    BY <2>1, InvClient
  <2>2. CASE SubstrateNext
    BY <2>2, InvSubstrate
  <2>3. ASSUME NEW w \in Workers, WorkerStep(w) PROVE WorkerView' /\ AllTasksOK'
    BY <2>3, InvRead, InvNext_, InvFetch, InvReconcile, InvStatusGet, InvStatusSet, InvDelete
    DEF WorkerStep
  <2>4. ASSUME NEW w \in Workers, WorkerFault(w) PROVE WorkerView' /\ AllTasksOK'
    BY <2>4, InvReadLost, InvReconcile, InvDelete, InvStoreError, InvCrash DEF WorkerFault
  <2>5. CASE UNCHANGED vars
    <3>1. UNCHANGED <<tasks, stream, actor, pending, pc, cur, snap, seen, outcome>>
      BY <2>5 DEF vars
    <3> QED BY <3>1 DEF Inv, WorkerView, AllTasksOK, SnapshotCurrent, ReportTrue, TornDown,
                      TaskOK, Exists, Quiet, Owed, Mentions, Converged
  <2> QED BY <2>1, <2>2, <2>3, <2>4, <2>5 DEF Next
<1> QED BY <1>1, <1>2 DEF Inv

\* With one controller, what the worker holds between its calls is current or
\* an event that repairs it is queued, whatever clients do and whatever fails.
THEOREM WorkerViewHolds == ASSUME SingleController PROVE Spec => []WorkerView
<1>1. Inv => WorkerView
  BY DEF Inv
<1> QED BY InvInit, InvNext, <1>1, PTL DEF Spec

\* With one controller, an actor never outlives its task's record except
\* while Substrate is tearing it down (worker.go, the delete branch).
THEOREM NoOrphanHolds == ASSUME SingleController PROVE Spec => []NoOrphan
<1>1. Inv => NoOrphan
  BY DEF Inv, AllTasksOK, TaskOK, NoOrphan
<1> QED BY InvInit, InvNext, <1>1, PTL DEF Spec

\* With one controller, a task whose last event was handled without error and
\* that has no event left has the actor and the phase its record asks for.
THEOREM ConvergedWhenQuietHolds == ASSUME SingleController PROVE Spec => []ConvergedWhenQuiet
<1>1. Inv => ConvergedWhenQuiet
  BY DEF Inv, AllTasksOK, TaskOK, ConvergedWhenQuiet
<1> QED BY InvInit, InvNext, <1>1, PTL DEF Spec

\* With one controller and a reachable Redis, a reconcile that failed and was
\* not superseded is visible as phase Failed.
THEOREM FailureVisibleHolds == ASSUME SingleController PROVE Spec => []FailureVisible
<1>1. Inv => FailureVisible
  BY DEF Inv, AllTasksOK, TaskOK, FailureVisible
<1> QED BY InvInit, InvNext, <1>1, PTL DEF Spec

-----------------------------------------------------------------------------
(* One controller: settled tasks are listed.                               *)

\* The last event of t in s is a deletion.
EndsInDelete(s, t) ==
    \E i \in 1..Len(s) : /\ s[i] = [task |-> t, action |-> "delete"]
                         /\ \A j \in 1..Len(s) : j > i => s[j].task # t

\* A record outside the index was written by a MarkTaskDeleting that came
\* after the record's removal.  Its deletion is still to come and nothing of
\* t follows it, or it is under way, or it went wrong and nothing came after.
Listed(t) ==
    Exists(t) /\ t \notin index =>
        \/ EndsInDelete(stream, t)
        \/ ~Mentions(stream, t) /\ \E w \in Workers : EndsInDelete(pending[w], t)
        \/ ~Owed(t) /\ \E w \in Workers : pc[w] \in DeletePCs /\ cur[w].task = t
        \/ Quiet(t) /\ outcome[t] # "ok"

AllListed == \A t \in Tasks : Listed(t)

\* The event EndsInDelete speaks of is an event of t.
LEMMA EndsMentions ==
    ASSUME NEW s \in Seq(Event), NEW t, EndsInDelete(s, t)
    PROVE  Mentions(s, t) /\ s # <<>>
BY DEF EndsInDelete, Mentions

\* XADD: an event of another task changes nothing, a deletion is now the last.
LEMMA EndsAppend ==
    ASSUME NEW s \in Seq(Event), NEW e \in Event, NEW t \in Tasks
    PROVE  /\ e.task # t /\ EndsInDelete(s, t) => EndsInDelete(Append(s, e), t)
           /\ e = [task |-> t, action |-> "delete"] => EndsInDelete(Append(s, e), t)
<1>1. /\ Len(Append(s, e)) = Len(s) + 1 /\ Len(s) \in Nat
      /\ Append(s, e)[Len(s) + 1] = e
      /\ \A i \in 1..Len(s) : Append(s, e)[i] = s[i]
  OBVIOUS
<1>2. ASSUME e.task # t, EndsInDelete(s, t) PROVE EndsInDelete(Append(s, e), t)
  <2>1. PICK i \in 1..Len(s) : /\ s[i] = [task |-> t, action |-> "delete"]
                               /\ \A j \in 1..Len(s) : j > i => s[j].task # t
    BY <1>2 DEF EndsInDelete
  <2>2. i \in 1..Len(Append(s, e)) /\ Append(s, e)[i] = [task |-> t, action |-> "delete"]
    BY <1>1, <2>1
  <2>3. ASSUME NEW j \in 1..Len(Append(s, e)), j > i PROVE Append(s, e)[j].task # t
    <3>1. CASE j = Len(s) + 1
      BY <1>1, <1>2, <3>1
    <3>2. CASE j # Len(s) + 1
      <4>1. j \in 1..Len(s)
        BY <1>1, <3>2
      <4> QED BY <1>1, <2>1, <2>3, <4>1
    <3> QED BY <3>1, <3>2
  <2> QED BY <2>2, <2>3 DEF EndsInDelete
<1>3. ASSUME e = [task |-> t, action |-> "delete"] PROVE EndsInDelete(Append(s, e), t)
  <2>1. Len(s) + 1 \in 1..Len(Append(s, e))
    BY <1>1
  <2>2. \A j \in 1..Len(Append(s, e)) : ~(j > Len(s) + 1)
    BY <1>1
  <2> QED BY <1>1, <1>3, <2>1, <2>2 DEF EndsInDelete
<1> QED BY <1>2, <1>3

\* A batch is cut off the stream: the last event of t is in the part that
\* stays, or t is not mentioned there any more.
LEMMA EndsSplit ==
    ASSUME stream \in Seq(Event), NEW t \in Tasks, EndsInDelete(stream, t)
    PROVE  \/ EndsInDelete(Unread, t)
           \/ ~Mentions(Unread, t) /\ EndsInDelete(Batch, t)
<1>1. BatchLen \in 0..Len(stream)
  BY ControlPlaneAssumption DEF BatchLen
<1>2. /\ Len(Batch) = BatchLen
      /\ \A i \in 1..BatchLen : Batch[i] = stream[i]
  BY <1>1 DEF Batch
<1>3. /\ Len(Unread) = Len(stream) - BatchLen
      /\ \A i \in 1..(Len(stream) - BatchLen) : Unread[i] = stream[BatchLen + i]
  BY <1>1 DEF Unread
<1>4. PICK i \in 1..Len(stream) : /\ stream[i] = [task |-> t, action |-> "delete"]
                                  /\ \A j \in 1..Len(stream) : j > i => stream[j].task # t
  BY DEF EndsInDelete
<1>5. CASE i <= BatchLen
  <2>1. i \in 1..Len(Batch) /\ Batch[i] = stream[i]
    BY <1>1, <1>2, <1>5
  <2>2. ASSUME NEW j \in 1..Len(Batch), j > i PROVE Batch[j].task # t
    <3>1. j \in 1..Len(stream) /\ Batch[j] = stream[j]
      BY <1>1, <1>2
    <3> QED BY <1>4, <2>2, <3>1
  <2>3. ASSUME NEW j \in 1..Len(Unread) PROVE Unread[j].task # t
    <3>1. BatchLen + j \in 1..Len(stream) /\ BatchLen + j > i /\ Unread[j] = stream[BatchLen + j]
      BY <1>1, <1>3, <1>5
    <3> QED BY <1>4, <3>1
  <2> QED BY <1>4, <2>1, <2>2, <2>3 DEF EndsInDelete, Mentions
<1>6. CASE i > BatchLen
  <2>1. i - BatchLen \in 1..Len(Unread) /\ Unread[i - BatchLen] = stream[i]
    <3>1. i - BatchLen \in 1..(Len(stream) - BatchLen) /\ BatchLen + (i - BatchLen) = i
      BY <1>1, <1>6
    <3> QED BY <1>3, <3>1
  <2>2. ASSUME NEW j \in 1..Len(Unread), j > i - BatchLen PROVE Unread[j].task # t
    <3>1. BatchLen + j \in 1..Len(stream) /\ BatchLen + j > i /\ Unread[j] = stream[BatchLen + j]
      BY <1>1, <1>3, <2>2
    <3> QED BY <1>4, <3>1
  <2> QED BY <1>4, <2>1, <2>2 DEF EndsInDelete
<1> QED BY <1>1, <1>5, <1>6

\* The first event of a batch is taken up: it was the last of t, or the last
\* one is still there.
LEMMA EndsTail ==
    ASSUME NEW s \in Seq(Event), s # <<>>, NEW t \in Tasks
    PROVE  /\ EndsInDelete(s, t) =>
                \/ EndsInDelete(Tail(s), t)
                \/ Head(s) = [task |-> t, action |-> "delete"] /\ ~Mentions(Tail(s), t)
           /\ ~Mentions(s, t) => Head(s).task # t /\ ~Mentions(Tail(s), t)
<1>1. /\ Len(s) \in Nat \ {0} /\ Len(Tail(s)) = Len(s) - 1 /\ Head(s) = s[1]
      /\ \A i \in 1..Len(Tail(s)) : Tail(s)[i] = s[i + 1]
  OBVIOUS
<1>2. ASSUME EndsInDelete(s, t)
      PROVE  \/ EndsInDelete(Tail(s), t)
             \/ Head(s) = [task |-> t, action |-> "delete"] /\ ~Mentions(Tail(s), t)
  <2>1. PICK i \in 1..Len(s) : /\ s[i] = [task |-> t, action |-> "delete"]
                               /\ \A j \in 1..Len(s) : j > i => s[j].task # t
    BY <1>2 DEF EndsInDelete
  <2>2. CASE i = 1
    <3>1. ASSUME NEW j \in 1..Len(Tail(s)) PROVE Tail(s)[j].task # t
      <4>1. j + 1 \in 1..Len(s) /\ j + 1 > i /\ Tail(s)[j] = s[j + 1]
        BY <1>1, <2>2
      <4> QED BY <2>1, <4>1
    <3> QED BY <1>1, <2>1, <2>2, <3>1 DEF Mentions
  <2>3. CASE i # 1
    <3>1. i - 1 \in 1..Len(Tail(s)) /\ Tail(s)[i - 1] = s[i]
      <4>1. i - 1 \in 1..Len(Tail(s)) /\ (i - 1) + 1 = i
        BY <1>1, <2>3
      <4> QED BY <1>1, <4>1
    <3>2. ASSUME NEW j \in 1..Len(Tail(s)), j > i - 1 PROVE Tail(s)[j].task # t
      <4>1. j + 1 \in 1..Len(s) /\ j + 1 > i /\ Tail(s)[j] = s[j + 1]
        BY <1>1, <3>2
      <4> QED BY <2>1, <4>1
    <3> QED BY <2>1, <3>1, <3>2 DEF EndsInDelete
  <2> QED BY <2>2, <2>3
<1>3. ASSUME ~Mentions(s, t) PROVE Head(s).task # t /\ ~Mentions(Tail(s), t)
  <2>1. Head(s).task # t
    BY <1>1, <1>3 DEF Mentions
  <2>2. ASSUME NEW j \in 1..Len(Tail(s)) PROVE Tail(s)[j].task # t
    <3>1. j + 1 \in 1..Len(s) /\ Tail(s)[j] = s[j + 1]
      BY <1>1
    <3> QED BY <1>3, <3>1 DEF Mentions
  <2> QED BY <2>1, <2>2 DEF Mentions
<1> QED BY <1>2, <1>3

\* A step that leaves the record of t, its events and its outcome alone, and
\* the worker where it was with t.
LEMMA ListedKept ==
    ASSUME NEW t \in Tasks, Listed(t),
           Exists(t)' => Exists(t), t \in index => t \in index',
           UNCHANGED <<stream, pending>>, outcome'[t] = outcome[t],
           \A w \in Workers : /\ pc[w] \in DeletePCs /\ cur[w].task = t =>
                                    pc'[w] \in DeletePCs /\ cur'[w].task = t
                              /\ pc'[w] # "idle" /\ cur'[w].task = t =>
                                    pc[w] # "idle" /\ cur[w].task = t
    PROVE  Listed(t)'
<1>1. Owed(t)' <=> Owed(t)
  BY OwedSame
<1>2. Quiet(t) => Quiet(t)'
  BY <1>1 DEF Quiet
<1>3. EndsInDelete(stream', t) <=> EndsInDelete(stream, t)
  BY DEF EndsInDelete
<1>4. \A w \in Workers : EndsInDelete(pending'[w], t) <=> EndsInDelete(pending[w], t)
  BY DEF EndsInDelete
<1> QED BY <1>1, <1>2, <1>3, <1>4 DEF Listed

\* An API call that writes the record of t: SaveTask adds it to the index,
\* MarkTaskDeleting publishes a deletion.
LEMMA ListedClientWrite ==
    ASSUME TypeOK, AllListed, NEW t \in Tasks, NEW a \in {"reconcile", "delete"},
           Publish(t, a), \A u \in Tasks : u # t => tasks'[u] = tasks[u],
           \/ a = "delete" /\ UNCHANGED index
           \/ index' = index \cup {t},
           UNCHANGED <<pending, pc, cur, outcome>>
    PROVE  AllListed'
<1> DEFINE e == [task |-> t, action |-> a]
<1>1. e \in Event /\ stream' = Append(stream, e) /\ stream \in Seq(Event)
  BY DEF Publish, Event, TypeOK, StoreTypeOK
<1>2. \A u \in Tasks : u # t => (Owed(u)' <=> Owed(u))
  BY <1>1, PublishOwes
<1>3. ASSUME NEW u \in Tasks PROVE Listed(u)'
  <2>1. CASE u = t /\ a = "delete"
    <3>1. e = [task |-> u, action |-> "delete"]
      BY <2>1
    <3>2. EndsInDelete(stream', u)
      BY <1>1, <3>1, EndsAppend
    <3> QED BY <3>2 DEF Listed
  <2>2. CASE u = t /\ index' = index \cup {t}
    BY <2>2 DEF Listed
  <2>3. CASE u # t
    <3>1. e.task # u
      BY <2>3
    <3>2. EndsInDelete(stream, u) => EndsInDelete(stream', u)
      BY <1>1, <3>1, EndsAppend
    <3>3. Mentions(stream', u) => Mentions(stream, u)
      <4>1. Len(stream') = Len(stream) + 1 /\ stream'[Len(stream) + 1] = e
            /\ \A i \in 1..Len(stream) : stream'[i] = stream[i]
        BY <1>1
      <4>2. \A i \in 1..Len(stream') : i \in 1..Len(stream) \/ i = Len(stream) + 1
        BY <1>1, <4>1
      <4> QED BY <3>1, <4>1, <4>2 DEF Mentions
    <3>4. Quiet(u) => Quiet(u)'
      BY <1>2, <2>3 DEF Quiet
    <3>5. Exists(u)' => Exists(u)
      BY <2>3 DEF Exists
    <3>6. u \in index => u \in index'
      OBVIOUS
    <3>7. Owed(u)' <=> Owed(u)
      BY <1>2, <2>3
    <3>8. Listed(u)
      BY DEF AllListed
    <3> QED BY <3>2, <3>3, <3>4, <3>5, <3>6, <3>7, <3>8 DEF Listed
  <2> QED BY <2>1, <2>2, <2>3
<1> QED BY <1>3 DEF AllListed

\* API calls.
LEMMA ListedClient == TypeOK /\ AllListed /\ ClientNext => AllListed'
<1> SUFFICES ASSUME TypeOK, AllListed, ClientNext PROVE AllListed'
  OBVIOUS
<1>1. PICK c \in Clients :
        \/ \E t \in Tasks :
            \/ \E task \in Submitted : UpdateTask(c, t, task)
            \/ SuspendTask(c, t)
            \/ ResumeTask(c, t)
            \/ DeleteTaskGet(c, t)
        \/ SetSuspendSave(c)
        \/ DeleteTaskMark(c)
        \/ CallAborts(c)
  BY DEF ClientNext
<1>2. ASSUME NEW t \in Tasks, NEW r, tasks' = [tasks EXCEPT ![t] = r]
      PROVE  \A u \in Tasks : u # t => tasks'[u] = tasks[u]
  BY <1>2 DEF TypeOK, StoreTypeOK
<1>3. ASSUME NEW t \in Tasks, NEW task, SaveTask(t, task), UNCHANGED workerVars, UNCHANGED outcome
      PROVE  AllListed'
  <2>1. Publish(t, "reconcile") /\ index' = index \cup {t} /\ UNCHANGED <<pending, pc, cur, outcome>>
    BY <1>3 DEF SaveTask, workerVars
  <2>2. \A u \in Tasks : u # t => tasks'[u] = tasks[u]
    BY <1>2, <1>3 DEF SaveTask
  <2> QED BY <2>1, <2>2, ListedClientWrite
<1>4. call[c].op \in {"save", "mark"} => call[c].task \in Tasks
  BY DEF NoCall, Call, TypeOK
<1>5. ASSUME NEW t \in Tasks, NEW task \in Submitted, UpdateTask(c, t, task) PROVE AllListed'
  BY <1>3, <1>5 DEF UpdateTask
<1>6. CASE SetSuspendSave(c)
  BY <1>3, <1>4, <1>6 DEF SetSuspendSave
<1>7. CASE DeleteTaskMark(c)
  <2>1. /\ call[c].task \in Tasks /\ Publish(call[c].task, "delete")
        /\ UNCHANGED <<index, pending, pc, cur, outcome>>
    BY <1>4, <1>7 DEF DeleteTaskMark, MarkTaskDeletingSet, workerVars
  <2>2. \A u \in Tasks : u # call[c].task => tasks'[u] = tasks[u]
    BY <1>2, <1>7, <2>1 DEF DeleteTaskMark, MarkTaskDeletingSet
  <2> QED BY <2>1, <2>2, ListedClientWrite
<1>8. ASSUME UNCHANGED storeVars, UNCHANGED workerVars, UNCHANGED outcome PROVE AllListed'
  <2>1. UNCHANGED <<tasks, index, stream, pending, pc, cur, outcome>>
    BY <1>8 DEF storeVars, workerVars
  <2> QED BY <2>1, ListedKept DEF AllListed, Exists
<1>9. ASSUME NEW t \in Tasks, SuspendTask(c, t) \/ ResumeTask(c, t) \/ DeleteTaskGet(c, t)
      PROVE  AllListed'
  BY <1>8, <1>9 DEF SuspendTask, ResumeTask, SetSuspendGet, DeleteTaskGet
<1>10. CASE CallAborts(c)
  BY <1>8, <1>10 DEF CallAborts
<1> QED BY <1>1, <1>5, <1>6, <1>7, <1>9, <1>10

\* A batch is handed out, or lost with the reply.
LEMMA ListedRead ==
    ASSUME SingleController, TypeOK, AllListed, NEW w \in Workers, Read(w) \/ ReadLost(w)
    PROVE  AllListed'
<1>1. /\ stream \in Seq(Event) /\ pending[w] = <<>> /\ pc[w] = "idle" /\ stream' = Unread
      /\ UNCHANGED <<tasks, index, pc, cur>> /\ \A v \in Workers : v = w
  BY DEF Read, ReadLost, TypeOK, StoreTypeOK, SingleController, workerVars
<1>2. /\ Read(w) => pending'[w] = Batch /\ UNCHANGED outcome
      /\ ReadLost(w) => /\ pending'[w] = <<>>
                        /\ outcome' = [t \in Tasks |-> IF Mentions(Batch, t) THEN "lost" ELSE outcome[t]]
  BY <1>1 DEF Read, ReadLost, Lose, workerVars, TypeOK
<1>3. ASSUME NEW t \in Tasks PROVE Listed(t)'
  <2>1. SUFFICES ASSUME Exists(t), t \notin index PROVE Listed(t)'
    BY <1>1 DEF Listed, Exists
  <2>2. Batch \in Seq(Event) /\ (Mentions(stream, t) <=> Mentions(Batch, t) \/ Mentions(Unread, t))
    BY <1>1, BatchSplits
  <2>3. ~EndsInDelete(pending[w], t) /\ ~Mentions(<<>>, t)
    BY <1>1 DEF EndsInDelete, Mentions
  <2>4. pc[w] \notin DeletePCs
    BY <1>1 DEF DeletePCs
  <2>5. EndsInDelete(stream, t) \/ (Quiet(t) /\ outcome[t] # "ok")
    BY <1>1, <2>1, <2>3, <2>4 DEF AllListed, Listed
  <2>6. CASE EndsInDelete(Unread, t)
    BY <1>1, <2>6 DEF Listed
  <2>7. CASE ~Mentions(Unread, t) /\ EndsInDelete(Batch, t)
    <3>1. CASE Read(w)
      BY <1>1, <1>2, <2>7, <3>1 DEF Listed
    <3>2. CASE ReadLost(w)
      <4>1. outcome'[t] = "lost"
        BY <1>2, <2>2, <2>7, <3>2, EndsMentions
      <4>2. Quiet(t)'
        BY <1>1, <1>2, <2>3, <2>7, <3>2 DEF Quiet, Owed
      <4> QED BY <4>1, <4>2 DEF Listed
    <3> QED BY <3>1, <3>2
  <2>8. CASE Quiet(t) /\ outcome[t] # "ok"
    <3>1. ~Mentions(Batch, t) /\ ~Mentions(Unread, t)
      BY <2>2, <2>8 DEF Quiet, Owed
    <3>2. Quiet(t)'
      BY <1>1, <1>2, <2>3, <3>1 DEF Quiet, Owed
    <3>3. outcome'[t] = outcome[t]
      BY <1>2, <3>1
    <3> QED BY <2>8, <3>2, <3>3 DEF Listed
  <2> QED BY <1>1, <2>5, <2>6, <2>7, <2>8, EndsSplit
<1> QED BY <1>3 DEF AllListed

\* The next event is taken up: a deletion that was the last event of its task
\* is now under way.
LEMMA ListedNext_ ==
    ASSUME SingleController, TypeOK, AllListed, NEW w \in Workers, Next_(w)
    PROVE  AllListed'
<1>1. /\ pending[w] \in Seq(Event) /\ pending[w] # <<>> /\ pc[w] = "idle"
      /\ cur'[w] = Head(pending[w]) /\ pending'[w] = Tail(pending[w])
      /\ pc'[w] = IF Head(pending[w]).action = "delete" THEN "delActor" ELSE "fetch"
      /\ UNCHANGED <<tasks, index, stream, outcome>> /\ \A v \in Workers : v = w
  BY DEF Next_, TypeOK, SingleController, storeVars
<1>2. ASSUME NEW t \in Tasks PROVE Listed(t)'
  <2>1. SUFFICES ASSUME Exists(t), t \notin index PROVE Listed(t)'
    BY <1>1 DEF Listed, Exists
  <2>2. /\ EndsInDelete(stream', t) <=> EndsInDelete(stream, t)
        /\ Mentions(stream', t) <=> Mentions(stream, t)
    BY <1>1 DEF EndsInDelete, Mentions
  <2>3. pc[w] \notin DeletePCs
    BY <1>1 DEF DeletePCs
  <2>4. CASE EndsInDelete(stream, t)
    BY <2>2, <2>4 DEF Listed
  <2>5. CASE ~Mentions(stream, t) /\ EndsInDelete(pending[w], t)
    <3>1. CASE EndsInDelete(Tail(pending[w]), t)
      BY <1>1, <2>2, <2>5, <3>1 DEF Listed
    <3>2. CASE Head(pending[w]) = [task |-> t, action |-> "delete"] /\ ~Mentions(Tail(pending[w]), t)
      <4>1. pc'[w] \in DeletePCs /\ cur'[w].task = t
        BY <1>1, <3>2 DEF DeletePCs
      <4>2. ~Owed(t)'
        BY <1>1, <2>2, <2>5, <3>2 DEF Owed
      <4> QED BY <4>1, <4>2 DEF Listed
    <3> QED BY <1>1, <2>5, <3>1, <3>2, EndsTail
  <2>6. CASE Quiet(t) /\ outcome[t] # "ok"
    <3>1. ~Mentions(stream, t) /\ ~Mentions(pending[w], t)
      BY <2>6 DEF Quiet, Owed
    <3>2. Head(pending[w]).task # t /\ ~Mentions(Tail(pending[w]), t)
      BY <1>1, <3>1, EndsTail
    <3>3. Quiet(t)'
      BY <1>1, <2>2, <3>1, <3>2 DEF Quiet, Owed
    <3> QED BY <1>1, <2>6, <3>3 DEF Listed
  <2> QED BY <1>1, <2>1, <2>3, <2>4, <2>5, <2>6 DEF AllListed, Listed
<1> QED BY <1>2 DEF AllListed

\* A call of processEvent that leaves the store alone and goes on.
LEMMA ListedBusy ==
    ASSUME SingleController, AllListed, NEW w \in Workers, pc[w] # "idle", pc'[w] # "idle",
           pc[w] \in DeletePCs => pc'[w] \in DeletePCs,
           UNCHANGED <<tasks, index, stream, pending, cur, outcome>>
    PROVE  AllListed'
<1>1. \A v \in Workers : v = w
  BY DEF SingleController
<1>2. ASSUME NEW t \in Tasks PROVE Listed(t)'
  <2>1. Listed(t) /\ (Exists(t)' => Exists(t))
    BY DEF AllListed, Exists
  <2> QED BY <1>1, <2>1, ListedKept
<1> QED BY <1>2 DEF AllListed

\* processEvent returns.  A deletion that was under way is done, or its
\* failure is recorded.
LEMMA ListedFinish ==
    ASSUME SingleController, Inv, AllListed, NEW w \in Workers, pc[w] # "idle",
           NEW r, Finish(w, r), UNCHANGED stream,
           \A t \in Tasks : (Exists(t)' => Exists(t)) /\ (t # cur[w].task /\ t \in index => t \in index'),
           \/ tasks'[cur[w].task] = NoTask
           \/ UNCHANGED index /\ (pc[w] \in DeletePCs => r # "ok")
    PROVE  AllListed'
<1>1. /\ cur[w].task \in Tasks /\ pc'[w] = "idle" /\ outcome'[cur[w].task] = r
      /\ \A u \in Tasks : u # cur[w].task => outcome'[u] = outcome[u]
      /\ UNCHANGED pending /\ \A v \in Workers : v = w
  BY FinishFacts DEF SingleController
<1>2. ASSUME NEW t \in Tasks PROVE Listed(t)'
  <2>1. CASE t # cur[w].task
    <3>1. Listed(t) /\ (Exists(t)' => Exists(t)) /\ (t \in index => t \in index')
      BY <2>1 DEF AllListed
    <3> QED BY <1>1, <2>1, <3>1, ListedKept
  <2>2. CASE t = cur[w].task
    <3>1. SUFFICES ASSUME Exists(t), t \notin index, UNCHANGED index, pc[w] \in DeletePCs => r # "ok"
                   PROVE Listed(t)'
      BY <2>2 DEF Listed, Exists
    <3>2. /\ EndsInDelete(stream', t) <=> EndsInDelete(stream, t)
          /\ Mentions(stream', t) <=> Mentions(stream, t)
          /\ EndsInDelete(pending'[w], t) <=> EndsInDelete(pending[w], t)
      BY <1>1 DEF EndsInDelete, Mentions
    <3>3. ~Quiet(t)
      BY <2>2 DEF Quiet
    <3>4. CASE ~Owed(t) /\ pc[w] \in DeletePCs
      <4>1. ~Owed(t)'
        BY <1>1, <3>4, OwedSame
      <4>2. Quiet(t)'
        BY <1>1, <4>1 DEF Quiet
      <4> QED BY <1>1, <2>2, <3>1, <3>4, <4>2 DEF Listed
    <3> QED BY <1>1, <3>1, <3>2, <3>3, <3>4 DEF AllListed, Listed
  <2> QED BY <2>1, <2>2
<1> QED BY <1>2 DEF AllListed

\* A crash: what the worker held is lost.
LEMMA ListedCrash ==
    ASSUME SingleController, TypeOK, AllListed, NEW w \in Workers, Crash(w)
    PROVE  AllListed'
<1> DEFINE held == IF pc[w] = "idle" THEN pending[w] ELSE Append(pending[w], cur[w])
<1>1. /\ pc'[w] = "idle" /\ pending'[w] = <<>> /\ UNCHANGED <<tasks, index, stream>>
      /\ \A t \in Tasks : outcome'[t] = IF Mentions(held, t) THEN "lost" ELSE outcome[t]
      /\ \A v \in Workers : v = w
  BY DEF Crash, Lose, Goto, TypeOK, SingleController, storeVars
<1>2. pending[w] \in Seq(Event) /\ (pc[w] # "idle" => cur[w] \in Event)
  BY DEF TypeOK
<1>3. ASSUME NEW t \in Tasks PROVE Listed(t)'
  <2>1. SUFFICES ASSUME Exists(t), t \notin index PROVE Listed(t)'
    BY <1>1 DEF Listed, Exists
  <2>2. /\ EndsInDelete(stream', t) <=> EndsInDelete(stream, t)
        /\ Mentions(stream', t) <=> Mentions(stream, t)
        /\ ~Mentions(<<>>, t)
    BY <1>1 DEF EndsInDelete, Mentions
  <2>3. ASSUME ~Mentions(stream, t) PROVE Quiet(t)'
    BY <1>1, <2>2, <2>3 DEF Quiet, Owed
  <2>4. Mentions(pending[w], t) => Mentions(held, t)
    <3>1. CASE pc[w] = "idle"
      BY <3>1
    <3>2. CASE pc[w] # "idle"
      <4>1. /\ held = Append(pending[w], cur[w])
            /\ 1..Len(pending[w]) \subseteq 1..Len(held)
            /\ \A i \in 1..Len(pending[w]) : held[i] = pending[w][i]
        BY <1>2, <3>2
      <4> QED BY <4>1 DEF Mentions
    <3> QED BY <3>1, <3>2
  <2>5. pc[w] # "idle" /\ cur[w].task = t => Mentions(held, t)
    <3>1. SUFFICES ASSUME pc[w] # "idle", cur[w].task = t PROVE Mentions(held, t)
      OBVIOUS
    <3>2. /\ Len(pending[w]) + 1 \in 1..Len(held)
          /\ held[Len(pending[w]) + 1] = cur[w]
      BY <1>2, <3>1
    <3> QED BY <3>1, <3>2 DEF Mentions
  <2>6. CASE EndsInDelete(stream, t)
    BY <2>2, <2>6 DEF Listed
  <2>7. CASE ~Mentions(stream, t) /\ EndsInDelete(pending[w], t)
    <3>1. outcome'[t] = "lost"
      BY <1>1, <1>2, <2>4, <2>7, EndsMentions
    <3> QED BY <2>3, <2>7, <3>1 DEF Listed
  <2>8. CASE ~Owed(t) /\ pc[w] \in DeletePCs /\ cur[w].task = t
    <3>1. pc[w] # "idle"
      BY <2>8 DEF DeletePCs
    <3>2. outcome'[t] = "lost"
      BY <1>1, <2>5, <2>8, <3>1
    <3>3. ~Mentions(stream, t)
      BY <2>8 DEF Owed
    <3> QED BY <2>3, <3>2, <3>3 DEF Listed
  <2>9. CASE Quiet(t) /\ outcome[t] # "ok"
    <3>1. ~Mentions(stream, t)
      BY <2>9 DEF Quiet, Owed
    <3>2. outcome'[t] # "ok"
      BY <1>1, <2>9
    <3> QED BY <2>3, <3>1, <3>2 DEF Listed
  <2> QED BY <1>1, <2>1, <2>6, <2>7, <2>8, <2>9 DEF AllListed, Listed
<1> QED BY <1>3 DEF AllListed

\* The calls of processEvent.
LEMMA ListedProcess ==
    ASSUME SingleController, Inv, AllListed, NEW w \in Workers,
           \/ Fetch(w) \/ Prepare(w) \/ EnsureActor(w) \/ InspectActor(w) \/ ReapActor(w)
           \/ RecreateActor(w) \/ ActuateActor(w) \/ StatusGet(w) \/ StatusSet(w)
           \/ DeleteActor(w) \/ DeleteRecord(w)
           \/ SubstrateError(w) \/ DeleteActorFails(w) \/ StoreError(w)
    PROVE  AllListed'
<1> USE DEF storeVars
<1>1. /\ pc \in [Workers -> PCs]
      /\ pc[w] # "idle" => cur[w].task \in Tasks
      /\ pc[w] \in ReconcilePCs => Exists(cur[w].task)
      /\ ReconcilePCs \cap DeletePCs = {}
  BY DEF Inv, TypeOK, WorkerView, SnapshotCurrent, Event, ReconcilePCs, DeletePCs
<1>2. ASSUME NEW l \in PCs \ {"idle"}, pc' = [pc EXCEPT ![w] = l], pc[w] \notin DeletePCs \cup {"idle"},
             UNCHANGED <<tasks, index, stream, pending, cur, outcome>>
      PROVE  AllListed'
  <2>1. pc'[w] # "idle"
    BY <1>1, <1>2
  <2> QED BY <1>2, <2>1, ListedBusy
<1>3. ASSUME NEW r, Finish(w, r), pc[w] # "idle", UNCHANGED storeVars, pc[w] \in DeletePCs => r # "ok"
      PROVE  AllListed'
  <2>1. UNCHANGED <<tasks, index, stream>>
    BY <1>3
  <2>2. \A t \in Tasks : (Exists(t)' => Exists(t)) /\ (t # cur[w].task /\ t \in index => t \in index')
    BY <2>1 DEF Exists
  <2> QED BY <1>3, <2>1, <2>2, ListedFinish
<1>4. ASSUME NEW r, Finish(w, r), pc[w] = "statusSet", UpdateTaskStatusSet(cur[w].task, seen[w])
      PROVE  AllListed'
  <2>1. /\ pc[w] \in ReconcilePCs /\ pc[w] # "idle" /\ pc[w] \notin DeletePCs
        /\ UNCHANGED <<index, stream>>
    BY <1>4 DEF ReconcilePCs, DeletePCs, UpdateTaskStatusSet
  <2>2. \A t \in Tasks : Exists(t)' => Exists(t)
    BY <1>1, <1>4, <2>1 DEF UpdateTaskStatusSet, Exists, Inv, TypeOK, StoreTypeOK
  <2> QED BY <1>4, <2>1, <2>2, ListedFinish
<1>5. ASSUME NEW r, Finish(w, r), pc[w] = "delRecord", DeleteTask(cur[w].task)
      PROVE  AllListed'
  <2>1. /\ UNCHANGED stream /\ index' = index \ {cur[w].task} /\ pc[w] # "idle"
        /\ cur[w].task \in Tasks
    BY <1>1, <1>5 DEF DeleteTask
  <2>2. /\ \A t \in Tasks : Exists(t)' => Exists(t)
        /\ tasks'[cur[w].task] = NoTask
    BY <1>5, <2>1 DEF DeleteTask, Exists, Inv, TypeOK, StoreTypeOK
  <2> QED BY <1>5, <2>1, <2>2, ListedFinish
<1>6. CASE Fetch(w)
  <2>1. CASE Finish(w, "ok")
    <3>1. pc[w] # "idle" /\ pc[w] \notin DeletePCs /\ UNCHANGED storeVars
      BY <1>6 DEF Fetch, DeletePCs
    <3> QED BY <1>3, <2>1, <3>1
  <2>2. CASE Goto(w, "prepare") /\ UNCHANGED <<pending, cur, outcome>>
    BY <1>2, <1>6, <2>2 DEF Fetch, Goto, PCs, ReconcilePCs, DeletePCs
  <2> QED BY <1>6, <2>1, <2>2 DEF Fetch
<1>7. CASE \/ Prepare(w) \/ EnsureActor(w) \/ InspectActor(w) \/ ReapActor(w)
           \/ RecreateActor(w) \/ ActuateActor(w) \/ SubstrateError(w)
  <2>1. /\ pc[w] \notin DeletePCs \cup {"idle"}
        /\ UNCHANGED <<tasks, index, stream, pending, cur, outcome>>
    BY <1>7 DEF Prepare, EnsureActor, InspectActor, ReapActor, RecreateActor, ActuateActor,
         SubstrateError, DeletePCs
  <2>2. \E l \in PCs \ {"idle"} : pc' = [pc EXCEPT ![w] = l]
    <3>1. {"ensure", "inspect", "reap", "recreate", "actuate", "statusGet"} \subseteq PCs \ {"idle"}
      BY DEF PCs, ReconcilePCs
    <3>2. CASE EnsureActor(w)
      <4>1. pc' = [pc EXCEPT ![w] = "actuate"] \/ pc' = [pc EXCEPT ![w] = "inspect"]
        BY <3>2 DEF EnsureActor, Goto
      <4> QED BY <3>1, <4>1
    <3>3. CASE \/ Prepare(w) \/ InspectActor(w) \/ ReapActor(w)
               \/ RecreateActor(w) \/ ActuateActor(w) \/ SubstrateError(w)
      <4>1. \E l \in {"ensure", "reap", "recreate", "actuate", "statusGet"} : pc' = [pc EXCEPT ![w] = l]
        BY <3>3 DEF Prepare, InspectActor, ReapActor, RecreateActor, ActuateActor,
             SubstrateError, EndReconcile, Goto
      <4> QED BY <3>1, <4>1
    <3> QED BY <1>7, <3>2, <3>3
  <2> QED BY <1>2, <2>1, <2>2
<1>8. CASE StatusGet(w)
  <2>1. Exists(cur[w].task)
    BY <1>1, <1>8 DEF StatusGet, ReconcilePCs
  <2>2. /\ pc[w] \notin DeletePCs \cup {"idle"} /\ "statusSet" \in PCs \ {"idle"}
        /\ pc' = [pc EXCEPT ![w] = "statusSet"]
        /\ UNCHANGED <<tasks, index, stream, pending, cur, outcome>>
    BY <1>8, <2>1 DEF StatusGet, Goto, PCs, ReconcilePCs, DeletePCs
  <2> QED BY <1>2, <2>2
<1>9. CASE StatusSet(w)
  BY <1>4, <1>9 DEF StatusSet
<1>10. CASE DeleteActor(w)
  <2>1. /\ pc[w] # "idle" /\ pc'[w] = "delRecord"
        /\ UNCHANGED <<tasks, index, stream, pending, cur, outcome>>
    BY <1>1, <1>10 DEF DeleteActor, Goto
  <2>2. pc'[w] \in DeletePCs
    BY <2>1 DEF DeletePCs
  <2> QED BY <2>1, <2>2, ListedBusy
<1>11. CASE DeleteRecord(w)
  BY <1>5, <1>11 DEF DeleteRecord
<1>12. CASE DeleteActorFails(w)
  <2>1. Finish(w, "deleteFailed") /\ pc[w] # "idle" /\ UNCHANGED storeVars
    BY <1>12 DEF DeleteActorFails
  <2> QED BY <1>3, <2>1
<1>13. CASE StoreError(w)
  <2>1. pc[w] # "idle" /\ PCs \cap DeletePCs = DeletePCs
    BY <1>13 DEF StoreError, PCs
  <2>2. CASE UNCHANGED storeVars
    <3>1. \E r : Finish(w, r) /\ r # "ok"
      BY <1>13 DEF StoreError
    <3> QED BY <1>3, <2>1, <2>2, <3>1
  <2>3. \E r : Finish(w, r)
    BY <1>13 DEF StoreError
  <2> QED BY <1>4, <1>5, <1>13, <2>2, <2>3 DEF StoreError
<1> QED BY <1>6, <1>7, <1>8, <1>9, <1>10, <1>11, <1>12, <1>13

\* With one controller, a task whose last event was handled without error and
\* that has no event left is in ListTasks if it has a record, although a
\* MarkTaskDeleting that raced a removal wrote the record without the index
\* (redis/store.go, MarkTaskDeleting).
THEOREM ListedWhenQuietHolds == ASSUME SingleController PROVE Spec => []ListedWhenQuiet
<1>1. Init => AllListed
  BY DEF Init, StoreInit, AllListed, Listed, Exists
<1>2. Inv /\ AllListed /\ [Next]_vars => AllListed'
  <2> SUFFICES ASSUME Inv, AllListed, [Next]_vars PROVE AllListed'
    OBVIOUS
  <2>0. TypeOK
    BY DEF Inv
  <2>1. CASE ClientNext
    BY <2>0, <2>1, ListedClient
  <2>2. ASSUME UNCHANGED <<tasks, index, stream, pending, pc, cur, outcome>> PROVE AllListed'
    BY <2>2, ListedKept DEF AllListed, Exists
  <2>3. CASE SubstrateNext
    BY <2>2, <2>3 DEF SubstrateNext, FinishDelete, ActorCrash, storeVars, workerVars
  <2>4. CASE UNCHANGED vars
    BY <2>2, <2>4 DEF vars
  <2>5. ASSUME NEW w \in Workers, WorkerStep(w) PROVE AllListed'
    BY <2>0, <2>5, ListedRead, ListedNext_, ListedProcess DEF WorkerStep
  <2>6. ASSUME NEW w \in Workers, WorkerFault(w) PROVE AllListed'
    BY <2>0, <2>6, ListedRead, ListedProcess, ListedCrash DEF WorkerFault
  <2> QED BY <2>1, <2>3, <2>4, <2>5, <2>6 DEF Next
<1>3. AllListed => ListedWhenQuiet
  <2> SUFFICES ASSUME AllListed, NEW t \in Tasks, Quiet(t), outcome[t] = "ok", Exists(t)
               PROVE  t \in index
    BY DEF ListedWhenQuiet, ListTasks
  <2>1. ~Mentions(stream, t) /\ \A w \in Workers : ~Mentions(pending[w], t)
    BY DEF Quiet, Owed
  <2>2. \A w \in Workers : pc[w] \in DeletePCs => pc[w] # "idle"
    BY DEF DeletePCs
  <2>3. ~EndsInDelete(stream, t) /\ \A w \in Workers : ~EndsInDelete(pending[w], t)
    BY <2>1 DEF EndsInDelete, Mentions
  <2> QED BY <2>2, <2>3 DEF AllListed, Listed, Quiet
<1> QED BY InvInit, InvNext, <1>1, <1>2, <1>3, PTL DEF Spec
=============================================================================
