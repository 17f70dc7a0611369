-------------------------- MODULE ReconcilerProofs --------------------------
(***************************************************************************)
(* Theorems about Reconciler for every set of launch configurations, every *)
(* number of attempts in its loops and every choice of faults.             *)
(***************************************************************************)
EXTENDS Reconciler, TLAPS

-----------------------------------------------------------------------------
(* Type correctness.                                                       *)

\* The status a pass starts from, and any one it makes of it, is a status.
LEMMA StatusTypes ==
    ASSUME status \in TaskStatus
    PROVE  /\ [status EXCEPT !.phase = "Failed", !.ready = "False"] \in TaskStatus
           /\ [status EXCEPT !.phase = "Failed"] \in TaskStatus
           /\ [status EXCEPT !.gatewayReady = "True"] \in TaskStatus
           /\ [status EXCEPT !.gatewayReady = "False"] \in TaskStatus
           /\ Suspended \in TaskStatus
           /\ \A b \in BOOLEAN : Running(b) \in TaskStatus
BY DEF TaskStatus, Phases, Condition, Suspended, Running

\* What Substrate makes of an actor is an actor.
LEMMA ActorTypes ==
    ASSUME actor \in Actor, template \in Templates
    PROVE  /\ Created(actor) \in Actor
           /\ Deleted(actor) \in Actor
           /\ Actuated(actor) \in Actor
           /\ NoActor \in Actor
           /\ \A p \in {"all", "restricted"} : [actor EXCEPT !.policy = p] \in Actor
           /\ [actor EXCEPT !.setUp = TRUE] \in Actor
           /\ [actor EXCEPT !.state = "crashed"] \in Actor
BY DEF Actor, Created, Deleted, Actuated, NoActor, Templates, Usable

\* The fields of the statuses a pass reports.
LEMMA StatusFields ==
    ASSUME status \in TaskStatus
    PROVE  /\ LET s == [status EXCEPT !.phase = "Failed", !.ready = "False"]
              IN /\ s.phase = "Failed" /\ s.ready = "False"
                 /\ s.workspaceReady = status.workspaceReady
                 /\ s.gatewayReady = status.gatewayReady
           /\ LET s == [status EXCEPT !.phase = "Failed"]
              IN /\ s.phase = "Failed" /\ s.ready = status.ready
                 /\ s.workspaceReady = status.workspaceReady
                 /\ s.gatewayReady = status.gatewayReady
           /\ \A v \in {"True", "False"} :
                LET s == [status EXCEPT !.gatewayReady = v]
                IN /\ s.phase = status.phase /\ s.ready = status.ready
                   /\ s.workspaceReady = status.workspaceReady
                   /\ s.gatewayReady = v
           /\ /\ Suspended.phase = "Suspended" /\ Suspended.ready = "False"
              /\ Suspended.workspaceReady = status.workspaceReady
              /\ Suspended.gatewayReady = status.gatewayReady
           /\ \A b \in BOOLEAN :
                /\ Running(b).phase = "Running"
                /\ Running(b).ready = (IF b THEN "True" ELSE "False")
                /\ Running(b).workspaceReady = (IF b THEN "True" ELSE "False")
                /\ Running(b).gatewayReady = status.gatewayReady
BY DEF TaskStatus, Suspended, Running

\* The fields of the actors Substrate makes.
LEMMA ActorFields ==
    ASSUME actor \in Actor
    PROVE  /\ actor.state = "absent" =>
                /\ Created(actor).state = "suspended" /\ Created(actor).template = template
                /\ Created(actor).setUp = FALSE
           /\ actor.state # "absent" => Created(actor) = actor
           /\ Deleted(actor).state \in {"absent", "deleting"}
           /\ Actuated(actor).state \in {actor.state, "suspended", "running"}
           /\ Actuated(actor).template = actor.template
           /\ Actuated(actor).policy = actor.policy
           /\ Actuated(actor).setUp = actor.setUp
           /\ \A x \in {"all", "restricted"} :
                /\ [actor EXCEPT !.policy = x].state = actor.state
                /\ [actor EXCEPT !.policy = x].template = actor.template
                /\ [actor EXCEPT !.policy = x].setUp = actor.setUp
                /\ [actor EXCEPT !.policy = x].policy = x
           /\ NoActor.state = "absent"
BY DEF Actor, Created, Deleted, Actuated, NoActor, Usable

\* Every step keeps the types.
LEMMA TypeStep == TypeOK /\ [Next]_vars => TypeOK'
<1> SUFFICES ASSUME TypeOK, [Next]_vars
             PROVE  TypeOK'
  OBVIOUS
<1> USE ReconcilerAssumption DEF TypeOK, ReconcilePCs, DeletePCs, passVars, history, Goto
<1>a. "default" \in Templates
  BY DEF Templates
<1>1. ASSUME NEW s \in Submitted, SaveTask(s) PROVE TypeOK'
  <2>1. record' \in TaskStatus /\ vouched' \in BOOLEAN
    BY <1>1 DEF SaveTask
  <2> QED BY <1>1, <2>1 DEF SaveTask
<1>2. CASE ActorNext
  BY <1>2, ActorTypes DEF ActorNext, FinishSetup, ActorCrash, FinishDelete
<1>3. CASE StartReconcile
  BY <1>3, <1>a DEF StartReconcile, Allowlists
<1>4. CASE Lookup
  <2>1. CASE Goto("atespace") /\ allowlist' \in Allowlists /\ UNCHANGED <<status, suspend, work>>
    BY <1>4, <1>a, <2>1 DEF Lookup
  <2>2. CASE End
    BY <1>4, <1>a, <2>2 DEF Lookup, End
  <2> QED BY <1>4, <2>1, <2>2 DEF Lookup
<1>5. CASE EnsureAtespace
  BY <1>5, <1>a, StatusTypes DEF EnsureAtespace, Fail, Return
<1>6. CASE InjectModelEnvironment
  BY <1>6, <1>a, StatusTypes DEF InjectModelEnvironment
<1>7. CASE EnsureActorTemplate
  BY <1>7, <1>a DEF EnsureActorTemplate, Templates
<1>8. CASE CreateActor
  BY <1>8, <1>a, StatusTypes, ActorTypes DEF CreateActor, Fail, Return
<1>9. CASE InspectActor
  BY <1>9, <1>a, StatusTypes DEF InspectActor, Fail, Return
<1>10. CASE ReapActor
  BY <1>10, <1>a, ActorTypes DEF ReapActor
<1>11. CASE RecreateActor
  BY <1>11, <1>a, StatusTypes, ActorTypes DEF RecreateActor, Fail, Return, Retry
<1>12. CASE ApplyEgressPolicy
  <2>1. status' \in TaskStatus
    BY <1>12, StatusTypes DEF ApplyEgressPolicy
  <2>2. actor' \in Actor
    BY <1>12, ActorTypes DEF ApplyEgressPolicy, Allowlists
  <2> QED BY <1>12, <1>a, <2>1, <2>2 DEF ApplyEgressPolicy
<1>13. CASE ActuateActor
  <2>1. status' \in TaskStatus
    BY <1>13, StatusTypes DEF ActuateActor, Fail, Return
  <2>2. actor' \in Actor
    BY <1>13, ActorTypes DEF ActuateActor
  <2>3. pc' \in {"poll", "status"} /\ tries' = 0 /\ template' = "default"
    BY <1>13 DEF ActuateActor, Fail, Return
  <2>4. UNCHANGED <<record, templates, suspend, allowlist, work, history>>
    BY <1>13 DEF ActuateActor
  <2>5. pc' \notin {"recreate", "deleteTemplates"} /\ (pc' = "poll" => tries' < Polls) /\ tries' \in Nat
    BY <2>3
  <2> QED BY <1>a, <2>1, <2>2, <2>3, <2>4, <2>5
<1>14. CASE PollReady
  <2>1. status' \in TaskStatus
    BY <1>14, StatusTypes DEF PollReady, Return
  <2>2. \/ pc' = "poll" /\ tries' = tries + 1 /\ tries + 1 < Polls /\ template' = template
        \/ pc' = "status" /\ tries' = 0 /\ template' = "default"
    BY <1>14 DEF PollReady, Return, Retry
  <2>3. UNCHANGED <<record, templates, actor, suspend, allowlist, work, history>>
    BY <1>14 DEF PollReady
  <2> QED BY <1>a, <2>1, <2>2, <2>3
<1>15. CASE UpdateTaskStatus
  BY <1>15, <1>a DEF UpdateTaskStatus, End
<1>16. CASE StartDelete
  BY <1>16, <1>a DEF StartDelete, Allowlists
<1>17. CASE DeleteActor
  BY <1>17, <1>a, ActorTypes DEF DeleteActor
<1>18. CASE ListActorTemplates
  BY <1>18, <1>a DEF ListActorTemplates
<1>19. CASE DeleteActorTemplate
  BY <1>19, <1>a DEF DeleteActorTemplate, Retry
<1>20. CASE TemplatesDone
  BY <1>20, <1>a DEF TemplatesDone
<1>21. CASE DeleteTask
  BY <1>21, <1>a DEF DeleteTask
<1>22. CASE Crash
  BY <1>22, <1>a DEF Crash
<1>23. CASE UNCHANGED vars
  BY <1>23 DEF vars
<1> QED
  BY <1>1, <1>2, <1>3, <1>4, <1>5, <1>6, <1>7, <1>8, <1>9, <1>10, <1>11, <1>12, <1>13,
     <1>14, <1>15, <1>16, <1>17, <1>18, <1>19, <1>20, <1>21, <1>22, <1>23
  DEF Next, ReconcileStep, DeleteStep

\* Every reachable state of the reconciler is well typed: a pass that needs a
\* status has one, and no loop makes more attempts than it has (reconcile,
\* EnsureActor, deleteTaskTemplates).
THEOREM TypeCorrect == Spec => []TypeOK
<1>1. NoActor \in Actor
  BY DEF NoActor, Actor, Templates
<1>2. Init => TypeOK
  <2> SUFFICES ASSUME Init PROVE TypeOK
    OBVIOUS
  <2>1. /\ pc \in {"idle"} /\ pc \notin ReconcilePCs
        /\ pc \notin {"recreate", "deleteTemplates", "poll"}
    BY DEF Init, ReconcilePCs
  <2>2. /\ record \in TaskStatus \cup {NoRecord} /\ status \in TaskStatus \cup {NoRecord}
        /\ actor \in Actor /\ template \in Templates /\ allowlist \in Allowlists
    BY <1>1 DEF Init, Templates, Allowlists
  <2>3. /\ {suspend, vouched, current} \subseteq BOOLEAN /\ tries \in Nat
        /\ {templates, work, warned} \subseteq SUBSET Launches
    BY DEF Init
  <2> QED BY <2>1, <2>2, <2>3 DEF TypeOK
<1> QED BY <1>2, TypeStep, PTL DEF Spec

-----------------------------------------------------------------------------
(* The inductive invariant: what holds in the middle of a pass.            *)

\* The actor is there and is not going away.
Alive(a) == a.state \notin {"absent", "deleting"}

\* A status whose phase and conditions agree.
Coherent(s) ==
    /\ s.phase \in {"Running", "Suspended", "Failed"}
    /\ s.ready = IF s.phase = "Running" /\ s.workspaceReady = "True" THEN "True" ELSE "False"
    /\ s.phase = "Running" => s.workspaceReady # "unset" /\ s.gatewayReady # "unset"

\* The status a pass is about to store agrees with itself, and so does the one
\* it has stored; the Gateway has been reported on before the actor is resumed.
ReportsCoherent ==
    /\ pc = "status" => Coherent(status)
    /\ pc = "idle" /\ current /\ record # NoRecord => Coherent(record)
    /\ pc \in {"actuate", "poll"} => status.gatewayReady # "unset"

\* From the moment its actor is deleted until the pass is over, a deletion
\* works on a task without an actor.
DeletedFirst == pc \in {"listTemplates", "deleteTemplates", "deleteRecord"} => ~Alive(actor)

\* Whoever says that a workspace is set up has it from an actor that did, or
\* from a client.
SaysReady(s) == s.workspaceReady = "True"
HasSetUp(a) == Alive(a) /\ a.setUp

Earned ==
    /\ record # NoRecord /\ SaysReady(record) => vouched
    /\ pc \in ReconcilePCs /\ SaysReady(status) => vouched
    /\ HasSetUp(actor) => vouched

\* The policy in force is the one that was found, if it is reported so.
InForce(s, a, list) ==
    Alive(a) /\ (s.gatewayReady = "True" /\ list # "empty" => a.policy = list)

Reported(s, a, list) == s.phase = "Running" => InForce(s, a, list)

\* Between the policy and the report that tells of it the actor stays.
PolicyKept ==
    /\ pc # "idle" => ~current
    /\ pc = "egress" => Alive(actor)
    /\ pc \in {"actuate", "poll"} => InForce(status, actor, allowlist)
    /\ pc = "status" => Reported(status, actor, allowlist)
    /\ pc = "idle" /\ current /\ record # NoRecord => Reported(record, actor, allowlist)

\* Templates that are in use, or about to be, exist.
TemplatesThere ==
    /\ template \in templates \cup {"default"}
    /\ pc \in DeletePCs => template = "default"
    /\ Alive(actor) => actor.template \in templates \cup {"default"}

\* The templates a task leaves behind were listed or warned about.
LeaksKnown ==
    /\ pc \in ReconcilePCs => record # NoRecord
    /\ record = NoRecord => templates \subseteq warned
    /\ pc = "deleteTemplates" => templates \subseteq warned \cup work
    /\ pc = "deleteRecord" => templates \subseteq warned

Inv ==
    /\ TypeOK /\ ReportsCoherent /\ DeletedFirst /\ Earned /\ PolicyKept
    /\ TemplatesThere /\ LeaksKnown

-----------------------------------------------------------------------------
(* Each part of the invariant is preserved, given the ones before it.      *)

\* What the branches of a step have in common.
LEMMA LookupEffect ==
    ASSUME Lookup
    PROVE  /\ pc = "lookup" /\ template' = "default"
           /\ \/ pc' = "atespace" /\ status' = status
              \/ pc' = "idle"
           /\ UNCHANGED <<record, templates, actor, work, history>>
BY DEF Lookup, End, Goto

\* What applying the egress policy leaves behind, by how it ended.
LEMMA EgressEffect ==
    ASSUME TypeOK, ApplyEgressPolicy
    PROVE  /\ pc = "egress" /\ pc' = "actuate" /\ template' = "default"
           /\ \E v \in {"True", "False"} :
                /\ status' = [status EXCEPT !.gatewayReady = v]
                /\ v = "True" /\ allowlist # "empty" => actor'.policy = allowlist
           /\ actor'.state = actor.state /\ actor'.template = actor.template
           /\ actor'.setUp = actor.setUp
           /\ UNCHANGED <<record, templates, allowlist, work, history>>
<1>1. /\ pc = "egress" /\ pc' = "actuate" /\ template' = "default"
      /\ UNCHANGED <<record, templates, allowlist, work, history>>
  BY DEF ApplyEgressPolicy, Goto
<1>2. \/ actor' = actor
      \/ allowlist # "empty" /\ actor' = [actor EXCEPT !.policy = allowlist]
  BY DEF ApplyEgressPolicy
<1>3. allowlist # "empty" => allowlist \in {"all", "restricted"}
  BY DEF TypeOK, Allowlists
<1>4. actor'.state = actor.state /\ actor'.template = actor.template /\ actor'.setUp = actor.setUp
  BY <1>2, <1>3, ActorFields DEF TypeOK
<1>5. \E v \in {"True", "False"} :
        /\ status' = [status EXCEPT !.gatewayReady = v]
        /\ v = "True" /\ allowlist # "empty" => actor'.policy = allowlist
  BY <1>3, ActorFields DEF ApplyEgressPolicy, TypeOK
<1> QED BY <1>1, <1>4, <1>5

\* What suspending or resuming the actor leaves behind.
LEMMA ActuateEffect ==
    ASSUME ActuateActor
    PROVE  /\ pc = "actuate" /\ template' = "default"
           /\ actor' \in {actor, Actuated(actor)}
           /\ \/ pc' = "poll" /\ status' = status
              \/ /\ pc' = "status"
                 /\ \/ status' = [status EXCEPT !.phase = "Failed", !.ready = "False"]
                    \/ status' = Suspended
                    \/ status' = Running(status.workspaceReady = "True")
           /\ UNCHANGED <<record, templates, allowlist, work, history>>
BY DEF ActuateActor, Fail, Return, Goto

\* What a readiness probe leaves behind.
LEMMA PollEffect ==
    ASSUME PollReady
    PROVE  /\ pc = "poll"
           /\ \/ pc' = "poll" /\ status' = status /\ template' = template
              \/ /\ pc' = "status" /\ template' = "default"
                 /\ \/ status' = Running(FALSE)
                    \/ status' = Running(TRUE) /\ actor.state = "running" /\ actor.setUp
           /\ UNCHANGED <<record, templates, actor, allowlist, work, history>>
BY DEF PollReady, Return, Retry, Goto

\* CreateActor in EnsureActor, the first time and in the loop.
LEMMA CreateEffect ==
    ASSUME CreateActor \/ RecreateActor
    PROVE  /\ pc \in {"create", "recreate"}
           /\ actor' \in {actor, Created(actor)}
           /\ \/ pc' \in {"inspect", "recreate"} /\ status' = status /\ template' = template
              \/ /\ pc' = "egress" /\ status' = status /\ template' = "default"
                 /\ actor.state = "absent" /\ actor' = Created(actor)
              \/ /\ pc' = "status" /\ template' = "default"
                 /\ status' = [status EXCEPT !.phase = "Failed", !.ready = "False"]
           /\ UNCHANGED <<record, templates, allowlist, work, history>>
BY DEF CreateActor, RecreateActor, Fail, Return, Retry, Goto

\* UpdateTaskStatus stores the pass's status, or leaves the record alone.
LEMMA UpdateEffect ==
    ASSUME UpdateTaskStatus
    PROVE  /\ pc \in {"status", "modelStatus"} /\ pc' = "idle"
           /\ \/ record' = status /\ (current' => pc = "status")
              \/ record' = record /\ current' = current
           /\ UNCHANGED <<actor, allowlist>>
BY DEF UpdateTaskStatus, End, Goto

\* The statuses a pass returns agree with themselves.
LEMMA CoherentStatus ==
    ASSUME status \in TaskStatus
    PROVE  /\ Coherent([status EXCEPT !.phase = "Failed", !.ready = "False"])
           /\ \A v \in {"True", "False"} : [status EXCEPT !.gatewayReady = v].gatewayReady # "unset"
           /\ Coherent(Suspended)
           /\ status.gatewayReady # "unset" => \A b \in BOOLEAN : Coherent(Running(b))
<1>1. Coherent([status EXCEPT !.phase = "Failed", !.ready = "False"])
  BY StatusFields DEF Coherent
<1>2. \A v \in {"True", "False"} : [status EXCEPT !.gatewayReady = v].gatewayReady # "unset"
  BY StatusFields
<1>3. Coherent(Suspended)
  BY StatusFields DEF Coherent
<1>4. status.gatewayReady # "unset" => \A b \in BOOLEAN : Coherent(Running(b))
  BY StatusFields DEF Coherent
<1> QED BY <1>1, <1>2, <1>3, <1>4

\* No step makes a status contradict itself.
LEMMA ReportsCoherentStep ==
    TypeOK /\ PolicyKept /\ ReportsCoherent /\ [Next]_vars => ReportsCoherent'
<1> SUFFICES ASSUME TypeOK, PolicyKept, ReportsCoherent, [Next]_vars
             PROVE  ReportsCoherent'
  OBVIOUS
<1>c. pc # "idle" => ~current
  BY DEF PolicyKept
<1> USE DEF ReportsCoherent, ReconcilePCs, DeletePCs, passVars, history, Goto
<1>a. pc \in ReconcilePCs => status \in TaskStatus
  BY DEF TypeOK
<1>1. ASSUME NEW s \in Submitted, SaveTask(s) PROVE ReportsCoherent'
  BY <1>1 DEF SaveTask
<1>2. CASE FinishSetup
  BY <1>2 DEF FinishSetup
<1>3. CASE ActorCrash
  BY <1>3 DEF ActorCrash
<1>4. CASE FinishDelete
  BY <1>4 DEF FinishDelete
<1>5. CASE StartReconcile
  BY <1>5 DEF StartReconcile
<1>6. CASE Lookup
  BY <1>6, <1>c, LookupEffect
<1>7. CASE EnsureAtespace
  BY <1>7, CoherentStatus, <1>a DEF EnsureAtespace, Fail, Return
<1>8. CASE InjectModelEnvironment
  BY <1>8, <1>c DEF InjectModelEnvironment
<1>9. CASE EnsureActorTemplate
  BY <1>9 DEF EnsureActorTemplate
<1>10. CASE CreateActor
  BY <1>10, CreateEffect, CoherentStatus, <1>a
<1>11. CASE InspectActor
  BY <1>11, CoherentStatus, <1>a DEF InspectActor, Fail, Return
<1>12. CASE ReapActor
  BY <1>12 DEF ReapActor
<1>13. CASE RecreateActor
  BY <1>13, CreateEffect, CoherentStatus, <1>a
<1>14. CASE ApplyEgressPolicy
  BY <1>14, EgressEffect, CoherentStatus, <1>a
<1>15. CASE ActuateActor
  BY <1>15, ActuateEffect, CoherentStatus, <1>a
<1>16. CASE PollReady
  BY <1>16, PollEffect, CoherentStatus, <1>a
<1>17. CASE UpdateTaskStatus
  BY <1>17, <1>c, UpdateEffect
<1>18. CASE StartDelete
  BY <1>18 DEF StartDelete
<1>19. CASE DeleteActor
  BY <1>19, <1>c DEF DeleteActor
<1>20. CASE ListActorTemplates
  BY <1>20 DEF ListActorTemplates
<1>21. CASE DeleteActorTemplate
  BY <1>21 DEF DeleteActorTemplate, Retry
<1>22. CASE TemplatesDone
  BY <1>22, <1>c DEF TemplatesDone
<1>23. CASE DeleteTask
  BY <1>23, <1>c DEF DeleteTask
<1>24. CASE Crash
  BY <1>24, <1>c DEF Crash
<1>25. CASE UNCHANGED vars
  BY <1>25 DEF vars
<1> QED
  BY <1>1, <1>2, <1>3, <1>4, <1>5, <1>6, <1>7, <1>8, <1>9, <1>10, <1>11, <1>12, <1>13,
     <1>14, <1>15, <1>16, <1>17, <1>18, <1>19, <1>20, <1>21, <1>22, <1>23, <1>24, <1>25
  DEF Next, ActorNext, ReconcileStep, DeleteStep

\* What keeps an actor alive, and what Substrate's operations leave of it.
LEMMA AliveActor ==
    ASSUME actor \in Actor
    PROVE  /\ FinishSetup => Alive(actor) /\ Alive(actor')
           /\ ActorCrash => Alive(actor) /\ Alive(actor')
           /\ FinishDelete => ~Alive(actor) /\ ~Alive(actor')
           /\ ~Alive(Deleted(actor))
           /\ Alive(Actuated(actor)) <=> Alive(actor)
           /\ actor.state = "absent" => ~Alive(actor) /\ Alive(Created(actor))
           /\ actor.state # "absent" => Created(actor) = actor
           /\ Usable(actor) => Alive(actor)
           /\ actor.state = "running" => Alive(actor)
BY DEF Alive, Actor, FinishSetup, ActorCrash, FinishDelete, NoActor, Created, Deleted, Actuated, Usable

\* A policy has no part in whether an actor is alive or set up.
LEMMA SameActor ==
    ASSUME actor'.state = actor.state, actor'.setUp = actor.setUp
    PROVE  /\ Alive(actor') <=> Alive(actor)
           /\ HasSetUp(actor') <=> HasSetUp(actor)
BY DEF Alive, HasSetUp

\* Only FinishSetup makes an actor one that is set up.
LEMMA SetUpActor ==
    ASSUME actor \in Actor
    PROVE  /\ ActorCrash /\ HasSetUp(actor') => HasSetUp(actor)
           /\ FinishDelete => ~HasSetUp(actor')
           /\ ~HasSetUp(Deleted(actor))
           /\ HasSetUp(Actuated(actor)) => HasSetUp(actor)
           /\ HasSetUp(Created(actor)) => HasSetUp(actor)
           /\ actor.state = "running" /\ actor.setUp => HasSetUp(actor)
BY DEF HasSetUp, Alive, Actor, ActorCrash, FinishDelete, NoActor, Created, Deleted, Actuated, Usable

\* Only a poll makes a status one that says the workspace is ready.
LEMMA SaysReadyStatus ==
    ASSUME status \in TaskStatus
    PROVE  /\ SaysReady([status EXCEPT !.phase = "Failed", !.ready = "False"]) => SaysReady(status)
           /\ SaysReady([status EXCEPT !.phase = "Failed"]) => SaysReady(status)
           /\ \A v \in {"True", "False"} :
                SaysReady([status EXCEPT !.gatewayReady = v]) => SaysReady(status)
           /\ SaysReady(Suspended) => SaysReady(status)
           /\ SaysReady(Running(status.workspaceReady = "True")) => SaysReady(status)
           /\ ~SaysReady(Running(FALSE))
BY DEF SaysReady, TaskStatus, Suspended, Running

\* A policy stays in force over what happens to an actor that is alive.
LEMMA InForceActor ==
    ASSUME actor \in Actor, NEW s, NEW list
    PROVE  /\ FinishSetup /\ InForce(s, actor, list) => InForce(s, actor', list)
           /\ ActorCrash /\ InForce(s, actor, list) => InForce(s, actor', list)
           /\ InForce(s, actor, list) => InForce(s, Actuated(actor), list)
BY DEF InForce, Alive, Actor, FinishSetup, ActorCrash, Actuated, Usable

\* What an actor does by itself does not falsify the report on its policy.
LEMMA ReportedActor ==
    ASSUME actor \in Actor, NEW s, NEW list
    PROVE  /\ FinishSetup /\ Reported(s, actor, list) => Reported(s, actor', list)
           /\ ActorCrash /\ Reported(s, actor, list) => Reported(s, actor', list)
           /\ ~Alive(actor) /\ Reported(s, actor, list) => \A a : Reported(s, a, list)
BY InForceActor DEF Reported, InForce

\* What a pass reports of the policy when it returns.
LEMMA ReportedStatus ==
    ASSUME status \in TaskStatus, NEW a, NEW list
    PROVE  /\ Reported([status EXCEPT !.phase = "Failed", !.ready = "False"], a, list)
           /\ Reported([status EXCEPT !.phase = "Failed"], a, list)
           /\ Reported(Suspended, a, list)
BY DEF Reported, TaskStatus, Suspended

\* Moving the phase to Running keeps a true report on the policy.
LEMMA ReportedRunning ==
    ASSUME status \in TaskStatus, NEW a, NEW list, InForce(status, a, list)
    PROVE  /\ Reported(Running(TRUE), a, list) /\ Reported(Running(FALSE), a, list)
           /\ Reported(Running(status.workspaceReady = "True"), a, list)
BY DEF Reported, InForce, TaskStatus, Running

\* No step of a deletion brings the actor back.
LEMMA DeletedFirstStep == TypeOK /\ DeletedFirst /\ [Next]_vars => DeletedFirst'
<1> SUFFICES ASSUME TypeOK, DeletedFirst, [Next]_vars
             PROVE  DeletedFirst'
  OBVIOUS
<1> USE DEF DeletedFirst, ReconcilePCs, DeletePCs, passVars, history, Goto
<1>a. actor \in Actor
  BY DEF TypeOK
<1>1. ASSUME NEW s \in Submitted, SaveTask(s) PROVE DeletedFirst'
  BY <1>1 DEF SaveTask
<1>2. CASE FinishSetup
  BY <1>2, AliveActor, <1>a DEF FinishSetup
<1>3. CASE ActorCrash
  BY <1>3, AliveActor, <1>a DEF ActorCrash
<1>4. CASE FinishDelete
  BY <1>4, AliveActor, <1>a DEF FinishDelete
<1>5. CASE StartReconcile
  BY <1>5 DEF StartReconcile
<1>6. CASE Lookup
  BY <1>6, LookupEffect
<1>7. CASE EnsureAtespace
  BY <1>7 DEF EnsureAtespace, Fail, Return
<1>8. CASE InjectModelEnvironment
  BY <1>8 DEF InjectModelEnvironment
<1>9. CASE EnsureActorTemplate
  BY <1>9 DEF EnsureActorTemplate
<1>10. CASE CreateActor
  BY <1>10, CreateEffect, AliveActor, <1>a
<1>11. CASE InspectActor
  BY <1>11 DEF InspectActor, Fail, Return
<1>12. CASE ReapActor
  BY <1>12, AliveActor, <1>a DEF ReapActor
<1>13. CASE RecreateActor
  BY <1>13, CreateEffect, AliveActor, <1>a
<1>14. CASE ApplyEgressPolicy
  BY <1>14, EgressEffect
<1>15. CASE ActuateActor
  BY <1>15, ActuateEffect, AliveActor, <1>a
<1>16. CASE PollReady
  BY <1>16, PollEffect, AliveActor, <1>a
<1>17. CASE UpdateTaskStatus
  BY <1>17 DEF UpdateTaskStatus, End
<1>18. CASE StartDelete
  BY <1>18 DEF StartDelete
<1>19. CASE DeleteActor
  BY <1>19, AliveActor, <1>a DEF DeleteActor
<1>20. CASE ListActorTemplates
  BY <1>20 DEF ListActorTemplates
<1>21. CASE DeleteActorTemplate
  BY <1>21 DEF DeleteActorTemplate, Retry
<1>22. CASE TemplatesDone
  BY <1>22 DEF TemplatesDone
<1>23. CASE DeleteTask
  BY <1>23 DEF DeleteTask
<1>24. CASE Crash
  BY <1>24 DEF Crash
<1>25. CASE UNCHANGED vars
  BY <1>25 DEF vars
<1> QED
  BY <1>1, <1>2, <1>3, <1>4, <1>5, <1>6, <1>7, <1>8, <1>9, <1>10, <1>11, <1>12, <1>13,
     <1>14, <1>15, <1>16, <1>17, <1>18, <1>19, <1>20, <1>21, <1>22, <1>23, <1>24, <1>25
  DEF Next, ActorNext, ReconcileStep, DeleteStep

\* Only FinishSetup lets anybody say that a workspace is ready.
LEMMA EarnedStep == TypeOK /\ DeletedFirst /\ Earned /\ [Next]_vars => Earned'
<1> SUFFICES ASSUME TypeOK, DeletedFirst, Earned, [Next]_vars
             PROVE  Earned'
  OBVIOUS
<1> USE DEF Earned, ReconcilePCs, DeletePCs, passVars, history, Goto
<1>a. actor \in Actor
  BY DEF TypeOK
<1>b. pc \in ReconcilePCs => status \in TaskStatus
  BY DEF TypeOK
<1>1. ASSUME NEW s \in Submitted, SaveTask(s) PROVE Earned'
  <2>1. SaysReady(record') => vouched'
    BY <1>1 DEF SaveTask, SaysReady
  <2> QED BY <1>1, <2>1 DEF SaveTask
<1>2. CASE FinishSetup
  BY <1>2 DEF FinishSetup
<1>3. CASE ActorCrash
  BY <1>3, SetUpActor, <1>a DEF ActorCrash
<1>4. CASE FinishDelete
  BY <1>4, SetUpActor, <1>a DEF FinishDelete
<1>5. CASE StartReconcile
  BY <1>5 DEF StartReconcile
<1>6. CASE Lookup
  BY <1>6, LookupEffect
<1>7. CASE EnsureAtespace
  BY <1>7, SaysReadyStatus, <1>b DEF EnsureAtespace, Fail, Return
<1>8. CASE InjectModelEnvironment
  BY <1>8, SaysReadyStatus, <1>b DEF InjectModelEnvironment
<1>9. CASE EnsureActorTemplate
  BY <1>9 DEF EnsureActorTemplate
<1>10. CASE CreateActor
  BY <1>10, CreateEffect, SaysReadyStatus, <1>b, SetUpActor, <1>a
<1>11. CASE InspectActor
  BY <1>11, SaysReadyStatus, <1>b DEF InspectActor, Fail, Return
<1>12. CASE ReapActor
  BY <1>12, SetUpActor, <1>a DEF ReapActor
<1>13. CASE RecreateActor
  BY <1>13, CreateEffect, SaysReadyStatus, <1>b, SetUpActor, <1>a
<1>14. CASE ApplyEgressPolicy
  <2>1. /\ pc = "egress" /\ pc' = "actuate" /\ template' = "default"
        /\ actor'.state = actor.state /\ actor'.template = actor.template
        /\ actor'.setUp = actor.setUp
        /\ UNCHANGED <<record, templates, work, history>>
    BY <1>14, EgressEffect
  <2>2. SaysReady(status') => SaysReady(status)
    BY <1>14, <2>1, <1>b, EgressEffect, SaysReadyStatus
  <2> QED BY <2>1, <2>2, SameActor
<1>15. CASE ActuateActor
  BY <1>15, ActuateEffect, SaysReadyStatus, <1>b, SetUpActor, <1>a
<1>16. CASE PollReady
  BY <1>16, PollEffect, SaysReadyStatus, <1>b, SetUpActor, <1>a
<1>17. CASE UpdateTaskStatus
  BY <1>17 DEF UpdateTaskStatus, End
<1>18. CASE StartDelete
  BY <1>18 DEF StartDelete
<1>19. CASE DeleteActor
  BY <1>19, SetUpActor, <1>a DEF DeleteActor
<1>20. CASE ListActorTemplates
  BY <1>20 DEF ListActorTemplates
<1>21. CASE DeleteActorTemplate
  BY <1>21 DEF DeleteActorTemplate, Retry
<1>22. CASE TemplatesDone
  BY <1>22 DEF TemplatesDone
<1>23. CASE DeleteTask
  <2>1. ~HasSetUp(actor)
    BY <1>23 DEF DeleteTask, DeletedFirst, HasSetUp
  <2> QED BY <1>23, <2>1 DEF DeleteTask
<1>24. CASE Crash
  BY <1>24 DEF Crash
<1>25. CASE UNCHANGED vars
  BY <1>25 DEF vars
<1> QED
  BY <1>1, <1>2, <1>3, <1>4, <1>5, <1>6, <1>7, <1>8, <1>9, <1>10, <1>11, <1>12, <1>13,
     <1>14, <1>15, <1>16, <1>17, <1>18, <1>19, <1>20, <1>21, <1>22, <1>23, <1>24, <1>25
  DEF Next, ActorNext, ReconcileStep, DeleteStep

\* From the policy to the report no step undoes the policy.
LEMMA PolicyKeptStep == TypeOK /\ PolicyKept /\ [Next]_vars => PolicyKept'
<1> SUFFICES ASSUME TypeOK, PolicyKept, [Next]_vars
             PROVE  PolicyKept'
  OBVIOUS
<1> USE DEF PolicyKept, ReconcilePCs, DeletePCs, passVars, history, Goto
<1>a. actor \in Actor
  BY DEF TypeOK
<1>b. pc \in ReconcilePCs => status \in TaskStatus
  BY DEF TypeOK
<1>1. ASSUME NEW s \in Submitted, SaveTask(s) PROVE PolicyKept'
  BY <1>1 DEF SaveTask
<1>2. CASE FinishSetup
  BY <1>2, AliveActor, <1>a, ReportedActor, InForceActor, <1>a DEF FinishSetup
<1>3. CASE ActorCrash
  BY <1>3, AliveActor, <1>a, ReportedActor, InForceActor, <1>a DEF ActorCrash
<1>4. CASE FinishDelete
  <2>1. pc \notin {"egress", "actuate", "poll"}
    BY <1>4, AliveActor, <1>a DEF InForce
  <2> QED BY <1>4, <2>1, AliveActor, ReportedActor, <1>a DEF FinishDelete, InForce
<1>5. CASE StartReconcile
  BY <1>5 DEF StartReconcile
<1>6. CASE Lookup
  BY <1>6, LookupEffect
<1>7. CASE EnsureAtespace
  BY <1>7, ReportedStatus, <1>b DEF EnsureAtespace, Fail, Return
<1>8. CASE InjectModelEnvironment
  BY <1>8, ReportedStatus, <1>b DEF InjectModelEnvironment
<1>9. CASE EnsureActorTemplate
  BY <1>9 DEF EnsureActorTemplate
<1>10. CASE CreateActor
  BY <1>10, CreateEffect, ReportedStatus, <1>b, AliveActor, <1>a
<1>11. CASE InspectActor
  BY <1>11, ReportedStatus, <1>b, AliveActor, <1>a DEF InspectActor, Fail, Return
<1>12. CASE ReapActor
  BY <1>12 DEF ReapActor
<1>13. CASE RecreateActor
  BY <1>13, CreateEffect, ReportedStatus, <1>b, AliveActor, <1>a
<1>14. CASE ApplyEgressPolicy
  <2>1. /\ pc' = "actuate" /\ ~current' /\ allowlist' = allowlist
    BY <1>14, EgressEffect
  <2>2. Alive(actor')
    BY <1>14, EgressEffect, SameActor
  <2>3. status'.gatewayReady = "True" /\ allowlist # "empty" => actor'.policy = allowlist
    BY <1>14, EgressEffect, StatusFields, <1>b
  <2> QED BY <2>1, <2>2, <2>3 DEF InForce
<1>15. CASE ActuateActor
  <2>1. InForce(status, actor', allowlist)
    BY <1>15, ActuateEffect, InForceActor, <1>a
  <2>2. status \in TaskStatus
    BY <1>15, ActuateEffect, <1>b
  <2>3. Reported(Running(status.workspaceReady = "True"), actor', allowlist)
    BY <2>1, <2>2, ReportedRunning
  <2>4. (pc' = "poll" /\ status' = status) \/ (pc' = "status" /\ Reported(status', actor', allowlist))
    BY <1>15, <2>2, <2>3, ActuateEffect, ReportedStatus
  <2> QED BY <1>15, <2>1, <2>4, ActuateEffect
<1>16. CASE PollReady
  <2>1. status \in TaskStatus /\ InForce(status, actor, allowlist)
    BY <1>16, PollEffect, <1>b
  <2>2. Reported(Running(TRUE), actor, allowlist) /\ Reported(Running(FALSE), actor, allowlist)
    BY <2>1, ReportedRunning
  <2>3. (pc' = "poll" /\ status' = status) \/ (pc' = "status" /\ Reported(status', actor, allowlist))
    BY <1>16, <2>2, PollEffect
  <2>4. UNCHANGED <<actor, allowlist, current>> /\ ~current
    BY <1>16, PollEffect
  <2> QED BY <2>1, <2>3, <2>4
<1>17. CASE UpdateTaskStatus
  BY <1>17, UpdateEffect
<1>18. CASE StartDelete
  BY <1>18 DEF StartDelete
<1>19. CASE DeleteActor
  BY <1>19 DEF DeleteActor
<1>20. CASE ListActorTemplates
  BY <1>20 DEF ListActorTemplates
<1>21. CASE DeleteActorTemplate
  BY <1>21 DEF DeleteActorTemplate, Retry
<1>22. CASE TemplatesDone
  BY <1>22 DEF TemplatesDone
<1>23. CASE DeleteTask
  BY <1>23 DEF DeleteTask
<1>24. CASE Crash
  BY <1>24 DEF Crash
<1>25. CASE UNCHANGED vars
  BY <1>25 DEF vars
<1> QED
  BY <1>1, <1>2, <1>3, <1>4, <1>5, <1>6, <1>7, <1>8, <1>9, <1>10, <1>11, <1>12, <1>13,
     <1>14, <1>15, <1>16, <1>17, <1>18, <1>19, <1>20, <1>21, <1>22, <1>23, <1>24, <1>25
  DEF Next, ActorNext, ReconcileStep, DeleteStep

\* A template goes only when no actor needs it.
LEMMA TemplatesThereStep == TypeOK /\ DeletedFirst /\ TemplatesThere /\ [Next]_vars => TemplatesThere'
<1> SUFFICES ASSUME TypeOK, DeletedFirst, TemplatesThere, [Next]_vars
             PROVE  TemplatesThere'
  OBVIOUS
<1> USE DEF TemplatesThere, ReconcilePCs, DeletePCs, passVars, history, Goto
<1>a. actor \in Actor
  BY DEF TypeOK
<1>1. ASSUME NEW s \in Submitted, SaveTask(s) PROVE TemplatesThere'
  BY <1>1 DEF SaveTask
<1>2. CASE FinishSetup
  <2>1. actor'.template = actor.template
    BY <1>2, <1>a DEF FinishSetup, Actor
  <2> QED BY <1>2, <2>1, <1>a, AliveActor DEF FinishSetup
<1>3. CASE ActorCrash
  <2>1. actor'.template = actor.template
    BY <1>3, <1>a DEF ActorCrash, Actor
  <2> QED BY <1>3, <2>1, <1>a, AliveActor DEF ActorCrash
<1>4. CASE FinishDelete
  BY <1>4, AliveActor, <1>a DEF FinishDelete
<1>5. CASE StartReconcile
  BY <1>5 DEF StartReconcile
<1>6. CASE Lookup
  BY <1>6, LookupEffect
<1>7. CASE EnsureAtespace
  BY <1>7 DEF EnsureAtespace, Fail, Return
<1>8. CASE InjectModelEnvironment
  BY <1>8 DEF InjectModelEnvironment
<1>9. CASE EnsureActorTemplate
  BY <1>9 DEF EnsureActorTemplate
<1>10. CASE CreateActor
  <2>1. actor' = actor \/ (actor.state = "absent" /\ actor' = Created(actor))
    <3>1. actor' \in {actor, Created(actor)}
      BY <1>10, CreateEffect
    <3>2. actor.state # "absent" => Created(actor) = actor
      BY <1>a, ActorFields
    <3> QED BY <3>1, <3>2
  <2>2. Alive(actor') => actor'.template \in templates \cup {"default"}
    BY <2>1, ActorFields, <1>a
  <2> QED BY <1>10, <2>2, CreateEffect
<1>11. CASE InspectActor
  BY <1>11 DEF InspectActor, Fail, Return
<1>12. CASE ReapActor
  BY <1>12, AliveActor, <1>a DEF ReapActor
<1>13. CASE RecreateActor
  <2>1. actor' = actor \/ (actor.state = "absent" /\ actor' = Created(actor))
    <3>1. actor' \in {actor, Created(actor)}
      BY <1>13, CreateEffect
    <3>2. actor.state # "absent" => Created(actor) = actor
      BY <1>a, ActorFields
    <3> QED BY <3>1, <3>2
  <2>2. Alive(actor') => actor'.template \in templates \cup {"default"}
    BY <2>1, ActorFields, <1>a
  <2> QED BY <1>13, <2>2, CreateEffect
<1>14. CASE ApplyEgressPolicy
  BY <1>14, EgressEffect, SameActor
<1>15. CASE ActuateActor
  BY <1>15, ActuateEffect, ActorFields, AliveActor, <1>a
<1>16. CASE PollReady
  BY <1>16, PollEffect
<1>17. CASE UpdateTaskStatus
  BY <1>17 DEF UpdateTaskStatus, End
<1>18. CASE StartDelete
  BY <1>18 DEF StartDelete
<1>19. CASE DeleteActor
  BY <1>19, AliveActor, <1>a DEF DeleteActor
<1>20. CASE ListActorTemplates
  BY <1>20 DEF ListActorTemplates
<1>21. CASE DeleteActorTemplate
  <2>1. ~Alive(actor) /\ template = "default"
    BY <1>21 DEF DeleteActorTemplate, DeletedFirst
  <2>2. actor' = actor /\ template' = "default"
    BY <1>21, <2>1 DEF DeleteActorTemplate, Retry
  <2> QED BY <2>1, <2>2
<1>22. CASE TemplatesDone
  BY <1>22 DEF TemplatesDone
<1>23. CASE DeleteTask
  BY <1>23 DEF DeleteTask
<1>24. CASE Crash
  BY <1>24 DEF Crash
<1>25. CASE UNCHANGED vars
  BY <1>25 DEF vars
<1> QED
  BY <1>1, <1>2, <1>3, <1>4, <1>5, <1>6, <1>7, <1>8, <1>9, <1>10, <1>11, <1>12, <1>13,
     <1>14, <1>15, <1>16, <1>17, <1>18, <1>19, <1>20, <1>21, <1>22, <1>23, <1>24, <1>25
  DEF Next, ActorNext, ReconcileStep, DeleteStep

\* A template is never forgotten without a warning.
LEMMA LeaksKnownStep == TypeOK /\ LeaksKnown /\ [Next]_vars => LeaksKnown'
<1> SUFFICES ASSUME TypeOK, LeaksKnown, [Next]_vars
             PROVE  LeaksKnown'
  OBVIOUS
<1> USE DEF LeaksKnown, ReconcilePCs, DeletePCs, passVars, history, Goto
<1>b. pc \in ReconcilePCs => status \in TaskStatus
  BY DEF TypeOK
<1>1. ASSUME NEW s \in Submitted, SaveTask(s) PROVE LeaksKnown'
  <2>1. record' \in TaskStatus
    BY <1>1, ReconcilerAssumption DEF SaveTask
  <2> QED BY <1>1, <2>1, ReconcilerAssumption DEF SaveTask
<1>2. CASE FinishSetup
  BY <1>2 DEF FinishSetup
<1>3. CASE ActorCrash
  BY <1>3 DEF ActorCrash
<1>4. CASE FinishDelete
  BY <1>4 DEF FinishDelete
<1>5. CASE StartReconcile
  BY <1>5 DEF StartReconcile
<1>6. CASE Lookup
  BY <1>6, LookupEffect
<1>7. CASE EnsureAtespace
  BY <1>7 DEF EnsureAtespace, Fail, Return
<1>8. CASE InjectModelEnvironment
  BY <1>8 DEF InjectModelEnvironment
<1>9. CASE EnsureActorTemplate
  BY <1>9 DEF EnsureActorTemplate
<1>10. CASE CreateActor
  BY <1>10, CreateEffect
<1>11. CASE InspectActor
  BY <1>11 DEF InspectActor, Fail, Return
<1>12. CASE ReapActor
  BY <1>12 DEF ReapActor
<1>13. CASE RecreateActor
  BY <1>13, CreateEffect
<1>14. CASE ApplyEgressPolicy
  BY <1>14, EgressEffect
<1>15. CASE ActuateActor
  BY <1>15, ActuateEffect
<1>16. CASE PollReady
  BY <1>16, PollEffect
<1>17. CASE UpdateTaskStatus
  <2>1. status \in TaskStatus
    BY <1>17, <1>b DEF UpdateTaskStatus
  <2> QED BY <1>17, <2>1, ReconcilerAssumption DEF UpdateTaskStatus, End
<1>18. CASE StartDelete
  BY <1>18 DEF StartDelete
<1>19. CASE DeleteActor
  BY <1>19 DEF DeleteActor
<1>20. CASE ListActorTemplates
  BY <1>20 DEF ListActorTemplates
<1>21. CASE DeleteActorTemplate
  BY <1>21 DEF DeleteActorTemplate, Retry
<1>22. CASE TemplatesDone
  BY <1>22 DEF TemplatesDone
<1>23. CASE DeleteTask
  BY <1>23 DEF DeleteTask
<1>24. CASE Crash
  BY <1>24 DEF Crash
<1>25. CASE UNCHANGED vars
  BY <1>25 DEF vars
<1> QED
  BY <1>1, <1>2, <1>3, <1>4, <1>5, <1>6, <1>7, <1>8, <1>9, <1>10, <1>11, <1>12, <1>13,
     <1>14, <1>15, <1>16, <1>17, <1>18, <1>19, <1>20, <1>21, <1>22, <1>23, <1>24, <1>25
  DEF Next, ActorNext, ReconcileStep, DeleteStep

-----------------------------------------------------------------------------
(* The theorems.                                                           *)

\* The invariant holds at the start and is preserved by every step.
LEMMA Invariance == Spec => []Inv
<1>1. Init => ReportsCoherent /\ DeletedFirst /\ Earned /\ PolicyKept /\ TemplatesThere /\ LeaksKnown
  <2> SUFFICES ASSUME Init
               PROVE  ReportsCoherent /\ DeletedFirst /\ Earned /\ PolicyKept /\ TemplatesThere /\ LeaksKnown
    OBVIOUS
  <2>1. /\ pc \notin ReconcilePCs /\ pc \notin DeletePCs /\ pc = "idle"
        /\ record = NoRecord /\ ~current /\ templates = {} /\ template = "default"
    BY DEF Init, ReconcilePCs, DeletePCs
  <2>2. ~Alive(actor) /\ ~HasSetUp(actor)
    BY DEF Init, NoActor, Alive, HasSetUp
  <2> QED BY <2>1, <2>2 DEF ReportsCoherent, DeletedFirst, Earned, PolicyKept, TemplatesThere, LeaksKnown
<1>2. TypeOK /\ Inv /\ [Next]_vars => Inv'
  BY TypeStep, ReportsCoherentStep, DeletedFirstStep, EarnedStep, PolicyKeptStep,
     TemplatesThereStep, LeaksKnownStep DEF Inv
<1>3. Init /\ TypeOK => Inv
  BY <1>1 DEF Inv
<1> QED BY <1>2, <1>3, TypeCorrect, PTL DEF Spec

\* Whatever status a client wrote and whatever faults came before, a pass that
\* stores its result leaves phase and conditions in agreement, unless it ended
\* on an invalid Model (reconcile, processEvent).
THEOREM ConditionsNeverContradict == Spec => []ConditionsCoherent
<1>1. Inv => ConditionsCoherent
  BY DEF Inv, ReportsCoherent, Coherent, ConditionsCoherent
<1> QED BY <1>1, Invariance, PTL

\* WorkspaceReady is stored only for a task one of whose actors has set its
\* workspace up or of which a client has said so: no timeout, retry or
\* suspension makes waitForWorkspace's answer up.
THEOREM WorkspaceReadyIsEarned == Spec => []WorkspaceReadyEarned
<1>1. Inv => WorkspaceReadyEarned
  BY DEF Inv, Earned, SaysReady, WorkspaceReadyEarned
<1> QED BY <1>1, Invariance, PTL

\* An actor reported Running with GatewayReady has the egress policy that the
\* pass found, and has it already while reconcile waits for the workspace,
\* unless the allowlist has no hosts, for which client.go applies nothing.
THEOREM EgressReportIsTrue == Spec => []EgressAsReported
<1>1. Inv => EgressAsReported
  <2> SUFFICES ASSUME Inv PROVE EgressAsReported
    OBVIOUS
  <2>1. ASSUME pc = "idle", current, record # NoRecord
        PROVE  EgressMatches(record)
    BY <2>1 DEF Inv, PolicyKept, Reported, InForce, EgressMatches
  <2>2. ASSUME pc = "poll"
        PROVE  EgressMatches([status EXCEPT !.phase = "Running"])
    <3>1. status \in TaskStatus /\ InForce(status, actor, allowlist)
      BY <2>2 DEF Inv, TypeOK, PolicyKept, ReconcilePCs
    <3>2. [status EXCEPT !.phase = "Running"].gatewayReady = status.gatewayReady
      BY <3>1 DEF TaskStatus
    <3> QED BY <3>1, <3>2 DEF InForce, EgressMatches
  <2> QED BY <2>1, <2>2 DEF EgressAsReported
<1> QED BY <1>1, Invariance, PTL

\* The template of an actor that is not going away exists: ReconcileDelete
\* deletes the actor before deleteTaskTemplates runs, and no pass deletes a
\* template otherwise.
THEOREM TemplateStaysInUse == Spec => []TemplateInUse
<1>1. Inv => TemplateInUse
  BY DEF Inv, TemplatesThere, Alive, TemplateInUse
<1> QED BY <1>1, Invariance, PTL

\* A task's record is deleted only when deleteTaskTemplates has deleted every
\* template of it or has warned about those that stay.
THEOREM LeaksAreWarnedOf == Spec => []NoSilentLeak
<1>1. Inv => NoSilentLeak
  BY DEF Inv, LeaksKnown, NoSilentLeak
<1> QED BY <1>1, Invariance, PTL
=============================================================================
