----------------------------- MODULE Reconciler -----------------------------
(***************************************************************************)
(* One task under the TaskReconciler (internal/controller/reconciler.go)   *)
(* and the Substrate client it drives (internal/substrate/client.go).      *)
(*                                                                         *)
(* A worker handles one event at a time, so reconcile and delete passes    *)
(* over the task follow one another; between any two remote calls of a     *)
(* pass an API call may replace the stored task, and the actor may crash,  *)
(* finish setting up its workspace, or finish being deleted.  The order in *)
(* which events start passes is left open (ControlPlane and TaskQueue have *)
(* it).                                                                    *)
(*                                                                         *)
(* The user's specs are not state here: each pass may find any spec.       *)
(*  - A launch stands for the digest of image, environment, Model and      *)
(*    bound workspaces, which names the actor template; "default" is the   *)
(*    template the controller falls back to.                               *)
(*  - A Gateway is its egress allowlist: "all" (also for no Gateway, one   *)
(*    that is missing or cannot be read, or has no allowlist),             *)
(*    "restricted", or "empty", a list with no hosts.                      *)
(***************************************************************************)
EXTENDS Naturals, FiniteSets

CONSTANTS
    Launches,
    NoRecord,
    Submitted,       \* the statuses a client's write may carry
    CreateRetries,   \* attempts to recreate an actor whose name is taken (20)
    DeleteRetries,   \* attempts to delete one template (5)
    Polls,           \* readiness checks within WorkspaceReadyTimeout
    Faults           \* which of "store", "substrate", "model", "crash" happen

Phases == {"Pending", "Running", "Suspended", "Failed", "Terminating"}
Condition == {"unset", "True", "False"}
Allowlists == {"all", "restricted", "empty"}
Templates == Launches \cup {"default"}

TaskStatus == [phase : Phases, ready : Condition, workspaceReady : Condition,
               gatewayReady : Condition]

Actor == [state : {"absent", "suspended", "running", "crashed", "deleting"},
          template : Templates, policy : {"none", "all", "restricted"}, setUp : BOOLEAN]

ASSUME ReconcilerAssumption ==
    /\ "default" \notin Launches
    /\ NoRecord \notin TaskStatus
    /\ Submitted \subseteq TaskStatus
    /\ CreateRetries \in Nat \ {0}
    /\ DeleteRetries \in Nat \ {0}
    /\ Polls \in Nat \ {0}
    /\ Faults \subseteq {"store", "substrate", "model", "crash"}

VARIABLES
    record,     \* the status in the stored task, or NoRecord
    templates,  \* the actor templates of this task, by digest
    actor,      \* the actor named after the task
    pc,         \* the next remote call of the pass
    status,     \* the status of the task in memory, which the pass updates
    suspend,    \* spec.suspend of the task in memory
    allowlist,  \* the allowlist the pass found
    template,   \* the template the pass creates actors from
    tries,      \* attempts made in the current loop
    work,       \* templates the pass has listed and not yet dealt with
    warned,     \* history: templates a pass logged that it leaves behind
    vouched,    \* history: an actor of this task has set its workspace up, or a
                \* client's write said so
    current     \* history: the stored status is the one the last pass wrote, and
                \* that pass did not end on an invalid Model

passVars == <<pc, status, suspend, allowlist, template, tries, work>>
history == <<warned, vouched, current>>
vars == <<record, templates, actor, passVars, history>>

ReconcilePCs == {"lookup", "atespace", "environment", "template", "create", "inspect",
                 "reap", "recreate", "egress", "actuate", "poll", "status", "modelStatus"}
DeletePCs == {"deleteActor", "listTemplates", "deleteTemplates", "deleteRecord"}

TypeOK ==
    /\ record \in TaskStatus \cup {NoRecord}
    /\ templates \in SUBSET Launches
    /\ actor \in Actor
    /\ pc \in {"idle"} \cup ReconcilePCs \cup DeletePCs
    /\ status \in TaskStatus \cup {NoRecord}
    /\ pc \in ReconcilePCs => status \in TaskStatus
    /\ suspend \in BOOLEAN
    /\ allowlist \in Allowlists
    /\ template \in Templates
    /\ tries \in Nat
    /\ pc = "recreate" => tries < CreateRetries
    /\ pc = "deleteTemplates" => tries < DeleteRetries
    /\ pc = "poll" => tries < Polls
    /\ work \in SUBSET Launches
    /\ warned \in SUBSET Launches
    /\ vouched \in BOOLEAN
    /\ current \in BOOLEAN

NoActor == [state |-> "absent", template |-> "default", policy |-> "none", setUp |-> FALSE]

Init ==
    /\ record = NoRecord
    /\ templates = {}
    /\ actor = NoActor
    /\ pc = "idle"
    /\ status = NoRecord
    /\ suspend = FALSE
    /\ allowlist = "all"
    /\ template = "default"
    /\ tries = 0
    /\ work = {}
    /\ warned = {}
    /\ vouched = FALSE
    /\ current = FALSE

-----------------------------------------------------------------------------
(* The user, Substrate, and the runner inside the actor.                   *)

\* A client's write replaces the stored task, its status included: UpdateTask
\* strips nothing and SaveTask only sets an empty phase to Pending; SuspendTask
\* and ResumeTask save the record they have read, and MarkTaskDeleting does so
\* with the phase Terminating, whatever is stored by then.  So the status may
\* be the client's own, or any that was stored before.
SaveTask(s) ==
    /\ record' = s
    /\ current' = FALSE
    /\ vouched' = (vouched \/ s.workspaceReady = "True")
    /\ UNCHANGED <<templates, actor, passVars, warned>>

FinishSetup ==
    /\ actor.state = "running"
    /\ actor' = [actor EXCEPT !.setUp = TRUE]
    /\ vouched' = TRUE
    /\ UNCHANGED <<record, templates, passVars, warned, current>>

ActorCrash ==
    /\ actor.state = "running"
    /\ actor' = [actor EXCEPT !.state = "crashed"]
    /\ UNCHANGED <<record, templates, passVars, history>>

FinishDelete ==
    /\ actor.state = "deleting"
    /\ actor' = NoActor
    /\ UNCHANGED <<record, templates, passVars, history>>

\* CreateActor succeeds if the name is free, and is AlreadyExists otherwise.
Created(a) ==
    IF a.state = "absent"
    THEN [state |-> "suspended", template |-> template, policy |-> "none", setUp |-> FALSE]
    ELSE a

Deleted(a) == IF a.state = "absent" THEN a ELSE [a EXCEPT !.state = "deleting"]

Usable(a) == a.state \in {"suspended", "running"}

Actuated(a) ==
    IF Usable(a) THEN [a EXCEPT !.state = IF suspend THEN "suspended" ELSE "running"] ELSE a

\* A template is refused deletion while an actor made from it is going away.
Refused(t) == actor.state = "deleting" /\ actor.template = t

-----------------------------------------------------------------------------
(* A reconcile pass.                                                       *)

\* The next call.  The template is of use only until the actor exists.
Goto(label) ==
    /\ pc' = label
    /\ tries' = 0
    /\ template' = IF label \in {"inspect", "reap", "recreate"} THEN template ELSE "default"

Retry == tries' = tries + 1 /\ UNCHANGED <<pc, template>>

\* GetTask.  If there is no record the pass is over.
StartReconcile ==
    /\ pc = "idle"
    /\ record # NoRecord
    /\ status' = record
    /\ suspend' \in BOOLEAN
    /\ allowlist' = "all"
    /\ Goto("lookup")
    /\ current' = FALSE
    /\ warned' = {}
    /\ UNCHANGED <<record, templates, actor, work, vouched>>

\* The pass is over.
End ==
    /\ Goto("idle")
    /\ status' = NoRecord
    /\ suspend' = FALSE
    /\ UNCHANGED <<allowlist, work>>

\* The Gateway, the workspaces and the Model are looked up.  Without the
\* Gateway or a workspace the pass goes on, without the Model it does not.
Lookup ==
    /\ pc = "lookup"
    /\ \/ Goto("atespace") /\ allowlist' \in Allowlists /\ UNCHANGED <<status, suspend, work>>
       \/ "store" \in Faults /\ End
    /\ UNCHANGED <<record, templates, actor, history>>

\* reconcile returns to the worker, which writes the status next.
Return(result) ==
    /\ Goto("status")
    /\ status' = result

Fail == Return([status EXCEPT !.phase = "Failed", !.ready = "False"])

EnsureAtespace ==
    /\ pc = "atespace"
    /\ \/ Goto("environment") /\ UNCHANGED status
       \/ "substrate" \in Faults /\ Fail
    /\ UNCHANGED <<record, templates, actor, suspend, allowlist, work, history>>

\* A Model that makes no valid configuration: the worker sets the phase, and
\* the conditions stay as they were.
InjectModelEnvironment ==
    /\ pc = "environment"
    /\ \/ Goto("template") /\ UNCHANGED status
       \/ /\ "model" \in Faults
          /\ Goto("modelStatus")
          /\ status' = [status EXCEPT !.phase = "Failed"]
    /\ UNCHANGED <<record, templates, actor, suspend, allowlist, work, history>>

EnsureActorTemplate ==
    /\ pc = "template"
    /\ \E launch \in Launches :
        \/ /\ template' = launch
           /\ templates' = templates \cup {launch}
        \/ /\ "substrate" \in Faults
           /\ template' = "default"
           /\ templates' \in {templates, templates \cup {launch}}
    /\ pc' = "create"
    /\ UNCHANGED tries
    /\ UNCHANGED <<record, actor, status, suspend, allowlist, work, history>>

\* EnsureActor: create, and look at what is there when the name is taken.
CreateActor ==
    /\ pc = "create"
    /\ \/ /\ actor' = Created(actor)
          /\ Goto(IF actor.state = "absent" THEN "egress" ELSE "inspect")
          /\ UNCHANGED status
       \/ "substrate" \in Faults /\ actor' \in {actor, Created(actor)} /\ Fail
    /\ UNCHANGED <<record, templates, suspend, allowlist, work, history>>

InspectActor ==
    /\ pc = "inspect"
    /\ \/ actor.state = "absent" /\ Fail
       \/ actor.state = "crashed" /\ Goto("reap") /\ UNCHANGED status
       \/ actor.state = "deleting" /\ Goto("recreate") /\ UNCHANGED status
       \/ Usable(actor) /\ Goto("egress") /\ UNCHANGED status
       \/ "substrate" \in Faults /\ Fail
    /\ UNCHANGED <<record, templates, actor, suspend, allowlist, work, history>>

\* The result of this DeleteActor is discarded.
ReapActor ==
    /\ pc = "reap"
    /\ \/ actor' = Deleted(actor)
       \/ "substrate" \in Faults /\ UNCHANGED actor
    /\ Goto("recreate")
    /\ UNCHANGED <<record, templates, status, suspend, allowlist, work, history>>

\* Mutant: the loop makes one attempt too many.
RecreateActorOnceMore ==
    /\ pc = "recreate"
    /\ actor' = Created(actor)
    /\ \/ actor.state = "absent" /\ Goto("egress") /\ UNCHANGED status
       \/ actor.state # "absent" /\ tries < CreateRetries /\ Retry /\ UNCHANGED status
       \/ actor.state # "absent" /\ tries = CreateRetries /\ Fail
    /\ UNCHANGED <<record, templates, suspend, allowlist, work, history>>

RecreateActor ==
    /\ pc = "recreate"
    /\ \/ /\ actor' = Created(actor)
          /\ \/ actor.state = "absent" /\ Goto("egress") /\ UNCHANGED status
             \/ /\ actor.state # "absent"
                /\ tries + 1 < CreateRetries
                /\ Retry
                /\ UNCHANGED status
             \/ actor.state # "absent" /\ tries + 1 = CreateRetries /\ Fail
       \/ "substrate" \in Faults /\ actor' \in {actor, Created(actor)} /\ Fail
    /\ UNCHANGED <<record, templates, suspend, allowlist, work, history>>

\* Mutant: the AlreadyExists of a second policy is taken for success.
ApplyEgressPolicyOnce ==
    /\ pc = "egress"
    /\ actor' = IF allowlist = "empty" \/ actor.policy # "none" THEN actor
                ELSE [actor EXCEPT !.policy = allowlist]
    /\ status' = [status EXCEPT !.gatewayReady = "True"]
    /\ Goto("actuate")
    /\ UNCHANGED <<record, templates, suspend, allowlist, work, history>>

\* An allowlist without hosts returns at once; otherwise the policy is
\* created, or updated if there is one.  A failure does not end the pass.
ApplyEgressPolicy ==
    /\ pc = "egress"
    /\ \/ /\ actor' = IF allowlist = "empty" THEN actor ELSE [actor EXCEPT !.policy = allowlist]
          /\ status' = [status EXCEPT !.gatewayReady = "True"]
       \/ /\ "substrate" \in Faults
          /\ allowlist # "empty"
          /\ actor' \in {actor, [actor EXCEPT !.policy = allowlist]}
          /\ status' = [status EXCEPT !.gatewayReady = "False"]
    /\ Goto("actuate")
    /\ UNCHANGED <<record, templates, suspend, allowlist, work, history>>

\* Mutant: Ready is left as it was.
SuspendedQuietly == [status EXCEPT !.phase = "Suspended"]

Suspended == [status EXCEPT !.phase = "Suspended", !.ready = "False"]

Running(setUp) ==
    LET value == IF setUp THEN "True" ELSE "False"
    IN [status EXCEPT !.phase = "Running", !.workspaceReady = value, !.ready = value]

\* SuspendActor, or ResumeActor and the readiness checks.  Those are skipped
\* when the workspace was ready before or the actor has no worker address.
ActuateActor ==
    /\ pc = "actuate"
    /\ \/ /\ Usable(actor)
          /\ actor' = Actuated(actor)
          /\ \/ suspend /\ Return(Suspended)
             \/ ~suspend /\ status.workspaceReady # "True" /\ Goto("poll") /\ UNCHANGED status
             \/ ~suspend /\ Return(Running(status.workspaceReady = "True"))
       \/ ~Usable(actor) /\ Fail /\ UNCHANGED actor
       \/ "substrate" \in Faults /\ actor' \in {actor, Actuated(actor)} /\ Fail
    /\ UNCHANGED <<record, templates, suspend, allowlist, work, history>>

\* Mutant: running out of time is taken for success.
PollReadyLate ==
    /\ pc = "poll"
    /\ \/ tries + 1 < Polls /\ Retry /\ UNCHANGED status
       \/ tries + 1 = Polls /\ Return(Running(TRUE))
    /\ UNCHANGED <<record, templates, actor, suspend, allowlist, work, history>>

\* Mutant: the checks go on until one succeeds.
PollReadyForever ==
    /\ pc = "poll"
    /\ actor.state = "running" /\ actor.setUp /\ Return(Running(TRUE))
    /\ UNCHANGED <<record, templates, actor, suspend, allowlist, work, history>>

\* One GET of /readyz; it may fail although the workspace is set up.
PollReady ==
    /\ pc = "poll"
    /\ \/ actor.state = "running" /\ actor.setUp /\ Return(Running(TRUE))
       \/ tries + 1 < Polls /\ Retry /\ UNCHANGED status
       \/ tries + 1 = Polls /\ Return(Running(FALSE))
    /\ UNCHANGED <<record, templates, actor, suspend, allowlist, work, history>>

\* UpdateTaskStatus, of whatever task is stored by now.
UpdateTaskStatus ==
    /\ pc \in {"status", "modelStatus"}
    /\ \/ record # NoRecord /\ record' = status /\ current' = (pc = "status")
       \/ (record = NoRecord \/ "store" \in Faults) /\ UNCHANGED <<record, current>>
    /\ End
    /\ UNCHANGED <<templates, actor, warned, vouched>>

-----------------------------------------------------------------------------
(* A delete pass: ReconcileDelete, then the record.                        *)

\* Mutant: the templates go before the actor.
StartDeleteTemplatesFirst ==
    /\ pc = "idle"
    /\ Goto("listTemplates")
    /\ allowlist' = "all"
    /\ current' = FALSE
    /\ UNCHANGED <<record, templates, actor, status, suspend, work, warned,
                   vouched>>

StartDelete ==
    /\ pc = "idle"
    /\ Goto("deleteActor")
    /\ allowlist' = "all"
    /\ current' = FALSE
    /\ UNCHANGED <<record, templates, actor, status, suspend, work, warned,
                   vouched>>

DeleteActor ==
    /\ pc = "deleteActor"
    /\ \/ actor' = Deleted(actor) /\ Goto("listTemplates")
       \/ "substrate" \in Faults /\ actor' \in {actor, Deleted(actor)} /\ Goto("idle")
    /\ UNCHANGED <<record, templates, status, suspend, allowlist, work, history>>

\* Mutant: one template is looked for, not every revision's.
ListActorTemplatesOne ==
    /\ pc = "listTemplates"
    /\ \E launch \in Launches : work' = templates \cap {launch}
    /\ Goto("deleteTemplates")
    /\ UNCHANGED <<record, templates, actor, status, suspend, allowlist, history>>

\* All templates named after the task.  A failed or truncated listing is
\* logged and the pass goes on with the names it has.
ListActorTemplates ==
    /\ pc = "listTemplates"
    /\ work' = templates \/ ("substrate" \in Faults /\ work' \in SUBSET templates)
    /\ warned' = warned \cup (templates \ work')
    /\ Goto("deleteTemplates")
    /\ UNCHANGED <<record, templates, actor, status, suspend, allowlist, vouched, current>>

\* One attempt at the next template.
DeleteActorTemplate ==
    LET t == CHOOSE x \in work : TRUE IN
    /\ pc = "deleteTemplates"
    /\ work # {}
    /\ \/ /\ ~Refused(t)
          /\ templates' = templates \ {t}
          /\ work' = work \ {t}
          /\ warned' = warned \ {t}
          /\ Goto(pc)
       \/ /\ Refused(t) \/ "substrate" \in Faults
          /\ \/ /\ tries + 1 < DeleteRetries
                /\ Retry
                /\ UNCHANGED <<work, warned>>
             \/ /\ tries + 1 = DeleteRetries
                /\ work' = work \ {t}
                /\ warned' = warned \cup {t}
                /\ Goto(pc)
          /\ UNCHANGED templates
    /\ UNCHANGED <<record, actor, status, suspend, allowlist, vouched, current>>

TemplatesDone ==
    /\ pc = "deleteTemplates"
    /\ work = {}
    /\ Goto("deleteRecord")
    /\ UNCHANGED <<record, templates, actor, status, suspend, allowlist, work, history>>

DeleteTask ==
    /\ pc = "deleteRecord"
    /\ \/ record' = NoRecord /\ vouched' = FALSE
       \/ "store" \in Faults /\ UNCHANGED <<record, vouched>>
    /\ Goto("idle")
    /\ UNCHANGED <<templates, actor, status, suspend, allowlist, work, warned, current>>

\* The worker dies between two calls; a later event starts a new pass.
Crash ==
    /\ "crash" \in Faults
    /\ pc # "idle"
    /\ Goto("idle")
    /\ status' = NoRecord
    /\ suspend' = FALSE
    /\ work' = {}
    /\ UNCHANGED <<record, templates, actor, allowlist, history>>

-----------------------------------------------------------------------------
ReconcileStep ==
    \/ Lookup \/ EnsureAtespace \/ InjectModelEnvironment \/ EnsureActorTemplate
    \/ CreateActor \/ InspectActor \/ ReapActor \/ RecreateActor
    \/ ApplyEgressPolicy \/ ActuateActor \/ PollReady \/ UpdateTaskStatus

DeleteStep ==
    \/ DeleteActor \/ ListActorTemplates \/ DeleteActorTemplate \/ TemplatesDone
    \/ DeleteTask

ActorNext == FinishSetup \/ ActorCrash \/ FinishDelete

Next ==
    \/ \E s \in Submitted : SaveTask(s)
    \/ ActorNext
    \/ StartReconcile \/ ReconcileStep
    \/ StartDelete \/ DeleteStep
    \/ Crash

Spec == Init /\ [][Next]_vars

\* A pass that has begun goes on: its calls return or time out.
FairSpec == Spec /\ WF_vars(ReconcileStep \/ DeleteStep)

-----------------------------------------------------------------------------
(* Properties.                                                             *)

\* A pass leaves phase and conditions in agreement, whatever status it found in
\* the record, a client's own included: it ends in Running, Suspended or
\* Failed; Ready is True for a running task with WorkspaceReady and False
\* otherwise, and a running task is reported on in every condition.  One pass
\* is excepted because the code does not do this there: an invalid Model
\* (reconcile, :163) fails it with the conditions as they were found, so that
\* Ready may stay True in phase Failed, against docs/concepts.md:19.
ConditionsCoherent ==
    pc = "idle" /\ current /\ record # NoRecord =>
        /\ record.phase \in {"Running", "Suspended", "Failed"}
        /\ record.ready = IF record.phase = "Running" /\ record.workspaceReady = "True"
                          THEN "True" ELSE "False"
        /\ record.phase = "Running" =>
             "unset" \notin {record.workspaceReady, record.gatewayReady}

\* No pass invents WorkspaceReady: where it is stored, an actor of the task has
\* really finished setting up or a client wrote it, whatever polls, timeouts,
\* suspends, crashes and re-applies lie in between.  A client can: UpdateTask
\* keeps a submitted status, a late write-back restores one, and reconcile
\* (:263) then trusts it and does not poll.
WorkspaceReadyEarned ==
    record # NoRecord /\ record.workspaceReady = "True" => vouched

\* A running actor that is reported with GatewayReady has the egress policy
\* the pass found, also when the actor was recreated or the Gateway changed;
\* while the pass still waits for the workspace, the policy is in force
\* already (ApplyEgressPolicy comes after EnsureActor and before ResumeActor).
\* An allowlist with no hosts is excepted because the code does not do this
\* there: client.go:451 returns nil at once, so GatewayReady is True with no
\* policy or the old one in force, against docs/concepts.md:18.
EgressMatches(report) ==
    report.phase = "Running" /\ report.gatewayReady = "True" /\ allowlist # "empty" =>
        actor.policy = allowlist

EgressAsReported ==
    /\ pc = "idle" /\ current /\ record # NoRecord => EgressMatches(record)
    /\ pc = "poll" => EgressMatches([status EXCEPT !.phase = "Running"])

\* The template of a live actor exists: deletion takes the actor first.
TemplateInUse ==
    actor.state \notin {"absent", "deleting"} => actor.template \in templates \cup {"default"}

\* When a task is gone, so is every template made for it over all its spec
\* revisions, except those a warning was logged for (deleteTaskTemplates).
NoSilentLeak == pc = "idle" /\ record = NoRecord => templates \subseteq warned

\* Every pass ends: the loops that wait for a name to become free, for a
\* template to be released and for the workspace are all bounded.
PassEnds == []<>(pc = "idle")

\* "The task is Ready only once its actor is running and the workspace inside
\* it is set up" (reconcile): so at the end of the pass that reports it.
ReadyMeansSetUp ==
    pc = "idle" /\ current /\ record # NoRecord /\ record.ready = "True" => actor.setUp
=============================================================================
