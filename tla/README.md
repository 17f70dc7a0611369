# TLA+ models of the AX control plane

AX runs agent tasks in sandboxes ("actors") on Agent Substrate. A task is a
record in Redis; an API server changes records, a controller makes Substrate
match them, and a runner inside each actor prepares workspaces and starts the
task's command. This directory holds TLA+ modules of that system, the TLC
configurations that check them, and TLAPS proofs.

## Inventory

| Component | State | Operations | Talks to | What makes it hard | What makes it correct |
|---|---|---|---|---|---|
| Redis store (`internal/store/redis`) | records, index, event stream, pub/sub | SaveTask, UpdateTaskStatus, MarkTaskDeleting, DeleteTask, Get, List, Watch | Redis | some methods are a read and a later write of the whole record | no update is lost for good; a settled task is listed |
| Event queue (same file, `Subscribe`) | stream, group position, pending entries, a batch per worker | Subscribe, Next, Ack | Redis | crashes, lost replies, restarts under a new consumer name | handled at most once, in order, eventually |
| API server (`internal/server`) | none | Update, Suspend, Resume, Delete, Get, List, Watch for tasks; put, get, list and delete for Gateways, Models and Workspaces | store | concurrent calls on one task; a watch that begins while the task changes | two-phase deletion completes; a watch does not miss what happens around its start |
| Controller worker (`internal/controller/worker.go`) | event and task in memory | Run, processEvent | queue, store, reconciler | everything it holds may be stale; each call may fail | an accepted change is applied or reported as failed |
| Task reconciler (`reconciler.go`) and Substrate client (`internal/substrate`) | task in memory; templates, actor, policy in Substrate | reconcile, ReconcileDelete | Substrate, the actor's `/readyz` | ambiguous failures, actors that crash or are still being deleted, bounded retries | a pass leaves conditions that agree and are true; nothing is orphaned |
| Task runner, workspace setup, metadata server (`runner`, `internal/workspace`, `internal/metadata`) | readiness, markers, the command's process | Run, SetupWorkspace, stop | git, model, command | restart in the middle, stop racing exit, several workspaces | readiness is what the setups returned; setup is not repeated over the command's work |
| Model client, bootstrap and planner (`internal/model`, `model_bootstrap.go`, `planner.go`) | conversation, counters | Generate, postJSON, the bootstrap loop | providers, shell commands | retries, limits that meet, a deadline during any wait | requests are well formed and not repeated when ambiguous; every loop ends within its limits |
| Memory store (`internal/store/memory`) | maps, bounded event and watch channels | as the Redis store | tests | drops events and updates when full | same promises as the Redis store as long as nothing is dropped |
| CLI and tunnels (`cmd/ax`, `internal/tunnel`) | tunnel state files and logs, kubectl processes | commands | API server, kubectl | concurrent and interrupted invocations, files without locks | how far a command can stray from the cluster it asked for; no tunnel runs on unseen |

`PROJECT.json` lists every component with its status, and the hazards of the
code at the lines where they bite.

## Modules

| Module | Models | Read it as |
|---|---|---|
| `RedisStore` | the task half of the store | one operator per Redis round trip; methods with two round trips are two operators |
| `ControlPlane` (extends `RedisStore`) | API calls, worker, `processEvent`, EnsureActor, suspend/resume, deletion | `pc[w]` is the next remote call of worker `w`; each call is one step |
| `EventDelivery` | what the queue promises | the abstract specification |
| `TaskQueue` | consumer group, batches, acknowledgement, restarts | refines `EventDelivery` through `Where` |
| `Reconciler` | one task under reconcile and delete passes: templates, actor, egress policy, readiness polling, conditions | `pc` is the next remote call of the pass |
| `WorkspacePaths` | `WorkspacePaths`, `ValidateTask`, `MarkerName` | operators on paths; a path is a sequence of components, a component a sequence of the words between its dashes |
| `TaskRunner` (extends `WorkspacePaths`) | the process inside the container: workspace setup, `/readyz`, the command and its end, restarts and resumes | `pc` is the next step of `Run`; `launch` is the task the container was made for |
| `ResourceStore` | both stores, for all four kinds of resource | pure operators: a database and the arguments of a call give the database after it |
| `ApiClients` (extends `ResourceStore`) | commands of the CLI through the server's calls on either store, watches, and the controller's passes in outline | `clients[c].pc` is the next round trip of the command |
| `Tunnel` | `internal/tunnel` and the `ctx`, `tunnel` and `ssh` commands | `calls[c].pc` is the next step of an invocation; `procs` are kubectl processes |
| `ModelClient` | configuration, choice of the protocol adapter, the wire form of a conversation | pure operators |
| `ModelBootstrap` (extends `ModelClient`) | the bootstrap loop and the planner's request over the HTTP exchanges with their retries | `pc` is the next exchange, command or decision |
| `...Proofs` | theorems about the module of that name and their proofs | see Proofs |
| `MC...` | the same, instantiated for TLC | symmetry of clients and workers where only safety is checked |

How state corresponds to the code:

- A record in `ControlPlane` is `spec.suspend` and `status.phase`: the fields
  its control flow depends on. In `Reconciler` it is the phase and the three
  conditions, and the spec is an input each pass may find changed. `UpdateTask`
  stores a submitted status as it is and SuspendTask, ResumeTask and
  MarkTaskDeleting write back a whole record, so `Apply` writes any status of
  the constant `Submitted`.
- `snap` is the task `processEvent` fetched and whose status reconcile updates
  in place; `seen` is what `UpdateTaskStatus` reads back before it writes.
- `outcome` in `ControlPlane`, `warned`, `vouched` and `current` in `Reconciler`,
  and `handled` in `TaskQueue` are history variables: no guard reads them.
- Substrate is external. It is modelled from how the client uses it:
  CreateActor makes a suspended actor or says AlreadyExists; DeleteActor with
  AnyState starts a deletion that ends some time later; Suspend and Resume work
  on suspended and running actors; a running actor may crash; a template cannot
  be deleted while its actor is going away.
- `Faults` says which calls may fail. A failing call may or may not have taken
  effect, but its effect does not come after the error was returned. A shutdown
  of the controller is a crash between two calls. A worker that crashed loses its batch, which is
  what only ever reading new entries amounts to (run `queue_not_reclaimed`).

- In `TaskRunner`, `files` says of each repository whether it is there, as it was
  fetched, or with edits of the command; `markers` are the files under `/ax`;
  `served` is the flag `/readyz` answers from; `stopping` is the cancelled
  context. A restart of the container finds everything; `FreshContainer` is a
  resume, for which the actor template declares one durable directory,
  `/workspace`. A marker that `os.Stat` fails to read for any reason counts as
  absent, as in the code. `setups`, `completed`, `misread` and `reports` are
  history variables. Every repository has a directory of its own, and the
  bootstrap is only its outcome, which may be that a process it left behind
  keeps it waiting (`pc` "held"). At the end the metadata server waits for
  open requests without a limit (`pc` "open").

- `ApiClients` has one kind of resource and one store per behaviour, chosen in
  `Init`: kinds never share a key or a map. `db` is what the store holds, with
  the index Redis keeps beside the records. Keys are built and index members
  split as the code does it, from atespaces and names that are sequences of
  characters. The memory store sends its event after it has released the mutex,
  which is a step of its own (`Emit`). The server's Send and the CLI's Recv are
  one step, since a gRPC stream is reliable and in order. A pass of the
  controller is a read and a write, and it may crash or fail in between;
  `ControlPlane` has the detail. A publication in Redis reaches each subscriber
  or is lost on its way (a reconnect), and the first read of a watch may fail,
  which the server passes over. A manifest may come with a status, which is
  sent and kept. `unserved`, `truth` and `hist` are history variables, and so is
  `lost` of a subscription. The creation timestamp that `defaultMetadata` looks
  up before a save is left out.
- In `Tunnel` a forwarder binds a port, prints two lines at its own offset of
  the log of its context and may die at any time; a health check is answered by
  whatever the forwarder on that port leads to, or fails. A kubectl that died is
  a zombie until its parent ends, so the code's test for a premature exit never
  fires and the model has no such branch. Pids are not reused. A port is free
  again as soon as nobody listens on it. A state file that cannot be read is no
  tunnel, and one that cannot be written, or only be truncated, is ignored.
  `uses` and `calm` are history variables.
- In `ModelBootstrap` the calls a response asks for are a sequence of ids, some
  empty, and whether each can be run; output is a number of bytes, and so is what
  a refusal quotes of the call, which the code does not cut (`MaxQuoted` is the
  longest a provider sends, and any number). `expired` is
  the cancelled context and `held` a process that a command left behind with the
  command's output open. `completed` is a history variable. `TaskRunner` uses the
  outcome of this run as its bootstrap step.

Definitions called `...Unchecked`, `...Silent`, `...Once` and so on that follow
a comment "Mutant:" are deliberately wrong versions of the definition after
them. No specification uses them; each shows that some property notices the bug.

## Runs

| Run | Result | Shows |
|---|---|---|
| `control_plane_faults` | pass | one controller, two concurrent API calls on a task, every fault: type correctness, `ConvergedWhenQuiet`, `NoOrphan`, `WorkerView`, `ListedWhenQuiet` |
| `control_plane_liveness` | pass | `DeleteCompletes`, `FailureVisible`, `Settles` |
| `task_queue` | pass | `HandledOnce`, `InStreamOrder`, `PendingUntilAck`, `Drains`, and `DeliveryRefined`: `TaskQueue` implements `EventDelivery` |
| `reconciler` | pass | `ConditionsCoherent`, `WorkspaceReadyEarned`, `EgressAsReported`, `TemplateInUse`, `NoSilentLeak`, `PassEnds` |
| `task_runner` | pass | `ReadyEarned`, `MarkerEarned`, `SetupIndependent`, `SetupBeforeCommand`, `ExitReported`, `WorkKept`, `StopCompletes` |
| `api_clients` | pass | `ListFaithful`, `WatchEnds`: on both stores, for every kind, with commands cut short at any point |
| `tunnel` | pass | `ReachesTarget`, `NoOrphans` |
| `model_bootstrap` | pass | `CallsAnswered`, `LoopBounded`, `NotReplayed`, `BootstrapEnds`, for every Model configuration and every answer |
| `two_controllers` | violated | two replicas may leave a task unconverged |
| `queue_not_reclaimed` | violated | events of a crashed worker are not picked up again |
| `ready_too_early` | violated | Ready is reported for a recreated actor before its workspace is set up |
| `resume_discards_work` | violated | a resume repeats the maiden run over what the command has edited |

The violated ones state what a comment or document says of the code; the
findings in `PROJECT.json` quote it.

### What the models also exhibit

Some behaviours of the code are in the models without a run of their own:

- `UpdateTaskStatus` writes back the spec it read, so a suspend or resume saved
  in between is undone (`StatusGet`, `StatusSet`), although its comment says it
  updates only the status. `ConvergedWhenQuiet` holds all the same: the lost
  call leaves the *old* spec in the record, and its event makes the controller
  converge to that record. The system is consistent; the user's call is gone.
- The phase Terminating of a task whose cleanup failed can be overwritten by a
  reconcile that was under way, or by an API call, although the worker leaves
  it there "so the failure is visible".
- A client's status is believed. A manifest may carry `WorkspaceReady`, the
  server stores it, and `reconcile` (`:263`) then does not poll.
  `WorkspaceReadyEarned` counts a client's word as a source.
- An invalid Model (`reconcile`, `:163`) fails a pass with the conditions as they
  were found: phase Failed, Ready True, against `docs/concepts.md:19`.
  `ConditionsCoherent` excepts that pass.
- A Gateway whose allowlist has no hosts is reported GatewayReady with no policy
  applied, or with the old one in force (`client.go:451`), against
  `docs/concepts.md:18`. `EgressAsReported` excepts that allowlist.
- A repository that could not be fetched is no error to `Run`, only the marker is
  withheld: `/readyz` answers 200, although `docs/sandbox.md:13` and `:25` say
  that it does so once clones are complete. `ReadyEarned` states what the code
  answers.
- `MarkerName` gives `/workspace/a/b` and `/workspace/a-b` one marker, so the
  second is never set up, although the comment at `setup.go:344` says that
  workspaces track their setup independently. `task_runner` binds such a pair;
  `SetupIndependent` says that a mount of the same marker name is the only
  excuse.
- An error of `os.Stat` on a marker repeats the maiden run over the command's
  edits. `WorkKept` and `MarkerEarned` except it by name (`misread`).
- A process that a command of the bootstrap left behind with the command's output
  open keeps `cmd.Run` waiting (`model_bootstrap.go:184`, no `WaitDelay`), past
  the deadline of `docs/sandbox.md:11` and past a SIGTERM to the runner; an open
  request keeps `Shutdown(context.Background())` waiting (`runner.go:152`).
  `BootstrapEnds` and `StopCompletes` except these waits and no other.
- A call without an id is answered under an id that no call of the request has
  (`model_bootstrap.go:131`); `CallsAnswered` claims a result for it, in its
  place, and not that the provider can match it.
- A tunnel is reused whenever its recorded port answers. The command may reach
  another namespace than the one given with `-n`, the cluster of a context whose
  name differs only in special characters (they share a state file), or, when
  the port was assigned again, anything that answers. All three happen in
  `tunnel`; `ReachesTarget` names them and excludes everything else.
- A tunnel whose record could not be written runs on and is in no list
  (`tunnel.go:303`), as after invocations that overlap or are interrupted.
- `ax ssh` exits through `os.Exit` when the remote command fails and leaves its
  port-forward running (`SSHExit`).
- Nothing is published when a task record is removed: a watch on a deleted task
  lasts until its caller gives up. `WatchEnds` speaks of tasks that stay, and
  excepts a watch that missed the latest news and a task whose last event nobody
  handled, each until the next update.
- Keys are joined with colons and names are not validated: `a:b` / `c` and
  `a` / `b:c` are one record. `api_clients` has such a pair, and `ListFaithful`
  says that other resources are not disturbed.

### Bounds

- `MaxStream` (control plane): undelivered events, 2. Two events of one task
  are what it takes for an event to be followed by one that contradicts it;
  the stream refills while the worker is busy, so histories are not bounded.
- One task: handlers of different tasks share only the stream. `Tasks` is a
  parameter and the proofs are for any set.
- Two clients: one holding a stale read while the other writes. A third would
  hold a second stale read of the same kind.
- One worker, except in `two_controllers`: the deployment has one replica.
- `MaxEvents` 3 and `MaxStarts` 2 with batches of 2 (queue): a full and a
  partial batch, and a restart of each worker.
- `CreateRetries`, `DeleteRetries`, `Polls` are 2 for 20, 5 and about 30: a
  first, and a last attempt. Two launch digests: a template in use and one left
  over from an earlier spec. `Submitted`: no status, and Terminating with every
  condition True, the most that a client's status can claim.
- `task_runner`: up to two workspaces, one of them off the durable volume, with
  up to two repositories; `GitRetries` is 2 for 5, a first and a last attempt.
  Two of each is what it takes for one to fail and the next to succeed, or the
  other way round. Boots are not bounded. The bindings include two paths with one
  marker name, and lists that `ValidateTask` rejects.
- `api_clients`: two processes with three commands between them (`MaxCommands`),
  enough for one to be watched or listed while the other applies and a third
  deletes. Three ids: two whose atespace and name join to the same characters,
  and a third that shares a key with the first. One manifest of two documents,
  one with a status: an apply that is cut short leaves the first.
  `Limit`, `ChanCap` and `EventCap` are 1 for 50, 10 and 1000, so that pages and
  channels are full with one entry and overflow with two.
- `tunnel`: two invocations (`MaxCalls`), which is what it takes to overlap, or
  for one to find what the other has left; two kubectl processes (`MaxProcs`):
  one to be replaced and its replacement, or one for each invocation. Two ports,
  so that one can be assigned again. Three contexts, two of which share a state
  file, and two namespaces.
- `model_bootstrap`: 3 turns, 3 tool calls, a transcript of 4 with outputs of 2,
  so that each limit is the first to be met in some behaviour; up to 2 calls in
  a response; 2 retries as in the code. A refusal quotes up to 2 bytes
  (`MaxQuoted`), more than the texts around an output (`Overhead`).
- In `ControlPlane` the retry of CreateActor is one step that succeeds or gives
  up; `Reconciler` counts the attempts.

`task_queue` turns deadlock checking off: when all `MaxEvents` are consumed and
every worker has used up its starts, the model stops. So do `api_clients` and
`tunnel`, whose users stop issuing commands, and `model_bootstrap`, which is one
run of the client.

### Fairness

`FairSpec` of `ControlPlane` and `TaskQueue` asks weak fairness of each
worker's steps: `Run` loops for as long as the process lives and every call has
a result. Faults, crashes, clients and Substrate get no fairness, so nothing
relies on a client coming back or on a deletion finishing in Substrate.
`control_plane_liveness` allows only Model failures: with a store that may fail
for ever nothing can be promised. `TaskQueue` also counts restarting as a
worker's step, since the deployment restarts a controller that died; `Drains`
assumes that from some time on a worker is up. `Reconciler` asks that a pass
that has begun goes on. `TaskRunner` asks that a runner that is up goes on (git
and the grace period end, and so does a bootstrap that nothing holds) and that a
command that was sent SIGKILL exits; one that was sent SIGTERM need not. Nothing
ends a process that holds the bootstrap, or an open request, and nothing says
that a container is ever started again. `ApiClients` asks that servers and the
controller go on, which may be that the controller gives an event up; nobody has
to issue a command, and a command may but need not be cut short. In `ModelBootstrap` the program goes on
(an exchange ends within the HTTP client's timeout, a command within two
minutes unless something holds its output) and the deadline comes; that a
process left behind ever ends is not assumed. `Tunnel` claims no liveness.

## Proofs

Seven modules hold theorems; each extends its component's module and changes
nothing of it. The theorems are about `Spec` and use no fairness, for every
value of the constants that satisfies the module's named assumptions. Those only
say what kind of thing a constant is (sets of names, positive limits, known
fault names). The one further hypothesis is `SingleController`, written out in
the theorems that need it. All invariants used below were checked by TLC on the constants of
the component's run first.

| Module | Theorems (property) | For every |
|---|---|---|
| `ControlPlaneProofs` | `TypeCorrect` | set of tasks, workers and clients, batch size, choice of faults |
| | `WorkerViewHolds`, `NoOrphanHolds`, `ConvergedWhenQuietHolds`, `FailureVisibleHolds`, `ListedWhenQuietHolds` | the same, with one controller |
| `TaskQueueProofs` | `TypeCorrect`, `EventsHandledOnce`, `EventsInStreamOrder`, `EventsPendingUntilAck`, `ImplementsDelivery` | set of workers, number of events and starts, batch size |
| `ReconcilerProofs` | `TypeCorrect`, `ConditionsNeverContradict`, `WorkspaceReadyIsEarned`, `EgressReportIsTrue`, `TemplateStaysInUse`, `LeaksAreWarnedOf` | set of launches, statuses that clients submit, retry and poll limit, choice of faults |
| `TaskRunnerProofs` | `TypeCorrect`, `ReadinessIsEarned`, `MarkersAreEarned`, `CommandAfterSetup`, `ExitIsReported`, `EditsAreKept`, `SetupIsIndependent` | set of bindings, number of repositories and retries, choice of faults |
| `ModelBootstrapProofs` | `TypeCorrect`, `LoopIsBounded`, `RequestsAreNotReplayed` | configuration, answer, length of a refusal and limit |
| | `OpenAICallsAreAnswered` (`CallsAnswered`) | the same, on the OpenAI wire |
| `TunnelProofs` | `TypeCorrect`, `NoTunnelIsOrphaned`, `CommandsReachTheirTarget` | set of contexts, namespaces and callers, number of calls and processes |
| `ApiClientsProofs` | `TypeCorrect`, `ListsAreFaithful` | set of ids (with colons anywhere), clients and manifests, number of commands, page and channel size |

### The arguments

**ControlPlane.** `TypeOK` is inductive as it stands because it ties each `pc`
to the variables that are set there: a worker past `fetch` has a task, one at
`statusSet` has read a record back. The others rest on
`Inv == TypeOK /\ WorkerView /\ AllTasksOK`. `ConvergedWhenQuiet` speaks of quiet
states only, so it says nothing of the states before. The strengthening says
what holds while work is under way: what the worker remembers of a task is true,
*or an event of that task is still queued*, in the stream or in the batch. Every
API write publishes its event in the same transaction as the record (lemma
`PublishOwes`), reading a batch moves events and drops none (`BatchSplits`), so
the escape clause is available exactly when somebody else has changed the
record. `ListedWhenQuiet` needs `AllListed` besides: a record outside the index
was written by a late MarkTaskDeleting, so its deletion is the last event owed,
or is under way, or went wrong with nothing after it. `SingleController` (any
two workers are the same) is the deployment's one replica; for two workers the
invariant is false, as `two_controllers` shows.

**TaskQueue.** What a worker holds was delivered, is pending under the worker's
present name and has not been handled (`HeldDelivered`); that no two workers
hold one event follows, since their names differ. A batch is ascending and
behind the event in hand (`BatchOrdered`), and nothing is handled before it was
delivered or acknowledged before it was handled (`HandledBeforeAck`).
`ImplementsDelivery`
maps each event through `Where`: `WhereFacts` says what each value of it means
in terms of batches and pending entries, and each step moves exactly the events
it should and leaves the others where they are. The cases of `Where` are
disjoint in every reachable state, so that it is well defined.

**Reconciler.** The properties speak of the stored record at rest; the invariant
says the same of the copy a pass works on, step by step: `ReportsCoherent` that
a status about to be stored agrees with itself, whatever status the pass began
with, and the Gateway was reported on before the actor is resumed, `Earned` that
a record, a copy or an actor that says the workspace is set up is vouched for,
`PolicyKept` that between the policy and the report that tells of it the actor
stays and keeps the policy, `TemplatesThere` that templates the actor or the
pass relies on exist, `DeletedFirst` that a deletion removes templates only when
the actor is gone or going, `LeaksKnown` that the templates left by then were
listed for removal or warned about.

**TaskRunner.** `Progress` says which mounts have had their turn at each `pc`,
`Supervised` that the command exists only while it is supervised, `ReadyKept`
that a failed setup is remembered until `/readyz` is answered from it,
`CheckedOut` which repositories of the mount under way are there already
(those before `repo`, if `gitOK`). Without the last one `MarkerEarned` is not
inductive: the marker is written long after the first fetch. `SetupIsIndependent`
needs `OwnMarkers` besides: every marker in the container is that of a mount
which completed its maiden run there. Nothing is assumed of the marker names.

**ModelBootstrap.** Every loop counter is tied to what it counts (`Counted`:
the assistant and tool messages of the conversation), so that the limits on the
counters bound the conversation. `Conversation` says of every conversation the
loop can build that the j-th message after one that asks for calls answers the
j-th of them, or is still to come and its call is in `queue`, and that no answer
stands anywhere else (`Expected`). On the
OpenAI wire messages map one to one, which gives `OpenAICallsAreAnswered`. For
Anthropic the results are grouped with `SelectSeq`, whose meaning is an
induction on sequences, so that half of `CallsAnswered` stays with TLC.

**Tunnel.** `NoOrphans` speaks of calm behaviours, in which no two invocations
work on one state file; while `calm` holds, what an invocation has read is still
so (`CallKept`) and each running forwarder is recorded, or held by the
invocation setting it up (`Held`). `ReachesTarget` is proved for all behaviours,
calm or not: every port found in a log, a record or a call was assigned, and if
only once, whoever listens on it is a tunnel of that file (`Leads`), which
concurrent invocations keep although they overwrite each other's logs and
records. A process that binds a port either gets a new one or makes its count
"again" (`Steady`), and no two listen on one port (`OwnPort`). That contexts
with one state file have names alike is a fact about `SanitizeContext`
(`SharedFile`).

**ApiClients.** `StoreOK` says of every resource whose key is its own (`Apart`)
that there is a record under that key if it exists (`truth`), and that the index
and the per-atespace sets hold it exactly then. Nothing is assumed of names: `SplitKey`
shows that splitting a key at its first colon and joining it again gives the
key, wherever the colons are, `KeysDiffer` that nobody else uses the key of a
resource in `Apart`, and `WrittenOK` and `RemovedOK` that a write to any key, a
shared one too, leaves those resources alone. `ListOK` says of a list between its two
round trips that the ids it has found existed meanwhile and include everything
that existed throughout (`Complete`); what is written in between only widens
`seen` and narrows `stable` (`HistoryGrows`), and the page that is finally cut
is either all records or there were more than `Limit` of them, which is a
comparison of cardinalities along the map from ids to records (`FetchComplete`).

### Checked by TLC only

Liveness (`DeleteCompletes`, `Settles`, `Drains`, `PassEnds`, `StopCompletes`,
`WatchEnds`, `BootstrapEnds`) and the four violated statements: TLAPS does not
reason about fairness here. `CallsAnswered` for Anthropic, for the reason above.

## Not modelled, and the plan

What is left, in this order:

1. `CallsAnswered` for Anthropic, with the grouping written as a function whose
   meaning can be proved.
2. `WorkspacePaths` against a reference definition of "the same directory".
3. A Gateway that cannot be read (`worker.go`, `GetGateway`) against the stored
   Gateway.

Left out for good: generated protocol code, YAML and JSON conversion, headers,
parameters and response parsing of model providers, command-line parsing and
output, the guest client's terminal sessions, flags and wiring of the two server
processes, dialing and credentials. Records do not expire (the controller and the server use no TTL).
