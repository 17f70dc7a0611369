----------------------------- MODULE TaskRunner -----------------------------
(***************************************************************************)
(* The process inside a task container (runner/runner.go): it serves       *)
(* /readyz, sets up the workspaces in order (internal/workspace/setup.go), *)
(* starts the task's command and supervises it until it is told to stop.   *)
(*                                                                         *)
(* The container is started again and again.  A restart finds all files;   *)
(* a resume puts the volume mounted at /workspace, and nothing else, into  *)
(* a fresh container (internal/substrate/client.go).  The markers are      *)
(* under /ax.                                                              *)
(*                                                                         *)
(* Faults: "git" (a fetch fails, repeatedly perhaps), "bootstrap" (the     *)
(* agent working on a goal does not complete), "background" (a process it  *)
(* started keeps it waiting: see ModelBootstrap), "disk" (a directory      *)
(* cannot be made, a marker cannot be read or written), "start" (the       *)
(* specs, the port or the command cannot be used), "session" (a client of  *)
(* the metadata server keeps a request open) and "kill" (the container     *)
(* dies without notice).                                                   *)
(***************************************************************************)
EXTENDS WorkspacePaths

CONSTANTS
    Bindings,    \* the spec.workspaces a user may submit
    Git,         \* how many repositories the Workspace of each name declares
    GitRetries,  \* attempts to fetch one repository (5)
    Faults

\* A binding: a workspace's name and path, and whether a goal is set for it.
WorkspaceRef == [name : Seq(STRING), abs : BOOLEAN, path : Seq(Seq(STRING)), goal : BOOLEAN]

ASSUME TaskRunnerAssumption ==
    /\ Bindings \subseteq Seq(WorkspaceRef)
    /\ \A name \in DOMAIN Git : Git[name] \in Nat
    /\ GitRetries \in Nat \ {0}
    /\ Faults \subseteq {"git", "bootstrap", "background", "disk", "start", "session", "kill"}

VARIABLES
    launch,    \* what the container is launched with; it never changes
    files,     \* each repository: absent or incomplete, as fetched, or edited since
    markers,   \* the marker files under /ax
    pc,        \* the next step of Run
    at,        \* the mount being set up
    repo,      \* the repository being fetched
    tries,     \* failed attempts at it
    gitOK,     \* no repository of this mount has failed
    ready,     \* no mount has failed
    served,    \* Server.workspaceReady, what /readyz answers from
    stopping,  \* the context is cancelled: SIGTERM was received
    command,   \* the task's command
    setups,    \* history: how the setup of each mount ended in this boot
    completed, \* history: mounts that wrote their marker, in this container
    misread,   \* history: those set up anew since, for want of reading it
    reports    \* history: calls of reportExit in this boot

setupVars == <<at, repo, tries, gitOK>>
diskVars == <<files, markers, completed, misread>>
runVars == <<ready, served, stopping, command, setups, reports>>
vars == <<launch, diskVars, pc, setupVars, runVars>>

-----------------------------------------------------------------------------
(* The mounts.                                                             *)

\* A binding whose Workspace was not supplied is an empty directory, and a
\* task that binds nothing has an empty directory at the default path.
MountsOf(l) ==
    LET paths == WorkspacePaths(l.refs) IN
    IF l.refs = <<>>
    THEN <<[path |-> DefaultWorkspacePath, goal |-> FALSE, repos |-> 0]>>
    ELSE [i \in DOMAIN l.refs |->
            [path  |-> paths[i],
             goal  |-> l.refs[i].goal,
             repos |-> IF l.refs[i].name \in l.supplied THEN Git[l.refs[i].name] ELSE 0]]

Mounts == MountsOf(launch)

Marker(i) == MarkerName(Mounts[i].path)

Durable(i) == CleanPath(Mounts[i].path)[1] = DefaultWorkspacePath[1]

Repos(i) == 1..Mounts[i].repos

Launches ==
    {[refs |-> refs, supplied |-> supplied, model |-> model, command |-> cmd] :
        refs \in {b \in Bindings : ValidateTask(b)}, supplied \in SUBSET DOMAIN Git,
        model \in BOOLEAN, cmd \in BOOLEAN}

SetupPCs == {"stat", "clone", "bootstrap", "held", "mark"}
StopPCs == {"grace", "killed"}
ReturnPCs == {"shutdown", "open"}
PCs == {"down", "load", "serve", "ready", "start", "select", "wait"}
          \cup SetupPCs \cup StopPCs \cup ReturnPCs

FileStates == {"none", "fetched", "edited"}
Setups == {"none", "skipped", "marked", "unmarked", "failed"}

TypeOK ==
    /\ launch \in Launches
    /\ DOMAIN files = DOMAIN Mounts
    /\ \A i \in DOMAIN Mounts : files[i] \in [Repos(i) -> FileStates]
    /\ markers \subseteq {Marker(i) : i \in DOMAIN Mounts}
    /\ pc \in PCs
    /\ at \in DOMAIN Mounts
    /\ pc = "clone" => repo \in Repos(at)
    /\ tries \in 0..(GitRetries - 1)
    /\ gitOK \in BOOLEAN /\ ready \in BOOLEAN /\ served \in BOOLEAN /\ stopping \in BOOLEAN
    /\ command \in {"none", "running", "exited"}
    /\ setups \in [DOMAIN Mounts -> Setups]
    /\ completed \subseteq DOMAIN Mounts
    /\ misread \subseteq DOMAIN Mounts
    /\ reports \in 0..1

NothingSetUp == setups = [i \in DOMAIN Mounts |-> "none"]

Init ==
    /\ launch \in Launches
    /\ files = [i \in DOMAIN Mounts |-> [r \in Repos(i) |-> "none"]]
    /\ markers = {}
    /\ completed = {} /\ misread = {}
    /\ pc = "down"
    /\ at = 1 /\ repo = 1 /\ tries = 0 /\ gitOK = TRUE
    /\ ready = TRUE /\ served = FALSE /\ stopping = FALSE
    /\ command = "none" /\ reports = 0
    /\ NothingSetUp

-----------------------------------------------------------------------------
(* The container and its runner come and go.                               *)

SetFiles(state) == files' = [files EXCEPT ![at][repo] = state]

Boot ==
    /\ pc = "down"
    /\ pc' = "load"
    /\ UNCHANGED <<launch, diskVars, setupVars, runVars>>

\* The process is gone, and with it the command and the metadata server.
Down ==
    /\ pc' = "down"
    /\ at' = 1 /\ repo' = 1 /\ tries' = 0 /\ gitOK' = TRUE
    /\ ready' = TRUE /\ served' = FALSE /\ stopping' = FALSE
    /\ command' = "none" /\ reports' = 0
    /\ setups' = [i \in DOMAIN Mounts |-> "none"]

\* The specs in the environment do not parse: exit status 1.
LoadFails ==
    /\ "start" \in Faults
    /\ pc = "load"
    /\ Down
    /\ UNCHANGED <<launch, diskVars>>

Load ==
    /\ pc = "load"
    /\ pc' = "serve"
    /\ UNCHANGED <<launch, diskVars, setupVars, runVars>>

Serve ==
    /\ pc = "serve"
    /\ \/ pc' = "stat" /\ UNCHANGED <<setupVars, runVars>>
       \/ "start" \in Faults /\ Down
    /\ UNCHANGED <<launch, diskVars>>

\* SIGTERM, from when the runner listens for signals.
Terminate ==
    /\ pc \notin {"down", "load"}
    /\ stopping' = TRUE
    /\ UNCHANGED <<launch, diskVars, pc, setupVars, ready, served, command, setups, reports>>

\* The container dies, in the middle of a checkout perhaps.
Kill ==
    /\ "kill" \in Faults
    /\ pc # "down"
    /\ \/ UNCHANGED files
       \/ pc = "clone" /\ SetFiles("none")
    /\ Down
    /\ UNCHANGED <<launch, markers, completed, misread>>

\* A resume: the next boot is in a fresh container.
FreshContainer ==
    /\ pc = "down"
    /\ markers' = {}
    /\ completed' = {} /\ misread' = {}
    /\ files' = [i \in DOMAIN Mounts |->
                   IF Durable(i) THEN files[i] ELSE [r \in Repos(i) |-> "none"]]
    /\ UNCHANGED <<launch, pc, setupVars, runVars>>

-----------------------------------------------------------------------------
(* SetupWorkspace, for each mount in turn.                                 *)

\* Mutant: the loop ends at the first failure.
EndSetupBreaks(result) ==
    /\ setups' = [setups EXCEPT ![at] = result]
    /\ ready' = (ready /\ result # "failed")
    /\ repo' = 1 /\ tries' = 0 /\ gitOK' = TRUE
    /\ \/ at < Len(Mounts) /\ result # "failed" /\ at' = at + 1 /\ pc' = "stat"
       \/ (at = Len(Mounts) \/ result = "failed") /\ at' = 1 /\ pc' = "ready"
    /\ UNCHANGED <<served, stopping, command, reports>>

\* SetupWorkspace returns, and the loop goes on whatever it returned.
EndSetup(result) ==
    /\ setups' = [setups EXCEPT ![at] = result]
    /\ ready' = (ready /\ result # "failed")
    /\ repo' = 1 /\ tries' = 0 /\ gitOK' = TRUE
    /\ \/ at < Len(Mounts) /\ at' = at + 1 /\ pc' = "stat"
       \/ at = Len(Mounts) /\ at' = 1 /\ pc' = "ready"
    /\ UNCHANGED <<served, stopping, command, reports>>

AfterRepos == IF Mounts[at].goal THEN "bootstrap" ELSE "mark"

StartMaidenRun ==
    /\ pc' = IF Repos(at) = {} THEN AfterRepos ELSE "clone"
    /\ UNCHANGED <<setupVars, runVars>>

\* Mutant: a workspace that is set up is brought up to date.
StatRefreshes ==
    /\ pc = "stat"
    /\ \/ /\ Marker(at) \in markers
          /\ files' = [files EXCEPT ![at] = [r \in Repos(at) |-> "fetched"]]
          /\ EndSetup("skipped")
       \/ /\ Marker(at) \notin markers
          /\ StartMaidenRun
          /\ UNCHANGED files
    /\ UNCHANGED <<launch, markers, completed, misread>>

\* Mutant: one marker, the first workspace's, for all of them.
StatFirst ==
    /\ pc = "stat"
    /\ \/ /\ Marker(1) \in markers
          /\ EndSetup("skipped")
       \/ /\ Marker(1) \notin markers
          /\ StartMaidenRun
    /\ UNCHANGED <<launch, diskVars>>

\* The directory is made and the marker looked for.  Any error of os.Stat
\* counts as its absence.
Stat ==
    /\ pc = "stat"
    /\ \/ /\ "disk" \in Faults
          /\ EndSetup("failed")
          /\ UNCHANGED misread
       \/ /\ Marker(at) \in markers
          /\ EndSetup("skipped")
          /\ UNCHANGED misread
       \/ /\ Marker(at) \notin markers
          /\ StartMaidenRun
          /\ UNCHANGED misread
       \/ /\ "disk" \in Faults
          /\ Marker(at) \in markers
          /\ StartMaidenRun
          /\ misread' = misread \cup {at}
    /\ UNCHANGED <<launch, files, markers, completed>>

NextRepo(ok) ==
    /\ gitOK' = ok
    /\ tries' = 0
    /\ \/ repo < Mounts[at].repos /\ repo' = repo + 1 /\ UNCHANGED pc
       \/ repo = Mounts[at].repos /\ repo' = 1 /\ pc' = AfterRepos

\* Mutant: the last repository decides.
FetchDoneForgets ==
    /\ pc = "clone"
    /\ ~stopping
    /\ SetFiles("fetched")
    /\ NextRepo(TRUE)
    /\ UNCHANGED <<launch, markers, completed, misread, at, runVars>>

\* init, remote, fetch, and a checkout that discards what was changed.
FetchDone ==
    /\ pc = "clone"
    /\ ~stopping
    /\ SetFiles("fetched")
    /\ NextRepo(gitOK)
    /\ UNCHANGED <<launch, markers, completed, misread, at, runVars>>

\* Mutant: one attempt too many.
FetchFailsOnceMore ==
    /\ pc = "clone"
    /\ "git" \in Faults
    /\ UNCHANGED files
    /\ \/ tries < GitRetries /\ tries' = tries + 1 /\ UNCHANGED <<pc, repo, gitOK>>
       \/ tries = GitRetries /\ NextRepo(FALSE)
    /\ UNCHANGED <<launch, markers, completed, misread, at, runVars>>

\* A git command fails, the checkout perhaps half way.  It always fails once
\* the context is cancelled, and then there is no further attempt.
FetchFails ==
    /\ pc = "clone"
    /\ stopping \/ "git" \in Faults
    /\ UNCHANGED files \/ SetFiles("none")
    /\ \/ /\ ~stopping
          /\ tries + 1 < GitRetries
          /\ tries' = tries + 1
          /\ UNCHANGED <<pc, repo, gitOK>>
       \/ /\ stopping \/ tries + 1 = GitRetries
          /\ NextRepo(FALSE)
    /\ UNCHANGED <<launch, markers, completed, misread, at, runVars>>

\* runBootstrap.  Only a Model's bootstrap has to complete, and only its
\* commands have pipes that a process left behind can hold.
Bootstrap ==
    /\ pc = "bootstrap"
    /\ \/ /\ ~stopping
          /\ pc' = "mark"
          /\ UNCHANGED <<setupVars, runVars>>
       \/ /\ stopping \/ "bootstrap" \in Faults
          /\ ~launch.model
          /\ pc' = "mark"
          /\ UNCHANGED <<setupVars, runVars>>
       \/ /\ stopping \/ "bootstrap" \in Faults
          /\ launch.model
          /\ EndSetup("failed")
       \/ /\ "background" \in Faults
          /\ launch.model
          /\ pc' = "held"
          /\ UNCHANGED <<setupVars, runVars>>
    /\ UNCHANGED <<launch, diskVars>>

\* The process that held the pipe ends, if it ever does.
BackgroundEnds ==
    /\ pc = "held"
    /\ pc' = "bootstrap"
    /\ UNCHANGED <<launch, diskVars, setupVars, runVars>>

\* The marker, unless a repository is missing; that it cannot be written is
\* only logged.
WriteMarker ==
    /\ pc = "mark"
    /\ \/ /\ gitOK
          /\ markers' = markers \cup {Marker(at)}
          /\ completed' = completed \cup {at}
          /\ misread' = misread \ {at}
          /\ EndSetup("marked")
       \/ /\ ~gitOK \/ "disk" \in Faults
          /\ EndSetup("unmarked")
          /\ UNCHANGED <<markers, completed, misread>>
    /\ UNCHANGED <<launch, files>>

-----------------------------------------------------------------------------
(* The command.                                                            *)

\* Mutant: a mount that failed is forgotten.
MarkReadyAlways ==
    /\ pc = "ready"
    /\ served' = TRUE
    /\ pc' = "start"
    /\ UNCHANGED <<launch, diskVars, setupVars, ready, stopping, command, setups, reports>>

MarkReady ==
    /\ pc = "ready"
    /\ served' = ready
    /\ pc' = "start"
    /\ UNCHANGED <<launch, diskVars, setupVars, ready, stopping, command, setups, reports>>

StartCommand ==
    /\ pc = "start"
    /\ \/ /\ ~launch.command
          /\ pc' = "wait"
          /\ UNCHANGED <<setupVars, runVars>>
       \/ /\ launch.command
          /\ pc' = "select"
          /\ command' = "running"
          /\ UNCHANGED <<setupVars, ready, served, stopping, setups, reports>>
       \/ /\ launch.command
          /\ "start" \in Faults
          /\ pc' = "shutdown"
          /\ UNCHANGED <<setupVars, runVars>>
    /\ UNCHANGED <<launch, diskVars>>

CommandEdits ==
    /\ command = "running"
    /\ \E i \in DOMAIN Mounts : \E r \in Repos(i) :
        /\ files[i][r] = "fetched"
        /\ files' = [files EXCEPT ![i][r] = "edited"]
    /\ UNCHANGED <<launch, markers, completed, misread, pc, setupVars, runVars>>

\* On its own, or because of a signal; SIGTERM may be ignored.
CommandExits ==
    /\ command = "running"
    /\ command' = "exited"
    /\ UNCHANGED <<launch, diskVars, pc, setupVars, ready, served, stopping, setups, reports>>

ReportExit == reports' = reports + 1

\* The command has exited; the runner stays up.
Exited ==
    /\ pc = "select"
    /\ command = "exited"
    /\ ReportExit
    /\ pc' = "wait"
    /\ UNCHANGED <<launch, diskVars, setupVars, ready, served, stopping, command, setups>>

\* The runner is told to stop and asks the command's group to terminate.
StopCommand ==
    /\ pc = "select"
    /\ stopping
    /\ pc' = "grace"
    /\ UNCHANGED <<launch, diskVars, setupVars, runVars>>

\* Mutant: the runner does not wait for the command it killed.
GraceOverAndGone ==
    /\ pc = "grace"
    /\ pc' = "wait"
    /\ UNCHANGED <<launch, diskVars, setupVars, runVars>>

\* Mutant: the command is asked to terminate and never killed.
GraceForever ==
    /\ pc = "grace"
    /\ command = "exited"
    /\ pc' = "killed"
    /\ UNCHANGED <<launch, diskVars, setupVars, runVars>>

GraceOver ==
    /\ pc = "grace"
    /\ pc' = "killed"
    /\ UNCHANGED <<launch, diskVars, setupVars, runVars>>

\* The command has exited after SIGTERM or after SIGKILL.
Stopped ==
    /\ pc \in StopPCs
    /\ command = "exited"
    /\ ReportExit
    /\ pc' = "wait"
    /\ UNCHANGED <<launch, diskVars, setupVars, ready, served, stopping, command, setups>>

\* Run returns when the context is cancelled.
Return ==
    /\ pc = "wait"
    /\ stopping
    /\ pc' = "shutdown"
    /\ UNCHANGED <<launch, diskVars, setupVars, runVars>>

\* On its way out Run shuts the metadata server down, with no time limit:
\* Shutdown waits for the requests that are open.
Shutdown ==
    /\ pc = "shutdown"
    /\ \/ Down
       \/ "session" \in Faults /\ pc' = "open" /\ UNCHANGED <<setupVars, runVars>>
    /\ UNCHANGED <<launch, diskVars>>

\* The last open request ends, if it ever does.
RequestEnds ==
    /\ pc = "open"
    /\ Down
    /\ UNCHANGED <<launch, diskVars>>

-----------------------------------------------------------------------------
SetupStep == Stat \/ FetchDone \/ FetchFails \/ Bootstrap \/ WriteMarker

RunStep ==
    \/ Load \/ Serve
    \/ SetupStep
    \/ MarkReady \/ StartCommand \/ Exited \/ StopCommand \/ GraceOver \/ Stopped
    \/ Return \/ Shutdown

Next ==
    \/ Boot
    \/ RunStep
    \/ CommandEdits \/ CommandExits
    \/ BackgroundEnds \/ RequestEnds
    \/ Terminate \/ Kill \/ LoadFails \/ FreshContainer

Spec == Init /\ [][Next]_vars

\* The runner goes on: git and the grace period end, and so does a bootstrap
\* that nothing holds.  A killed command is gone; an unkilled one need not
\* exit.  Nothing ends a process that holds the bootstrap, or a request.
FairSpec ==
    /\ Spec
    /\ WF_vars(RunStep)
    /\ WF_vars(pc = "killed" /\ CommandExits)

-----------------------------------------------------------------------------
(* Properties.                                                             *)

\* Once Run is past its setup, /readyz answers 200 exactly when
\* SetupWorkspace returned an error for no mount in this boot, whichever came
\* first and however many (Run, SetWorkspaceReady).  It does not say that the
\* files are there: git failures are no errors (cloneRepos), so "200 once
\* clones ... are complete" (docs/sandbox.md) is not what the code does.
ReadyEarned ==
    pc \in {"start", "select", "wait"} \cup StopPCs \cup ReturnPCs =>
        (served <=> \A i \in DOMAIN Mounts : setups[i] # "failed")

\* A marker means a whole checkout: its repositories were all fetched and
\* are there, whatever fails, stops or dies in the middle of a maiden run
\* (SetupWorkspace; "The marker is withheld in that case").  The exception is
\* a marker that os.Stat failed to read: setup is repeated under it.
MarkerEarned ==
    \A i \in completed \ misread : \A r \in Repos(i) : files[i][r] # "none"

\* Setup is skipped only on account of a mount that completed a maiden run in
\* this container and has the same marker name (SetupWorkspace, MarkerName).
\* That mount need not be the one skipped: /workspace/a/b and /workspace/a-b
\* have one name, so "several workspaces in one container track their setup
\* independently" holds for paths whose names differ, and the second of two
\* that agree is never set up.
SetupIndependent ==
    \A i \in DOMAIN Mounts :
        setups[i] = "skipped" => \E j \in completed : Marker(j) = Marker(i)

\* The work of the command is safe from later boots in the same container:
\* only a maiden run checks out over it, and there is none while its marker
\* can be read (SetupWorkspace, fetchRepo).  A resume is a fresh container
\* without markers and not protected: see ResumeKeepsWork.
WorkKept ==
    [][\A i \in DOMAIN Mounts : \A r \in Repos(i) :
         files[i][r] = "edited" /\ files'[i][r] # "edited" =>
            \/ Marker(i) \notin markers
            \/ i \in misread
            \/ pc = "down" /\ ~Durable(i)]_vars

\* What the command has changed on the durable volume stays, over restarts
\* and resumes: "Prepares each workspace exactly once across restarts and
\* resumes" (docs/runner.md).
ResumeKeepsWork ==
    [][\A i \in DOMAIN Mounts : \A r \in Repos(i) :
         Durable(i) /\ files[i][r] = "edited" => files'[i][r] = "edited"]_vars

\* The command starts only after every workspace had its turn in this boot,
\* also those after one that failed (Run).
SetupBeforeCommand ==
    command # "none" => \A i \in DOMAIN Mounts : setups[i] # "none"

\* When Run waits for the signal with a command, or returns after starting
\* one, that command has exited and its exit was reported once, however exit,
\* stop and the grace period race (Run, stopCommand, reportExit).
ExitReported ==
    (pc = "wait" /\ launch.command) \/ (pc \in ReturnPCs /\ command # "none")
        => command = "exited" /\ reports = 1

\* A runner that is told to stop does, in the middle of setup as well, and
\* also when the command ignores SIGTERM (retry, stopCommand), unless one of
\* the two waits without a limit keeps it: for a process that holds the
\* output of the Model's bootstrap (executeWorkspaceCommand has no WaitDelay),
\* or for an open request (Shutdown(context.Background())).
StopCompletes == stopping ~> pc \in {"down", "held", "open"}
=============================================================================
