-------------------------- MODULE TaskRunnerProofs --------------------------
(***************************************************************************)
(* Theorems about TaskRunner for all lists of workspaces that a task may   *)
(* bind, any number of repositories and attempts, and any faults.          *)
(***************************************************************************)
EXTENDS TaskRunner, TLAPS

-----------------------------------------------------------------------------
(* The inductive invariant.                                                *)

EarlyPCs == {"down", "load", "serve"}
CommandPCs == {"select", "wait", "grace", "killed", "shutdown", "open"}

\* The mounts before the one being set up have had their turn, the others
\* have not, and all have by the time the command is started.
Progress ==
    /\ pc \in EarlyPCs => at = 1 /\ \A i \in DOMAIN Mounts : setups[i] = "none"
    /\ pc \in SetupPCs => \A i \in DOMAIN Mounts : i < at <=> setups[i] # "none"
    /\ pc \notin EarlyPCs \cup SetupPCs => \A i \in DOMAIN Mounts : setups[i] # "none"

\* The command exists only while it is supervised, and its exit is reported
\* on the way to the wait for the signal.
Supervised ==
    /\ pc \notin CommandPCs => command = "none"
    /\ pc \notin {"wait", "shutdown", "open"} => reports = 0
    /\ pc = "wait" /\ launch.command => command = "exited"
    /\ pc \in {"wait", "shutdown", "open"} /\ command # "none" => command = "exited" /\ reports = 1

\* A failure is remembered until /readyz is answered from it.
ReadyKept ==
    /\ ready <=> \A i \in DOMAIN Mounts : setups[i] # "failed"
    /\ pc \in CommandPCs \cup {"start"} => (served <=> ready)

\* A checkout is under way only without a marker, unless that was misread,
\* and unless a repository has failed those before the present one are there.
CheckedOut ==
    /\ \A i \in completed : Marker(i) \in markers
    /\ \A i \in completed \ misread : \A r \in Repos(i) : files[i][r] # "none"
    /\ pc \in {"clone", "bootstrap", "held", "mark"} => Marker(at) \notin markers \/ at \in misread
    /\ pc # "clone" => repo = 1
    /\ pc = "clone" /\ gitOK => \A r \in Repos(at) : r < repo => files[at][r] # "none"
    /\ pc \in {"bootstrap", "held", "mark"} /\ gitOK => \A r \in Repos(at) : files[at][r] # "none"

Inv == TypeOK /\ Progress /\ Supervised /\ ReadyKept /\ CheckedOut
-----------------------------------------------------------------------------
(* Operators.                                                              *)

\* There is at least one mount, with some number of repositories.
LEMMA MountsFacts ==
    ASSUME NEW l \in Launches
    PROVE  /\ Len(MountsOf(l)) \in Nat \ {0}
           /\ DOMAIN MountsOf(l) = 1..Len(MountsOf(l))
           /\ \A i \in DOMAIN MountsOf(l) : MountsOf(l)[i].repos \in Nat
<1>1. /\ l.refs \in Seq(WorkspaceRef)
      /\ \A i \in DOMAIN l.refs : l.refs[i].name \in l.supplied => Git[l.refs[i].name] \in Nat
  BY TaskRunnerAssumption DEF Launches
<1>2. CASE l.refs = <<>>
  BY <1>2 DEF MountsOf
<1>3. CASE l.refs # <<>>
  <2>1. Len(l.refs) \in Nat \ {0} /\ DOMAIN l.refs = 1..Len(l.refs)
    BY <1>1, <1>3
  <2> DEFINE f(i) == [path |-> WorkspacePaths(l.refs)[i], goal |-> l.refs[i].goal,
                      repos |-> IF l.refs[i].name \in l.supplied THEN Git[l.refs[i].name] ELSE 0]
  <2>2. MountsOf(l) = [i \in 1..Len(l.refs) |-> f(i)]
    BY <1>3, <2>1 DEF MountsOf
  <2>3. \A i \in 1..Len(l.refs) : f(i).repos \in Nat
    BY <1>1, <2>1
  <2> HIDE DEF f
  <2>4. Len([i \in 1..Len(l.refs) |-> f(i)]) = Len(l.refs)
    BY <2>1
  <2> QED BY <2>1, <2>2, <2>3, <2>4
<1> QED BY <1>2, <1>3

\* One repository of one mount changes.
LEMMA SetFilesFacts ==
    ASSUME TypeOK, pc = "clone", NEW state \in FileStates, SetFiles(state)
    PROVE  /\ DOMAIN files' = DOMAIN Mounts /\ files'[at][repo] = state
           /\ \A i \in DOMAIN Mounts : files'[i] \in [Repos(i) -> FileStates]
           /\ \A i \in DOMAIN Mounts : i # at => files'[i] = files[i]
           /\ \A r \in Repos(at) : r # repo => files'[at][r] = files[at][r]
<1>1. /\ at \in DOMAIN Mounts /\ repo \in Repos(at) /\ DOMAIN files = DOMAIN Mounts
      /\ \A i \in DOMAIN Mounts : files[i] \in [Repos(i) -> FileStates]
  BY DEF TypeOK
<1>2. files' = [files EXCEPT ![at] = [files[at] EXCEPT ![repo] = state]]
  BY DEF SetFiles
<1> QED BY <1>1, <1>2

\* The end of a mount's setup, and the next mount or the end of them all.
LEMMA EndSetupFacts ==
    ASSUME TypeOK, NEW result \in Setups, EndSetup(result)
    PROVE  /\ setups' \in [DOMAIN Mounts -> Setups] /\ setups'[at] = result
           /\ \A i \in DOMAIN Mounts : i # at => setups'[i] = setups[i]
           /\ repo' = 1 /\ tries' = 0 /\ gitOK' = TRUE
           /\ at' \in DOMAIN Mounts
           /\ \/ pc' = "stat" /\ at' = at + 1
              \/ pc' = "ready" /\ at' = 1 /\ \A i \in DOMAIN Mounts : i <= at
           /\ UNCHANGED <<served, stopping, command, reports>>
<1>1. /\ at \in DOMAIN Mounts /\ setups \in [DOMAIN Mounts -> Setups]
      /\ DOMAIN Mounts = 1..Len(Mounts) /\ Len(Mounts) \in Nat \ {0}
  BY MountsFacts DEF TypeOK, Mounts
<1>2. setups' = [setups EXCEPT ![at] = result]
  BY DEF EndSetup
<1>3. \/ pc' = "stat" /\ at' = at + 1 /\ at' \in DOMAIN Mounts
      \/ pc' = "ready" /\ at' = 1 /\ at' \in DOMAIN Mounts /\ \A i \in DOMAIN Mounts : i <= at
  BY <1>1 DEF EndSetup
<1>4. repo' = 1 /\ tries' = 0 /\ gitOK' = TRUE /\ UNCHANGED <<served, stopping, command, reports>>
  BY DEF EndSetup
<1> QED BY <1>1, <1>2, <1>3, <1>4

\* Readiness at the end of a mount's setup.
LEMMA EndSetupReady ==
    ASSUME ready \in BOOLEAN, NEW result \in Setups, EndSetup(result)
    PROVE  ready' \in BOOLEAN /\ (ready' <=> ready /\ result # "failed")
BY DEF EndSetup

\* The next repository, or what comes after the last.
LEMMA NextRepoFacts ==
    ASSUME TypeOK, pc = "clone", NEW ok \in BOOLEAN, NextRepo(ok)
    PROVE  /\ gitOK' = ok /\ tries' = 0
           /\ \/ pc' = "clone" /\ repo' = repo + 1 /\ repo' \in Repos(at)
              \/ pc' \in {"bootstrap", "mark"} /\ repo' = 1 /\ \A r \in Repos(at) : r <= repo
<1>1. /\ at \in DOMAIN Mounts /\ Mounts[at].repos \in Nat /\ repo \in Repos(at)
  BY MountsFacts DEF TypeOK, Mounts
<1>2. gitOK' = ok /\ tries' = 0
  BY DEF NextRepo
<1> QED BY <1>1, <1>2 DEF NextRepo, Repos, AfterRepos

\* What each step of SetupWorkspace does.
LEMMA StatFacts ==
    ASSUME TypeOK, Stat
    PROVE  /\ pc = "stat" /\ UNCHANGED <<launch, files, markers, completed>>
           /\ misread' \in {misread, misread \cup {at}}
           /\ \/ EndSetup("failed") /\ UNCHANGED misread
              \/ EndSetup("skipped") /\ Marker(at) \in markers /\ UNCHANGED misread
              \/ /\ Marker(at) \notin markers \/ misread' = misread \cup {at}
                 /\ \/ pc' = "clone" /\ Repos(at) # {}
                    \/ pc' \in {"bootstrap", "mark"} /\ Repos(at) = {}
                 /\ UNCHANGED <<setupVars, runVars>>
BY DEF Stat, StartMaidenRun, AfterRepos

\* What an attempt to fetch a repository leaves behind.
LEMMA FetchFacts ==
    ASSUME TypeOK, FetchDone \/ FetchFails
    PROVE  /\ pc = "clone" /\ UNCHANGED <<launch, markers, completed, misread, at, runVars>>
           /\ \/ SetFiles("fetched") /\ NextRepo(gitOK)
              \/ /\ files' = files \/ SetFiles("none")
                 /\ \/ NextRepo(FALSE)
                    \/ tries + 1 < GitRetries /\ tries' = tries + 1 /\ UNCHANGED <<pc, repo, gitOK>>
BY DEF FetchDone, FetchFails

\* What the bootstrap leaves behind.
LEMMA BootstrapFacts ==
    ASSUME Bootstrap
    PROVE  /\ pc = "bootstrap" /\ UNCHANGED <<launch, diskVars>>
           /\ \/ pc' \in {"mark", "held"} /\ UNCHANGED <<setupVars, runVars>>
              \/ EndSetup("failed")
BY DEF Bootstrap

\* What writing the marker leaves behind.
LEMMA WriteMarkerFacts ==
    ASSUME WriteMarker
    PROVE  /\ pc = "mark" /\ UNCHANGED <<launch, files>>
           /\ \/ /\ gitOK /\ EndSetup("marked")
                 /\ markers' = markers \cup {Marker(at)} /\ completed' = completed \cup {at}
                 /\ misread' = misread \ {at}
              \/ EndSetup("unmarked") /\ UNCHANGED <<markers, completed, misread>>
BY DEF WriteMarker

-----------------------------------------------------------------------------
(* Every step preserves the invariant.                                     *)

\* A step of the setup stays in the setup or ends it, and the command and
\* /readyz have no part in it.
LEMMA SetupEffect ==
    ASSUME TypeOK, SetupStep
    PROVE  /\ pc \in SetupPCs /\ pc' \in SetupPCs \cup {"ready"}
           /\ UNCHANGED <<launch, served, stopping, command, reports>>
<1> USE DEF diskVars, setupVars, runVars, SetupPCs
<1>1. CASE Stat
  BY <1>1, StatFacts, EndSetupFacts DEF Setups
<1>2. CASE FetchDone \/ FetchFails
  <2>1. gitOK \in BOOLEAN
    BY DEF TypeOK
  <2> QED BY <1>2, <2>1, FetchFacts, NextRepoFacts
<1>3. CASE Bootstrap
  BY <1>3, BootstrapFacts, EndSetupFacts DEF Setups
<1>4. CASE WriteMarker
  BY <1>4, WriteMarkerFacts, EndSetupFacts DEF Setups
<1> QED BY <1>1, <1>2, <1>3, <1>4 DEF SetupStep

\* The end of a mount's setup keeps each part of the invariant.
LEMMA ProgressEnd ==
    ASSUME TypeOK, Progress, pc \in SetupPCs, launch' = launch,
           NEW result \in Setups \ {"none"}, EndSetup(result)
    PROVE  Progress'
<1>1. /\ setups'[at] = result /\ \A i \in DOMAIN Mounts : i # at => setups'[i] = setups[i]
      /\ \/ pc' = "stat" /\ at' = at + 1
         \/ pc' = "ready" /\ \A i \in DOMAIN Mounts : i <= at
  BY EndSetupFacts
<1>2. \A i \in DOMAIN Mounts : i < at <=> setups[i] # "none"
  BY DEF Progress
<1>3. DOMAIN Mounts \subseteq Nat /\ at \in DOMAIN Mounts /\ Mounts' = Mounts
  BY MountsFacts DEF TypeOK, Mounts
<1>4. \A i \in DOMAIN Mounts : i <= at => setups'[i] # "none"
  BY <1>1, <1>2, <1>3
<1>5. pc' = "stat" => \A i \in DOMAIN Mounts : i < at' <=> setups'[i] # "none"
  <2>1. pc' = "stat" => \A i \in DOMAIN Mounts : i < at' <=> i <= at
    BY <1>1, <1>3
  <2>2. \A i \in DOMAIN Mounts : ~(i <= at) => setups'[i] = "none"
    BY <1>1, <1>2, <1>3
  <2> QED BY <1>4, <2>1, <2>2
<1>6. pc' = "ready" => \A i \in DOMAIN Mounts : setups'[i] # "none"
  BY <1>1, <1>4
<1> QED BY <1>1, <1>3, <1>5, <1>6 DEF Progress, EarlyPCs, SetupPCs

\* A setup that ends keeps readiness earned.
LEMMA ReadyKeptEnd ==
    ASSUME TypeOK, Progress, ReadyKept, pc \in SetupPCs, launch' = launch,
           NEW result \in Setups, EndSetup(result)
    PROVE  ReadyKept'
<1>1. /\ setups'[at] = result /\ \A i \in DOMAIN Mounts : i # at => setups'[i] = setups[i]
      /\ pc' \in {"stat", "ready"}
  BY EndSetupFacts
<1>2. ready' <=> ready /\ result # "failed"
  BY EndSetupReady DEF TypeOK
<1>3. at \in DOMAIN Mounts /\ setups[at] = "none"
  <2>1. at \in DOMAIN Mounts /\ ~(at < at)
    BY MountsFacts DEF TypeOK, Mounts
  <2> QED BY <2>1 DEF Progress
<1>4. ready' <=> \A i \in DOMAIN Mounts : setups'[i] # "failed"
  BY <1>1, <1>2, <1>3 DEF ReadyKept
<1> QED BY <1>1, <1>4 DEF ReadyKept, Mounts, CommandPCs

\* A setup that ends keeps what is known of the repositories.
LEMMA CheckedOutEnd ==
    ASSUME TypeOK, launch' = launch, NEW result \in Setups, EndSetup(result),
           \A i \in completed' : Marker(i) \in markers',
           \A i \in completed' \ misread' : \A r \in Repos(i) : files'[i][r] # "none"
    PROVE  CheckedOut'
<1>1. pc' \in {"stat", "ready"} /\ repo' = 1
  BY EndSetupFacts
<1> QED BY <1>1 DEF CheckedOut, Mounts, Marker, Repos

\* No mount is passed over.
LEMMA ProgressStep == TypeOK /\ Progress /\ [Next]_vars => Progress'
<1> SUFFICES ASSUME TypeOK, Progress, [Next]_vars
             PROVE  Progress'
  OBVIOUS
<1> USE DEF diskVars, setupVars, runVars, PCs, SetupPCs, StopPCs, ReturnPCs, Progress, EarlyPCs, Mounts
<1>1. CASE Boot
  BY <1>1 DEF Boot
<1>2. CASE Load
  BY <1>2 DEF Load
<1>3. CASE Serve
  <2>1. CASE Down
    BY <1>3, <2>1 DEF Serve, Down
  <2>2. CASE ~Down
    <3>1. \A i \in DOMAIN Mounts : ~(i < 1)
      BY MountsFacts DEF TypeOK
    <3>2. pc = "serve" /\ pc' = "stat" /\ UNCHANGED <<launch, at, setups>>
      BY <1>3, <2>2 DEF Serve
    <3> QED BY <3>1, <3>2
  <2> QED BY <2>1, <2>2
<1>4. CASE Stat
  <2>1. (EndSetup("failed") \/ EndSetup("skipped")) => Progress'
    BY <1>4, StatFacts, ProgressEnd DEF Setups
  <2>2. CASE ~(EndSetup("failed") \/ EndSetup("skipped"))
    BY <1>4, <2>2, StatFacts
  <2> QED BY <2>1, <2>2
<1>5. CASE FetchDone
  <2>1. pc = "clone" /\ pc' \in {"clone", "bootstrap", "mark"} /\ UNCHANGED <<launch, at, setups>>
    <3>1. gitOK \in BOOLEAN
      BY DEF TypeOK
    <3> QED BY <1>5, <3>1, FetchFacts, NextRepoFacts
  <2> QED BY <2>1
<1>6. CASE FetchFails
  <2>1. pc = "clone" /\ pc' \in {"clone", "bootstrap", "mark"} /\ UNCHANGED <<launch, at, setups>>
    <3>1. gitOK \in BOOLEAN
      BY DEF TypeOK
    <3> QED BY <1>6, <3>1, FetchFacts, NextRepoFacts
  <2> QED BY <2>1
<1>7. CASE Bootstrap
  <2>1. EndSetup("failed") => Progress'
    BY <1>7, BootstrapFacts, ProgressEnd DEF Setups
  <2>2. CASE ~EndSetup("failed")
    BY <1>7, <2>2, BootstrapFacts
  <2> QED BY <2>1, <2>2
<1>8. CASE WriteMarker
  BY <1>8, WriteMarkerFacts, ProgressEnd DEF Setups
<1>9. CASE MarkReady
  BY <1>9 DEF MarkReady
<1>10. CASE StartCommand
  BY <1>10 DEF StartCommand, Down
<1>11. CASE Exited
  BY <1>11 DEF Exited, ReportExit
<1>12. CASE StopCommand
  BY <1>12 DEF StopCommand
<1>13. CASE GraceOver
  BY <1>13 DEF GraceOver
<1>14. CASE Stopped
  BY <1>14 DEF Stopped, ReportExit, StopPCs
<1>15. CASE Return
  BY <1>15 DEF Return
<1>16. CASE CommandEdits
  BY <1>16 DEF CommandEdits
<1>17. CASE CommandExits
  BY <1>17 DEF CommandExits
<1>18. CASE Terminate
  BY <1>18 DEF Terminate
<1>19. CASE Kill
  BY <1>19 DEF Kill, Down
<1>20. CASE LoadFails
  BY <1>20 DEF LoadFails, Down
<1>21. CASE FreshContainer
  BY <1>21 DEF FreshContainer
<1>22. CASE UNCHANGED vars
  BY <1>22 DEF vars
<1>23. CASE Shutdown
  BY <1>23 DEF Shutdown, Down
<1>24. CASE RequestEnds
  BY <1>24 DEF RequestEnds, Down
<1>25. CASE BackgroundEnds
  BY <1>25 DEF BackgroundEnds
<1> QED
  BY <1>1, <1>2, <1>3, <1>4, <1>5, <1>6, <1>7, <1>8, <1>9, <1>10, <1>11, <1>12, <1>13,
     <1>14, <1>15, <1>16, <1>17, <1>18, <1>19, <1>20, <1>21, <1>22,
     <1>23, <1>24, <1>25
  DEF Next, RunStep, SetupStep

\* The exit of the command is reported on every way to the wait.
LEMMA SupervisedStep == TypeOK /\ Supervised /\ [Next]_vars => Supervised'
<1> SUFFICES ASSUME TypeOK, Supervised, [Next]_vars
             PROVE  Supervised'
  OBVIOUS
<1> USE DEF diskVars, setupVars, runVars, PCs, SetupPCs, StopPCs, ReturnPCs, Supervised, CommandPCs
<1>1. CASE Boot
  BY <1>1 DEF Boot
<1>2. CASE Load
  BY <1>2 DEF Load
<1>3. CASE Serve
  BY <1>3 DEF Serve, Down
<1>4. CASE Stat
  BY <1>4, SetupEffect DEF SetupStep
<1>5. CASE FetchDone
  BY <1>5, SetupEffect DEF SetupStep
<1>6. CASE FetchFails
  BY <1>6, SetupEffect DEF SetupStep
<1>7. CASE Bootstrap
  BY <1>7, SetupEffect DEF SetupStep
<1>8. CASE WriteMarker
  BY <1>8, SetupEffect DEF SetupStep
<1>9. CASE MarkReady
  BY <1>9 DEF MarkReady
<1>10. CASE StartCommand
  BY <1>10 DEF StartCommand, Down
<1>11. CASE Exited
  BY <1>11 DEF Exited, ReportExit
<1>12. CASE StopCommand
  BY <1>12 DEF StopCommand
<1>13. CASE GraceOver
  BY <1>13 DEF GraceOver
<1>14. CASE Stopped
  BY <1>14 DEF Stopped, ReportExit, StopPCs
<1>15. CASE Return
  BY <1>15 DEF Return
<1>16. CASE CommandEdits
  BY <1>16 DEF CommandEdits
<1>17. CASE CommandExits
  BY <1>17 DEF CommandExits
<1>18. CASE Terminate
  BY <1>18 DEF Terminate
<1>19. CASE Kill
  BY <1>19 DEF Kill, Down
<1>20. CASE LoadFails
  BY <1>20 DEF LoadFails, Down
<1>21. CASE FreshContainer
  BY <1>21 DEF FreshContainer
<1>22. CASE UNCHANGED vars
  BY <1>22 DEF vars
<1>23. CASE Shutdown
  BY <1>23 DEF Shutdown, Down
<1>24. CASE RequestEnds
  BY <1>24 DEF RequestEnds, Down
<1>25. CASE BackgroundEnds
  BY <1>25 DEF BackgroundEnds
<1> QED
  BY <1>1, <1>2, <1>3, <1>4, <1>5, <1>6, <1>7, <1>8, <1>9, <1>10, <1>11, <1>12, <1>13,
     <1>14, <1>15, <1>16, <1>17, <1>18, <1>19, <1>20, <1>21, <1>22,
     <1>23, <1>24, <1>25
  DEF Next, RunStep, SetupStep

\* A failed mount is never forgotten.
LEMMA ReadyKeptStep == TypeOK /\ Progress /\ ReadyKept /\ [Next]_vars => ReadyKept'
<1> SUFFICES ASSUME TypeOK, Progress, ReadyKept, [Next]_vars
             PROVE  ReadyKept'
  OBVIOUS
<1> USE DEF diskVars, setupVars, runVars, PCs, SetupPCs, StopPCs, ReturnPCs, ReadyKept, CommandPCs, Mounts, Repos, Marker
<1>1. CASE Boot
  BY <1>1 DEF Boot
<1>2. CASE Load
  BY <1>2 DEF Load
<1>3. CASE Serve
  BY <1>3 DEF Serve, Down
<1>4. CASE Stat
  <2>1. (EndSetup("failed") \/ EndSetup("skipped")) => ReadyKept'
    BY <1>4, StatFacts, ReadyKeptEnd DEF Setups
  <2>2. CASE ~(EndSetup("failed") \/ EndSetup("skipped"))
    <3>1. UNCHANGED <<setups, launch, ready>> /\ pc' \in SetupPCs
      BY <1>4, <2>2, StatFacts
    <3> QED BY <3>1
  <2> QED BY <2>1, <2>2
<1>5. CASE FetchDone
  BY <1>5, SetupEffect DEF FetchDone, SetupStep
<1>6. CASE FetchFails
  BY <1>6, SetupEffect DEF FetchFails, SetupStep
<1>7. CASE Bootstrap
  <2>1. (EndSetup("failed")) => ReadyKept'
    BY <1>7, BootstrapFacts, ReadyKeptEnd DEF Setups
  <2>2. CASE ~(EndSetup("failed"))
    <3>1. UNCHANGED <<setups, launch, ready>> /\ pc' \in SetupPCs
      BY <1>7, <2>2, BootstrapFacts
    <3> QED BY <3>1
  <2> QED BY <2>1, <2>2
<1>8. CASE WriteMarker
  <2>1. launch' = launch /\ pc = "mark"
    BY <1>8, WriteMarkerFacts
  <2>2. EndSetup("marked") \/ EndSetup("unmarked")
    BY <1>8, WriteMarkerFacts
  <2> QED BY <2>1, <2>2, ReadyKeptEnd DEF Setups
<1>9. CASE MarkReady
  BY <1>9 DEF MarkReady
<1>10. CASE StartCommand
  BY <1>10 DEF StartCommand, Down
<1>11. CASE Exited
  BY <1>11 DEF Exited, ReportExit
<1>12. CASE StopCommand
  BY <1>12 DEF StopCommand
<1>13. CASE GraceOver
  BY <1>13 DEF GraceOver
<1>14. CASE Stopped
  BY <1>14 DEF Stopped, ReportExit, StopPCs
<1>15. CASE Return
  BY <1>15 DEF Return
<1>16. CASE CommandEdits
  BY <1>16 DEF CommandEdits
<1>17. CASE CommandExits
  BY <1>17 DEF CommandExits
<1>18. CASE Terminate
  BY <1>18 DEF Terminate
<1>19. CASE Kill
  BY <1>19 DEF Kill, Down
<1>20. CASE LoadFails
  BY <1>20 DEF LoadFails, Down
<1>21. CASE FreshContainer
  <2>1. \A i \in DOMAIN Mounts : setups[i] = "none"
    BY <1>21 DEF FreshContainer, Progress, EarlyPCs
  <2>2. pc' = pc /\ UNCHANGED <<launch, setups, ready, served>>
    BY <1>21 DEF FreshContainer
  <2> QED BY <2>1, <2>2
<1>22. CASE UNCHANGED vars
  BY <1>22 DEF vars
<1>23. CASE Shutdown
  BY <1>23 DEF Shutdown, Down
<1>24. CASE RequestEnds
  BY <1>24 DEF RequestEnds, Down
<1>25. CASE BackgroundEnds
  BY <1>25 DEF BackgroundEnds
<1> QED
  BY <1>1, <1>2, <1>3, <1>4, <1>5, <1>6, <1>7, <1>8, <1>9, <1>10, <1>11, <1>12, <1>13,
     <1>14, <1>15, <1>16, <1>17, <1>18, <1>19, <1>20, <1>21, <1>22,
     <1>23, <1>24, <1>25
  DEF Next, RunStep, SetupStep

\* A checkout is complete before it is marked and safe from then on.
LEMMA CheckedOutStep == TypeOK /\ CheckedOut /\ [Next]_vars => CheckedOut'
<1> SUFFICES ASSUME TypeOK, CheckedOut, [Next]_vars
             PROVE  CheckedOut'
  OBVIOUS
<1> USE DEF diskVars, setupVars, runVars, PCs, SetupPCs, StopPCs, ReturnPCs, CheckedOut, Mounts, Repos, Marker
<1>1. CASE Boot
  BY <1>1 DEF Boot
<1>2. CASE Load
  BY <1>2 DEF Load
<1>3. CASE Serve
  BY <1>3 DEF Serve, Down
<1>4. CASE Stat
  <2>1. (EndSetup("failed") \/ EndSetup("skipped")) => CheckedOut'
    BY <1>4, StatFacts, CheckedOutEnd DEF Setups
  <2>2. CASE ~(EndSetup("failed") \/ EndSetup("skipped"))
    <3>1. /\ UNCHANGED <<files, markers, completed, launch, at, repo, gitOK>> /\ repo = 1
          /\ Marker(at) \notin markers \/ misread' = misread \cup {at}
          /\ misread \subseteq misread'
          /\ \/ pc' = "clone"
             \/ pc' \in {"bootstrap", "mark"} /\ Repos(at) = {}
      BY <1>4, <2>2, StatFacts
    <3>2. \A r \in Repos(at) : ~(r < repo)
      BY <3>1
    <3> QED BY <3>1, <3>2
  <2> QED BY <2>1, <2>2
<1>5. CASE FetchDone
  <2>1. /\ pc = "clone" /\ UNCHANGED <<launch, markers, completed, misread, at>>
        /\ at \notin completed \ misread /\ at \in DOMAIN Mounts /\ gitOK \in BOOLEAN
        /\ repo \in Repos(at) /\ completed \subseteq DOMAIN Mounts
    BY <1>5, FetchFacts DEF TypeOK
  <2>2. \A i \in completed \ misread : files'[i] = files[i]
    BY <1>5, <2>1, FetchFacts, SetFilesFacts DEF FileStates
  <2>3. /\ \A i \in completed' : Marker(i) \in markers'
        /\ \A i \in completed' \ misread' : \A r \in Repos(i) : files'[i][r] # "none"
    BY <2>1, <2>2
  <2>4. \/ pc' = "clone"
        \/ pc' \in {"bootstrap", "mark"} /\ repo' = 1
    BY <1>5, <2>1, FetchFacts, NextRepoFacts
  <2>5. ASSUME gitOK'
        PROVE  /\ pc' = "clone" => \A r \in Repos(at) : r < repo' => files'[at][r] # "none"
               /\ pc' # "clone" => \A r \in Repos(at) : files'[at][r] # "none"
    <3>1. SetFiles("fetched") /\ NextRepo(gitOK)
      BY <1>5 DEF FetchDone
    <3>2. gitOK
      BY <2>1, <2>5, <3>1, NextRepoFacts
    <3>3. \A r \in Repos(at) : r < repo => files[at][r] # "none"
      BY <2>1, <3>2
    <3>4. \A r \in Repos(at) : r <= repo => files'[at][r] # "none"
      BY <2>1, <3>1, <3>3, SetFilesFacts DEF FileStates
    <3>5. \/ pc' = "clone" /\ repo' = repo + 1
          \/ pc' # "clone" /\ \A r \in Repos(at) : r <= repo
      BY <2>1, <3>1, NextRepoFacts
    <3>6. \A r \in Repos(at) : r < repo + 1 => r <= repo
      BY <2>1
    <3> QED BY <3>4, <3>5, <3>6
  <2> QED BY <2>1, <2>3, <2>4, <2>5
<1>6. CASE FetchFails
  <2>1. /\ pc = "clone" /\ UNCHANGED <<launch, markers, completed, misread, at>>
        /\ at \notin completed \ misread /\ at \in DOMAIN Mounts /\ gitOK \in BOOLEAN
        /\ repo \in Repos(at) /\ completed \subseteq DOMAIN Mounts
    BY <1>6, FetchFacts DEF TypeOK
  <2>2. \A i \in completed \ misread : files'[i] = files[i]
    BY <1>6, <2>1, FetchFacts, SetFilesFacts DEF FileStates
  <2>3. /\ \A i \in completed' : Marker(i) \in markers'
        /\ \A i \in completed' \ misread' : \A r \in Repos(i) : files'[i][r] # "none"
    BY <2>1, <2>2
  <2>4. \/ pc' = "clone"
        \/ pc' \in {"bootstrap", "mark"} /\ repo' = 1
    BY <1>6, <2>1, FetchFacts, NextRepoFacts
  <2>5. ASSUME gitOK'
        PROVE  /\ pc' = "clone" => \A r \in Repos(at) : r < repo' => files'[at][r] # "none"
               /\ pc' # "clone" => \A r \in Repos(at) : files'[at][r] # "none"
    <3>1. tries' = tries + 1 /\ UNCHANGED <<pc, repo, gitOK>>
      BY <1>6, <2>1, <2>5, NextRepoFacts DEF FetchFails
    <3>2. \A r \in Repos(at) : r < repo => files[at][r] # "none"
      BY <2>1, <2>5, <3>1
    <3>3. \A r \in Repos(at) : r # repo => files'[at][r] = files[at][r]
      BY <1>6, <2>1, SetFilesFacts DEF FetchFails, FileStates
    <3>4. \A r \in Repos(at) : r < repo => r # repo
      BY <2>1
    <3> QED BY <2>1, <3>1, <3>2, <3>3, <3>4
  <2> QED BY <2>1, <2>3, <2>4, <2>5
<1>7. CASE Bootstrap
  <2>1. EndSetup("failed") => CheckedOut'
    BY <1>7, BootstrapFacts, CheckedOutEnd DEF Setups
  <2>2. CASE ~EndSetup("failed")
    BY <1>7, <2>2, BootstrapFacts
  <2> QED BY <2>1, <2>2
<1>8. CASE WriteMarker
  <2>1. CASE /\ gitOK /\ EndSetup("marked") /\ markers' = markers \cup {Marker(at)}
             /\ completed' = completed \cup {at} /\ misread' = misread \ {at}
    BY <1>8, <2>1, WriteMarkerFacts, CheckedOutEnd DEF Setups
  <2>2. CASE EndSetup("unmarked") /\ UNCHANGED <<markers, completed, misread>>
    BY <1>8, <2>2, WriteMarkerFacts, CheckedOutEnd DEF Setups
  <2> QED BY <1>8, <2>1, <2>2, WriteMarkerFacts
<1>9. CASE MarkReady
  BY <1>9 DEF MarkReady
<1>10. CASE StartCommand
  BY <1>10 DEF StartCommand, Down
<1>11. CASE Exited
  BY <1>11 DEF Exited, ReportExit
<1>12. CASE StopCommand
  BY <1>12 DEF StopCommand
<1>13. CASE GraceOver
  BY <1>13 DEF GraceOver
<1>14. CASE Stopped
  BY <1>14 DEF Stopped, ReportExit, StopPCs
<1>15. CASE Return
  BY <1>15 DEF Return
<1>16. CASE CommandEdits
  BY <1>16 DEF CommandEdits
<1>17. CASE CommandExits
  BY <1>17 DEF CommandExits
<1>18. CASE Terminate
  BY <1>18 DEF Terminate
<1>19. CASE Kill
  <2>1. pc' = "down" /\ repo' = 1 /\ UNCHANGED <<launch, markers, completed, misread>>
    BY <1>19 DEF Kill, Down
  <2>2. files' = files \/ (pc = "clone" /\ SetFiles("none"))
    BY <1>19 DEF Kill
  <2>3. completed \subseteq DOMAIN Mounts /\ (pc = "clone" => at \notin completed \ misread)
    BY DEF TypeOK
  <2>4. \A i \in completed \ misread : files'[i] = files[i]
    BY <2>2, <2>3, SetFilesFacts DEF FileStates
  <2> QED BY <2>1, <2>4
<1>20. CASE LoadFails
  BY <1>20 DEF LoadFails, Down
<1>21. CASE FreshContainer
  BY <1>21 DEF FreshContainer
<1>22. CASE UNCHANGED vars
  BY <1>22 DEF vars
<1>23. CASE Shutdown
  BY <1>23 DEF Shutdown, Down
<1>24. CASE RequestEnds
  BY <1>24 DEF RequestEnds, Down
<1>25. CASE BackgroundEnds
  BY <1>25 DEF BackgroundEnds
<1> QED
  BY <1>1, <1>2, <1>3, <1>4, <1>5, <1>6, <1>7, <1>8, <1>9, <1>10, <1>11, <1>12, <1>13,
     <1>14, <1>15, <1>16, <1>17, <1>18, <1>19, <1>20, <1>21, <1>22,
     <1>23, <1>24, <1>25
  DEF Next, RunStep, SetupStep

\* The end of a mount's setup, and of the process, leave everything well typed.
LEMMA TypeEnd ==
    ASSUME TypeOK, NEW result \in Setups, EndSetup(result), UNCHANGED <<launch, files>>,
           markers' \subseteq {Marker(i) : i \in DOMAIN Mounts}, completed' \subseteq DOMAIN Mounts,
           misread' \subseteq DOMAIN Mounts
    PROVE  TypeOK'
<1>1. pc' \in PCs /\ pc' # "clone" /\ gitOK' \in BOOLEAN /\ tries' \in 0..(GitRetries - 1)
  <2>1. pc' \in {"stat", "ready"} /\ gitOK' = TRUE /\ tries' = 0
    BY EndSetupFacts
  <2> QED BY <2>1, TaskRunnerAssumption DEF PCs, SetupPCs
<1>2. ready' \in BOOLEAN
  BY EndSetupReady DEF TypeOK
<1>3. /\ setups' \in [DOMAIN Mounts -> Setups] /\ at' \in DOMAIN Mounts
      /\ UNCHANGED <<served, stopping, command, reports>>
  BY EndSetupFacts
<1> QED BY <1>1, <1>2, <1>3 DEF TypeOK, Mounts, Repos, Marker

\* A container that goes down is well typed.
LEMMA TypeDown ==
    ASSUME TypeOK, Down, UNCHANGED <<launch, markers, completed, misread>>,
           DOMAIN files' = DOMAIN Mounts,
           \A i \in DOMAIN Mounts : files'[i] \in [Repos(i) -> FileStates]
    PROVE  TypeOK'
<1>1. pc' = "down" /\ at' = 1 /\ tries' = 0 /\ command' = "none" /\ reports' = 0
  BY DEF Down
<1>2. /\ gitOK' \in BOOLEAN /\ ready' \in BOOLEAN /\ served' \in BOOLEAN
      /\ stopping' \in BOOLEAN
  BY DEF Down
<1>3. setups' \in [DOMAIN Mounts -> Setups]
  BY DEF Down, Setups
<1>4. 1 \in DOMAIN Mounts /\ 0 \in 0..(GitRetries - 1)
  BY MountsFacts, TaskRunnerAssumption DEF TypeOK, Mounts
<1>5. pc' \in PCs /\ pc' # "clone" /\ reports' \in 0..1
  BY <1>1 DEF PCs
<1> QED BY <1>1, <1>2, <1>3, <1>4, <1>5 DEF TypeOK, Mounts, Repos, Marker

\* Type correctness: exits are counted once, repositories and attempts never
\* run past their ends.
LEMMA TypeStep == TypeOK /\ Supervised /\ CheckedOut /\ [Next]_vars => TypeOK'
<1> SUFFICES ASSUME TypeOK, Supervised, CheckedOut, [Next]_vars
             PROVE  TypeOK'
  OBVIOUS
<1> USE DEF diskVars, setupVars, runVars, PCs, SetupPCs, StopPCs, ReturnPCs, Mounts, Repos, Marker
<1>1. CASE Boot
  BY <1>1 DEF Boot, TypeOK
<1>2. CASE Load
  BY <1>2 DEF Load, TypeOK
<1>3. CASE Serve
  <2>1. CASE Down
    BY <1>3, <2>1, TypeDown DEF Serve, TypeOK
  <2>2. CASE pc' = "stat" /\ UNCHANGED <<setupVars, runVars>>
    BY <1>3, <2>2 DEF Serve, TypeOK
  <2> QED BY <1>3, <2>1, <2>2 DEF Serve
<1>4. CASE Stat
  <2>1. /\ pc = "stat" /\ UNCHANGED <<launch, files, markers, completed>>
        /\ markers \subseteq {Marker(i) : i \in DOMAIN Mounts} /\ completed \subseteq DOMAIN Mounts
        /\ misread' \subseteq DOMAIN Mounts
    BY <1>4, StatFacts DEF TypeOK
  <2>2. CASE EndSetup("failed") \/ EndSetup("skipped")
    BY <2>1, <2>2, TypeEnd DEF Setups
  <2>3. CASE ~(EndSetup("failed") \/ EndSetup("skipped"))
    <3>1. /\ \/ pc' = "clone" /\ Repos(at) # {}
             \/ pc' \in {"bootstrap", "mark"}
          /\ UNCHANGED <<setupVars, runVars>>
      BY <1>4, <2>3, StatFacts
    <3>2. at \in DOMAIN Mounts /\ Mounts[at].repos \in Nat /\ repo = 1
      BY <2>1, MountsFacts DEF TypeOK, CheckedOut
    <3>3. pc' = "clone" => repo \in Repos(at)
      BY <3>1, <3>2
    <3> QED BY <2>1, <3>1, <3>3 DEF TypeOK
  <2> QED BY <2>2, <2>3
<1>5. CASE FetchDone
  <2>1. gitOK \in BOOLEAN /\ tries \in 0..(GitRetries - 1) /\ pc = "clone"
    BY <1>5, FetchFacts DEF TypeOK
  <2>2. /\ DOMAIN files' = DOMAIN Mounts
        /\ \A i \in DOMAIN Mounts : files'[i] \in [Repos(i) -> FileStates]
    BY <1>5, <2>1, FetchFacts, SetFilesFacts DEF FileStates, TypeOK
  <2>3. gitOK' \in BOOLEAN
    BY <1>5, <2>1, FetchFacts, NextRepoFacts
  <2>6. tries' \in 0..(GitRetries - 1)
    <3>1. tries' = 0 \/ (tries' = tries + 1 /\ tries + 1 < GitRetries)
      BY <1>5, <2>1, FetchFacts, NextRepoFacts
    <3> QED BY <2>1, <3>1, TaskRunnerAssumption
  <2>4. pc' \in PCs /\ (pc' = "clone" => repo' \in Repos(at))
    BY <1>5, <2>1, FetchFacts, NextRepoFacts DEF TypeOK
  <2>5. UNCHANGED <<launch, markers, completed, misread, at, runVars>>
    BY <1>5, FetchFacts
  <2> QED BY <2>2, <2>3, <2>4, <2>5, <2>6 DEF TypeOK
<1>6. CASE FetchFails
  <2>1. gitOK \in BOOLEAN /\ tries \in 0..(GitRetries - 1) /\ pc = "clone"
    BY <1>6, FetchFacts DEF TypeOK
  <2>2. /\ DOMAIN files' = DOMAIN Mounts
        /\ \A i \in DOMAIN Mounts : files'[i] \in [Repos(i) -> FileStates]
    BY <1>6, <2>1, FetchFacts, SetFilesFacts DEF FileStates, TypeOK
  <2>3. gitOK' \in BOOLEAN
    BY <1>6, <2>1, FetchFacts, NextRepoFacts
  <2>6. tries' \in 0..(GitRetries - 1)
    <3>1. tries' = 0 \/ (tries' = tries + 1 /\ tries + 1 < GitRetries)
      BY <1>6, <2>1, FetchFacts, NextRepoFacts
    <3> QED BY <2>1, <3>1, TaskRunnerAssumption
  <2>4. pc' \in PCs /\ (pc' = "clone" => repo' \in Repos(at))
    BY <1>6, <2>1, FetchFacts, NextRepoFacts DEF TypeOK
  <2>5. UNCHANGED <<launch, markers, completed, misread, at, runVars>>
    BY <1>6, FetchFacts
  <2> QED BY <2>2, <2>3, <2>4, <2>5, <2>6 DEF TypeOK
<1>7. CASE Bootstrap
  <2>1. /\ UNCHANGED <<launch, files, markers, completed, misread>>
        /\ markers \subseteq {Marker(i) : i \in DOMAIN Mounts} /\ completed \subseteq DOMAIN Mounts
        /\ misread \subseteq DOMAIN Mounts
    BY <1>7, BootstrapFacts DEF TypeOK
  <2>2. CASE EndSetup("failed")
    BY <2>1, <2>2, TypeEnd DEF Setups
  <2>3. CASE pc' \in {"mark", "held"} /\ UNCHANGED <<setupVars, runVars>>
    BY <2>1, <2>3 DEF TypeOK
  <2> QED BY <1>7, <2>2, <2>3, BootstrapFacts
<1>8. CASE WriteMarker
  <2>1. /\ UNCHANGED <<launch, files>> /\ at \in DOMAIN Mounts
        /\ markers \subseteq {Marker(i) : i \in DOMAIN Mounts} /\ completed \subseteq DOMAIN Mounts
        /\ misread \subseteq DOMAIN Mounts
    BY <1>8, WriteMarkerFacts DEF TypeOK
  <2>2. /\ markers' \subseteq {Marker(i) : i \in DOMAIN Mounts}
        /\ completed' \subseteq DOMAIN Mounts /\ misread' \subseteq DOMAIN Mounts
    BY <1>8, <2>1, WriteMarkerFacts
  <2>3. EndSetup("marked") \/ EndSetup("unmarked")
    BY <1>8, WriteMarkerFacts
  <2> QED BY <2>1, <2>2, <2>3, TypeEnd DEF Setups
<1>9. CASE MarkReady
  BY <1>9 DEF MarkReady, TypeOK
<1>10. CASE StartCommand
  <2>2. CASE pc' \in {"wait", "shutdown"} /\ UNCHANGED <<setupVars, runVars>>
    BY <1>10, <2>2 DEF StartCommand, TypeOK
  <2>3. CASE pc' = "select" /\ command' = "running"
             /\ UNCHANGED <<setupVars, ready, served, stopping, setups, reports>>
    BY <1>10, <2>3 DEF StartCommand, TypeOK
  <2> QED BY <1>10, <2>2, <2>3 DEF StartCommand
<1>11. CASE Exited
  <2>1. reports' = 1 /\ pc' = "wait"
    BY <1>11 DEF Exited, ReportExit, Supervised
  <2>2. UNCHANGED <<launch, diskVars, setupVars, ready, served, stopping, command, setups>>
    BY <1>11 DEF Exited
  <2> QED BY <2>1, <2>2 DEF TypeOK
<1>12. CASE StopCommand
  BY <1>12 DEF StopCommand, TypeOK
<1>13. CASE GraceOver
  BY <1>13 DEF GraceOver, TypeOK
<1>14. CASE Stopped
  <2>1. reports' = 1 /\ pc' = "wait"
    BY <1>14 DEF Stopped, ReportExit, Supervised
  <2>2. UNCHANGED <<launch, diskVars, setupVars, ready, served, stopping, command, setups>>
    BY <1>14 DEF Stopped
  <2> QED BY <2>1, <2>2 DEF TypeOK
<1>15. CASE Return
  BY <1>15 DEF Return, TypeOK
<1>16. CASE CommandEdits
  <2>0. PICK i \in DOMAIN Mounts : \E r \in Repos(i) : files' = [files EXCEPT ![i][r] = "edited"]
    BY <1>16 DEF CommandEdits
  <2>1. PICK r \in Repos(i) : files' = [files EXCEPT ![i][r] = "edited"]
    BY <2>0
  <2>2. /\ DOMAIN files = DOMAIN Mounts
        /\ \A k \in DOMAIN Mounts : files[k] \in [Repos(k) -> FileStates]
    BY DEF TypeOK
  <2>3. /\ DOMAIN files' = DOMAIN Mounts
        /\ \A k \in DOMAIN Mounts : files'[k] \in [Repos(k) -> FileStates]
    BY <2>1, <2>2 DEF FileStates
  <2>4. UNCHANGED <<launch, markers, completed, misread, pc, setupVars, runVars>>
    BY <1>16 DEF CommandEdits
  <2> QED BY <2>3, <2>4 DEF TypeOK
<1>17. CASE CommandExits
  BY <1>17 DEF CommandExits, TypeOK
<1>18. CASE Terminate
  BY <1>18 DEF Terminate, TypeOK
<1>19. CASE Kill
  <2>1. Down /\ UNCHANGED <<launch, markers, completed, misread>>
    BY <1>19 DEF Kill
  <2>2. /\ DOMAIN files' = DOMAIN Mounts
        /\ \A i \in DOMAIN Mounts : files'[i] \in [Repos(i) -> FileStates]
    BY <1>19, SetFilesFacts DEF Kill, FileStates, TypeOK
  <2> QED BY <2>1, <2>2, TypeDown
<1>20. CASE LoadFails
  <2>1. Down /\ UNCHANGED <<launch, diskVars>>
    BY <1>20 DEF LoadFails
  <2> QED BY <2>1, TypeDown DEF TypeOK
<1>21. CASE FreshContainer
  <2>1. /\ DOMAIN files' = DOMAIN Mounts
        /\ \A i \in DOMAIN Mounts : files'[i] \in [Repos(i) -> FileStates]
    BY <1>21 DEF FreshContainer, TypeOK, FileStates
  <2>2. UNCHANGED <<launch, pc, setupVars, runVars>> /\ markers' = {} /\ completed' = {} /\ misread' = {}
    BY <1>21 DEF FreshContainer
  <2> QED BY <2>1, <2>2 DEF TypeOK
<1>22. CASE UNCHANGED vars
  BY <1>22 DEF vars, TypeOK
<1>23. CASE Shutdown
  <2>1. CASE Down
    BY <1>23, <2>1, TypeDown DEF Shutdown, TypeOK
  <2>2. CASE pc' = "open" /\ UNCHANGED <<setupVars, runVars>>
    BY <1>23, <2>2 DEF Shutdown, TypeOK
  <2> QED BY <1>23, <2>1, <2>2 DEF Shutdown
<1>24. CASE RequestEnds
  <2>1. Down /\ UNCHANGED <<launch, diskVars>>
    BY <1>24 DEF RequestEnds
  <2> QED BY <2>1, TypeDown DEF TypeOK
<1>25. CASE BackgroundEnds
  BY <1>25 DEF BackgroundEnds, TypeOK
<1> QED
  BY <1>1, <1>2, <1>3, <1>4, <1>5, <1>6, <1>7, <1>8, <1>9, <1>10, <1>11, <1>12, <1>13,
     <1>14, <1>15, <1>16, <1>17, <1>18, <1>19, <1>20, <1>21, <1>22,
     <1>23, <1>24, <1>25
  DEF Next, RunStep, SetupStep

-----------------------------------------------------------------------------
(* The theorems.                                                           *)

\* The invariant holds initially, and every step preserves it.
LEMMA InvInit == Init => Inv
<1> SUFFICES ASSUME Init PROVE Inv
  OBVIOUS
<1>0. launch \in Launches
  BY DEF Init
<1>1. 1 \in DOMAIN Mounts /\ DOMAIN Mounts \subseteq Nat
  BY <1>0, MountsFacts DEF Mounts
<1>2. TypeOK
  <2>1. /\ DOMAIN files = DOMAIN Mounts
        /\ \A i \in DOMAIN Mounts : files[i] \in [Repos(i) -> FileStates]
    BY DEF Init, FileStates
  <2>2. setups \in [DOMAIN Mounts -> Setups]
    BY DEF Init, NothingSetUp, Setups
  <2>3. pc \in PCs /\ pc # "clone" /\ at \in DOMAIN Mounts /\ command = "none"
    BY <1>1 DEF Init, PCs
  <2>4. tries \in 0..(GitRetries - 1) /\ reports \in 0..1
    BY TaskRunnerAssumption DEF Init
  <2>5. gitOK \in BOOLEAN /\ ready \in BOOLEAN /\ served \in BOOLEAN /\ stopping \in BOOLEAN
    BY DEF Init
  <2>6. markers = {} /\ completed = {} /\ misread = {}
    BY DEF Init
  <2> QED BY <1>0, <2>1, <2>2, <2>3, <2>4, <2>5, <2>6 DEF TypeOK
<1>3. /\ \A i \in DOMAIN Mounts : setups[i] = "none"
      /\ pc = "down" /\ at = 1 /\ repo = 1 /\ command = "none" /\ reports = 0 /\ completed = {}
  BY DEF Init, NothingSetUp
<1>4. ready <=> \A i \in DOMAIN Mounts : setups[i] # "failed"
  BY <1>3 DEF Init
<1> QED BY <1>2, <1>3, <1>4
        DEF Inv, Progress, Supervised, ReadyKept, CheckedOut, EarlyPCs, SetupPCs, CommandPCs

\* The invariant is inductive.
LEMMA InvNext == Inv /\ [Next]_vars => Inv'
BY TypeStep, ProgressStep, SupervisedStep, ReadyKeptStep, CheckedOutStep DEF Inv

\* Every reachable state of the runner is well typed: no fetch goes past the
\* last repository or the last attempt, and an exit is reported at most once.
THEOREM TypeCorrect == Spec => []TypeOK
<1>1. Inv => TypeOK
  BY DEF Inv
<1> QED BY <1>1, InvInit, InvNext, PTL DEF Spec

\* Once Run is past its setup, /readyz answers 200 exactly when no setup of
\* this boot returned an error, whatever crashes, restarts and resumes came
\* before (Run, SetWorkspaceReady).
THEOREM ReadinessIsEarned == Spec => []ReadyEarned
<1>1. Inv => ReadyEarned
  BY DEF Inv, ReadyKept, ReadyEarned, CommandPCs, StopPCs, ReturnPCs
<1> QED BY <1>1, InvInit, InvNext, PTL DEF Spec

\* A marker means a whole checkout: a container that dies in the middle of a
\* fetch leaves no marker behind for it, unless the checkout is a repeated
\* one under a marker that could not be read (SetupWorkspace, fetchRepo).
THEOREM MarkersAreEarned == Spec => []MarkerEarned
<1>1. Inv => MarkerEarned
  BY DEF Inv, CheckedOut, MarkerEarned
<1> QED BY <1>1, InvInit, InvNext, PTL DEF Spec

\* Run starts the command only after every mount had its turn in this boot.
THEOREM CommandAfterSetup == Spec => []SetupBeforeCommand
<1>1. Inv => SetupBeforeCommand
  BY DEF Inv, Progress, Supervised, SetupBeforeCommand, CommandPCs, EarlyPCs, SetupPCs
<1> QED BY <1>1, InvInit, InvNext, PTL DEF Spec

\* When Run gets to its last wait with a command, or returns after starting
\* one, that command has exited and its exit was reported once, on whichever
\* of the three ways it got there.
THEOREM ExitIsReported == Spec => []ExitReported
<1>1. Inv => ExitReported
  BY DEF Inv, Supervised, ExitReported, ReturnPCs
<1> QED BY <1>1, InvInit, InvNext, PTL DEF Spec

\* While the marker of a workspace is there and can be read, no boot touches
\* what the command has edited in it; a resume, which takes the markers away,
\* is not covered (SetupWorkspace, fetchRepo).
THEOREM EditsAreKept == Spec => WorkKept
<1> DEFINE Kept == \A i \in DOMAIN Mounts : \A r \in Repos(i) :
                     files[i][r] = "edited" /\ files'[i][r] # "edited" =>
                        \/ Marker(i) \notin markers
                        \/ i \in misread
                        \/ pc = "down" /\ ~Durable(i)
<1>1. ASSUME Inv, [Next]_vars PROVE Kept \/ UNCHANGED vars
  <2>0. TypeOK /\ (pc = "clone" => Marker(at) \notin markers \/ at \in misread)
    BY <1>1 DEF Inv, CheckedOut
  <2>1. ASSUME files' = files PROVE Kept
    BY <2>1
  <2>2. ASSUME pc = "clone", NEW state \in FileStates, SetFiles(state) PROVE Kept
    <3>1. \A i \in DOMAIN Mounts : i # at => files'[i] = files[i]
      BY <2>0, <2>2, SetFilesFacts
    <3> QED BY <2>0, <2>2, <3>1
  <2>3. CASE CommandEdits
    <3>1. PICK i \in DOMAIN Mounts : \E r \in Repos(i) : files' = [files EXCEPT ![i][r] = "edited"]
      BY <2>3 DEF CommandEdits
    <3>2. PICK r \in Repos(i) : files' = [files EXCEPT ![i][r] = "edited"]
      BY <3>1
    <3>3. /\ DOMAIN files = DOMAIN Mounts
          /\ \A k \in DOMAIN Mounts : files[k] \in [Repos(k) -> FileStates]
      BY <2>0 DEF TypeOK
    <3> QED BY <3>2, <3>3
  <2>4. CASE FreshContainer
    BY <2>4 DEF FreshContainer
  <2>5. CASE FetchDone \/ FetchFails
    BY <2>0, <2>1, <2>2, <2>5, FetchFacts DEF FileStates
  <2>6. CASE Kill
    BY <2>1, <2>2, <2>6 DEF Kill, FileStates
  <2>7. CASE Boot \/ Load \/ Serve \/ Stat \/ Bootstrap \/ WriteMarker \/ MarkReady \/ StartCommand
    BY <2>1, <2>7 DEF Boot, Load, Serve, Stat, Bootstrap, WriteMarker, MarkReady, StartCommand, diskVars
  <2>8. CASE Exited \/ StopCommand \/ GraceOver \/ Stopped \/ Return \/ Shutdown
    BY <2>1, <2>8 DEF Exited, StopCommand, GraceOver, Stopped, Return, Shutdown, diskVars
  <2>9. CASE CommandExits \/ Terminate \/ LoadFails \/ BackgroundEnds \/ RequestEnds
    BY <2>1, <2>9 DEF CommandExits, Terminate, LoadFails, BackgroundEnds, RequestEnds, diskVars
  <2> QED BY <1>1, <2>3, <2>4, <2>5, <2>6, <2>7, <2>8, <2>9 DEF Next, RunStep, SetupStep
<1>2. Inv /\ [Next]_vars => [Kept]_vars
  BY <1>1
<1> QED BY <1>2, InvInit, InvNext, PTL DEF Spec, WorkKept

-----------------------------------------------------------------------------
(* Markers and the mounts that wrote them.                                 *)

\* Every marker is that of a mount that completed its maiden run.
OwnMarkers ==
    /\ \A m \in markers : \E i \in completed : m = Marker(i)
    /\ SetupIndependent

\* No step makes the marker of a workspace that was not set up.
LEMMA OwnMarkersStep == Inv /\ OwnMarkers /\ [Next]_vars => OwnMarkers'
<1> SUFFICES ASSUME Inv, OwnMarkers, [Next]_vars
             PROVE  OwnMarkers'
  OBVIOUS
<1> USE DEF diskVars, setupVars, runVars, Mounts, Marker
<1>0. TypeOK /\ at \in DOMAIN Mounts /\ launch \in Launches /\ completed \subseteq DOMAIN Mounts
  BY DEF Inv, TypeOK
<1>1. ASSUME UNCHANGED <<launch, markers, completed, setups>> PROVE OwnMarkers'
  BY <1>1 DEF OwnMarkers, SetupIndependent
<1>2. ASSUME UNCHANGED <<launch, markers, completed>>, setups' = [i \in DOMAIN Mounts |-> "none"]
      PROVE  OwnMarkers'
  BY <1>2 DEF OwnMarkers, SetupIndependent
<1>3. ASSUME launch' = launch, \A m \in markers' : \E i \in completed' : m = Marker(i),
             completed \subseteq completed', NEW result \in Setups, EndSetup(result),
             result = "skipped" => Marker(at) \in markers'
      PROVE  OwnMarkers'
  <2>1. setups'[at] = result /\ \A i \in DOMAIN Mounts : i # at => setups'[i] = setups[i]
    BY <1>0, <1>3, EndSetupFacts
  <2>2. \A i \in DOMAIN Mounts :
          setups'[i] = "skipped" => \E j \in completed' : Marker(j) = Marker(i)
    BY <1>3, <2>1 DEF OwnMarkers, SetupIndependent
  <2> QED BY <1>3, <2>2 DEF OwnMarkers, SetupIndependent
<1>4. CASE Stat
  <2>2. UNCHANGED <<launch, markers, completed>>
    BY <1>0, <1>4, StatFacts
  <2>3. \A m \in markers : \E i \in completed : m = Marker(i)
    BY DEF OwnMarkers
  <2>4. CASE EndSetup("failed")
    BY <1>3, <2>2, <2>3, <2>4 DEF Setups
  <2>5. CASE EndSetup("skipped") /\ Marker(at) \in markers
    BY <1>3, <2>2, <2>3, <2>5 DEF Setups
  <2>6. CASE UNCHANGED <<setupVars, runVars>>
    BY <1>1, <2>2, <2>6
  <2> QED BY <1>0, <1>4, <2>4, <2>5, <2>6, StatFacts
<1>5. CASE Bootstrap
  <2>1. UNCHANGED <<launch, markers, completed>>
    BY <1>5, BootstrapFacts
  <2>2. \A m \in markers : \E i \in completed : m = Marker(i)
    BY DEF OwnMarkers
  <2>3. CASE EndSetup("failed")
    BY <1>3, <2>1, <2>2, <2>3 DEF Setups
  <2>4. CASE UNCHANGED <<setupVars, runVars>>
    BY <1>1, <2>1, <2>4
  <2> QED BY <1>5, <2>3, <2>4, BootstrapFacts
<1>6. CASE WriteMarker
  <2>1. launch' = launch
    BY <1>6, WriteMarkerFacts
  <2>2. \A m \in markers' : \E i \in completed' : m = Marker(i)
    BY <1>6, WriteMarkerFacts DEF OwnMarkers
  <2>3. completed \subseteq completed' /\ (EndSetup("marked") \/ EndSetup("unmarked"))
    BY <1>6, WriteMarkerFacts
  <2> QED BY <1>3, <2>1, <2>2, <2>3 DEF Setups
<1>7. CASE FetchDone \/ FetchFails
  BY <1>0, <1>1, <1>7, FetchFacts
<1>8. CASE FreshContainer
  <2>1. \A i \in DOMAIN Mounts : setups[i] = "none"
    BY <1>8 DEF FreshContainer, Inv, Progress, EarlyPCs
  <2>2. markers' = {} /\ UNCHANGED <<launch, setups>>
    BY <1>8 DEF FreshContainer
  <2> QED BY <2>1, <2>2 DEF OwnMarkers, SetupIndependent
<1>9. CASE Kill \/ LoadFails \/ RequestEnds
  BY <1>2, <1>9 DEF Kill, LoadFails, RequestEnds, Down
<1>10. CASE Serve \/ Shutdown
  <2>1. CASE Down
    BY <1>2, <1>10, <2>1 DEF Serve, Shutdown, Down
  <2>2. CASE ~Down
    BY <1>1, <1>10, <2>2 DEF Serve, Shutdown
  <2> QED BY <2>1, <2>2
<1>11. CASE Boot \/ Load \/ MarkReady \/ StartCommand \/ Exited \/ StopCommand \/ GraceOver \/ Stopped
  BY <1>1, <1>11 DEF Boot, Load, MarkReady, StartCommand, Exited, StopCommand, GraceOver, Stopped
<1>12. CASE Return \/ CommandEdits \/ CommandExits \/ Terminate \/ BackgroundEnds
  BY <1>1, <1>12 DEF Return, CommandEdits, CommandExits, Terminate, BackgroundEnds
<1>13. CASE UNCHANGED vars
  BY <1>1, <1>13 DEF vars
<1> QED
  BY <1>4, <1>5, <1>6, <1>7, <1>8, <1>9, <1>10, <1>11, <1>12, <1>13
  DEF Next, RunStep, SetupStep

\* Setup is skipped only when a mount with the same marker name completed a
\* maiden run in this container, for any paths, whether or not their marker
\* names differ (SetupWorkspace, MarkerName).
THEOREM SetupIsIndependent == Spec => []SetupIndependent
<1>1. Init => OwnMarkers
  BY DEF Init, NothingSetUp, OwnMarkers, SetupIndependent
<1>2. OwnMarkers => SetupIndependent
  BY DEF OwnMarkers
<1> QED BY <1>1, <1>2, OwnMarkersStep, InvInit, InvNext, PTL DEF Spec
=============================================================================
