------------------------------- MODULE Tunnel -------------------------------
(***************************************************************************)
(* How an ax invocation reaches the API server of a Kubernetes cluster     *)
(* (internal/tunnel/tunnel.go and context.go; the ctx, tunnel and ssh      *)
(* commands of cmd/ax/main.go): it reuses or starts a `kubectl             *)
(* port-forward' that outlives it, and records its port and pid in a state *)
(* file per context.  Invocations run at the same time, die at any point   *)
(* and share the state file and the log that kubectl's port is read from.  *)
(*                                                                         *)
(* A context name is a sequence of characters.  Pids are never reused.     *)
(* kubectl and the servers behind it are the environment: a forwarder      *)
(* listens, prints its two lines and may die; a health check of a live     *)
(* forwarder may fail.                                                     *)
(***************************************************************************)
EXTENDS Naturals, Sequences, FiniteSets

CONSTANTS
    Callers,     \* concurrent invocations of ax
    Contexts,    \* names of Kubernetes contexts
    Flags,       \* values of --context, NoContext when it is not given
    SafeChars,   \* [a-zA-Z0-9_-]
    Namespaces,  \* values of -n
    MaxProcs,    \* bound on the kubectl processes ever started
    MaxCalls,    \* bound on the invocations
    Faults       \* "die": a caller dies; "switch": the user changes the
                 \* current context

ASSUME TunnelAssumption ==
    /\ \A x \in Contexts : x \in Seq(STRING) /\ x # <<>>
    /\ Flags \subseteq Contexts \cup {<<>>}
    /\ SafeChars \subseteq STRING
    /\ MaxProcs \in Nat
    /\ MaxCalls \in Nat
    /\ Faults \subseteq {"die", "switch"}

NoContext == <<>>
None == 0
Pids == 1..MaxProcs
Ports == 1..MaxProcs

\* What a forwarder leads to.  ax ssh forwards to the atenet-router.
Targets == (Contexts \cup {NoContext}) \X (Namespaces \cup {"ate-system"})
NoTarget == <<>>

\* Mutant: every context has the same state file.
SanitizeToDefault(name) == <<"default">>

\* A state file, and a log, for each context name, up to special characters.
SanitizeContext(name) ==
    IF name = NoContext THEN <<"default">>
    ELSE [i \in DOMAIN name |-> IF name[i] \in SafeChars THEN name[i] ELSE "_"]

Names == {SanitizeContext(x) : x \in Contexts}

TunnelInfo == [context : Contexts, namespace : Namespaces, port : Ports, pid : Pids]
NoInfo == [pid |-> None]

VARIABLES
    current,  \* current-context of the kubeconfig
    procs,    \* the kubectl processes, by pid
    files,    \* the state file of each sanitized name
    log,      \* the log of each sanitized name: the port in its 1st and 2nd line
    calls,    \* the state of each invocation
    made,     \* how many invocations there have been
    uses,     \* history: how often each local port was assigned
    calm      \* history: no call has died, met another of the same name, or
              \* failed to read or write a state file

vars == <<current, procs, files, log, calls, made, uses, calm>>

NoLines == <<None, None>>

Unused == [state |-> "unused", target |-> NoTarget, port |-> None, printed |-> 2]

Dead == [Unused EXCEPT !.state = "dead"]

Idle == [pc |-> "idle", cmd |-> "api", flag |-> NoContext, context |-> NoContext, namespace |-> "",
         existing |-> NoInfo, pid |-> None, port |-> None, answered |-> NoTarget]

Steps == {"idle", "get", "reuse", "stop", "start", "port", "health", "save",
          "ssh", "forward", "exec", "done"}

TypeOK ==
    /\ current \in Contexts \cup {NoContext}
    /\ procs \in [Pids -> [state : {"unused", "running", "dead"},
                           target : Targets \cup {NoTarget},
                           port : Ports \cup {None}, printed : 0..2]]
    /\ files \in [Names -> TunnelInfo \cup {NoInfo}]
    /\ log \in [Names -> (Ports \cup {None}) \X (Ports \cup {None})]
    /\ calls \in [Callers ->
         [pc : Steps, cmd : {"api", "ssh", "stop"},
          flag : Flags \cup {NoContext}, context : Contexts \cup {NoContext},
          namespace : Namespaces \cup {""}, existing : TunnelInfo \cup {NoInfo},
          pid : Pids \cup {None}, port : Ports \cup {None},
          answered : Targets \cup {NoTarget}]]
    /\ made \in 0..MaxCalls
    /\ uses \in [Ports -> {"never", "once", "again"}]
    /\ calm \in BOOLEAN

Init ==
    /\ current \in Contexts \cup {NoContext}
    /\ procs = [p \in Pids |-> Unused]
    /\ files = [f \in Names |-> NoInfo]
    /\ log = [f \in Names |-> NoLines]
    /\ calls = [c \in Callers |-> Idle]
    /\ made = 0
    /\ uses = [port \in Ports |-> "never"]
    /\ calm = TRUE

-----------------------------------------------------------------------------
(* kubectl port-forward.                                                   *)

Running(p) == procs[p].state = "running"

\* The forwarder that listens on a port.
Listening(port) == {p \in Pids : Running(p) /\ procs[p].port = port /\ port # None}

\* Ports the system may assign: one that nobody listens on any more, or a new
\* one, no matter which.
FreePorts ==
    {port \in Ports :
        /\ Listening(port) = {}
        /\ uses[port] = "never" => \A q \in 1..(port - 1) : uses[q] # "never"}

\* It has bound a free port.
Bind(p) ==
    /\ Running(p)
    /\ procs[p].port = None
    /\ \E port \in FreePorts :
          /\ procs' = [procs EXCEPT ![p].port = port]
          /\ uses' = [uses EXCEPT ![port] = IF @ = "never" THEN "once" ELSE "again"]
    /\ UNCHANGED <<current, files, log, calls, made, calm>>

\* It prints "Forwarding from ..." once for 127.0.0.1 and once for [::1], at
\* its own offset of the log: two forwarders on one log overwrite each other.
PrintLine(p) ==
    /\ Running(p)
    /\ procs[p].port # None
    /\ procs[p].printed < 2
    /\ procs' = [procs EXCEPT ![p].printed = @ + 1]
    /\ log' = [log EXCEPT ![SanitizeContext(procs[p].target[1])][procs[p].printed + 1]
                             = procs[p].port]
    /\ UNCHANGED <<current, files, calls, made, uses, calm>>

Exit(p) ==
    /\ Running(p)
    /\ procs' = [procs EXCEPT ![p] = Dead]
    /\ UNCHANGED <<current, files, log, calls, made, uses, calm>>

\* procs after a signal to the recorded pid.
Killed(pid) ==
    [p \in Pids |-> IF p = pid /\ Running(p) THEN Dead ELSE procs[p]]

\* cmd.Start.  A tunnel prints to the log of its context; an ephemeral
\* forward prints to a pipe, which only its caller reads.
Started(p, target, printed) ==
    [procs EXCEPT ![p] = [state |-> "running", target |-> target, port |-> None,
                          printed |-> printed]]

FreshPid(p) == procs[p].state = "unused" /\ \A q \in 1..(p - 1) : procs[q].state # "unused"

-----------------------------------------------------------------------------
(* EnsureServerURL.                                                        *)

At(c, step) == calls[c].pc = step

Goto(c, step) == calls' = [calls EXCEPT ![c].pc = step]

\* The process is gone, here or after it has reported an error.
Leave(c) == calls' = [calls EXCEPT ![c] = Idle]

Name(c) == SanitizeContext(calls[c].context)

Target(c) == <<calls[c].context, calls[c].namespace>>

\* The override (--context), or KUBECONTEXT, or the kubeconfig.
CurrentContext(override) == IF override # NoContext THEN override ELSE current

Busy(c) == ~ (calls[c].pc \in {"idle", "done"})

\* An invocation begins, with an override or without.  Without a context it
\* uses the local default and no tunnel.
Begin(c, cmd, override, namespace) ==
    LET context == CurrentContext(override) IN
    /\ At(c, "idle")
    /\ made < MaxCalls
    /\ made' = made + 1
    /\ cmd = "stop" => context # NoContext
    /\ calls' = [calls EXCEPT ![c] =
         [Idle EXCEPT !.pc = IF context = NoContext THEN "done" ELSE "get",
                      !.cmd = cmd, !.flag = override, !.context = context,
                      !.namespace = namespace]]
    /\ calm' = (calm /\ \A d \in Callers :
                  ~ (Busy(d) /\ SanitizeContext(context) = Name(d)))
    /\ UNCHANGED <<current, procs, files, log, uses>>

\* A file that cannot be read or parsed, because it is being written perhaps,
\* is taken for no tunnel.
GetTunnel(c) ==
    /\ At(c, "get")
    /\ \E info \in {files[Name(c)], NoInfo} :
         /\ calm' = (calm /\ info = files[Name(c)])
         /\ \/ /\ info # NoInfo
               /\ calls' = [calls EXCEPT ![c].existing = info,
                                         ![c].pc = IF calls[c].cmd = "stop" THEN "stop" ELSE "reuse"]
            \/ info = NoInfo /\ calls[c].cmd = "stop" /\ Leave(c)
            \/ info = NoInfo /\ calls[c].cmd # "stop" /\ Goto(c, "start")
    /\ UNCHANGED <<current, procs, files, log, made, uses>>

\* GET /healthz on the port is answered, by whatever the forwarder leads to.
HealthyBy(port, target) == \E p \in Listening(port) : procs[p].target = target

\* What a command goes on with once it has the address of a server.
AfterURL(c) == IF calls[c].cmd = "ssh" THEN "ssh" ELSE "done"

\* Neither the context nor the namespace of the record is looked at.
ReuseExisting(c) ==
    /\ At(c, "reuse")
    /\ \/ \E target \in Targets :
            /\ HealthyBy(calls[c].existing.port, target)
            /\ calls' = [calls EXCEPT ![c].pc = AfterURL(c), ![c].answered = target,
                                      ![c].port = calls[c].existing.port]
       \/ Goto(c, "stop")
    /\ UNCHANGED <<current, procs, files, log, made, uses, calm>>

\* Mutant: the record is removed and kubectl left alone.
StopTunnelRecord(c) ==
    /\ At(c, "stop")
    /\ files' = [files EXCEPT ![SanitizeContext(calls[c].existing.context)] = NoInfo]
    /\ Goto(c, IF calls[c].cmd = "stop" THEN "done" ELSE "start")
    /\ UNCHANGED <<current, procs, log, made, uses, calm>>

\* By what the record said when it was read.
StopTunnel(c) ==
    /\ At(c, "stop")
    /\ procs' = Killed(calls[c].existing.pid)
    /\ files' = [files EXCEPT ![SanitizeContext(calls[c].existing.context)] = NoInfo]
    /\ Goto(c, IF calls[c].cmd = "stop" THEN "done" ELSE "start")
    /\ UNCHANGED <<current, log, made, uses, calm>>

\* The log is truncated, also under a forwarder that still writes to it.
StartTunnel(c) ==
    /\ At(c, "start")
    /\ log' = [log EXCEPT ![Name(c)] = NoLines]
    /\ \/ \E p \in Pids :
            /\ FreshPid(p)
            /\ procs' = Started(p, Target(c), 0)
            /\ calls' = [calls EXCEPT ![c].pc = "port", ![c].pid = p]
       \/ Leave(c) /\ UNCHANGED procs
    /\ UNCHANGED <<current, files, made, uses, calm>>

FirstPort(lines) == IF lines[1] # None THEN lines[1] ELSE lines[2]

\* A forwarder that has exited stays a zombie until ax ends, so the test for
\* a premature exit never succeeds and only the deadline ends the loop.
ReadPort(c) ==
    /\ At(c, "port")
    /\ FirstPort(log[Name(c)]) # None
    /\ calls' = [calls EXCEPT ![c].pc = "health", ![c].port = FirstPort(log[Name(c)])]
    /\ UNCHANGED <<current, procs, files, log, made, uses, calm>>

\* The five seconds for a port or the three for a health check are over.
GiveUp(c) ==
    /\ calls[c].pc \in {"port", "health"}
    /\ procs' = Killed(calls[c].pid)
    /\ Leave(c)
    /\ UNCHANGED <<current, files, log, made, uses, calm>>

NewHealthy(c) ==
    /\ At(c, "health")
    /\ \E target \in Targets :
         /\ HealthyBy(calls[c].port, target)
         /\ calls' = [calls EXCEPT ![c].pc = "save", ![c].answered = target]
    /\ UNCHANGED <<current, procs, files, log, made, uses, calm>>

\* Mutant: the record has no pid.
SaveTunnelPort(c) ==
    /\ At(c, "save")
    /\ files' = [files EXCEPT ![Name(c)] =
         [context |-> calls[c].context, namespace |-> calls[c].namespace,
          port |-> calls[c].port, pid |-> None]]
    /\ Goto(c, AfterURL(c))
    /\ UNCHANGED <<current, procs, log, made, uses, calm>>

\* That the file cannot be opened, or be written once it is truncated, is
\* ignored: the command goes on with a tunnel that is in no file.
SaveTunnel(c) ==
    /\ At(c, "save")
    /\ \/ /\ files' = [files EXCEPT ![Name(c)] =
               [context |-> calls[c].context, namespace |-> calls[c].namespace,
                port |-> calls[c].port, pid |-> calls[c].pid]]
          /\ UNCHANGED calm
       \/ /\ files' \in {files, [files EXCEPT ![Name(c)] = NoInfo]}
          /\ calm' = FALSE
    /\ Goto(c, AfterURL(c))
    /\ UNCHANGED <<current, procs, log, made, uses>>

-----------------------------------------------------------------------------
(* ax ssh, once it has a server, and the end of every command.             *)

\* The task cannot be used, or its worker answers directly, or a forward to
\* the router is started, in the context that is current by now.
SSHStart(c) ==
    /\ At(c, "ssh")
    /\ \/ Leave(c) /\ UNCHANGED procs
       \/ calls' = [calls EXCEPT ![c].pc = "exec", ![c].pid = None] /\ UNCHANGED procs
       \/ \E p \in Pids :
            /\ FreshPid(p)
            /\ procs' = Started(p, <<CurrentContext(calls[c].flag), "ate-system">>, 2)
            /\ calls' = [calls EXCEPT ![c].pc = "forward", ![c].pid = p]
    /\ UNCHANGED <<current, files, log, made, uses, calm>>

\* PortForward: the port arrives on the pipe, or eight seconds pass.  The
\* caller holds the pipe's other end too, so kubectl's exit is not noticed.
PortForward(c) ==
    /\ At(c, "forward")
    /\ \/ procs[calls[c].pid].port # None /\ Goto(c, "exec") /\ UNCHANGED procs
       \/ procs' = Killed(calls[c].pid) /\ Leave(c)
    /\ UNCHANGED <<current, files, log, made, uses, calm>>

\* The command ran and ended with 0, or could not be run: the deferred
\* cleanup stops the forward.
SSHReturn(c) ==
    /\ At(c, "exec")
    /\ procs' = Killed(calls[c].pid)
    /\ \/ Goto(c, "done")
       \/ Leave(c)
    /\ UNCHANGED <<current, files, log, made, uses, calm>>

\* os.Exit with the command's exit code, and a failed DialTarget, which
\* returns before the cleanup is deferred.
SSHExit(c) ==
    /\ At(c, "exec")
    /\ Leave(c)
    /\ UNCHANGED <<current, procs, files, log, made, uses, calm>>

\* The process of a command that succeeded is gone.
Finish(c) ==
    /\ At(c, "done")
    /\ Leave(c)
    /\ UNCHANGED <<current, procs, files, log, made, uses, calm>>

\* Interrupted, in the middle of a write perhaps.  kubectl has a process
\* group of its own and lives on.
Die(c) ==
    /\ "die" \in Faults
    /\ Busy(c)
    /\ Leave(c)
    /\ calm' = FALSE
    /\ \/ UNCHANGED files
       \/ At(c, "save") /\ files' = [files EXCEPT ![Name(c)] = NoInfo]
    /\ UNCHANGED <<current, procs, log, made, uses>>

SwitchContext(context) ==
    /\ "switch" \in Faults
    /\ current' = context
    /\ UNCHANGED <<procs, files, log, calls, made, uses, calm>>

Next ==
    \/ \E p \in Pids : Bind(p) \/ PrintLine(p) \/ Exit(p)
    \/ \E c \in Callers :
         \/ \E cmd \in {"api", "ssh", "stop"}, namespace \in Namespaces,
               override \in Flags :
               Begin(c, cmd, override, namespace)
         \/ GetTunnel(c) \/ ReuseExisting(c) \/ StopTunnel(c) \/ StartTunnel(c)
         \/ ReadPort(c) \/ GiveUp(c) \/ NewHealthy(c) \/ SaveTunnel(c)
         \/ SSHStart(c) \/ PortForward(c) \/ SSHReturn(c) \/ SSHExit(c)
         \/ Finish(c) \/ Die(c)
    \/ \E context \in Contexts : SwitchContext(context)

Spec == Init /\ [][Next]_vars
-----------------------------------------------------------------------------
(* Properties.                                                             *)

\* What `ax tunnel list' shows.
ListTunnels == {files[f] : f \in Names} \ {NoInfo}

IsTunnel(p) == procs[p].target # NoTarget /\ procs[p].target[2] # "ate-system"

\* Context names that differ at most in special characters: "k/a" and "k_a".
Alike(x, y) ==
    /\ Len(x) = Len(y)
    /\ \A i \in DOMAIN x : x[i] = y[i] \/ {x[i], y[i]} \cap (SafeChars \ {"_"}) = {}

\* The address a command goes on with was answered through a tunnel to an
\* ax-server, for the context it asked for or one whose name is alike,
\* whichever invocations share the log, replace the record or stop the tunnel
\* meanwhile (EnsureServerURL), unless the system has assigned its local port
\* a second time.  It is not always the cluster asked for: contexts with names
\* alike share a state file, the namespace (-n) is not compared when a tunnel
\* is reused, and a port that answers is not asked whose it is.
ReachesTarget ==
    \A c \in Callers :
        calls[c].pc \in {"ssh", "forward", "exec", "done"} /\ calls[c].port # None
               /\ uses[calls[c].port] = "once"
            => /\ Alike(calls[c].answered[1], calls[c].context)
               /\ calls[c].answered[2] \in Namespaces

\* As long as no invocation was interrupted, met another one for the same
\* state file, or failed to read or write that file, every tunnel that runs
\* is in the list of `ax tunnel list', with the port it listens on, or is
\* still being set up.  Each of these exceptions can leave a tunnel running
\* that is in no list: the code has no lock and ignores what SaveTunnel
\* returns (EnsureServerURL, StopTunnel).
NoOrphans ==
    calm => \A p \in Pids :
        Running(p) /\ IsTunnel(p) =>
            \/ \E info \in ListTunnels : info.pid = p /\ info.port = procs[p].port
            \/ \E c \in Callers : calls[c].pid = p /\ calls[c].pc \in {"port", "health", "save"}
=============================================================================
