---------------------------- MODULE TunnelProofs ----------------------------
(***************************************************************************)
(* Theorems about Tunnel for any number of invocations, contexts, kubectl  *)
(* processes and faults.                                                   *)
(***************************************************************************)
EXTENDS Tunnel, TLAPS

-----------------------------------------------------------------------------
(* The inductive invariant.                                                *)

ProcType == [state : {"unused", "running", "dead"}, target : Targets \cup {NoTarget},
             port : Ports \cup {None}, printed : 0..2]
InfoType == TunnelInfo \cup {NoInfo}
UsesType == [Ports -> {"never", "once", "again"}]
LineType == (Ports \cup {None}) \X (Ports \cup {None})
CallType == [pc : Steps, cmd : {"api", "ssh", "stop"},
             flag : Flags \cup {NoContext}, context : Contexts \cup {NoContext},
             namespace : Namespaces \cup {""}, existing : InfoType,
             pid : Pids \cup {None}, port : Ports \cup {None},
             answered : Targets \cup {NoTarget}]

\* Of a call r: it is under way; it has started a tunnel that it has not
\* recorded yet; the state file it works on.
Working(r) == r.pc \notin {"idle", "done"}
SettingUp(r) == r.pc \in {"port", "health", "save"}
NameOf(r) == SanitizeContext(r.context)

\* Of a kubectl process q: it runs, and it is a tunnel or may still print to a
\* log; the state file of its context.
Alive(q) == q.state = "running"
Seen(q) == Alive(q) /\ (q.printed < 2 \/ (q.target # NoTarget /\ q.target[2] # "ate-system"))
FileOf(q) == SanitizeContext(q.target[1])

\* A call under way has a context, and once it needs them a process, a record
\* of its state file and a port.
CallOK(r, pr) ==
    /\ Working(r) => r.context \in Contexts /\ r.namespace \in Namespaces
    /\ SettingUp(r) => r.pid \in Pids /\ pr[r.pid].state # "unused"
    /\ r.pc \in {"reuse", "stop"} =>
         r.existing \in TunnelInfo /\ SanitizeContext(r.existing.context) = NameOf(r)
    /\ r.pc \in {"health", "save"} => r.port \in Ports

\* Tunnels lead to a context, and a record is in the file of its context.
ProcOK(q) == Seen(q) => q.target \in Contexts \X Namespaces
FileOK(f, info) == info # NoInfo => SanitizeContext(info.context) = f

Sound(ca, pr, fi) ==
    /\ \A c \in Callers : CallOK(ca[c], pr)
    /\ \A p \in Pids : ProcOK(pr[p])
    /\ \A f \in Names : FileOK(f, fi[f])

\* No two calls under way work on one state file.
Alone(ca) ==
    \A c, d \in Callers : c # d /\ Working(ca[c]) /\ Working(ca[d]) =>
        NameOf(ca[c]) # NameOf(ca[d])

\* What a call has read is still so, there is no record while it makes a new
\* one, and the ports it reads are those of the process it started.
CallKept(r, pr, fi, lo) ==
    /\ r.pc \in {"reuse", "stop"} => fi[NameOf(r)] = r.existing
    /\ r.pc = "start" \/ SettingUp(r) => fi[NameOf(r)] = NoInfo
    /\ r.pc = "port" /\ Alive(pr[r.pid]) =>
         \A k \in {1, 2} : lo[NameOf(r)][k] \in {None, pr[r.pid].port}
    /\ r.pc \in {"health", "save"} /\ Alive(pr[r.pid]) => r.port = pr[r.pid].port

\* A tunnel is recorded in the file of its context, or a call for that file is
\* about to.
Recorded(p, q, fi) ==
    LET info == fi[FileOf(q)] IN info # NoInfo /\ info.pid = p /\ info.port = q.port
SetUpBy(p, q, r) == SettingUp(r) /\ r.pid = p /\ NameOf(r) = FileOf(q)
Held(p, q, ca, fi) ==
    Seen(q) => Recorded(p, q, fi) \/ \E c \in Callers : SetUpBy(p, q, ca[c])

Undisturbed(ca, pr, fi, lo) ==
    /\ Alone(ca)
    /\ \A c \in Callers : CallKept(ca[c], pr, fi, lo)
    /\ \A p \in Pids : Held(p, pr[p], ca, fi)

Inv ==
    /\ TypeOK
    /\ Sound(calls, procs, files)
    /\ calm => Undisturbed(calls, procs, files, log)
-----------------------------------------------------------------------------
(* Operators and types.                                                    *)

\* What the state is made of, piece by piece.
LEMMA Typed ==
    TypeOK <=> /\ current \in Contexts \cup {NoContext}
               /\ procs \in [Pids -> ProcType]
               /\ files \in [Names -> InfoType]
               /\ log \in [Names -> LineType]
               /\ calls \in [Callers -> CallType]
               /\ made \in 0..MaxCalls
               /\ uses \in UsesType
               /\ calm \in BOOLEAN
  BY DEF TypeOK, ProcType, InfoType, LineType, CallType, UsesType

\* The same of the next state.
LEMMA TypedNext ==
    TypeOK' <=> /\ current' \in Contexts \cup {NoContext}
                /\ procs' \in [Pids -> ProcType]
                /\ files' \in [Names -> InfoType]
                /\ log' \in [Names -> LineType]
                /\ calls' \in [Callers -> CallType]
                /\ made' \in 0..MaxCalls
                /\ uses' \in UsesType
                /\ calm' \in BOOLEAN
  BY DEF TypeOK, ProcType, InfoType, LineType, CallType, UsesType

\* A context has a state file.
LEMMA NameInNames ==
    ASSUME NEW x \in Contexts
    PROVE  SanitizeContext(x) \in Names
  BY DEF Names

\* A process that is gone, and a call that is over.
LEMMA Constants ==
    /\ Dead \in ProcType /\ Unused \in ProcType /\ Idle \in CallType
    /\ ~Alive(Dead) /\ ~Seen(Dead) /\ Dead.state # "unused"
    /\ ~Alive(Unused) /\ ~Seen(Unused)
    /\ ~Working(Idle) /\ ~SettingUp(Idle) /\ Idle.pc = "idle"
    /\ NoInfo \notin TunnelInfo /\ NoLines \in LineType
<1>1. NoInfo \notin TunnelInfo
  <2>1. NoInfo.pid = 0 /\ 0 \notin Pids
    BY TunnelAssumption DEF NoInfo, None, Pids
  <2> QED BY <2>1 DEF TunnelInfo
<1>2. Dead \in ProcType /\ Unused \in ProcType
  BY DEF Dead, Unused, ProcType, NoTarget, None
<1>3. Idle \in CallType
  BY DEF Idle, CallType, Steps, NoContext, None, NoInfo, NoTarget, InfoType
<1>4. NoLines \in LineType
  BY DEF NoLines, LineType
<1> QED BY <1>1, <1>2, <1>3, <1>4
      DEF Dead, Unused, Alive, Seen, Idle, Working, SettingUp

\* A killed process is gone and the others are as they were.
LEMMA KilledFacts ==
    ASSUME TypeOK, NEW pid, procs' = Killed(pid)
    PROVE  /\ procs' \in [Pids -> ProcType]
           /\ \A p \in Pids : procs'[p] = procs[p] \/ procs'[p] = Dead
           /\ pid \in Pids => ~Alive(procs'[pid])
  BY Typed, Constants DEF Killed, Running, Alive

\* A step of one call that leaves the files alone and starts no process.
LEMMA CallerStep ==
    ASSUME Inv, NEW c \in Callers, NEW r \in CallType,
           calls' = [calls EXCEPT ![c] = r],
           procs' \in [Pids -> ProcType],
           \A p \in Pids : procs'[p] = procs[p] \/ procs'[p] = Dead,
           current' = current, files' = files, log' = log, made' = made, uses' = uses, calm' = calm,
           CallOK(r, procs),
           Working(r) => Working(calls[c]) /\ NameOf(r) = NameOf(calls[c]),
           calm => CallKept(r, procs, files, log),
           \A p \in Pids : Seen(procs'[p]) /\ SetUpBy(p, procs[p], calls[c]) =>
                             SetUpBy(p, procs[p], r)
    PROVE  Inv'
<1>1. TypeOK /\ Sound(calls, procs, files) /\ (calm => Undisturbed(calls, procs, files, log))
  BY DEF Inv
<1>2. TypeOK'
  BY <1>1, Typed, TypedNext
<1>3. calls'[c] = r /\ \A d \in Callers : d # c => calls'[d] = calls[d]
  BY <1>1, Typed
<1>4. \A p \in Pids : /\ procs[p].state # "unused" => procs'[p].state # "unused"
                      /\ Alive(procs'[p]) => procs'[p] = procs[p]
                      /\ Seen(procs'[p]) => procs'[p] = procs[p]
  BY Constants
<1>5. ASSUME NEW x \in CallType, CallOK(x, procs) PROVE CallOK(x, procs')
  BY <1>4, <1>5 DEF CallOK
<1>6. \A d \in Callers : CallOK(calls'[d], procs')
  BY <1>1, <1>3, <1>5, Typed DEF Sound
<1>7. Sound(calls', procs', files')
  BY <1>1, <1>4, <1>6 DEF Sound, ProcOK
<1>8. ASSUME calm PROVE Undisturbed(calls', procs', files', log')
  <2>1. Alone(calls')
    BY <1>1, <1>3, <1>8 DEF Undisturbed, Alone
  <2>2. ASSUME NEW x \in CallType, CallOK(x, procs), CallKept(x, procs, files, log)
        PROVE  CallKept(x, procs', files', log')
    BY <1>4, <2>2 DEF CallKept, CallOK, SettingUp
  <2>3. \A d \in Callers : CallKept(calls'[d], procs', files', log')
    BY <1>1, <1>3, <1>8, <2>2, Typed DEF Undisturbed, Sound
  <2>4. ASSUME NEW p \in Pids PROVE Held(p, procs'[p], calls', files')
    BY <1>1, <1>3, <1>4, <1>8 DEF Undisturbed, Held
  <2> QED BY <2>1, <2>3, <2>4 DEF Undisturbed
<1> QED BY <1>2, <1>7, <1>8 DEF Inv

\* A step of one call after which nothing is claimed of the files any more.
LEMMA DisturbedStep ==
    ASSUME Inv, NEW c \in Callers, NEW r \in CallType,
           calls' = [calls EXCEPT ![c] = r], CallOK(r, procs),
           current' = current, procs' = procs, log' = log, made' = made, uses' = uses, calm' = FALSE,
           \/ files' = files
           \/ Working(calls[c]) /\ files' = [files EXCEPT ![Name(c)] = NoInfo]
    PROVE  Inv'
<1>1. TypeOK /\ Sound(calls, procs, files)
  BY DEF Inv
<1>2. /\ files' \in [Names -> InfoType]
      /\ \A f \in Names : files'[f] = files[f] \/ files'[f] = NoInfo
  BY <1>1, Typed DEF InfoType
<1>3. TypeOK' /\ calls'[c] = r /\ \A d \in Callers : d # c => calls'[d] = calls[d]
  BY <1>1, <1>2, Typed, TypedNext
<1>4. Sound(calls', procs', files')
  BY <1>1, <1>2, <1>3 DEF Sound, FileOK
<1> QED BY <1>3, <1>4 DEF Inv
-----------------------------------------------------------------------------
(* The steps of a call.                                                    *)

\* What is known of a call.
LEMMA CallFacts ==
    ASSUME Inv, NEW c \in Callers
    PROVE  /\ calls[c] \in CallType /\ CallOK(calls[c], procs)
           /\ calm => CallKept(calls[c], procs, files, log)
           /\ Name(c) = NameOf(calls[c])
           /\ Working(calls[c]) => Name(c) \in Names
<1>1. TypeOK /\ Sound(calls, procs, files) /\ (calm => Undisturbed(calls, procs, files, log))
  BY DEF Inv
<1>2. calls[c] \in CallType /\ CallOK(calls[c], procs) /\ Name(c) = NameOf(calls[c])
  BY <1>1, Typed DEF Sound, Name, NameOf
<1>3. calm => CallKept(calls[c], procs, files, log)
  BY <1>1 DEF Undisturbed
<1>4. Working(calls[c]) => Name(c) \in Names
  BY <1>2, NameInNames DEF CallOK, NameOf
<1> QED BY <1>2, <1>3, <1>4

\* The process of a call ends, with its tunnel killed or recorded.
LEMMA LeaveStep ==
    ASSUME Inv, NEW c \in Callers, Leave(c),
           procs' \in [Pids -> ProcType],
           \A p \in Pids : procs'[p] = procs[p] \/ procs'[p] = Dead,
           current' = current, files' = files, log' = log, made' = made, uses' = uses, calm' = calm,
           SettingUp(calls[c]) => ~Alive(procs'[calls[c].pid])
    PROVE  Inv'
<1>1. calls' = [calls EXCEPT ![c] = Idle]
  BY DEF Leave
<1>2. CallOK(Idle, procs) /\ CallKept(Idle, procs, files, log)
  BY Constants DEF CallOK, CallKept
<1>3. \A p \in Pids : ~ (Seen(procs'[p]) /\ SetUpBy(p, procs[p], calls[c]))
  BY DEF Seen, SetUpBy
<1> QED BY <1>1, <1>2, <1>3, Constants, CallerStep

\* A call goes on to a step that needs nothing new.
LEMMA GotoStep ==
    ASSUME Inv, NEW c \in Callers, NEW step \in {"stop", "start", "done", "ssh", "exec"}, Goto(c, step),
           Working(calls[c]), ~SettingUp(calls[c]),
           procs' \in [Pids -> ProcType],
           \A p \in Pids : procs'[p] = procs[p] \/ procs'[p] = Dead,
           current' = current, files' = files, log' = log, made' = made, uses' = uses, calm' = calm,
           step = "stop" => calls[c].pc = "reuse",
           step = "start" /\ calm => files[Name(c)] = NoInfo
    PROVE  Inv'
<1>1. PICK r : r = [calls[c] EXCEPT !.pc = step]
  OBVIOUS
<1>2. /\ calls[c] \in CallType /\ CallOK(calls[c], procs) /\ Name(c) = NameOf(calls[c])
      /\ calm => CallKept(calls[c], procs, files, log)
  BY CallFacts
<1>3. calls' = [calls EXCEPT ![c] = r]
  BY <1>1 DEF Goto
<1>4. r \in CallType /\ r.pc = step /\ r.context = calls[c].context /\ r.existing = calls[c].existing
      /\ r.namespace = calls[c].namespace
  BY <1>1, <1>2 DEF CallType, Steps
<1>5. NameOf(r) = NameOf(calls[c]) /\ ~SettingUp(r) /\ r.pc \notin {"health", "save", "port", "reuse"}
  BY <1>4 DEF NameOf, SettingUp
<1>6. CallOK(r, procs)
  BY <1>2, <1>4, <1>5 DEF CallOK
<1>7. calm => CallKept(r, procs, files, log)
  BY <1>2, <1>4, <1>5 DEF CallKept
<1>8. \A p \in Pids : ~SetUpBy(p, procs[p], calls[c])
  BY DEF SetUpBy
<1> QED BY <1>3, <1>4, <1>5, <1>6, <1>7, <1>8, CallerStep

\* A record is read, or there is none.
LEMMA InvGetTunnel ==
    ASSUME Inv, NEW c \in Callers, GetTunnel(c)
    PROVE  Inv'
<1>0. /\ calls[c].pc = "get" /\ Working(calls[c]) /\ ~SettingUp(calls[c])
      /\ current' = current /\ procs' = procs /\ files' = files /\ log' = log
      /\ made' = made /\ uses' = uses
  BY DEF GetTunnel, At, Working, SettingUp
<1>1. PICK info \in {files[Name(c)], NoInfo} :
        /\ calm' = (calm /\ info = files[Name(c)])
        /\ \/ /\ info # NoInfo
              /\ calls' = [calls EXCEPT ![c].existing = info,
                                        ![c].pc = IF calls[c].cmd = "stop" THEN "stop" ELSE "reuse"]
           \/ info = NoInfo /\ Leave(c)
           \/ info = NoInfo /\ Goto(c, "start")
  BY DEF GetTunnel
<1>7. CASE info # files[Name(c)]
  <2>1. calls[c] \in CallType /\ CallOK(calls[c], procs) /\ calm' = FALSE /\ info = NoInfo
    BY <1>1, <1>7, CallFacts
  <2>2. CASE Leave(c)
    <3>1. CallOK(Idle, procs)
      BY Constants DEF CallOK
    <3> QED BY <1>0, <2>1, <2>2, <3>1, Constants, DisturbedStep DEF Leave
  <2>3. CASE Goto(c, "start")
    <3>1. PICK r : r = [calls[c] EXCEPT !.pc = "start"]
      OBVIOUS
    <3>2. /\ r \in CallType /\ r.pc = "start" /\ r.context = calls[c].context
          /\ r.namespace = calls[c].namespace
      BY <2>1, <3>1 DEF CallType, Steps
    <3>3. CallOK(r, procs)
      BY <1>0, <2>1, <3>2 DEF CallOK, SettingUp
    <3>4. calls' = [calls EXCEPT ![c] = r]
      BY <2>3, <3>1 DEF Goto
    <3> QED BY <1>0, <2>1, <3>2, <3>3, <3>4, DisturbedStep
  <2> QED BY <1>1, <2>1, <2>2, <2>3
<1>8. CASE info = files[Name(c)]
  <2>1. /\ calls[c].pc = "get" /\ Working(calls[c]) /\ ~SettingUp(calls[c])
        /\ current' = current /\ procs' = procs /\ files' = files /\ log' = log
        /\ made' = made /\ uses' = uses /\ calm' = calm
    <3>1. calm \in BOOLEAN
      BY Typed DEF Inv
    <3> QED BY <1>0, <1>1, <1>8, <3>1
  <2>2. procs' \in [Pids -> ProcType] /\ \A p \in Pids : procs'[p] = procs[p]
    BY <2>1, Typed DEF Inv
  <2>3. CASE files[Name(c)] # NoInfo
    <3>1. PICK step \in {"stop", "reuse"} :
            calls' = [calls EXCEPT ![c].existing = files[Name(c)], ![c].pc = step]
      BY <1>1, <1>8, <2>3
    <3>2. PICK r : r = [calls[c] EXCEPT !.existing = files[Name(c)], !.pc = step]
      OBVIOUS
    <3>3. /\ calls[c] \in CallType /\ CallOK(calls[c], procs)
          /\ Name(c) = NameOf(calls[c]) /\ Name(c) \in Names
      BY <2>1, CallFacts
    <3>4. calls' = [calls EXCEPT ![c] = r]
      BY <3>1, <3>2
    <3>5. files[Name(c)] \in TunnelInfo /\ SanitizeContext(files[Name(c)].context) = Name(c)
      BY <2>3, <3>3, Typed DEF Inv, InfoType, Sound, FileOK
    <3>6. /\ r \in CallType /\ r.pc = step /\ r.context = calls[c].context
          /\ r.existing = files[Name(c)] /\ r.namespace = calls[c].namespace
      BY <3>2, <3>3, <3>5 DEF CallType, Steps, InfoType
    <3>7. NameOf(r) = NameOf(calls[c]) /\ ~SettingUp(r) /\ r.pc \notin {"health", "save", "port", "start"}
      BY <3>1, <3>6 DEF NameOf, SettingUp
    <3>8. CallOK(r, procs)
      BY <2>1, <3>3, <3>5, <3>6, <3>7 DEF CallOK
    <3>9. CallKept(r, procs, files, log)
      BY <3>3, <3>6, <3>7 DEF CallKept
    <3>10. \A p \in Pids : ~SetUpBy(p, procs[p], calls[c])
      BY <2>1 DEF SetUpBy
    <3> QED BY <2>1, <2>2, <3>4, <3>6, <3>7, <3>8, <3>9, <3>10, CallerStep
  <2>4. CASE files[Name(c)] = NoInfo /\ Leave(c)
    BY <2>1, <2>2, <2>4, LeaveStep
  <2>5. CASE files[Name(c)] = NoInfo /\ Goto(c, "start")
    BY <2>1, <2>2, <2>5, GotoStep
  <2> QED BY <1>1, <1>8, <2>3, <2>4, <2>5
<1> QED BY <1>7, <1>8

\* The recorded port answers, or the tunnel is to be stopped.
LEMMA InvReuseExisting ==
    ASSUME Inv, NEW c \in Callers, ReuseExisting(c)
    PROVE  Inv'
<1>1. /\ calls[c].pc = "reuse" /\ Working(calls[c]) /\ ~SettingUp(calls[c])
      /\ current' = current /\ procs' = procs /\ files' = files /\ log' = log
      /\ made' = made /\ uses' = uses /\ calm' = calm
  BY DEF ReuseExisting, At, Working, SettingUp
<1>2. procs' \in [Pids -> ProcType] /\ \A p \in Pids : procs'[p] = procs[p]
  BY <1>1, Typed DEF Inv
<1>3. CASE Goto(c, "stop")
  BY <1>1, <1>2, <1>3, GotoStep
<1>4. CASE ~Goto(c, "stop")
  <2>1. PICK target \in Targets :
          calls' = [calls EXCEPT ![c].pc = AfterURL(c), ![c].answered = target,
                                 ![c].port = calls[c].existing.port]
    BY <1>4 DEF ReuseExisting
  <2>2. PICK r : r = [calls[c] EXCEPT !.pc = AfterURL(c), !.answered = target,
                                      !.port = calls[c].existing.port]
    OBVIOUS
  <2>3. calls' = [calls EXCEPT ![c] = r]
    BY <2>1, <2>2
  <2>4. calls[c] \in CallType /\ CallOK(calls[c], procs)
    BY CallFacts
  <2>5. AfterURL(c) \in {"ssh", "done"} /\ calls[c].existing.port \in Ports
    BY <1>1, <2>4 DEF AfterURL, CallOK, TunnelInfo
  <2>6. /\ r \in CallType /\ r.pc \in {"ssh", "done"} /\ r.context = calls[c].context
        /\ r.namespace = calls[c].namespace
    BY <2>2, <2>4, <2>5 DEF CallType, Steps
  <2>7. NameOf(r) = NameOf(calls[c]) /\ ~SettingUp(r)
        /\ r.pc \notin {"health", "save", "port", "start", "reuse", "stop"}
    BY <2>6 DEF NameOf, SettingUp
  <2>8. CallOK(r, procs)
    BY <1>1, <2>4, <2>6, <2>7 DEF CallOK
  <2>9. CallKept(r, procs, files, log)
    BY <2>7 DEF CallKept
  <2>10. \A p \in Pids : ~SetUpBy(p, procs[p], calls[c])
    BY <1>1 DEF SetUpBy
  <2> QED BY <1>1, <1>2, <2>3, <2>6, <2>7, <2>8, <2>9, <2>10, CallerStep
<1> QED BY <1>3, <1>4

\* A call under way finds the tunnels of its state file recorded, or is the one
\* that sets them up.
LEMMA OwnTunnels ==
    ASSUME Inv, calm, NEW c \in Callers, Working(calls[c]), NEW p \in Pids,
           Seen(procs[p]), FileOf(procs[p]) = NameOf(calls[c])
    PROVE  Recorded(p, procs[p], files) \/ SetUpBy(p, procs[p], calls[c])
<1>1. Alone(calls) /\ Held(p, procs[p], calls, files)
  BY DEF Inv, Undisturbed
<1>2. \A d \in Callers : SettingUp(calls[d]) => Working(calls[d])
  BY DEF SettingUp, Working
<1>3. \A d \in Callers : SetUpBy(p, procs[p], calls[d]) => d = c
  BY <1>1, <1>2 DEF SetUpBy, Alone
<1> QED BY <1>1, <1>3 DEF Held

\* A step of one call that changes the state file or the log of its context,
\* and may start a process.
LEMMA FileStep ==
    ASSUME Inv, NEW c \in Callers, NEW r \in CallType, Working(calls[c]),
           calls' = [calls EXCEPT ![c] = r],
           current' = current, made' = made, uses' = uses, calm' = calm,
           procs' \in [Pids -> ProcType],
           files' \in [Names -> InfoType],
           log' \in [Names -> LineType],
           \A p \in Pids : \/ procs'[p] = procs[p]
                           \/ procs'[p] = Dead
                           \/ /\ procs[p].state = "unused"
                              /\ Alive(procs'[p])
                              /\ Seen(procs'[p]) => /\ FileOf(procs'[p]) = NameOf(calls[c])
                                                    /\ ProcOK(procs'[p]),
           \A f \in Names : f # NameOf(calls[c]) => files'[f] = files[f] /\ log'[f] = log[f],
           FileOK(NameOf(calls[c]), files'[NameOf(calls[c])]),
           CallOK(r, procs'),
           Working(r) => NameOf(r) = NameOf(calls[c]),
           calm => CallKept(r, procs', files', log'),
           ASSUME calm, NEW p \in Pids, Seen(procs'[p]), FileOf(procs'[p]) = NameOf(calls[c])
           PROVE  Recorded(p, procs'[p], files') \/ SetUpBy(p, procs'[p], r)
    PROVE  Inv'
<1>1. TypeOK /\ Sound(calls, procs, files) /\ (calm => Undisturbed(calls, procs, files, log))
  BY DEF Inv
<1>2. TypeOK'
  BY <1>1, Typed, TypedNext
<1>3. calls'[c] = r /\ \A d \in Callers : d # c => calls'[d] = calls[d]
  BY <1>1, Typed
<1>4. \A p \in Pids : /\ procs'[p].state = "unused" => procs[p].state = "unused"
                      /\ Alive(procs'[p]) /\ procs[p].state # "unused" => procs'[p] = procs[p]
                      /\ Seen(procs'[p]) /\ FileOf(procs'[p]) # NameOf(calls[c]) =>
                           procs'[p] = procs[p]
  BY Constants DEF Alive
<1>5. ASSUME NEW x \in CallType, CallOK(x, procs) PROVE CallOK(x, procs')
  BY <1>4, <1>5 DEF CallOK
<1>6. \A d \in Callers : CallOK(calls'[d], procs')
  BY <1>1, <1>3, <1>5, Typed DEF Sound
<1>7. \A p \in Pids : ProcOK(procs'[p])
  BY <1>1, Constants DEF Sound, ProcOK
<1>8. \A f \in Names : FileOK(f, files'[f])
  BY <1>1 DEF Sound, FileOK
<1>9. ASSUME calm PROVE Undisturbed(calls', procs', files', log')
  <2>1. Alone(calls')
    BY <1>1, <1>3, <1>9 DEF Undisturbed, Alone
  <2>2. ASSUME NEW d \in Callers, d # c
        PROVE  CallKept(calls[d], procs', files', log')
    <3>1. calls[d] \in CallType /\ CallOK(calls[d], procs) /\ CallKept(calls[d], procs, files, log)
      BY <1>9, CallFacts
    <3>2. Working(calls[d]) => /\ NameOf(calls[d]) # NameOf(calls[c])
                               /\ NameOf(calls[d]) \in Names
      BY <1>1, <1>9, <2>2, <3>1, NameInNames DEF Undisturbed, Alone, CallOK, NameOf
    <3>3. Working(calls[d]) => /\ files'[NameOf(calls[d])] = files[NameOf(calls[d])]
                               /\ log'[NameOf(calls[d])] = log[NameOf(calls[d])]
      BY <3>2
    <3>4. SettingUp(calls[d]) /\ Alive(procs'[calls[d].pid]) =>
            procs'[calls[d].pid] = procs[calls[d].pid]
      BY <1>4, <3>1 DEF CallOK
    <3>5. calls[d].pc \in {"reuse", "stop", "start", "port", "health", "save"} => Working(calls[d])
      BY DEF Working
    <3> QED BY <3>1, <3>3, <3>4, <3>5 DEF CallKept, SettingUp
  <2>3. \A d \in Callers : CallKept(calls'[d], procs', files', log')
    BY <1>3, <1>9, <2>2
  <2>4. ASSUME NEW p \in Pids PROVE Held(p, procs'[p], calls', files')
    <3> SUFFICES ASSUME Seen(procs'[p])
                 PROVE  Recorded(p, procs'[p], files') \/ \E d \in Callers : SetUpBy(p, procs'[p], calls'[d])
      BY DEF Held
    <3>1. CASE FileOf(procs'[p]) = NameOf(calls[c])
      BY <1>3, <1>9, <3>1
    <3>2. CASE FileOf(procs'[p]) # NameOf(calls[c])
      <4>1. procs'[p] = procs[p] /\ Held(p, procs[p], calls, files)
        BY <1>1, <1>4, <1>9, <3>2 DEF Undisturbed
      <4>2. FileOf(procs[p]) \in Names
        BY <1>1, <4>1, NameInNames DEF Sound, ProcOK, FileOf
      <4>3. Recorded(p, procs[p], files) => Recorded(p, procs'[p], files')
        BY <3>2, <4>1, <4>2 DEF Recorded
      <4>4. ASSUME NEW d \in Callers, SetUpBy(p, procs[p], calls[d]) PROVE SetUpBy(p, procs'[p], calls'[d])
        <5>1. d # c
          BY <3>2, <4>1, <4>4 DEF SetUpBy
        <5> QED BY <1>3, <4>1, <4>4, <5>1
      <4> QED BY <4>1, <4>3, <4>4 DEF Held
    <3> QED BY <3>1, <3>2
  <2> QED BY <2>1, <2>3, <2>4 DEF Undisturbed
<1> QED BY <1>2, <1>6, <1>7, <1>8, <1>9 DEF Inv, Sound

\* The recorded process is killed and its record removed.
LEMMA InvStopTunnel ==
    ASSUME Inv, NEW c \in Callers, StopTunnel(c)
    PROVE  Inv'
<1>1. /\ calls[c].pc = "stop" /\ Working(calls[c]) /\ ~SettingUp(calls[c])
      /\ current' = current /\ log' = log /\ made' = made /\ uses' = uses /\ calm' = calm
  BY DEF StopTunnel, At, Working, SettingUp
<1>2. /\ calls[c] \in CallType /\ CallOK(calls[c], procs)
      /\ Name(c) = NameOf(calls[c]) /\ Name(c) \in Names
      /\ calm => CallKept(calls[c], procs, files, log)
  BY <1>1, CallFacts
<1>3. /\ files' = [files EXCEPT ![Name(c)] = NoInfo] /\ calls[c].existing.pid \in Pids
      /\ calm => files[Name(c)] = calls[c].existing
  BY <1>1, <1>2 DEF StopTunnel, CallOK, CallKept, TunnelInfo
<1>4. /\ files' \in [Names -> InfoType] /\ files'[Name(c)] = NoInfo
      /\ \A f \in Names : f # Name(c) => files'[f] = files[f]
      /\ log' \in [Names -> LineType]
  BY <1>1, <1>2, <1>3, Typed DEF Inv, InfoType
<1>5. /\ procs' \in [Pids -> ProcType]
      /\ \A p \in Pids : procs'[p] = procs[p] \/ procs'[p] = Dead
      /\ ~Alive(procs'[calls[c].existing.pid])
  BY <1>3, KilledFacts DEF StopTunnel, Inv
<1>6. PICK step \in {"done", "start"} : Goto(c, step)
  BY DEF StopTunnel
<1>7. PICK r : r = [calls[c] EXCEPT !.pc = step]
  OBVIOUS
<1>8. calls' = [calls EXCEPT ![c] = r]
  BY <1>6, <1>7 DEF Goto
<1>9. /\ r \in CallType /\ r.pc = step /\ r.context = calls[c].context
      /\ r.namespace = calls[c].namespace
  BY <1>2, <1>7 DEF CallType, Steps
<1>10. NameOf(r) = Name(c) /\ ~SettingUp(r)
       /\ r.pc \notin {"health", "save", "port", "reuse", "stop"}
  BY <1>2, <1>9 DEF NameOf, SettingUp
<1>11. CallOK(r, procs')
  BY <1>1, <1>2, <1>9, <1>10 DEF CallOK
<1>12. CallKept(r, procs', files', log')
  BY <1>4, <1>10 DEF CallKept
<1>13. ASSUME calm, NEW p \in Pids, Seen(procs'[p]), FileOf(procs'[p]) = Name(c)
       PROVE  FALSE
  <2>1. procs'[p] = procs[p] /\ p # calls[c].existing.pid
    BY <1>5, <1>13, Constants DEF Seen
  <2>2. Recorded(p, procs[p], files)
    BY <1>1, <1>2, <1>13, <2>1, OwnTunnels DEF SetUpBy
  <2> QED BY <1>3, <1>13, <2>1, <2>2 DEF Recorded
<1>14. FileOK(Name(c), files'[Name(c)])
  BY <1>4 DEF FileOK
<1> QED BY <1>1, <1>2, <1>4, <1>5, <1>8, <1>9, <1>10, <1>11, <1>12, <1>13, <1>14, FileStep

\* The log is truncated and a process started for the call, or none.
LEMMA InvStartTunnel ==
    ASSUME Inv, NEW c \in Callers, StartTunnel(c)
    PROVE  Inv'
<1>1. /\ calls[c].pc = "start" /\ Working(calls[c]) /\ ~SettingUp(calls[c])
      /\ current' = current /\ files' = files /\ made' = made /\ uses' = uses /\ calm' = calm
      /\ log' = [log EXCEPT ![Name(c)] = NoLines]
  BY DEF StartTunnel, At, Working, SettingUp
<1>2. /\ calls[c] \in CallType /\ CallOK(calls[c], procs)
      /\ Name(c) = NameOf(calls[c]) /\ Name(c) \in Names
      /\ calm => files[Name(c)] = NoInfo
  BY <1>1, CallFacts DEF CallKept
<1>3. /\ files' \in [Names -> InfoType] /\ log' \in [Names -> LineType]
      /\ log'[Name(c)] = NoLines
      /\ \A f \in Names : f # Name(c) => files'[f] = files[f] /\ log'[f] = log[f]
      /\ FileOK(Name(c), files'[Name(c)])
  BY <1>1, <1>2, Typed, Constants DEF Inv, Sound
<1>4. ASSUME calm, NEW p \in Pids, Seen(procs[p]), FileOf(procs[p]) = Name(c)
      PROVE  FALSE
  <2>1. Recorded(p, procs[p], files)
    BY <1>1, <1>2, <1>4, OwnTunnels DEF SetUpBy
  <2> QED BY <1>2, <1>4, <2>1 DEF Recorded
<1>5. CASE Leave(c) /\ UNCHANGED procs
  <2>1. calls' = [calls EXCEPT ![c] = Idle]
    BY <1>5 DEF Leave
  <2>2. CallOK(Idle, procs') /\ CallKept(Idle, procs', files', log')
    BY Constants DEF CallOK, CallKept
  <2>3. procs' \in [Pids -> ProcType] /\ procs' = procs
    BY <1>5, Typed DEF Inv
  <2> QED BY <1>1, <1>2, <1>3, <1>4, <2>1, <2>2, <2>3, Constants, FileStep
<1>6. CASE \E p \in Pids :
             /\ FreshPid(p)
             /\ procs' = Started(p, Target(c), 0)
             /\ calls' = [calls EXCEPT ![c].pc = "port", ![c].pid = p]
  <2>1. PICK p \in Pids :
          /\ FreshPid(p)
          /\ procs' = Started(p, Target(c), 0)
          /\ calls' = [calls EXCEPT ![c].pc = "port", ![c].pid = p]
    BY <1>6
  <2>2. PICK q : q = [state |-> "running", target |-> Target(c), port |-> None, printed |-> 0]
    OBVIOUS
  <2>3. PICK r : r = [calls[c] EXCEPT !.pc = "port", !.pid = p]
    OBVIOUS
  <2>4. Target(c) \in Contexts \X Namespaces /\ Target(c)[1] = calls[c].context
    BY <1>1, <1>2 DEF CallOK, Target
  <2>5. /\ q \in ProcType /\ Alive(q) /\ ProcOK(q) /\ FileOf(q) = Name(c) /\ q.port = None
        /\ q.state # "unused"
    BY <1>2, <2>2, <2>4 DEF ProcType, Targets, Alive, ProcOK, FileOf, NameOf
  <2>6. /\ procs' \in [Pids -> ProcType] /\ procs'[p] = q /\ procs[p].state = "unused"
        /\ \A o \in Pids : o # p => procs'[o] = procs[o]
    BY <2>1, <2>2, <2>5, Typed DEF Inv, Started, FreshPid
  <2>7. calls' = [calls EXCEPT ![c] = r]
    BY <2>1, <2>3
  <2>8. /\ r \in CallType /\ r.pc = "port" /\ r.context = calls[c].context
        /\ r.namespace = calls[c].namespace /\ r.pid = p
    BY <1>2, <2>3 DEF CallType, Steps
  <2>9. NameOf(r) = Name(c) /\ SettingUp(r)
    BY <1>2, <2>8 DEF NameOf, SettingUp
  <2>10. CallOK(r, procs')
    BY <1>1, <1>2, <2>5, <2>6, <2>8, <2>9 DEF CallOK
  <2>11. \A k \in {1, 2} : NoLines[k] = None
    BY DEF NoLines
  <2>12. calm => CallKept(r, procs', files', log')
    BY <1>1, <1>2, <1>3, <2>8, <2>9, <2>11 DEF CallKept
  <2>13. ASSUME calm, NEW o \in Pids, Seen(procs'[o]), FileOf(procs'[o]) = Name(c)
         PROVE  SetUpBy(o, procs'[o], r)
    <3>1. o = p
      BY <1>4, <2>6, <2>13
    <3> QED BY <2>5, <2>6, <2>8, <2>9, <3>1 DEF SetUpBy
  <2> QED BY <1>1, <1>2, <1>3, <2>5, <2>6, <2>7, <2>8, <2>9, <2>10, <2>12, <2>13, FileStep
<1> QED BY <1>5, <1>6 DEF StartTunnel

\* The tunnel that answered is recorded.
LEMMA InvSaveTunnel ==
    ASSUME Inv, NEW c \in Callers, SaveTunnel(c)
    PROVE  Inv'
<1>1. /\ calls[c].pc = "save" /\ Working(calls[c]) /\ SettingUp(calls[c])
      /\ current' = current /\ procs' = procs /\ log' = log  /\ made' = made /\ uses' = uses
      /\ Goto(c, AfterURL(c))
  BY DEF SaveTunnel, At, Working, SettingUp
<1>2. /\ calls[c] \in CallType /\ CallOK(calls[c], procs)
      /\ Name(c) = NameOf(calls[c]) /\ Name(c) \in Names
      /\ calm => CallKept(calls[c], procs, files, log)
  BY <1>1, CallFacts
<1>16. CASE calm' = FALSE /\ files' \in {files, [files EXCEPT ![Name(c)] = NoInfo]}
  <2>1. PICK step \in {"ssh", "done"} : Goto(c, step)
    BY <1>1 DEF AfterURL
  <2>2. PICK r : r = [calls[c] EXCEPT !.pc = step]
    OBVIOUS
  <2>3. /\ r \in CallType /\ r.pc = step /\ r.context = calls[c].context
        /\ r.namespace = calls[c].namespace
    BY <1>2, <2>2 DEF CallType, Steps
  <2>4. CallOK(r, procs)
    BY <1>1, <1>2, <2>3 DEF CallOK, SettingUp
  <2>5. calls' = [calls EXCEPT ![c] = r]
    BY <2>1, <2>2 DEF Goto
  <2> QED BY <1>1, <1>16, <2>3, <2>4, <2>5, DisturbedStep
<1> SUFFICES ASSUME calm' = calm, ~ (calm' = FALSE /\ files' \in {files, [files EXCEPT ![Name(c)] = NoInfo]})
             PROVE  Inv'
  BY <1>16 DEF SaveTunnel
<1>3. PICK i : i = [context |-> calls[c].context, namespace |-> calls[c].namespace,
                    port |-> calls[c].port, pid |-> calls[c].pid]
  OBVIOUS
<1>4. files' = [files EXCEPT ![Name(c)] = i]
  BY <1>3 DEF SaveTunnel
<1>5. /\ i \in TunnelInfo /\ i.context = calls[c].context
      /\ i.port = calls[c].port /\ i.pid = calls[c].pid
  BY <1>1, <1>2, <1>3 DEF CallOK, TunnelInfo
<1>6. /\ files' \in [Names -> InfoType] /\ files'[Name(c)] = i /\ i # NoInfo
      /\ \A f \in Names : f # Name(c) => files'[f] = files[f]
      /\ log' \in [Names -> LineType] /\ procs' \in [Pids -> ProcType]
  BY <1>1, <1>2, <1>4, <1>5, Typed, Constants DEF Inv, InfoType
<1>7. FileOK(Name(c), files'[Name(c)])
  BY <1>2, <1>5, <1>6 DEF FileOK, NameOf
<1>8. PICK step \in {"ssh", "done"} : Goto(c, step)
  BY <1>1 DEF AfterURL
<1>9. PICK r : r = [calls[c] EXCEPT !.pc = step]
  OBVIOUS
<1>10. calls' = [calls EXCEPT ![c] = r]
  BY <1>8, <1>9 DEF Goto
<1>11. /\ r \in CallType /\ r.pc = step /\ r.context = calls[c].context
       /\ r.namespace = calls[c].namespace
  BY <1>2, <1>9 DEF CallType, Steps
<1>12. NameOf(r) = Name(c) /\ ~SettingUp(r)
       /\ r.pc \notin {"health", "save", "port", "reuse", "stop", "start"}
  BY <1>2, <1>11 DEF NameOf, SettingUp
<1>13. CallOK(r, procs')
  BY <1>1, <1>2, <1>11, <1>12 DEF CallOK
<1>14. CallKept(r, procs', files', log')
  BY <1>12 DEF CallKept
<1>15. ASSUME calm, NEW p \in Pids, Seen(procs'[p]), FileOf(procs'[p]) = Name(c)
       PROVE  Recorded(p, procs'[p], files')
  <2>1. files[Name(c)] = NoInfo
    BY <1>1, <1>2, <1>15 DEF CallKept
  <2>2. SetUpBy(p, procs[p], calls[c])
    BY <1>1, <1>2, <1>15, <2>1, OwnTunnels DEF Recorded
  <2>3. calls[c].pid = p /\ calls[c].port = procs[p].port
    BY <1>1, <1>2, <1>15, <2>2 DEF SetUpBy, CallKept, Seen
  <2> QED BY <1>1, <1>5, <1>6, <1>15, <2>3 DEF Recorded
<1> QED BY <1>1, <1>2, <1>6, <1>7, <1>10, <1>11, <1>12, <1>13, <1>14, <1>15, FileStep

\* A port is read from the log of the context.
LEMMA InvReadPort ==
    ASSUME Inv, NEW c \in Callers, ReadPort(c)
    PROVE  Inv'
<1>1. /\ calls[c].pc = "port" /\ Working(calls[c]) /\ SettingUp(calls[c])
      /\ current' = current /\ procs' = procs /\ files' = files /\ log' = log
      /\ made' = made /\ uses' = uses /\ calm' = calm
      /\ FirstPort(log[Name(c)]) # None
      /\ calls' = [calls EXCEPT ![c].pc = "health", ![c].port = FirstPort(log[Name(c)])]
  BY DEF ReadPort, At, Working, SettingUp
<1>2. /\ calls[c] \in CallType /\ CallOK(calls[c], procs)
      /\ Name(c) = NameOf(calls[c]) /\ Name(c) \in Names
      /\ calm => CallKept(calls[c], procs, files, log)
  BY <1>1, CallFacts
<1>3. PICK port : port = FirstPort(log[Name(c)])
  OBVIOUS
<1>4. port \in Ports /\ \E k \in {1, 2} : port = log[Name(c)][k]
  <2>1. log[Name(c)] \in LineType
    BY <1>2, Typed DEF Inv
  <2> QED BY <1>1, <1>3, <2>1 DEF FirstPort, LineType
<1>5. PICK r : r = [calls[c] EXCEPT !.pc = "health", !.port = port]
  OBVIOUS
<1>6. calls' = [calls EXCEPT ![c] = r]
  BY <1>1, <1>3, <1>5
<1>7. /\ r \in CallType /\ r.pc = "health" /\ r.context = calls[c].context
      /\ r.namespace = calls[c].namespace /\ r.pid = calls[c].pid /\ r.port = port
  BY <1>2, <1>4, <1>5 DEF CallType, Steps
<1>8. NameOf(r) = Name(c) /\ SettingUp(r) /\ Working(r)
  BY <1>2, <1>7 DEF NameOf, SettingUp, Working
<1>9. CallOK(r, procs)
  BY <1>1, <1>2, <1>4, <1>7, <1>8 DEF CallOK
<1>10. calm => CallKept(r, procs, files, log)
  <2> SUFFICES ASSUME calm PROVE CallKept(r, procs, files, log)
    OBVIOUS
  <2>1. files[NameOf(r)] = NoInfo
    BY <1>1, <1>2, <1>8 DEF CallKept
  <2>2. Alive(procs[r.pid]) => port = procs[r.pid].port
    BY <1>1, <1>2, <1>3, <1>4, <1>7 DEF CallKept
  <2> QED BY <1>7, <2>1, <2>2 DEF CallKept
<1>11. \A p \in Pids : SetUpBy(p, procs[p], calls[c]) => SetUpBy(p, procs[p], r)
  BY <1>2, <1>7, <1>8 DEF SetUpBy
<1>12. procs' \in [Pids -> ProcType]
  BY <1>1, Typed DEF Inv
<1> QED BY <1>1, <1>2, <1>6, <1>7, <1>8, <1>9, <1>10, <1>11, <1>12, CallerStep

\* The process of a call that gives up is killed.
LEMMA InvGiveUp ==
    ASSUME Inv, NEW c \in Callers, GiveUp(c)
    PROVE  Inv'
<1>1. /\ Leave(c) /\ procs' = Killed(calls[c].pid)
      /\ current' = current /\ files' = files /\ log' = log /\ made' = made /\ uses' = uses /\ calm' = calm
  BY DEF GiveUp
<1>2. SettingUp(calls[c]) => calls[c].pid \in Pids
  BY CallFacts DEF CallOK
<1> QED BY <1>1, <1>2, KilledFacts, LeaveStep DEF Inv

\* The port that was read answers.
LEMMA InvNewHealthy ==
    ASSUME Inv, NEW c \in Callers, NewHealthy(c)
    PROVE  Inv'
<1>1. /\ calls[c].pc = "health" /\ Working(calls[c]) /\ SettingUp(calls[c])
      /\ current' = current /\ procs' = procs /\ files' = files /\ log' = log
      /\ made' = made /\ uses' = uses /\ calm' = calm
  BY DEF NewHealthy, At, Working, SettingUp
<1>2. /\ calls[c] \in CallType /\ CallOK(calls[c], procs)
      /\ calm => CallKept(calls[c], procs, files, log)
  BY <1>1, CallFacts
<1>3. PICK target \in Targets :
        calls' = [calls EXCEPT ![c].pc = "save", ![c].answered = target]
  BY DEF NewHealthy
<1>4. PICK r : r = [calls[c] EXCEPT !.pc = "save", !.answered = target]
  OBVIOUS
<1>5. calls' = [calls EXCEPT ![c] = r]
  BY <1>3, <1>4
<1>6. /\ r \in CallType /\ r.pc = "save" /\ r.context = calls[c].context
      /\ r.namespace = calls[c].namespace /\ r.pid = calls[c].pid /\ r.port = calls[c].port
  BY <1>2, <1>4 DEF CallType, Steps
<1>7. NameOf(r) = NameOf(calls[c]) /\ SettingUp(r) /\ Working(r)
  BY <1>6 DEF NameOf, SettingUp, Working
<1>8. CallOK(r, procs)
  BY <1>1, <1>2, <1>6, <1>7 DEF CallOK
<1>9. calm => CallKept(r, procs, files, log)
  BY <1>1, <1>2, <1>6, <1>7 DEF CallKept
<1>10. \A p \in Pids : SetUpBy(p, procs[p], calls[c]) => SetUpBy(p, procs[p], r)
  BY <1>6, <1>7 DEF SetUpBy
<1>11. procs' \in [Pids -> ProcType]
  BY <1>1, Typed DEF Inv
<1> QED BY <1>1, <1>5, <1>6, <1>7, <1>8, <1>9, <1>10, <1>11, CallerStep

\* The forwarder of ax ssh is no tunnel.
LEMMA InvSSHStart ==
    ASSUME Inv, NEW c \in Callers, SSHStart(c)
    PROVE  Inv'
<1>1. /\ calls[c].pc = "ssh" /\ Working(calls[c]) /\ ~SettingUp(calls[c])
      /\ current' = current /\ files' = files /\ log' = log
      /\ made' = made /\ uses' = uses /\ calm' = calm
  BY DEF SSHStart, At, Working, SettingUp
<1>2. /\ calls[c] \in CallType /\ CallOK(calls[c], procs)
      /\ Name(c) = NameOf(calls[c]) /\ Name(c) \in Names
  BY <1>1, CallFacts
<1>3. files' \in [Names -> InfoType] /\ log' \in [Names -> LineType]
      /\ FileOK(Name(c), files'[Name(c)])
  BY <1>1, <1>2, Typed DEF Inv, Sound
<1>4. ASSUME NEW step \in {"exec", "forward"}, NEW pid \in Pids \cup {None},
             calls' = [calls EXCEPT ![c].pc = step, ![c].pid = pid],
             procs' \in [Pids -> ProcType],
             \A p \in Pids : \/ procs'[p] = procs[p]
                             \/ procs[p].state = "unused" /\ Alive(procs'[p]) /\ ~Seen(procs'[p])
      PROVE  Inv'
  <2>1. PICK r : r = [calls[c] EXCEPT !.pc = step, !.pid = pid]
    OBVIOUS
  <2>2. calls' = [calls EXCEPT ![c] = r]
    BY <1>4, <2>1
  <2>3. /\ r \in CallType /\ r.pc = step /\ r.context = calls[c].context
        /\ r.namespace = calls[c].namespace
    BY <1>2, <1>4, <2>1 DEF CallType, Steps
  <2>4. NameOf(r) = Name(c) /\ ~SettingUp(r)
        /\ r.pc \notin {"health", "save", "port", "reuse", "stop", "start"}
    BY <1>2, <1>4, <2>3 DEF NameOf, SettingUp
  <2>5. CallOK(r, procs') /\ CallKept(r, procs', files', log')
    BY <1>1, <1>2, <2>3, <2>4 DEF CallOK, CallKept
  <2>6. ASSUME calm, NEW p \in Pids, Seen(procs'[p]), FileOf(procs'[p]) = Name(c)
        PROVE  Recorded(p, procs'[p], files')
    <3>1. procs'[p] = procs[p]
      BY <1>4, <2>6
    <3> QED BY <1>1, <1>2, <2>6, <3>1, OwnTunnels DEF SetUpBy
  <2> QED BY <1>1, <1>2, <1>3, <1>4, <2>2, <2>3, <2>4, <2>5, <2>6, FileStep
<1>5. procs \in [Pids -> ProcType]
  BY Typed DEF Inv
<1>6. CASE Leave(c) /\ UNCHANGED procs
  BY <1>1, <1>5, <1>6, LeaveStep
<1>7. CASE calls' = [calls EXCEPT ![c].pc = "exec", ![c].pid = None] /\ UNCHANGED procs
  BY <1>4, <1>5, <1>7
<1>8. CASE \E p \in Pids :
             /\ FreshPid(p)
             /\ procs' = Started(p, <<CurrentContext(calls[c].flag), "ate-system">>, 2)
             /\ calls' = [calls EXCEPT ![c].pc = "forward", ![c].pid = p]
  <2>1. PICK p \in Pids :
          /\ FreshPid(p)
          /\ procs' = Started(p, <<CurrentContext(calls[c].flag), "ate-system">>, 2)
          /\ calls' = [calls EXCEPT ![c].pc = "forward", ![c].pid = p]
    BY <1>8
  <2>2. PICK q : q = [state |-> "running", port |-> None, printed |-> 2,
                      target |-> <<CurrentContext(calls[c].flag), "ate-system">>]
    OBVIOUS
  <2>3. CurrentContext(calls[c].flag) \in Contexts \cup {NoContext}
    BY <1>2, Typed, TunnelAssumption DEF Inv, CurrentContext, CallType, NoContext
  <2>4. q \in ProcType /\ Alive(q) /\ ~Seen(q)
    BY <2>2, <2>3 DEF ProcType, Targets, Alive, Seen
  <2>5. /\ procs' \in [Pids -> ProcType] /\ procs'[p] = q /\ procs[p].state = "unused"
        /\ \A o \in Pids : o # p => procs'[o] = procs[o]
    BY <1>5, <2>1, <2>2, <2>4 DEF Started, FreshPid
  <2> QED BY <1>4, <2>1, <2>4, <2>5
<1> QED BY <1>6, <1>7, <1>8 DEF SSHStart

\* The forwarder has a port, or is killed.
LEMMA InvPortForward ==
    ASSUME Inv, NEW c \in Callers, PortForward(c)
    PROVE  Inv'
<1>1. /\ calls[c].pc = "forward" /\ Working(calls[c]) /\ ~SettingUp(calls[c])
      /\ current' = current /\ files' = files /\ log' = log
      /\ made' = made /\ uses' = uses /\ calm' = calm
  BY DEF PortForward, At, Working, SettingUp
<1>2. CASE Goto(c, "exec") /\ UNCHANGED procs
  BY <1>1, <1>2, GotoStep, Typed DEF Inv
<1>3. CASE procs' = Killed(calls[c].pid) /\ Leave(c)
  BY <1>1, <1>3, KilledFacts, LeaveStep DEF Inv
<1> QED BY <1>2, <1>3 DEF PortForward

\* The remote command has ended, or the invocation has.
LEMMA InvSSHEnd ==
    ASSUME Inv, NEW c \in Callers, SSHReturn(c) \/ SSHExit(c) \/ Finish(c)
    PROVE  Inv'
<1>1. /\ calls[c].pc \in {"exec", "done"} /\ ~SettingUp(calls[c])
      /\ current' = current /\ files' = files /\ log' = log
      /\ made' = made /\ uses' = uses /\ calm' = calm
  BY DEF SSHReturn, SSHExit, Finish, At, SettingUp
<1>2. CASE SSHReturn(c)
  <2>1. procs' = Killed(calls[c].pid) /\ Working(calls[c]) /\ (Goto(c, "done") \/ Leave(c))
    BY <1>2 DEF SSHReturn, At, Working
  <2> QED BY <1>1, <2>1, KilledFacts, LeaveStep, GotoStep DEF Inv
<1>3. CASE SSHExit(c) \/ Finish(c)
  BY <1>1, <1>3, LeaveStep, Typed DEF Inv, SSHExit, Finish
<1> QED BY <1>2, <1>3

\* An interrupted call leaves everything as it is, but for a record that it
\* was writing.
LEMMA InvDie ==
    ASSUME Inv, NEW c \in Callers, Die(c)
    PROVE  Inv'
<1>1. /\ calls' = [calls EXCEPT ![c] = Idle] /\ calm' = FALSE /\ Working(calls[c])
      /\ current' = current /\ procs' = procs /\ log' = log /\ made' = made /\ uses' = uses
      /\ files' = files \/ files' = [files EXCEPT ![Name(c)] = NoInfo]
  BY DEF Die, Leave, Busy, Working
<1>2. CallOK(Idle, procs)
  BY Constants DEF CallOK
<1> QED BY <1>1, <1>2, Constants, DisturbedStep

\* A call begins, and is noticed when it meets another one.
LEMMA InvBegin ==
    ASSUME Inv, NEW c \in Callers, NEW cmd \in {"api", "ssh", "stop"}, NEW override \in Flags,
           NEW namespace \in Namespaces, Begin(c, cmd, override, namespace)
    PROVE  Inv'
<1>1. PICK context : context = CurrentContext(override)
  OBVIOUS
<1>2. context \in Contexts \cup {NoContext}
  BY <1>1, Typed, TunnelAssumption DEF Inv, CurrentContext, NoContext
<1>0. PICK step : step = IF context = NoContext THEN "done" ELSE "get"
  OBVIOUS
<1>3. PICK r : r = [Idle EXCEPT !.pc = step,
                                !.cmd = cmd, !.flag = override, !.context = context,
                                !.namespace = namespace]
  OBVIOUS
<1>4. /\ calls[c].pc = "idle" /\ calls' = [calls EXCEPT ![c] = r]
      /\ made < MaxCalls /\ made' = made + 1 /\ uses' = uses
      /\ current' = current /\ procs' = procs /\ files' = files /\ log' = log
  BY <1>0, <1>1, <1>3 DEF Begin, At
<1>5. /\ r \in CallType /\ r.pc \in {"done", "get"} /\ r.context = context
      /\ r.namespace = namespace /\ (r.pc = "get" => context # NoContext)
  <2>1. Idle \in CallType
    BY Constants
  <2>2. step \in {"done", "get"} /\ (step = "get" => context # NoContext)
    BY <1>0
  <2> QED BY <1>2, <1>3, <2>1, <2>2 DEF CallType, Steps
<1>6. /\ calm' \in BOOLEAN
      /\ calm' => calm /\ \A d \in Callers :
                    ~ (Busy(d) /\ SanitizeContext(context) = Name(d))
  BY <1>1, Zenon DEF Begin
<1>7. calls'[c] = r /\ \A d \in Callers : d # c => calls'[d] = calls[d]
  BY <1>4, Typed DEF Inv
<1>8. made' \in 0..MaxCalls
  BY <1>4, TunnelAssumption, Typed DEF Inv
<1>9. TypeOK'
  BY <1>4, <1>5, <1>6, <1>8, Typed, TypedNext DEF Inv
<1>10. ~SettingUp(r) /\ r.pc \notin {"start", "reuse", "stop", "port", "health", "save"}
       /\ ~SettingUp(calls[c]) /\ ~Working(calls[c])
  BY <1>4, <1>5 DEF SettingUp, Working
<1>11. CallOK(r, procs) /\ CallKept(r, procs, files, log)
  BY <1>2, <1>5, <1>10 DEF CallOK, CallKept, Working
<1>12. Sound(calls', procs', files')
  BY <1>4, <1>7, <1>11 DEF Inv, Sound
<1>13. ASSUME calm' PROVE Undisturbed(calls', procs', files', log')
  <2>1. Undisturbed(calls, procs, files, log)
    BY <1>6, <1>13 DEF Inv
  <2>2. \A d \in Callers : Working(calls[d]) => NameOf(r) # NameOf(calls[d])
    BY <1>5, <1>6, <1>13 DEF Busy, Working, Name, NameOf
  <2>3. Alone(calls')
    BY <1>7, <2>1, <2>2 DEF Undisturbed, Alone
  <2>4. \A d \in Callers : CallKept(calls'[d], procs', files', log')
    BY <1>4, <1>7, <1>11, <2>1 DEF Undisturbed
  <2>5. ASSUME NEW p \in Pids PROVE Held(p, procs'[p], calls', files')
    BY <1>4, <1>7, <1>10, <2>1 DEF Undisturbed, Held, SetUpBy
  <2> QED BY <2>3, <2>4, <2>5 DEF Undisturbed
<1> QED BY <1>9, <1>12, <1>13 DEF Inv
-----------------------------------------------------------------------------
(* The steps of a kubectl process, and of the user.                        *)

\* A process has a port, which nobody has read before.
LEMMA InvBind ==
    ASSUME Inv, NEW p \in Pids, Bind(p)
    PROVE  Inv'
<1>1. /\ Alive(procs[p]) /\ procs[p].port = None
      /\ current' = current /\ files' = files /\ log' = log
      /\ calls' = calls /\ made' = made /\ calm' = calm
  BY DEF Bind, Running, Alive
<1>2. PICK port \in Ports :
        /\ procs' = [procs EXCEPT ![p].port = port]
        /\ uses' = [uses EXCEPT ![port] = IF uses[port] = "never" THEN "once" ELSE "again"]
  BY DEF Bind, FreePorts
<1>3. TypeOK /\ Sound(calls, procs, files) /\ (calm => Undisturbed(calls, procs, files, log))
  BY DEF Inv
<1>4. /\ procs' \in [Pids -> ProcType]
      /\ \A o \in Pids : o # p => procs'[o] = procs[o]
      /\ procs'[p].state = procs[p].state /\ procs'[p].target = procs[p].target
      /\ procs'[p].printed = procs[p].printed /\ procs'[p].port = port
  BY <1>2, <1>3, Typed DEF ProcType
<1>5. TypeOK'
  <2>1. uses' \in UsesType
    BY <1>2, <1>3, Typed DEF UsesType
  <2> QED BY <1>1, <1>3, <1>4, <2>1, Typed, TypedNext
<1>6. \A o \in Pids : /\ procs'[o].state = procs[o].state
                      /\ Alive(procs'[o]) <=> Alive(procs[o])
                      /\ Seen(procs'[o]) <=> Seen(procs[o])
                      /\ FileOf(procs'[o]) = FileOf(procs[o])
                      /\ procs'[o].target = procs[o].target
  BY <1>4 DEF Alive, Seen, FileOf
<1>7. Sound(calls', procs', files')
  <2>1. \A c \in Callers : CallOK(calls[c], procs) => CallOK(calls[c], procs')
    BY <1>6 DEF CallOK
  <2> QED BY <1>1, <1>3, <1>6, <2>1 DEF Sound, ProcOK
<1>8. ASSUME calm PROVE Undisturbed(calls', procs', files', log')
  <2>1. Alone(calls') /\ None \notin Ports
    BY <1>1, <1>3, <1>8 DEF Undisturbed, None, Ports
  <2>2. ASSUME NEW c \in Callers PROVE CallKept(calls'[c], procs', files', log')
    <3>1. calls[c] \in CallType /\ CallOK(calls[c], procs) /\ CallKept(calls[c], procs, files, log)
      BY <1>8, CallFacts
    <3>2. CASE SettingUp(calls[c]) /\ calls[c].pid = p
      <4>1. calls[c].pc = "port"
        BY <1>1, <2>1, <3>1, <3>2 DEF SettingUp, CallKept, CallOK
      <4> QED BY <1>1, <3>1, <3>2, <4>1 DEF CallKept
    <3>3. CASE SettingUp(calls[c]) /\ calls[c].pid # p
      <4>1. procs'[calls[c].pid] = procs[calls[c].pid]
        BY <1>4, <3>1, <3>3 DEF CallOK
      <4> QED BY <1>1, <3>1, <4>1 DEF CallKept
    <3>4. CASE ~SettingUp(calls[c])
      BY <1>1, <3>1, <3>4 DEF CallKept, SettingUp
    <3> QED BY <3>2, <3>3, <3>4
  <2>3. ASSUME NEW o \in Pids PROVE Held(o, procs'[o], calls', files')
    <3> SUFFICES ASSUME Seen(procs[o])
                 PROVE  \/ Recorded(o, procs'[o], files)
                        \/ \E c \in Callers : SetUpBy(o, procs'[o], calls[c])
      BY <1>1, <1>6 DEF Held
    <3>1. Recorded(o, procs[o], files) \/ \E c \in Callers : SetUpBy(o, procs[o], calls[c])
      BY <1>3, <1>8 DEF Undisturbed, Held
    <3>2. FileOf(procs[o]) \in Names
      BY <1>3, NameInNames DEF Sound, ProcOK, FileOf
    <3>3. files[FileOf(procs[o])] # NoInfo => files[FileOf(procs[o])].port \in Ports
      BY <1>3, <3>2, Typed DEF InfoType, TunnelInfo
    <3>4. Recorded(o, procs[o], files) => o # p
      BY <1>1, <2>1, <3>3 DEF Recorded
    <3>5. Recorded(o, procs[o], files) => Recorded(o, procs'[o], files)
      BY <1>4, <3>4
    <3>6. \A c \in Callers : SetUpBy(o, procs[o], calls[c]) => SetUpBy(o, procs'[o], calls[c])
      BY <1>6 DEF SetUpBy
    <3> QED BY <3>1, <3>5, <3>6
  <2> QED BY <2>1, <2>2, <2>3 DEF Undisturbed
<1> QED BY <1>1, <1>5, <1>7, <1>8 DEF Inv

\* Two lines stay two lines when one of them is overwritten.
LEMMA LineWritten ==
    ASSUME NEW lines \in LineType, NEW k \in {1, 2}, NEW port \in Ports \cup {None}
    PROVE  /\ [lines EXCEPT ![k] = port] \in LineType
           /\ [lines EXCEPT ![k] = port][k] = port
           /\ \A j \in {1, 2} : j # k => [lines EXCEPT ![k] = port][j] = lines[j]
<1>1. PICK a \in Ports \cup {None}, b \in Ports \cup {None} : lines = <<a, b>>
  BY DEF LineType
<1>2. CASE k = 1
  <2>1. [<<a, b>> EXCEPT ![1] = port] = <<port, b>>
    OBVIOUS
  <2> QED BY <1>1, <1>2, <2>1 DEF LineType
<1>3. CASE k = 2
  <2>1. [<<a, b>> EXCEPT ![2] = port] = <<a, port>>
    OBVIOUS
  <2> QED BY <1>1, <1>3, <2>1 DEF LineType
<1> QED BY <1>2, <1>3

\* A line is printed to the log of the tunnel's context.
LEMMA PrintFacts ==
    ASSUME Inv, NEW p \in Pids, PrintLine(p)
    PROVE  /\ Seen(procs[p]) /\ procs[p].port \in Ports /\ FileOf(procs[p]) \in Names
           /\ log' \in [Names -> LineType]
           /\ \A f \in Names : f # FileOf(procs[p]) => log'[f] = log[f]
           /\ \A k \in {1, 2} : \/ log'[FileOf(procs[p])][k] = log[FileOf(procs[p])][k]
                                \/ log'[FileOf(procs[p])][k] = procs[p].port
           /\ procs' \in [Pids -> ProcType]
           /\ \A o \in Pids : o # p => procs'[o] = procs[o]
           /\ procs'[p].state = procs[p].state /\ procs'[p].target = procs[p].target
           /\ procs'[p].port = procs[p].port
           /\ Seen(procs'[p]) => Seen(procs[p])
<1>1. TypeOK /\ procs \in [Pids -> ProcType] /\ log \in [Names -> LineType]
  BY Typed DEF Inv
<1>2. procs[p] \in ProcType /\ procs[p].state = "running" /\ procs[p].port # None
      /\ procs[p].printed < 2
      /\ procs' = [procs EXCEPT ![p].printed = @ + 1]
  BY <1>1 DEF PrintLine, Running
<1>3. /\ procs[p].port \in Ports /\ procs[p].printed \in {0, 1} /\ Seen(procs[p])
      /\ procs[p].printed + 1 \in 0..2
  BY <1>2 DEF ProcType, Seen, Alive
<1>4. FileOf(procs[p]) \in Names
  BY <1>3, NameInNames DEF Inv, Sound, ProcOK, FileOf
<1>5. PICK k \in {1, 2} : k = procs[p].printed + 1
  BY <1>3
<1>6. PICK f : f = FileOf(procs[p])
  OBVIOUS
<1>7. log' = [log EXCEPT ![f][k] = procs[p].port]
  BY <1>5, <1>6 DEF PrintLine, FileOf
<1>8. log' = [log EXCEPT ![f] = [log[f] EXCEPT ![k] = procs[p].port]]
  BY <1>7
<1>9. PICK lines : lines = [log[f] EXCEPT ![k] = procs[p].port]
  OBVIOUS
<1>10. lines \in LineType /\ lines[k] = procs[p].port /\ \A j \in {1, 2} : j # k => lines[j] = log[f][j]
  <2>1. log[f] \in LineType /\ procs[p].port \in Ports \cup {None}
    BY <1>1, <1>3, <1>4, <1>6
  <2>2. PICK old : old = log[f]
    OBVIOUS
  <2>3. PICK port : port = procs[p].port
    OBVIOUS
  <2>4. lines = [old EXCEPT ![k] = port]
    BY <1>9, <2>2, <2>3
  <2> QED BY <2>1, <2>2, <2>3, <2>4, LineWritten
<1>11. /\ log' \in [Names -> LineType] /\ log'[f] = lines
       /\ \A g \in Names : g # f => log'[g] = log[g]
  BY <1>1, <1>4, <1>6, <1>8, <1>9, <1>10
<1>12. /\ procs' \in [Pids -> ProcType]
       /\ \A o \in Pids : o # p => procs'[o] = procs[o]
       /\ procs'[p].state = procs[p].state /\ procs'[p].target = procs[p].target
       /\ procs'[p].port = procs[p].port
  BY <1>1, <1>2, <1>3 DEF ProcType
<1> QED BY <1>3, <1>4, <1>6, <1>10, <1>11, <1>12

\* A line in the log of a call is by the process the call has started.
LEMMA InvPrintLine ==
    ASSUME Inv, NEW p \in Pids, PrintLine(p)
    PROVE  Inv'
<1>1. /\ current' = current /\ files' = files
      /\ calls' = calls /\ made' = made /\ uses' = uses /\ calm' = calm
  BY DEF PrintLine
<1>2. PICK f : f = FileOf(procs[p])
  OBVIOUS
<1>3. /\ Seen(procs[p]) /\ f \in Names /\ log' \in [Names -> LineType]
      /\ procs' \in [Pids -> ProcType] /\ procs'[p].port = procs[p].port
      /\ \A o \in Pids : o # p => procs'[o] = procs[o]
      /\ \A g \in Names : g # f => log'[g] = log[g]
      /\ \A k \in {1, 2} : log'[f][k] = log[f][k] \/ log'[f][k] = procs[p].port
  BY <1>2, PrintFacts
<1>4. \A o \in Pids : /\ procs'[o].state = procs[o].state
                      /\ Alive(procs'[o]) <=> Alive(procs[o])
                      /\ Seen(procs'[o]) => Seen(procs[o])
                      /\ FileOf(procs'[o]) = FileOf(procs[o])
                      /\ procs'[o].target = procs[o].target
                      /\ procs'[o].port = procs[o].port
  BY <1>3, PrintFacts DEF Alive, FileOf
<1>5. TypeOK /\ Sound(calls, procs, files) /\ (calm => Undisturbed(calls, procs, files, log))
  BY DEF Inv
<1>6. TypeOK'
  BY <1>1, <1>3, <1>5, Typed, TypedNext
<1>7. Sound(calls', procs', files')
  <2>1. \A c \in Callers : CallOK(calls[c], procs) => CallOK(calls[c], procs')
    BY <1>4 DEF CallOK
  <2> QED BY <1>1, <1>4, <1>5, <2>1 DEF Sound, ProcOK
<1>8. ASSUME calm PROVE Undisturbed(calls', procs', files', log')
  <2>1. Alone(calls')
    BY <1>1, <1>5, <1>8 DEF Undisturbed
  <2>2. ASSUME NEW c \in Callers PROVE CallKept(calls'[c], procs', files', log')
    <3>1. /\ calls[c] \in CallType /\ CallOK(calls[c], procs) /\ CallKept(calls[c], procs, files, log)
          /\ Working(calls[c]) => NameOf(calls[c]) \in Names
      BY <1>8, CallFacts
    <3>2. ASSUME calls[c].pc = "port", Alive(procs'[calls[c].pid])
          PROVE  \A k \in {1, 2} : log'[NameOf(calls[c])][k] \in {None, procs'[calls[c].pid].port}
      <4>1. Working(calls[c]) /\ SettingUp(calls[c]) /\ calls[c].pid \in Pids
        BY <3>1, <3>2 DEF Working, SettingUp, CallOK
      <4>2. Alive(procs[calls[c].pid]) /\ procs'[calls[c].pid].port = procs[calls[c].pid].port
        BY <1>4, <3>2, <4>1
      <4>3. \A k \in {1, 2} : log[NameOf(calls[c])][k] \in {None, procs[calls[c].pid].port}
        BY <3>1, <3>2, <4>2 DEF CallKept
      <4>4. CASE NameOf(calls[c]) # f
        BY <1>3, <3>1, <4>1, <4>2, <4>3, <4>4
      <4>5. CASE NameOf(calls[c]) = f
        <5>1. files[NameOf(calls[c])] = NoInfo
          BY <3>1, <4>1 DEF CallKept
        <5>2. calls[c].pid = p
          BY <1>2, <1>3, <1>8, <4>1, <4>5, <5>1, OwnTunnels DEF Recorded, SetUpBy
        <5> QED BY <1>3, <4>2, <4>3, <4>5, <5>2
      <4> QED BY <4>4, <4>5
    <3>3. calls[c].pc \in {"health", "save"} /\ Alive(procs'[calls[c].pid]) =>
            calls[c].port = procs'[calls[c].pid].port
      BY <1>4, <3>1 DEF CallKept, CallOK, SettingUp
    <3> QED BY <1>1, <3>1, <3>2, <3>3 DEF CallKept
  <2>3. ASSUME NEW o \in Pids PROVE Held(o, procs'[o], calls', files')
    <3>1. Recorded(o, procs[o], files) => Recorded(o, procs'[o], files')
      BY <1>1, <1>4 DEF Recorded
    <3>2. \A c \in Callers : SetUpBy(o, procs[o], calls[c]) => SetUpBy(o, procs'[o], calls'[c])
      BY <1>1, <1>4 DEF SetUpBy
    <3> QED BY <1>4, <1>5, <1>8, <3>1, <3>2 DEF Undisturbed, Held
  <2> QED BY <2>1, <2>2, <2>3 DEF Undisturbed
<1> QED BY <1>1, <1>6, <1>7, <1>8 DEF Inv

\* A process ends.
LEMMA InvExit ==
    ASSUME Inv, NEW p \in Pids, Exit(p)
    PROVE  Inv'
<1>1. /\ procs' = [procs EXCEPT ![p] = Dead]
      /\ current' = current /\ files' = files /\ log' = log
      /\ calls' = calls /\ made' = made /\ uses' = uses /\ calm' = calm
  BY DEF Exit
<1>2. TypeOK /\ Sound(calls, procs, files) /\ (calm => Undisturbed(calls, procs, files, log))
  BY DEF Inv
<1>3. TypeOK' /\ procs'[p] = Dead /\ \A o \in Pids : o # p => procs'[o] = procs[o]
  BY <1>1, <1>2, Typed, TypedNext, Constants
<1>4. \A o \in Pids : /\ procs[o].state # "unused" => procs'[o].state # "unused"
                      /\ Alive(procs'[o]) => procs'[o] = procs[o]
                      /\ Seen(procs'[o]) => procs'[o] = procs[o]
  BY <1>3, Constants
<1>5. Sound(calls', procs', files')
  <2>1. \A c \in Callers : CallOK(calls[c], procs) => CallOK(calls[c], procs')
    BY <1>4 DEF CallOK
  <2> QED BY <1>1, <1>2, <1>4, <2>1 DEF Sound, ProcOK
<1>6. ASSUME calm PROVE Undisturbed(calls', procs', files', log')
  <2>1. ASSUME NEW c \in Callers PROVE CallKept(calls'[c], procs', files', log')
    <3>1. CallOK(calls[c], procs) /\ CallKept(calls[c], procs, files, log)
      BY <1>6, CallFacts
    <3> QED BY <1>1, <1>4, <3>1 DEF CallKept, CallOK, SettingUp
  <2>2. \A o \in Pids : Held(o, procs'[o], calls', files')
    BY <1>1, <1>2, <1>4, <1>6 DEF Undisturbed, Held
  <2> QED BY <1>1, <1>2, <1>6, <2>1, <2>2 DEF Undisturbed
<1> QED BY <1>1, <1>3, <1>5, <1>6 DEF Inv

\* The user switches the context, which no call under way looks at.
LEMMA InvUser ==
    ASSUME Inv, NEW context \in Contexts, SwitchContext(context)
    PROVE  Inv'
<1>1. /\ current' = context /\ procs' = procs /\ files' = files /\ log' = log
      /\ calls' = calls /\ made' = made /\ uses' = uses /\ calm' = calm
  BY DEF SwitchContext
<1>2. TypeOK'
  BY <1>1, Typed, TypedNext DEF Inv
<1> QED BY <1>1, <1>2 DEF Inv

\* Nothing happens.
LEMMA InvStutter ==
    ASSUME Inv, UNCHANGED vars
    PROVE  Inv'
<1>1. /\ current' = current /\ procs' = procs /\ files' = files /\ log' = log
      /\ calls' = calls /\ made' = made /\ uses' = uses /\ calm' = calm
  BY DEF vars
<1>2. TypeOK'
  BY <1>1, Typed, TypedNext DEF Inv
<1> QED BY <1>1, <1>2 DEF Inv
-----------------------------------------------------------------------------
(* Theorems.                                                               *)

\* Every step keeps the invariant.
LEMMA InvStep ==
    Inv /\ [Next]_vars => Inv'
<1> SUFFICES ASSUME Inv, [Next]_vars PROVE Inv'
  OBVIOUS
<1>1. CASE \E p \in Pids : Bind(p) \/ PrintLine(p) \/ Exit(p)
  BY <1>1, InvBind, InvPrintLine, InvExit
<1>2. CASE \E c \in Callers : \E cmd \in {"api", "ssh", "stop"}, namespace \in Namespaces,
             override \in Flags : Begin(c, cmd, override, namespace)
  BY <1>2, InvBegin
<1>3. CASE \E c \in Callers : GetTunnel(c) \/ ReuseExisting(c) \/ StopTunnel(c) \/ StartTunnel(c)
  BY <1>3, InvGetTunnel, InvReuseExisting, InvStopTunnel, InvStartTunnel
<1>4. CASE \E c \in Callers : ReadPort(c) \/ GiveUp(c) \/ NewHealthy(c) \/ SaveTunnel(c)
  BY <1>4, InvReadPort, InvGiveUp, InvNewHealthy, InvSaveTunnel
<1>5. CASE \E c \in Callers : SSHStart(c) \/ PortForward(c) \/ SSHReturn(c) \/ SSHExit(c) \/ Finish(c)
  BY <1>5, InvSSHStart, InvPortForward, InvSSHEnd
<1>6. CASE (\E c \in Callers : Die(c)) \/ \E context \in Contexts : SwitchContext(context)
  BY <1>6, InvDie, InvUser
<1>7. CASE UNCHANGED vars
  BY <1>7, InvStutter
<1> QED BY <1>1, <1>2, <1>3, <1>4, <1>5, <1>6, <1>7 DEF Next

\* No call and no process has begun.
LEMMA InvInit ==
    Init => Inv
<1> SUFFICES ASSUME Init PROVE Inv
  OBVIOUS
<1>1. TypeOK
  <2>1. NoInfo \in InfoType /\ 0 \in 0..MaxCalls
    BY TunnelAssumption DEF InfoType
  <2>2. uses \in UsesType
    BY DEF Init, UsesType
  <2> QED BY <2>1, <2>2, Constants, Typed DEF Init
<1>2. /\ \A c \in Callers : calls[c] = Idle
      /\ \A p \in Pids : procs[p] = Unused
      /\ \A f \in Names : files[f] = NoInfo
  BY DEF Init
<1>3. CallOK(Idle, procs) /\ CallKept(Idle, procs, files, log)
  BY Constants DEF CallOK, CallKept
<1>4. Sound(calls, procs, files)
  BY <1>2, <1>3, Constants DEF Sound, ProcOK, FileOK
<1>5. Undisturbed(calls, procs, files, log)
  BY <1>2, <1>3, Constants DEF Undisturbed, Alone, Held
<1> QED BY <1>1, <1>4, <1>5 DEF Inv

\* The invariant holds of every run.
LEMMA Invariance ==
    Spec => []Inv
  BY InvInit, InvStep, PTL DEF Spec

\* Every run is well typed: what is recorded, logged and answered names
\* contexts, ports and processes that exist.
THEOREM TypeCorrect ==
    Spec => []TypeOK
<1>1. Inv => TypeOK
  BY DEF Inv
<1> QED BY <1>1, Invariance, PTL

\* As long as no invocation is interrupted, meets another for its state file
\* or fails to read or write that file, EnsureServerURL and StopTunnel lose no
\* tunnel, however many contexts are used at the same time.
THEOREM NoTunnelIsOrphaned ==
    Spec => []NoOrphans
<1>1. Inv => NoOrphans
  <2> SUFFICES ASSUME Inv, calm, NEW p \in Pids, Running(p), IsTunnel(p)
               PROVE  \/ \E info \in ListTunnels : info.pid = p /\ info.port = procs[p].port
                      \/ \E c \in Callers : calls[c].pid = p /\ calls[c].pc \in {"port", "health", "save"}
    BY DEF NoOrphans
  <2>1. Seen(procs[p])
    BY DEF Running, IsTunnel, Seen, Alive
  <2>2. Recorded(p, procs[p], files) \/ \E c \in Callers : SetUpBy(p, procs[p], calls[c])
    BY <2>1 DEF Inv, Undisturbed, Held
  <2>3. FileOf(procs[p]) \in Names
    BY <2>1, NameInNames DEF Inv, Sound, ProcOK, FileOf
  <2>4. CASE Recorded(p, procs[p], files)
    <3>1. /\ files[FileOf(procs[p])] \in ListTunnels
          /\ files[FileOf(procs[p])].pid = p /\ files[FileOf(procs[p])].port = procs[p].port
      BY <2>3, <2>4 DEF Recorded, ListTunnels
    <3> QED BY <3>1
  <2>5. CASE \E c \in Callers : SetUpBy(p, procs[p], calls[c])
    BY <2>5 DEF SetUpBy, SettingUp
  <2> QED BY <2>2, <2>4, <2>5
<1> QED BY <1>1, Invariance, PTL
-----------------------------------------------------------------------------
(* Whose server answers.                                                   *)

\* A target that is a tunnel for a context, or for one with a name alike.
Fits(target, context) == Alike(target[1], context) /\ target[2] \in Namespaces

\* Contexts that share a state file have names alike.
LEMMA SharedFile ==
    ASSUME NEW x \in Contexts, NEW y \in Contexts, SanitizeContext(x) = SanitizeContext(y)
    PROVE  Alike(x, y)
<1>1. /\ x \in Seq(STRING) /\ y \in Seq(STRING) /\ x # <<>> /\ y # <<>>
  BY TunnelAssumption
<1>2. [i \in DOMAIN x |-> IF x[i] \in SafeChars THEN x[i] ELSE "_"]
        = [i \in DOMAIN y |-> IF y[i] \in SafeChars THEN y[i] ELSE "_"]
  BY <1>1 DEF SanitizeContext, NoContext
<1>3. DOMAIN x = DOMAIN y
  BY <1>2
<1>4. Len(x) = Len(y)
  BY <1>1, <1>3
<1>5. ASSUME NEW i \in DOMAIN x
      PROVE  x[i] = y[i] \/ {x[i], y[i]} \cap (SafeChars \ {"_"}) = {}
  <2>1. (IF x[i] \in SafeChars THEN x[i] ELSE "_") = (IF y[i] \in SafeChars THEN y[i] ELSE "_")
    BY <1>2, <1>3
  <2> QED BY <2>1
<1> QED BY <1>4, <1>5 DEF Alike

\* Of a port in the log, in a record or in a call of file f: it was assigned,
\* and if that was only once, who listens on it is a tunnel of that file.
Leads(us, pr, port, f) ==
    /\ us[port] # "never"
    /\ us[port] = "once" =>
         \A p \in Pids : Alive(pr[p]) /\ pr[p].port = port =>
             pr[p].target \in Contexts \X Namespaces /\ FileOf(pr[p]) = f

\* One process at a time listens on a port.
OwnPort(us, pr) ==
    \A p \in Pids : Alive(pr[p]) /\ pr[p].port # None =>
        /\ us[pr[p].port] # "never"
        /\ \A q \in Pids : Alive(pr[q]) /\ pr[q].port = pr[p].port => q = p

LogLeads(us, pr, f, lines) == \A k \in {1, 2} : lines[k] \in Ports => Leads(us, pr, lines[k], f)

FileLeads(us, pr, f, info) == info \in TunnelInfo => Leads(us, pr, info.port, f)

\* What answered a call fits it, if its port was assigned only once.
Answered(us, r) ==
    us[r.port] # "never" /\ (us[r.port] = "once" => Fits(r.answered, r.context))

CallLeads(us, pr, r) ==
    /\ r.pc \in {"reuse", "stop"} => Leads(us, pr, r.existing.port, NameOf(r))
    /\ r.pc \in {"health", "save"} => Leads(us, pr, r.port, NameOf(r))
    /\ r.pc = "save" => Answered(us, r)
    /\ r.pc \in {"ssh", "forward", "exec", "done"} /\ r.port # None => Answered(us, r)
    /\ r.pc \in {"idle", "get", "reuse", "stop", "start", "port"} => r.port = None

Straight(us, pr, fi, lo, ca) ==
    /\ OwnPort(us, pr)
    /\ \A f \in Names : LogLeads(us, pr, f, lo[f]) /\ FileLeads(us, pr, f, fi[f])
    /\ \A c \in Callers : CallLeads(us, pr, ca[c])

\* A process that listens did so before and leads where it led, or it has
\* just been assigned its port, and then that is counted.
Steady(us, pr, nu, nx) ==
    /\ \A port \in Ports :
         us[port] # "never" => nu[port] # "never" /\ (nu[port] = "once" => us[port] = "once")
    /\ \A p \in Pids : Alive(nx[p]) /\ nx[p].port \in Ports =>
         \/ Alive(pr[p]) /\ pr[p].port = nx[p].port /\ pr[p].target = nx[p].target
         \/ us[nx[p].port] # "never" => nu[nx[p].port] = "again"

\* A port keeps leading to its context.
LEMMA LeadsKept ==
    ASSUME NEW us, NEW pr, NEW nu, NEW nx, Steady(us, pr, nu, nx),
           NEW port \in Ports, NEW f, Leads(us, pr, port, f)
    PROVE  Leads(nu, nx, port, f)
<1>1. us[port] # "never" /\ nu[port] # "never" /\ (nu[port] = "once" => us[port] = "once")
  BY DEF Steady, Leads
<1>2. ASSUME nu[port] = "once", NEW p \in Pids, Alive(nx[p]), nx[p].port = port
      PROVE  nx[p].target \in Contexts \X Namespaces /\ FileOf(nx[p]) = f
  <2>1. Alive(pr[p]) /\ pr[p].port = port /\ pr[p].target = nx[p].target
    BY <1>1, <1>2 DEF Steady
  <2>2. pr[p].target \in Contexts \X Namespaces /\ FileOf(pr[p]) = f
    BY <1>1, <1>2, <2>1 DEF Leads
  <2> QED BY <2>1, <2>2 DEF FileOf
<1> QED BY <1>1, <1>2 DEF Leads

\* It suffices to look at the files, the lines and the calls that change.
LEMMA StraightStep ==
    ASSUME Inv, Straight(uses, procs, files, log, calls),
           Steady(uses, procs, uses', procs'), OwnPort(uses', procs'),
           \A f \in Names : files'[f] = files[f] \/ FileLeads(uses', procs', f, files'[f]),
           \A f \in Names : log'[f] = log[f] \/ LogLeads(uses', procs', f, log'[f]),
           \A c \in Callers : calls'[c] = calls[c] \/ CallLeads(uses', procs', calls'[c])
    PROVE  Straight(uses', procs', files', log', calls')
<1>2. ASSUME NEW f \in Names PROVE FileLeads(uses', procs', f, files'[f])
  <2>1. FileLeads(uses, procs, f, files[f]) => FileLeads(uses', procs', f, files[f])
    BY LeadsKept DEF FileLeads, TunnelInfo
  <2> QED BY <2>1 DEF Straight
<1>3. ASSUME NEW f \in Names PROVE LogLeads(uses', procs', f, log'[f])
  <2>1. LogLeads(uses, procs, f, log[f]) => LogLeads(uses', procs', f, log[f])
    BY LeadsKept DEF LogLeads
  <2> QED BY <2>1 DEF Straight
<1>4. ASSUME NEW c \in Callers PROVE CallLeads(uses', procs', calls'[c])
  <2>1. CallOK(calls[c], procs) /\ calls[c] \in CallType
    BY CallFacts
  <2>2. calls[c].pc \in {"reuse", "stop"} => calls[c].existing.port \in Ports
    BY <2>1 DEF CallOK, TunnelInfo
  <2>3. calls[c].pc \in {"health", "save"} => calls[c].port \in Ports
    BY <2>1 DEF CallOK
  <2>4. calls[c].port # None => calls[c].port \in Ports
    BY <2>1 DEF CallType
  <2>5. calls[c].port \in Ports /\ Answered(uses, calls[c]) => Answered(uses', calls[c])
    BY DEF Steady, Answered
  <2>6. CallLeads(uses, procs, calls[c]) => CallLeads(uses', procs', calls[c])
    BY <2>2, <2>3, <2>4, <2>5, LeadsKept DEF CallLeads
  <2> QED BY <2>6 DEF Straight
<1> QED BY <1>2, <1>3, <1>4 DEF Straight

\* A process is as it was, or has no port.
Kept(q, n) == n.port = None \/ (n.port = q.port /\ n.state = q.state /\ n.target = q.target)

\* Processes that are left alone, killed or fresh.
LEMMA SteadyFacts ==
    ASSUME uses' = uses, \A p \in Pids : Kept(procs[p], procs'[p])
    PROVE  /\ Steady(uses, procs, uses', procs')
           /\ OwnPort(uses, procs) => OwnPort(uses', procs')
<1>1. None \notin Ports
  BY DEF None, Ports
<1>2. \A p \in Pids : procs'[p].port # None =>
        /\ procs'[p].port = procs[p].port /\ procs'[p].target = procs[p].target
        /\ Alive(procs'[p]) <=> Alive(procs[p])
  BY DEF Kept, Alive
<1>3. Steady(uses, procs, uses', procs')
  BY <1>1, <1>2 DEF Steady
<1>4. OwnPort(uses, procs) => OwnPort(uses', procs')
  BY <1>2 DEF OwnPort
<1> QED BY <1>3, <1>4

\* Processes that do not change.
LEMMA SameProcs ==
    ASSUME Straight(uses, procs, files, log, calls), uses' = uses, procs' = procs
    PROVE  Steady(uses, procs, uses', procs') /\ OwnPort(uses', procs')
  BY SteadyFacts DEF Kept, Straight

\* Who answers on a port that leads to the context of a call.
LEMMA Reached ==
    ASSUME Inv, NEW c \in Callers, Working(calls[c]),
           NEW port \in Ports, Leads(uses, procs, port, NameOf(calls[c])), uses[port] = "once",
           NEW target, HealthyBy(port, target)
    PROVE  Fits(target, calls[c].context)
<1>1. PICK p \in Pids : Alive(procs[p]) /\ procs[p].port = port /\ procs[p].target = target
  BY DEF HealthyBy, Listening, Running, Alive
<1>3. target \in Contexts \X Namespaces /\ SanitizeContext(target[1]) = NameOf(calls[c])
  BY <1>1 DEF Leads, FileOf
<1>4. calls[c].context \in Contexts
  BY CallFacts DEF CallOK
<1>5. Alike(target[1], calls[c].context)
  BY <1>3, <1>4, SharedFile DEF NameOf
<1> QED BY <1>3, <1>5 DEF Fits

\* A call that is over.
LEMMA IdleLeads ==
    ASSUME NEW us, NEW pr
    PROVE  CallLeads(us, pr, Idle)
  BY DEF CallLeads, Idle

\* A call goes on with the server it has, or without one.
LEMMA GotoLeads ==
    ASSUME Inv, Straight(uses, procs, files, log, calls), Steady(uses, procs, uses', procs'),
           NEW c \in Callers, NEW step, Goto(c, step),
           \/ calls[c].pc = "reuse" /\ step = "stop"
           \/ calls[c].pc \in {"get", "stop"} /\ step \in {"start", "done"}
           \/ calls[c].pc \in {"save", "forward", "exec"} /\ step \in {"ssh", "exec", "done"}
    PROVE  \A d \in Callers : calls'[d] = calls[d] \/ CallLeads(uses', procs', calls'[d])
<1>1. PICK r : r = [calls[c] EXCEPT !.pc = step]
  OBVIOUS
<1>2. calls[c] \in CallType /\ CallOK(calls[c], procs) /\ CallLeads(uses, procs, calls[c])
  BY CallFacts DEF Straight
<1>3. /\ r.pc = step /\ r.context = calls[c].context /\ r.namespace = calls[c].namespace
      /\ r.port = calls[c].port /\ r.answered = calls[c].answered /\ r.existing = calls[c].existing
      /\ NameOf(r) = NameOf(calls[c])
  BY <1>1, <1>2 DEF CallType, NameOf
<1>4. calls'[c] = r /\ \A d \in Callers : d # c => calls'[d] = calls[d]
  BY <1>1, Typed DEF Inv, Goto
<1>0. calls[c].port # None /\ Answered(uses, calls[c]) => Answered(uses', r)
  <2>1. calls[c].port # None => calls[c].port \in Ports
    BY <1>2 DEF CallType
  <2> QED BY <1>3, <2>1 DEF Steady, Answered
<1>5. CASE step = "stop"
  <2>1. calls[c].pc = "reuse" /\ calls[c].existing.port \in Ports
    BY <1>2, <1>5 DEF CallOK, TunnelInfo
  <2>2. Leads(uses', procs', r.existing.port, NameOf(r))
    BY <1>2, <1>3, <2>1, LeadsKept DEF CallLeads
  <2> QED BY <1>2, <1>3, <1>4, <1>5, <2>1, <2>2 DEF CallLeads
<1>6. CASE step # "stop"
  BY <1>0, <1>2, <1>3, <1>4, <1>6 DEF CallLeads
<1> QED BY <1>5, <1>6

\* The steps of a kubectl process.
LEMMA StraightProcs ==
    ASSUME Inv, Straight(uses, procs, files, log, calls),
           NEW p \in Pids, Bind(p) \/ PrintLine(p) \/ Exit(p)
    PROVE  Straight(uses', procs', files', log', calls')
<1>1. procs \in [Pids -> ProcType]
  BY Typed DEF Inv
<1>2. CASE Bind(p)
  <2>1. PICK port \in FreePorts :
          /\ procs' = [procs EXCEPT ![p].port = port]
          /\ uses' = [uses EXCEPT ![port] = IF uses[port] = "never" THEN "once" ELSE "again"]
    BY <1>2 DEF Bind
  <2>2. files' = files /\ log' = log /\ calls' = calls /\ procs[p].port = None
    BY <1>2 DEF Bind
  <2>3. port \in Ports /\ uses \in UsesType /\ \A q \in Pids : ~(Alive(procs[q]) /\ procs[q].port = port)
    <3>1. port \in Ports /\ Listening(port) = {} /\ port # None
      BY DEF FreePorts, Ports, None
    <3> QED BY <3>1, Typed DEF Inv, Listening, Running, Alive
  <2>4. /\ procs'[p].port = port
        /\ \A o \in Pids : o # p => procs'[o] = procs[o]
    BY <1>1, <2>1 DEF ProcType
  <2>5. /\ uses'[port] = IF uses[port] = "never" THEN "once" ELSE "again"
        /\ \A x \in Ports : x # port => uses'[x] = uses[x]
    BY <2>1, <2>3 DEF UsesType
  <2>6. Steady(uses, procs, uses', procs')
    <3>1. \A x \in Ports : uses[x] # "never" =>
            uses'[x] # "never" /\ (uses'[x] = "once" => uses[x] = "once")
      BY <2>5
    <3>2. ASSUME NEW o \in Pids, Alive(procs'[o]), procs'[o].port \in Ports
          PROVE  \/ Alive(procs[o]) /\ procs[o].port = procs'[o].port /\ procs[o].target = procs'[o].target
                 \/ uses[procs'[o].port] # "never" => uses'[procs'[o].port] = "again"
      <4>1. CASE o = p
        BY <2>4, <2>5, <4>1
      <4>2. CASE o # p
        BY <2>4, <3>2, <4>2
      <4> QED BY <4>1, <4>2
    <3> QED BY <3>1, <3>2 DEF Steady
  <2>7. OwnPort(uses', procs')
    <3>1. OwnPort(uses, procs)
      BY DEF Straight
    <3>2. \A o \in Pids : procs[o].port # None => procs[o].port \in Ports
      BY <1>1 DEF ProcType
    <3>3. ASSUME NEW o \in Pids, Alive(procs'[o]), procs'[o].port # None
          PROVE  /\ uses'[procs'[o].port] # "never"
                 /\ \A q \in Pids : Alive(procs'[q]) /\ procs'[q].port = procs'[o].port => q = o
      <4>1. CASE o = p
        BY <2>3, <2>4, <2>5, <4>1
      <4>2. CASE o # p
        <5>1. /\ procs'[o] = procs[o] /\ procs[o].port # port /\ procs[o].port \in Ports
              /\ uses[procs[o].port] # "never"
              /\ \A q \in Pids : Alive(procs[q]) /\ procs[q].port = procs[o].port => q = o
          BY <2>3, <2>4, <3>1, <3>2, <3>3, <4>2 DEF OwnPort
        <5>2. uses'[procs[o].port] = uses[procs[o].port]
          BY <2>5, <5>1
        <5> QED BY <2>4, <5>1, <5>2
      <4> QED BY <4>1, <4>2
    <3> QED BY <3>3 DEF OwnPort
  <2> QED BY <2>2, <2>6, <2>7, StraightStep
<1>3. CASE PrintLine(p)
  <2>1. files' = files /\ calls' = calls /\ uses' = uses
    BY <1>3 DEF PrintLine
  <2>2. PICK f : f = FileOf(procs[p])
    OBVIOUS
  <2>3. /\ Seen(procs[p]) /\ procs[p].port \in Ports /\ f \in Names
        /\ \A g \in Names : g # f => log'[g] = log[g]
        /\ \A k \in {1, 2} : log'[f][k] = log[f][k] \/ log'[f][k] = procs[p].port
        /\ \A o \in Pids : o # p => procs'[o] = procs[o]
        /\ procs'[p].state = procs[p].state /\ procs'[p].target = procs[p].target
        /\ procs'[p].port = procs[p].port
    BY <1>3, <2>2, PrintFacts
  <2>4. Steady(uses, procs, uses', procs') /\ OwnPort(uses', procs')
    <3>1. \A o \in Pids : Kept(procs[o], procs'[o])
      BY <2>3 DEF Kept
    <3> QED BY <2>1, <3>1, SteadyFacts DEF Straight
  <2>6. Leads(uses, procs, procs[p].port, f)
    <3>1. procs[p].target \in Contexts \X Namespaces /\ Alive(procs[p]) /\ procs[p].port # None
      BY <2>3 DEF Inv, Sound, ProcOK, Seen, Ports, None
    <3>2. /\ uses[procs[p].port] # "never"
          /\ \A q \in Pids : Alive(procs[q]) /\ procs[q].port = procs[p].port => q = p
      BY <3>1 DEF Straight, OwnPort
    <3> QED BY <2>2, <3>1, <3>2 DEF Leads
  <2>7. LogLeads(uses, procs, f, log[f])
    BY <2>3 DEF Straight
  <2>8. LogLeads(uses', procs', f, log'[f])
    BY <2>3, <2>4, <2>6, <2>7, LeadsKept DEF LogLeads
  <2> QED BY <2>1, <2>3, <2>4, <2>8, StraightStep
<1>4. CASE Exit(p)
  <2>1. /\ procs' = [procs EXCEPT ![p] = Dead] /\ files' = files /\ log' = log /\ calls' = calls
        /\ uses' = uses
    BY <1>4 DEF Exit
  <2>2. procs'[p] = Dead /\ \A o \in Pids : o # p => procs'[o] = procs[o]
    BY <1>1, <2>1
  <2>3. \A o \in Pids : Kept(procs[o], procs'[o])
    BY <2>2 DEF Kept, Dead, Unused
  <2>4. Steady(uses, procs, uses', procs') /\ OwnPort(uses', procs')
    BY <2>1, <2>3, SteadyFacts DEF Straight
  <2> QED BY <2>1, <2>4, StraightStep
<1> QED BY <1>2, <1>3, <1>4

\* A killed process leads nowhere.
LEMMA KilledSteady ==
    ASSUME Inv, Straight(uses, procs, files, log, calls), NEW pid, procs' = Killed(pid), uses' = uses
    PROVE  Steady(uses, procs, uses', procs') /\ OwnPort(uses', procs')
<1>1. \A p \in Pids : procs'[p] = procs[p] \/ procs'[p] = Dead
  BY KilledFacts DEF Inv
<1>2. \A p \in Pids : Kept(procs[p], procs'[p])
  BY <1>1 DEF Kept, Dead, Unused
<1> QED BY <1>2, SteadyFacts DEF Straight

\* A call that leaves.
LEMMA LeaveLeads ==
    ASSUME Inv, NEW c \in Callers, Leave(c)
    PROVE  \A d \in Callers : calls'[d] = calls[d] \/ CallLeads(uses', procs', calls'[d])
<1>1. calls'[c] = Idle /\ \A d \in Callers : d # c => calls'[d] = calls[d]
  BY Typed DEF Inv, Leave
<1> QED BY <1>1, IdleLeads

\* The record a call reads leads to its context.
LEMMA StraightGet ==
    ASSUME Inv, Straight(uses, procs, files, log, calls), NEW c \in Callers, GetTunnel(c)
    PROVE  Straight(uses', procs', files', log', calls')
<1>1. /\ calls[c].pc = "get" /\ Working(calls[c])
      /\ procs' = procs /\ files' = files /\ log' = log /\ uses' = uses
  BY DEF GetTunnel, At, Working
<1>2. Steady(uses, procs, uses', procs') /\ OwnPort(uses', procs')
  BY <1>1, SameProcs
<1>3. /\ calls[c] \in CallType /\ CallLeads(uses, procs, calls[c]) /\ calls \in [Callers -> CallType]
      /\ Name(c) = NameOf(calls[c]) /\ Name(c) \in Names
  BY <1>1, CallFacts, Typed DEF Straight, Inv
<1>4. \A d \in Callers : calls'[d] = calls[d] \/ CallLeads(uses', procs', calls'[d])
  <2>1. CASE files[Name(c)] # NoInfo /\ ~Leave(c) /\ ~Goto(c, "start")
    <3>1. PICK step \in {"stop", "reuse"} :
            calls' = [calls EXCEPT ![c].existing = files[Name(c)], ![c].pc = step]
      BY <2>1 DEF GetTunnel
    <3>2. /\ calls'[c].pc = step /\ calls'[c].existing = files[Name(c)]
          /\ calls'[c].context = calls[c].context /\ calls'[c].port = calls[c].port
          /\ \A d \in Callers : d # c => calls'[d] = calls[d]
      BY <1>3, <3>1 DEF CallType
    <3>3. files[Name(c)] \in TunnelInfo
      BY <1>3, <2>1, Typed DEF Inv, InfoType
    <3>4. Leads(uses, procs, files[Name(c)].port, Name(c))
      BY <1>3, <3>3 DEF Straight, FileLeads
    <3>5. NameOf(calls'[c]) = Name(c)
      BY <1>3, <3>2 DEF NameOf
    <3> QED BY <1>1, <1>3, <3>1, <3>2, <3>4, <3>5 DEF CallLeads
  <2>2. CASE Leave(c)
    BY <2>2, LeaveLeads
  <2>3. CASE Goto(c, "start")
    BY <1>1, <1>2, <2>3, GotoLeads
  <2> QED BY <2>1, <2>2, <2>3 DEF GetTunnel
<1> QED BY <1>1, <1>2, <1>4, StraightStep

\* A recorded tunnel that answers leads to the context of the call.
LEMMA StraightReuse ==
    ASSUME Inv, Straight(uses, procs, files, log, calls), NEW c \in Callers, ReuseExisting(c)
    PROVE  Straight(uses', procs', files', log', calls')
<1>1. /\ calls[c].pc = "reuse" /\ Working(calls[c])
      /\ procs' = procs /\ files' = files /\ log' = log /\ uses' = uses
  BY DEF ReuseExisting, At, Working
<1>2. Steady(uses, procs, uses', procs') /\ OwnPort(uses', procs')
  BY <1>1, SameProcs
<1>3. /\ calls[c] \in CallType /\ CallOK(calls[c], procs) /\ CallLeads(uses, procs, calls[c])
      /\ calls \in [Callers -> CallType]
  BY CallFacts, Typed DEF Straight, Inv
<1>4. \A d \in Callers : calls'[d] = calls[d] \/ CallLeads(uses', procs', calls'[d])
  <2>1. CASE Goto(c, "stop")
    BY <1>1, <1>2, <2>1, GotoLeads
  <2>2. CASE \E target \in Targets :
               /\ HealthyBy(calls[c].existing.port, target)
               /\ calls' = [calls EXCEPT ![c].pc = AfterURL(c), ![c].answered = target,
                                         ![c].port = calls[c].existing.port]
    <3>1. PICK target \in Targets :
            /\ HealthyBy(calls[c].existing.port, target)
            /\ calls' = [calls EXCEPT ![c].pc = AfterURL(c), ![c].answered = target,
                                      ![c].port = calls[c].existing.port]
      BY <2>2
    <3>2. calls[c].existing.port \in Ports /\ Leads(uses, procs, calls[c].existing.port, NameOf(calls[c]))
      BY <1>1, <1>3 DEF CallOK, TunnelInfo, CallLeads
    <3>3. /\ uses[calls[c].existing.port] # "never"
          /\ uses[calls[c].existing.port] = "once" => Fits(target, calls[c].context)
      BY <1>1, <3>1, <3>2, Reached DEF Leads
    <3>4. AfterURL(c) \in {"ssh", "done"}
      BY DEF AfterURL
    <3>5. /\ calls'[c].pc = AfterURL(c) /\ calls'[c].answered = target
          /\ calls'[c].context = calls[c].context /\ calls'[c].port = calls[c].existing.port
          /\ \A d \in Callers : d # c => calls'[d] = calls[d]
      BY <1>3, <3>1 DEF CallType
    <3>6. Answered(uses', calls'[c])
      BY <1>1, <3>3, <3>5 DEF Answered
    <3> QED BY <3>4, <3>5, <3>6 DEF CallLeads
  <2> QED BY <2>1, <2>2 DEF ReuseExisting
<1> QED BY <1>1, <1>2, <1>4, StraightStep

\* A record is removed, or a log truncated: what is left leads as before.
LEMMA StraightStopStart ==
    ASSUME Inv, Straight(uses, procs, files, log, calls), NEW c \in Callers,
           StopTunnel(c) \/ StartTunnel(c)
    PROVE  Straight(uses', procs', files', log', calls')
<1>1. /\ calls \in [Callers -> CallType] /\ procs \in [Pids -> ProcType]
      /\ files \in [Names -> InfoType] /\ log \in [Names -> LineType]
      /\ CallLeads(uses, procs, calls[c]) /\ calls[c] \in CallType
  BY Typed DEF Inv, Straight
<1>2. CASE StopTunnel(c)
  <2>1. /\ calls[c].pc = "stop" /\ log' = log /\ procs' = Killed(calls[c].existing.pid)
        /\ uses' = uses
    BY <1>2 DEF StopTunnel, At
  <2>2. \A f \in Names : files'[f] = files[f] \/ files'[f] = NoInfo
    BY <1>1, <1>2 DEF StopTunnel
  <2>3. \A f \in Names : files'[f] = files[f] \/ FileLeads(uses', procs', f, files'[f])
    BY <2>2, Constants DEF FileLeads
  <2>4. Steady(uses, procs, uses', procs') /\ OwnPort(uses', procs')
    BY <2>1, KilledSteady
  <2>5. PICK step \in {"done", "start"} : Goto(c, step)
    BY <1>2 DEF StopTunnel
  <2>6. \A d \in Callers : calls'[d] = calls[d] \/ CallLeads(uses', procs', calls'[d])
    BY <2>1, <2>4, <2>5, GotoLeads
  <2> QED BY <2>1, <2>3, <2>4, <2>6, StraightStep
<1>3. CASE StartTunnel(c)
  <2>1. /\ calls[c].pc = "start" /\ files' = files /\ log' = [log EXCEPT ![Name(c)] = NoLines]
        /\ uses' = uses
    BY <1>3 DEF StartTunnel, At
  <2>2. \A f \in Names : log'[f] = log[f] \/ log'[f] = NoLines
    BY <1>1, <2>1
  <2>3. \A k \in {1, 2} : NoLines[k] \notin Ports
    BY DEF NoLines, Ports, None
  <2>4. \A f \in Names : log'[f] = log[f] \/ LogLeads(uses', procs', f, log'[f])
    BY <2>2, <2>3 DEF LogLeads
  <2>5. CASE Leave(c) /\ UNCHANGED procs
    <3>1. Steady(uses, procs, uses', procs') /\ OwnPort(uses', procs')
      BY <2>1, <2>5, SameProcs
    <3> QED BY <2>1, <2>4, <2>5, <3>1, LeaveLeads, StraightStep
  <2>6. CASE \E p \in Pids :
               /\ FreshPid(p)
               /\ procs' = Started(p, Target(c), 0)
               /\ calls' = [calls EXCEPT ![c].pc = "port", ![c].pid = p]
    <3>1. PICK p \in Pids :
            /\ FreshPid(p)
            /\ procs' = Started(p, Target(c), 0)
            /\ calls' = [calls EXCEPT ![c].pc = "port", ![c].pid = p]
      BY <2>6
    <3>2. /\ procs[p].state = "unused" /\ procs'[p].port = None
          /\ \A o \in Pids : o # p => procs'[o] = procs[o]
      BY <1>1, <3>1 DEF FreshPid, Started
    <3>3. /\ calls'[c].pc = "port" /\ calls'[c].port = calls[c].port
          /\ \A d \in Callers : d # c => calls'[d] = calls[d]
      BY <1>1, <3>1 DEF CallType
    <3>4. CallLeads(uses', procs', calls'[c])
      BY <1>1, <2>1, <3>3 DEF CallLeads
    <3>5. Steady(uses, procs, uses', procs') /\ OwnPort(uses', procs')
      <4>1. \A o \in Pids : Kept(procs[o], procs'[o])
        BY <3>2 DEF Kept
      <4> QED BY <2>1, <4>1, SteadyFacts DEF Straight
    <3> QED BY <2>1, <2>4, <3>2, <3>3, <3>4, <3>5, StraightStep
  <2> QED BY <1>3, <2>5, <2>6 DEF StartTunnel
<1> QED BY <1>2, <1>3

\* The port read from the log leads to the context, and so does what answers
\* on it and what is recorded.
LEMMA StraightNew ==
    ASSUME Inv, Straight(uses, procs, files, log, calls), NEW c \in Callers,
           ReadPort(c) \/ NewHealthy(c) \/ SaveTunnel(c)
    PROVE  Straight(uses', procs', files', log', calls')
<1>1. /\ calls \in [Callers -> CallType] /\ files \in [Names -> InfoType]
      /\ log \in [Names -> LineType]
      /\ CallLeads(uses, procs, calls[c]) /\ calls[c] \in CallType /\ CallOK(calls[c], procs)
  BY Typed, CallFacts DEF Inv, Straight
<1>2. /\ procs' = procs /\ log' = log /\ uses' = uses
      /\ Working(calls[c]) /\ calls[c].pc \in {"port", "health", "save"}
  BY DEF ReadPort, NewHealthy, SaveTunnel, At, Working
<1>3. /\ Steady(uses, procs, uses', procs') /\ OwnPort(uses', procs')
      /\ Name(c) = NameOf(calls[c]) /\ Name(c) \in Names
  BY <1>2, SameProcs, CallFacts
<1>4. CASE ReadPort(c)
  <2>1. PICK port : port = FirstPort(log[Name(c)])
    OBVIOUS
  <2>2. /\ port # None /\ files' = files
        /\ calls' = [calls EXCEPT ![c].pc = "health", ![c].port = port]
    BY <1>4, <2>1 DEF ReadPort
  <2>3. port \in Ports /\ \E k \in {1, 2} : port = log[Name(c)][k]
    <3>1. log[Name(c)] \in LineType
      BY <1>1, <1>3
    <3> QED BY <2>1, <2>2, <3>1 DEF FirstPort, LineType
  <2>4. Leads(uses, procs, port, Name(c))
    BY <1>3, <2>3 DEF Straight, LogLeads
  <2>5. /\ calls'[c].pc = "health" /\ calls'[c].port = port /\ calls'[c].context = calls[c].context
        /\ \A d \in Callers : d # c => calls'[d] = calls[d]
    BY <1>1, <2>2 DEF CallType
  <2>6. CallLeads(uses', procs', calls'[c])
    BY <1>2, <1>3, <2>4, <2>5 DEF CallLeads, NameOf
  <2> QED BY <1>2, <1>3, <2>2, <2>5, <2>6, StraightStep
<1>5. CASE NewHealthy(c)
  <2>1. calls[c].pc = "health" /\ files' = files
    BY <1>5 DEF NewHealthy, At
  <2>2. PICK target \in Targets :
          /\ HealthyBy(calls[c].port, target)
          /\ calls' = [calls EXCEPT ![c].pc = "save", ![c].answered = target]
    BY <1>5 DEF NewHealthy
  <2>3. calls[c].port \in Ports /\ Leads(uses, procs, calls[c].port, NameOf(calls[c]))
    BY <1>1, <2>1 DEF CallOK, CallLeads
  <2>4. /\ uses[calls[c].port] # "never"
        /\ uses[calls[c].port] = "once" => Fits(target, calls[c].context)
    BY <1>2, <2>2, <2>3, Reached DEF Leads
  <2>5. /\ calls'[c].pc = "save" /\ calls'[c].answered = target /\ calls'[c].port = calls[c].port
        /\ calls'[c].context = calls[c].context /\ calls'[c].namespace = calls[c].namespace
        /\ \A d \in Callers : d # c => calls'[d] = calls[d]
    BY <1>1, <2>2 DEF CallType
  <2>6. Answered(uses', calls'[c])
    BY <1>2, <2>4, <2>5 DEF Answered
  <2>7. CallLeads(uses', procs', calls'[c])
    BY <1>2, <2>3, <2>5, <2>6 DEF CallLeads, NameOf
  <2> QED BY <1>2, <1>3, <2>1, <2>5, <2>7, StraightStep
<1>6. CASE SaveTunnel(c)
  <2>1. calls[c].pc = "save"
    BY <1>6 DEF SaveTunnel, At
  <2>2. PICK i : i = [context |-> calls[c].context, namespace |-> calls[c].namespace,
                      port |-> calls[c].port, pid |-> calls[c].pid]
    OBVIOUS
  <2>3. \/ files' = files
        \/ \E x \in {i, NoInfo} : files' = [files EXCEPT ![Name(c)] = x]
    BY <1>6, <2>2 DEF SaveTunnel
  <2>4. /\ files'[Name(c)] \in {files[Name(c)], i, NoInfo}
        /\ \A f \in Names : f # Name(c) => files'[f] = files[f]
    BY <1>1, <1>3, <2>3
  <2>5. FileLeads(uses', procs', Name(c), i) /\ FileLeads(uses', procs', Name(c), NoInfo)
    BY <1>1, <1>2, <1>3, <2>1, <2>2, Constants DEF FileLeads, CallLeads
  <2>6. PICK step \in {"ssh", "done"} : Goto(c, step)
    BY <1>6 DEF SaveTunnel, AfterURL
  <2>7. \A d \in Callers : calls'[d] = calls[d] \/ CallLeads(uses', procs', calls'[d])
    BY <1>3, <2>1, <2>6, GotoLeads
  <2> QED BY <1>2, <1>3, <2>4, <2>5, <2>7, StraightStep
<1> QED BY <1>4, <1>5, <1>6

\* A call that ends, gives up or goes on to a worker keeps its server.
LEMMA StraightEnd ==
    ASSUME Inv, Straight(uses, procs, files, log, calls), NEW c \in Callers,
           \/ GiveUp(c) \/ SSHStart(c) \/ PortForward(c) \/ SSHReturn(c)
           \/ SSHExit(c) \/ Finish(c) \/ Die(c)
    PROVE  Straight(uses', procs', files', log', calls')
<1>1. /\ calls \in [Callers -> CallType] /\ procs \in [Pids -> ProcType]
      /\ CallLeads(uses, procs, calls[c]) /\ calls[c] \in CallType /\ files \in [Names -> InfoType]
  BY Typed, CallFacts DEF Inv, Straight
<1>2. /\ log' = log /\ uses' = uses
      /\ \A f \in Names : files'[f] = files[f] \/ FileLeads(uses', procs', f, files'[f])
  <2>1. /\ log' = log /\ uses' = uses
        /\ files' = files \/ files' = [files EXCEPT ![Name(c)] = NoInfo]
    BY DEF GiveUp, SSHStart, PortForward, SSHReturn, SSHExit, Finish, Die
  <2>2. \A f \in Names : files'[f] = files[f] \/ files'[f] = NoInfo
    BY <1>1, <2>1
  <2> QED BY <2>1, <2>2, Constants DEF FileLeads
<1>3. CASE Leave(c) /\ (procs' = procs \/ \E pid : procs' = Killed(pid))
  <2>1. Steady(uses, procs, uses', procs') /\ OwnPort(uses', procs')
    BY <1>2, <1>3, SameProcs, KilledSteady
  <2> QED BY <1>2, <1>3, <2>1, LeaveLeads, StraightStep
<1>4. CASE \/ calls[c].pc = "forward" /\ Goto(c, "exec") /\ procs' = procs
           \/ calls[c].pc = "exec" /\ Goto(c, "done") /\ \E pid : procs' = Killed(pid)
  <2>1. Steady(uses, procs, uses', procs') /\ OwnPort(uses', procs')
    BY <1>2, <1>4, SameProcs, KilledSteady
  <2>2. \A d \in Callers : calls'[d] = calls[d] \/ CallLeads(uses', procs', calls'[d])
    BY <1>4, <2>1, GotoLeads
  <2> QED BY <1>2, <2>1, <2>2, StraightStep
<1>5. CASE calls[c].pc = "ssh" /\ \E step \in {"exec", "forward"}, pid \in Pids \cup {None} :
             /\ calls' = [calls EXCEPT ![c].pc = step, ![c].pid = pid]
             /\ \/ procs' = procs
                \/ /\ pid \in Pids /\ FreshPid(pid)
                   /\ \E target : procs' = Started(pid, target, 2)
  <2>1. PICK step \in {"exec", "forward"}, pid \in Pids \cup {None} :
          /\ calls' = [calls EXCEPT ![c].pc = step, ![c].pid = pid]
          /\ \/ procs' = procs
             \/ /\ pid \in Pids /\ FreshPid(pid)
                /\ \E target : procs' = Started(pid, target, 2)
    BY <1>5
  <2>2. \A p \in Pids : procs'[p] = procs[p] \/ (procs[p].state = "unused" /\ procs'[p].port = None)
    BY <1>1, <2>1 DEF FreshPid, Started
  <2>3. Steady(uses, procs, uses', procs') /\ OwnPort(uses', procs')
    <3>1. \A p \in Pids : Kept(procs[p], procs'[p])
      BY <2>2 DEF Kept
    <3> QED BY <1>2, <3>1, SteadyFacts DEF Straight
  <2>4. /\ calls'[c].pc = step /\ calls'[c].port = calls[c].port
        /\ calls'[c].answered = calls[c].answered
        /\ calls'[c].context = calls[c].context /\ calls'[c].namespace = calls[c].namespace
        /\ \A d \in Callers : d # c => calls'[d] = calls[d]
    BY <1>1, <2>1 DEF CallType
  <2>5. Answered(uses, calls[c]) => Answered(uses', calls'[c])
    BY <1>2, <2>4 DEF Answered
  <2>6. CallLeads(uses', procs', calls'[c])
    BY <1>1, <1>5, <2>1, <2>4, <2>5 DEF CallLeads
  <2> QED BY <1>2, <2>3, <2>4, <2>6, StraightStep
<1>6. CASE GiveUp(c) \/ SSHExit(c) \/ Finish(c) \/ Die(c)
  BY <1>3, <1>6 DEF GiveUp, SSHExit, Finish, Die
<1>7. CASE PortForward(c) \/ SSHReturn(c)
  BY <1>3, <1>4, <1>7 DEF PortForward, SSHReturn, At
<1>8. CASE SSHStart(c)
  BY <1>3, <1>5, <1>8 DEF SSHStart, At
<1> QED BY <1>6, <1>7, <1>8

\* A call begins without a server.
LEMMA StraightBegin ==
    ASSUME Inv, Straight(uses, procs, files, log, calls), NEW c \in Callers, NEW cmd, NEW override,
           NEW namespace, Begin(c, cmd, override, namespace)
    PROVE  Straight(uses', procs', files', log', calls')
<1>1. PICK context, step :
        /\ context = CurrentContext(override)
        /\ step = IF context = NoContext THEN "done" ELSE "get"
  OBVIOUS
<1>2. PICK r : r = [Idle EXCEPT !.pc = step, !.cmd = cmd, !.flag = override, !.context = context,
                                !.namespace = namespace]
  OBVIOUS
<1>3. /\ calls' = [calls EXCEPT ![c] = r]
      /\ procs' = procs /\ files' = files /\ log' = log /\ uses' = uses
  BY <1>1, <1>2 DEF Begin
<1>4. calls'[c] = r /\ \A d \in Callers : d # c => calls'[d] = calls[d]
  BY <1>3, Typed DEF Inv
<1>5. r.pc \in {"done", "get"} /\ r.port = None
  BY <1>1, <1>2 DEF Idle
<1>6. CallLeads(uses', procs', r)
  BY <1>5 DEF CallLeads
<1>7. Steady(uses, procs, uses', procs') /\ OwnPort(uses', procs')
  BY <1>3, SameProcs
<1> QED BY <1>3, <1>4, <1>6, <1>7, StraightStep

\* Every step keeps every port leading to its context.
LEMMA StraightNext ==
    ASSUME Inv, Straight(uses, procs, files, log, calls), [Next]_vars
    PROVE  Straight(uses', procs', files', log', calls')
<1>1. CASE \E p \in Pids : Bind(p) \/ PrintLine(p) \/ Exit(p)
  BY <1>1, StraightProcs
<1>2. CASE \E c \in Callers : \E cmd \in {"api", "ssh", "stop"}, namespace \in Namespaces,
             override \in Flags : Begin(c, cmd, override, namespace)
  BY <1>2, StraightBegin
<1>3. CASE \E c \in Callers : GetTunnel(c) \/ ReuseExisting(c) \/ StopTunnel(c) \/ StartTunnel(c)
  BY <1>3, StraightGet, StraightReuse, StraightStopStart
<1>4. CASE \E c \in Callers : ReadPort(c) \/ NewHealthy(c) \/ SaveTunnel(c)
  BY <1>4, StraightNew
<1>5. CASE \E c \in Callers : \/ GiveUp(c) \/ SSHStart(c) \/ PortForward(c) \/ SSHReturn(c)
                              \/ SSHExit(c) \/ Finish(c) \/ Die(c)
  BY <1>5, StraightEnd
<1>6. CASE UNCHANGED vars \/ \E context \in Contexts : SwitchContext(context)
  BY <1>6 DEF SwitchContext, vars
<1> QED BY <1>1, <1>2, <1>3, <1>4, <1>5, <1>6 DEF Next

\* Every command goes on with a server of the context it asked for or of one
\* with a name alike, unless the system has assigned its local port a second
\* time, however the invocations, deaths and switches of the context follow
\* each other and whichever of them share a state file and a log.  A namespace
\* is not part of it: EnsureServerURL reuses a tunnel whatever namespace it was
\* made for.
THEOREM CommandsReachTheirTarget == Spec => []ReachesTarget
<1> DEFINE Led == Straight(uses, procs, files, log, calls)
<1>1. Init => Led
  <2> SUFFICES ASSUME Init PROVE Straight(uses, procs, files, log, calls)
    OBVIOUS
  <2>1. /\ \A c \in Callers : calls[c] = Idle
        /\ \A p \in Pids : procs[p] = Unused
        /\ \A f \in Names : files[f] = NoInfo /\ log[f] = NoLines
    BY DEF Init
  <2>2. \A k \in {1, 2} : NoLines[k] \notin Ports
    BY DEF NoLines, Ports, None
  <2>3. OwnPort(uses, procs)
    BY <2>1 DEF OwnPort, Unused
  <2> QED BY <2>1, <2>2, <2>3, Constants, IdleLeads DEF Straight, LogLeads, FileLeads
<1>2. Inv /\ Led /\ [Next]_vars => Led'
  BY StraightNext
<1>3. Led => ReachesTarget
  BY DEF Straight, CallLeads, Answered, ReachesTarget, Fits
<1> HIDE DEF Led
<1> QED BY <1>1, <1>2, <1>3, Invariance, PTL DEF Spec
=============================================================================
