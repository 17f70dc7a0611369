--------------------------- MODULE ModelBootstrap ---------------------------
(***************************************************************************)
(* A run of the model client: the model-backed preparation of a workspace  *)
(* (internal/workspace/model_bootstrap.go), a conversation in which the    *)
(* model asks for shell commands, or the planner's single request          *)
(* (planner.go), over the HTTP exchanges of provider.go with their         *)
(* retries.  The provider, the commands and the deadline are the           *)
(* environment.                                                            *)
(*                                                                         *)
(* "background" in Faults lets a command leave a process behind that holds *)
(* the command's output pipe.                                              *)
(***************************************************************************)
EXTENDS ModelClient, FiniteSets

CONSTANTS
    MaxTurns,        \* maxBootstrapTurns
    MaxToolCalls,    \* maxBootstrapToolCalls
    MaxTranscript,   \* maxBootstrapTranscript
    MaxOutput,       \* maxBootstrapOutput
    MaxRetries,      \* maxProviderRetries
    Overhead,        \* bytes of "command failed", of the truncation mark, of a refusal's
                     \* own words
    MaxPerTurn,      \* bound on the calls of one response
    MaxBytes,        \* bound on what a command prints
    MaxQuoted,       \* bound on what a refusal quotes of its call
    Models,          \* Model resources
    Faults

ASSUME BootstrapAssumption ==
    /\ {MaxTurns, MaxToolCalls, MaxTranscript, MaxOutput} \subseteq Nat \ {0}
    /\ {MaxRetries, Overhead, MaxPerTurn, MaxBytes, MaxQuoted} \subseteq Nat
    /\ Faults \subseteq {"background"}

NoID == <<>>

\* Ids the provider gave to calls, and ids the bootstrap makes up.
CallIDs == {NoID} \cup {<<"call", n, i>> : n \in 1..MaxTurns, i \in 1..MaxPerTurn}
SetupIDs == {<<"workspace-setup", n>> : n \in 1..(MaxToolCalls + 1)}

VARIABLES
    mode,        \* "bootstrap" or "plan"
    pc,
    via,         \* what Generate does: an adapter, "fallback" or "error"
    messages,    \* the conversation
    queue,       \* the calls of the last response still to be made
    turn,
    toolCalls,
    transcript,  \* transcriptBytes
    attempt,     \* retries of the current request
    held,        \* a process left behind holds the command's output
    expired,     \* the context's deadline has passed
    result,
    completed    \* history: exchanges of the current request that may have
                 \* been completed by the provider

vars == <<mode, pc, via, messages, queue, turn, toolCalls, transcript, attempt,
          held, expired, result, completed>>

Calls == [id : CallIDs, valid : BOOLEAN]

TypeOK ==
    /\ mode \in {"bootstrap", "plan"}
    /\ pc \in {"start", "generate", "post", "retry", "respond", "tools", "command", "done"}
    /\ via \in {"openai", "anthropic", "google", "fallback", "error"}
    /\ messages \in Seq([role : {"system", "user", "assistant", "tool"},
                         calls : Seq(CallIDs), id : CallIDs \cup SetupIDs])
    /\ queue \in Seq(Calls)
    /\ turn \in 0..MaxTurns
    /\ toolCalls \in Nat
    /\ transcript \in Nat
    /\ attempt \in 0..MaxRetries
    /\ held \in BOOLEAN
    /\ expired \in BOOLEAN
    /\ result \in {"none", "prepared", "failed", "antigravity", "planned"}
    /\ completed \in Nat

Init ==
    /\ mode \in {"bootstrap", "plan"}
    /\ pc = "start"
    /\ via = "error"
    /\ messages = <<>>
    /\ queue = <<>>
    /\ turn = 0
    /\ toolCalls = 0
    /\ transcript = 0
    /\ attempt = 0
    /\ held = FALSE
    /\ expired = FALSE
    /\ result = "none"
    /\ completed = 0

-----------------------------------------------------------------------------
Done(r) == pc' = "done" /\ result' = r

talk == <<messages, queue, turn, toolCalls, transcript>>
exchange == <<attempt, completed>>

\* A Model that cannot be parsed, or read from the store.
Unreadable == [atespace |-> "unreadable"]

\* modelBootstrapSelected: a Model that cannot be parsed is left to
\* runModelBootstrap, which then fails.
modelBootstrapSelected(m) ==
    CASE m = NotFound     -> FALSE
      [] m = Unreadable   -> TRUE
      [] OTHER -> protocolFor(ConfigFromCRD(m).provider, ConfigFromCRD(m).protocol) # "google"

\* The client of the bootstrap has the key the controller resolved and no
\* reference to a secret.
BootstrapClient(m, key) ==
    NewClient([ConfigFromCRD(m) EXCEPT !.apiKey = key, !.secret = FALSE], {})

StartBootstrap(m, key) ==
    /\ pc = "start"
    /\ mode = "bootstrap"
    /\ \/ ~modelBootstrapSelected(m) /\ Done("antigravity") /\ UNCHANGED <<via, messages>>
       \/ m = Unreadable /\ Done("failed") /\ UNCHANGED <<via, messages>>
       \/ /\ m # Unreadable /\ modelBootstrapSelected(m)
          /\ via' = GenerateVia(BootstrapClient(m, key), TRUE)
          /\ messages' = <<System, User>>
          /\ pc' = "generate"
          /\ UNCHANGED result
    /\ UNCHANGED <<mode, queue, turn, toolCalls, transcript, exchange, held, expired>>

\* NewPlannerFromStore and PlanEnvironment: one prompt, no messages.
StartPlan(m, secrets) ==
    /\ pc = "start"
    /\ mode = "plan"
    /\ \/ m = Unreadable /\ Done("failed") /\ UNCHANGED via
       \/ /\ m # Unreadable
          /\ via' = GenerateVia(NewDefaultClientFromStore(m, secrets), FALSE)
          /\ pc' = "generate"
          /\ UNCHANGED result
    /\ UNCHANGED <<mode, talk, exchange, held, expired>>

\* Generate, up to the first exchange.
Generate ==
    /\ pc = "generate"
    /\ attempt' = 0
    /\ completed' = 0
    /\ \/ via = "error" /\ Done("failed")
       \/ via \notin {"error", "fallback"} /\ pc' = "post" /\ UNCHANGED result
    /\ UNCHANGED <<mode, via, talk, held, expired>>

\* The canned answer when Google has no key.  Only the planner gets it.
fallbackResponse ==
    /\ pc = "generate"
    /\ via = "fallback"
    /\ Done("planned")
    /\ UNCHANGED <<mode, via, talk, exchange, held, expired>>

\* "lost": a transport error or a timeout, whatever the provider has done.
Answers == IF expired THEN {"lost"} ELSE {"ok", "busy", "refused", "lost"}

\* Mutant: one retry too many.
MayRetryLate(answer) == retryableStatus(answer) /\ attempt <= MaxRetries

MayRetry(answer) == retryableStatus(answer) /\ attempt < MaxRetries

\* Mutant: transport errors are retried too.
postJSONReplays(answer) ==
    /\ pc = "post"
    /\ via # "google"
    /\ answer \in Answers
    /\ completed' = IF answer \in {"ok", "lost"} THEN completed + 1 ELSE completed
    /\ \/ answer = "ok" /\ pc' = "respond" /\ UNCHANGED result
       \/ answer \in {"busy", "lost"} /\ attempt < MaxRetries /\ pc' = "retry" /\ UNCHANGED result
       \/ answer # "ok" /\ (answer = "refused" \/ attempt = MaxRetries) /\ Done("failed")
    /\ UNCHANGED <<mode, via, talk, attempt, held, expired>>

\* Mutant: every failure is retried, and the count starts over each time.
postJSONForever(answer) ==
    /\ pc = "post"
    /\ via # "google"
    /\ answer \in Answers
    /\ attempt' = 0
    /\ IF answer = "ok" THEN pc' = "respond" ELSE pc' = "retry"
    /\ UNCHANGED <<mode, via, talk, completed, held, expired, result>>

\* One exchange of postJSON.
postJSON(answer) ==
    /\ pc = "post"
    /\ via # "google"
    /\ answer \in Answers
    /\ completed' = IF answer \in {"ok", "lost"} THEN completed + 1 ELSE completed
    /\ \/ answer = "ok" /\ pc' = "respond" /\ UNCHANGED result
       \/ MayRetry(answer) /\ pc' = "retry" /\ UNCHANGED result
       \/ answer # "ok" /\ ~MayRetry(answer) /\ Done("failed")
    /\ UNCHANGED <<mode, via, talk, attempt, held, expired>>

\* The only exchange of generateGoogle, which retries nothing.
generateGoogle(answer) ==
    /\ pc = "post"
    /\ via = "google"
    /\ answer \in Answers
    /\ completed' = IF answer \in {"ok", "lost"} THEN completed + 1 ELSE completed
    /\ IF answer = "ok" THEN pc' = "respond" /\ UNCHANGED result ELSE Done("failed")
    /\ UNCHANGED <<mode, via, talk, attempt, held, expired>>

\* The delay ends, or the context does: when both have, either may win.
waitForProviderRetry ==
    /\ pc = "retry"
    /\ \/ expired /\ Done("failed") /\ UNCHANGED attempt
       \/ attempt' = attempt + 1 /\ pc' = "post" /\ UNCHANGED result
    /\ UNCHANGED <<mode, via, talk, completed, held, expired>>

IDs(calls) == [i \in 1..Len(calls) |-> calls[i].id]

\* The response asks for commands: at least one call, with ids or without.
RespondCalls(calls) ==
    /\ pc = "respond"
    /\ mode = "bootstrap"
    /\ messages' = Append(messages, Assistant(IDs(calls)))
    /\ queue' = calls
    /\ pc' = "tools"
    /\ UNCHANGED <<mode, via, turn, toolCalls, transcript, exchange, held, expired, result>>

\* It has no calls.  text: "none" when it also has no text or cannot be read,
\* "blank" when it has nothing but spaces.
RespondText(text) ==
    /\ pc = "respond"
    /\ CASE mode = "plan" /\ (text # "none" \/ via = "google") -> Done("planned")
         [] mode = "bootstrap" /\ text = "words"               -> Done("prepared")
         [] OTHER                                              -> Done("failed")
    /\ UNCHANGED <<mode, via, talk, exchange, held, expired>>

-----------------------------------------------------------------------------
(* The calls of a response, one after the other.                           *)

\* The last call has been made: the next turn, unless it was the last.
EndTurn ==
    /\ pc = "tools"
    /\ queue = <<>>
    /\ turn' = turn + 1
    /\ IF turn + 1 < MaxTurns THEN pc' = "generate" /\ UNCHANGED result ELSE Done("failed")
    /\ UNCHANGED <<mode, via, messages, queue, toolCalls, transcript, exchange, held, expired>>

\* Mutant: the limit is met one call late.
OverLimitLate == toolCalls >= MaxToolCalls + 1 \/ transcript >= MaxTranscript

OverLimit == toolCalls >= MaxToolCalls \/ transcript >= MaxTranscript

CallOverLimit ==
    /\ pc = "tools"
    /\ queue # <<>>
    /\ OverLimit
    /\ toolCalls' = toolCalls + 1
    /\ Done("failed")
    /\ UNCHANGED <<mode, via, messages, queue, turn, transcript, exchange, held, expired>>

Min2(a, b) == IF a < b THEN a ELSE b

outputLimit == Min2(MaxOutput, MaxTranscript - transcript)

\* limitedOutput: what is kept of n bytes, with a mark if that is not all.
limitedOutput(n, limit) == Min2(n, limit) + IF n > limit THEN Overhead ELSE 0

Answer(id, bytes) ==
    /\ messages' = Append(messages, ToolResult(id))
    /\ transcript' = transcript + bytes
    /\ queue' = Tail(queue)

\* A call without an id is answered under one that is made up here; the
\* assistant's message keeps the empty one.
AnswerID(call, n) == IF call.id = NoID THEN <<"workspace-setup", n>> ELSE call.id

\* Another tool, unreadable arguments, no command or too long a command.  The
\* refusal quotes the tool's name or the offending value, which may have any
\* length: outputLimit does not apply to it.
RefuseCall(quoted) ==
    /\ pc = "tools"
    /\ queue # <<>>
    /\ ~OverLimit
    /\ ~Head(queue).valid
    /\ toolCalls' = toolCalls + 1
    /\ Answer(AnswerID(Head(queue), toolCalls + 1), Overhead + quoted)
    /\ UNCHANGED <<mode, pc, via, turn, exchange, held, expired, result>>

StartCommand ==
    /\ pc = "tools"
    /\ queue # <<>>
    /\ ~OverLimit
    /\ Head(queue).valid
    /\ toolCalls' = toolCalls + 1
    /\ pc' = "command"
    /\ held' \in IF "background" \in Faults /\ ~expired THEN BOOLEAN ELSE {FALSE}
    /\ UNCHANGED <<mode, via, messages, queue, turn, transcript, exchange, expired, result>>

\* cmd.Run returns once the shell has ended or was killed, and its output is
\* closed.  After the deadline it is killed or not even started.
EndCommand(n, failed) ==
    /\ pc = "command"
    /\ ~held
    /\ expired => failed
    /\ Answer(AnswerID(Head(queue), toolCalls),
              limitedOutput(n, outputLimit) + IF failed THEN Overhead ELSE 0)
    /\ pc' = "tools"
    /\ UNCHANGED <<mode, via, turn, toolCalls, exchange, held, expired, result>>

\* The process left behind ends, if it ever does.
Release ==
    /\ held
    /\ held' = FALSE
    /\ UNCHANGED <<mode, pc, via, talk, exchange, expired, result>>

\* The bootstrap's timeout, or the runner stops.
Expire ==
    /\ pc \notin {"start", "done"}
    /\ ~expired
    /\ expired' = TRUE
    /\ UNCHANGED <<mode, pc, via, talk, exchange, held, result>>

\* What a provider may ask for in this turn: up to MaxPerTurn calls, some with
\* an id and some the bootstrap can run.
Responses ==
    UNION {{[n \in 1..k |-> [id |-> IF n \in named THEN <<"call", turn + 1, n>> ELSE NoID,
                             valid |-> n \in valid]] :
              named \in SUBSET (1..k), valid \in SUBSET (1..k)} :
           k \in 1..MaxPerTurn}

Secrets == SUBSET (SecretSources \X {DefaultAtespace})

Step ==
    \/ pc = "start" /\ \E m \in Models \cup {NotFound, Unreadable} :
         \/ \E key \in BOOLEAN : StartBootstrap(m, key)
         \/ \E secrets \in Secrets : StartPlan(m, secrets)
    \/ Generate \/ fallbackResponse \/ waitForProviderRetry
    \/ \E answer \in {"ok", "busy", "refused", "lost"} : postJSON(answer) \/ generateGoogle(answer)
    \/ pc = "respond" /\ \E calls \in Responses : RespondCalls(calls)
    \/ \E text \in {"none", "blank", "words"} : RespondText(text)
    \/ EndTurn \/ CallOverLimit \/ StartCommand
    \/ \E quoted \in 0..MaxQuoted : RefuseCall(quoted)
    \/ \E n \in 0..MaxBytes, failed \in BOOLEAN : EndCommand(n, failed)

Next == Step \/ Release \/ Expire

Spec == Init /\ [][Next]_vars

\* The program goes on, every exchange ends within the HTTP client's timeout,
\* and a command that leaves nothing behind is killed after two minutes.
FairSpec == Spec /\ WF_vars(Step) /\ WF_vars(Expire)
-----------------------------------------------------------------------------
(* Properties.                                                             *)

Wire == IF via = "anthropic" THEN anthropicMessages(messages) ELSE openAIMessages(messages)

\* A result answers a call under the call's id.  A call the provider gave no id
\* is answered under one that is made up, which no call of the request has.
Answers_(call, res) == IF call = NoID THEN res \in SetupIDs ELSE res = call

\* In every request of the bootstrap the calls of an assistant message are
\* followed at once by their results, in order, one for each, and there is no
\* result anywhere else; a call that has an id is answered under it.
\* Anthropic's messages start with the user and alternate (openAIMessages,
\* anthropicMessages, runModelBootstrap).  That a provider can match the result
\* of a call it gave no id is not claimed: runModelBootstrap (:131) makes the
\* id up for the result only.
CallsAnswered ==
    pc = "post" /\ mode = "bootstrap" =>
        LET wire == Wire
            results == [i \in 1..Len(wire) |->
                IF via = "anthropic" THEN IF i < Len(wire) THEN wire[i + 1].results ELSE <<>>
                ELSE [j \in 1..Min2(Len(wire[i].calls), Len(wire) - i) |->
                        IF wire[i + j].results = <<>> THEN <<"nothing">>
                                                      ELSE wire[i + j].results[1]]]
        IN /\ \A i \in 1..Len(wire) : wire[i].calls # <<>> =>
                /\ Len(results[i]) = Len(wire[i].calls)
                /\ \A j \in 1..Len(results[i]) : Answers_(wire[i].calls[j], results[i][j])
           /\ \A i \in 1..Len(wire) : wire[i].results # <<>> =>
                \E p \in 1..(i - 1) :
                    IF via = "anthropic" THEN p = i - 1 /\ wire[p].calls # <<>>
                    ELSE i - p <= Len(wire[p].calls)
           /\ via = "anthropic" =>
                /\ wire[1].role = "user"
                /\ \A i \in 1..(Len(wire) - 1) : wire[i].role # wire[i + 1].role

\* "one bounded run_command tool loop" (docs/manifests.md): however the
\* responses, refusals and truncated outputs meet the limits, the conversation
\* never holds more results than MaxToolCalls, nor more of their bytes than
\* MaxTranscript and what is added uncut to the last of them: the texts around
\* an output, or a refusal with what it quotes.  The code sets no limit to the
\* latter (executeWorkspaceCommand, :160), so that the whole is bounded only as
\* far as a provider's calls are.
LoopBounded ==
    /\ Cardinality({i \in 1..Len(messages) : messages[i].role = "tool"}) <= MaxToolCalls
    /\ Cardinality({i \in 1..Len(messages) : messages[i].role = "assistant"}) <= MaxTurns
    /\ transcript <= MaxTranscript + Overhead + (IF Overhead < MaxQuoted THEN MaxQuoted ELSE Overhead)

\* "They do not retry network timeouts because a provider may have completed
\* the request before the connection failed" (docs/manifests.md): no request
\* is sent again once an exchange may have completed it.
NotReplayed == completed <= 1 /\ (completed = 1 => pc \notin {"post", "retry"})

\* However retries, turns and calls follow each other, once the time is over
\* the client's run ends, unless a process a command left behind holds the
\* command's output (runModelBootstrap, waitForProviderRetry).  The exception
\* is the code's: executeWorkspaceCommand (:184) sets no WaitDelay, so cmd.Run
\* waits for every process that inherited the pipe, although docs/sandbox.md:11
\* gives the bootstrap "10 minutes by default".
BootstrapEnds == expired ~> (pc = "done" \/ held)
=============================================================================
