---------------------------- MODULE ModelClient -----------------------------
(***************************************************************************)
(* How the model client (internal/model/client.go and provider.go) turns a *)
(* Model resource into requests: the configuration it derives, the         *)
(* protocol adapter it picks or the error or canned answer it gives        *)
(* instead, and the form a conversation takes on the wire.                 *)
(*                                                                         *)
(* Names are compared after strings.ToLower and TrimSpace.  Keys, headers, *)
(* generation parameters and texts are left out, except whether there is a *)
(* key, whether parameters ask for streaming, and whether a text is blank. *)
(***************************************************************************)
EXTENDS Naturals, Sequences

DefaultAtespace == "default"
DefaultModel == "gemini"

\* Absolute HTTP(S) URLs without credentials, in the place of all of them.
ValidURLs == {"https://custom"}

\* The protocol a Model is spoken to with.
protocolFor(provider, protocol) ==
    CASE protocol # ""                  -> protocol
      [] provider \in {"", "google"}    -> "google"
      [] provider = "anthropic"         -> "anthropic"
      [] OTHER                          -> "openai"

DefaultConfig ==
    [provider |-> "google", protocol |-> "", model |-> DefaultModel, baseURL |-> "",
     atespace |-> DefaultAtespace, secret |-> TRUE, apiKey |-> FALSE, streaming |-> FALSE]

\* A Model without a spec is the default one.
NoSpec == [provider |-> "none"]

ConfigFromSpec(spec) ==
    IF spec = NoSpec THEN DefaultConfig
    ELSE [provider |-> spec.provider, protocol |-> spec.protocol, model |-> spec.model,
          baseURL |-> spec.baseURL, atespace |-> DefaultAtespace,
          secret |-> spec.secret \/ protocolFor(spec.provider, spec.protocol) = "google",
          apiKey |-> FALSE, streaming |-> spec.streaming]

\* No resource: GetModel returns ErrNotFound, or the variable is not set.
NotFound == [atespace |-> "not found"]

\* m.atespace is "" when the resource has no metadata or no atespace.
ConfigFromCRD(m) ==
    LET cfg == ConfigFromSpec(m.spec) IN
    IF m.atespace = "" THEN cfg ELSE [cfg EXCEPT !.atespace = m.atespace]

-----------------------------------------------------------------------------
\* The secrets that exist and can be read, as <<source, namespace>>: from the
\* API server with the pod's service account, or else through kubectl.
SecretSources == {"api", "kubectl"}

GetKubernetesSecret(secrets, namespace) ==
    \E source \in SecretSources : <<source, namespace>> \in secrets

resolveAPIKey(cfg, secrets) ==
    cfg.apiKey \/ (cfg.secret /\ GetKubernetesSecret(secrets, cfg.atespace))

NewClient(cfg, secrets) ==
    LET protocol == protocolFor(cfg.provider, cfg.protocol)
        named    == IF cfg.provider = "" THEN [cfg EXCEPT !.provider = protocol] ELSE cfg
        \* With the provider named, an empty protocol still gives the same one.
        google   == protocolFor(named.provider, named.protocol) = "google"
        filled   == [named EXCEPT !.model = IF google /\ @ = "" THEN DefaultModel ELSE @,
                                  !.secret = @ \/ google]
    IN [filled EXCEPT !.apiKey = resolveAPIKey(filled, secrets)]

\* NewDefaultClientFromStore: a missing default-model means the defaults; no
\* client when the store fails.  m is what GetModel returned.
NewDefaultClientFromStore(m, secrets) ==
    NewClient(IF m = NotFound THEN DefaultConfig ELSE ConfigFromCRD(m), secrets)

\* The base URL a request goes to, "" for a configuration error.
baseURLFor(cfg, protocol) ==
    CASE cfg.baseURL # ""         -> IF cfg.baseURL \in ValidURLs THEN cfg.baseURL ELSE ""
      [] protocol = "google"      -> "https://generativelanguage.googleapis.com"
      [] protocol = "anthropic"   -> "https://api.anthropic.com"
      [] protocol = "openai" /\ cfg.provider \in {"", "openai"} -> "https://api.openai.com/v1"
      [] protocol = "openai" /\ cfg.provider = "openrouter" -> "https://openrouter.ai/api/v1"
      [] OTHER                    -> ""

\* adapterFor, and what an adapter refuses before it sends anything.
adapterFor(cfg, protocol) ==
    IF \/ protocol \notin {"openai", "anthropic", "google"}
       \/ protocol = "anthropic" /\ ~cfg.apiKey
       \/ baseURLFor(cfg, protocol) = ""
       \/ cfg.streaming /\ protocol # "google"
    THEN "error" ELSE protocol

\* What Generate does with a request: the adapter it is sent with, "fallback"
\* for the canned answer, or "error".  chat: it has messages and tools.
GenerateVia(cfg, chat) ==
    LET protocol == protocolFor(cfg.provider, cfg.protocol) IN
    CASE protocol = "google" /\ chat            -> "error"
      [] protocol # "google" /\ cfg.model = ""  -> "error"
      [] protocol = "google" /\ ~cfg.apiKey     -> "fallback"
      [] OTHER                                  -> adapterFor(cfg, protocol)

-----------------------------------------------------------------------------
(* Conversations.                                                          *)

System == [role |-> "system", calls |-> <<>>, id |-> <<>>]
User == [role |-> "user", calls |-> <<>>, id |-> <<>>]
Assistant(ids) == [role |-> "assistant", calls |-> ids, id |-> <<>>]
ToolResult(id) == [role |-> "tool", calls |-> <<>>, id |-> id]

\* The messages of a request: its own, or one made of its prompt.
requestMessages(messages) == IF messages # <<>> THEN messages ELSE <<System, User>>

\* On the wire a message has a role, the ids of the calls it asks for and the
\* ids of the calls it answers.
openAIMessages(request) ==
    LET messages == requestMessages(request) IN
    [i \in 1..Len(messages) |->
        [role |-> messages[i].role, calls |-> messages[i].calls,
         results |-> IF messages[i].role = "tool" THEN <<messages[i].id>> ELSE <<>>]]

IsTool(messages, i) == messages[i].role = "tool"

\* The last of the tool messages that follow each other from i on.
RunEnd(messages, i) ==
    CHOOSE j \in i..Len(messages) :
        /\ \A k \in i..j : IsTool(messages, k)
        /\ j = Len(messages) \/ ~IsTool(messages, j + 1)

\* Mutant: every tool message becomes a user message of its own.
BlockStartsSingle(messages) ==
    SelectSeq([i \in 1..Len(messages) |-> i], LAMBDA i : messages[i].role # "system")

\* The messages that start one on Anthropic's wire: system messages are taken
\* out, and consecutive tool messages become one.
BlockStarts(messages) ==
    SelectSeq([i \in 1..Len(messages) |-> i],
              LAMBDA i : /\ messages[i].role # "system"
                         /\ ~ (i > 1 /\ IsTool(messages, i) /\ IsTool(messages, i - 1)))

anthropicMessages(request) ==
    LET messages == requestMessages(request)
        starts   == BlockStarts(messages)
        Block(i) ==
            IF IsTool(messages, i)
            THEN [role |-> "user", calls |-> <<>>,
                  results |-> [k \in 1..(RunEnd(messages, i) - i + 1) |-> messages[i + k - 1].id]]
            ELSE [role |-> messages[i].role, calls |-> messages[i].calls, results |-> <<>>]
    IN [n \in 1..Len(starts) |-> Block(starts[n])]

\* 429, 502, 503 and 504; other statuses, and a failed exchange, are final.
retryableStatus(answer) == answer = "busy"
=============================================================================
