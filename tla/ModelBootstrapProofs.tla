------------------------ MODULE ModelBootstrapProofs ------------------------
(***************************************************************************)
(* Theorems about ModelBootstrap for all limits, any set of Models and any *)
(* responses a provider may give.                                          *)
(***************************************************************************)
EXTENDS ModelBootstrap, FiniteSetTheorems, TLAPS

-----------------------------------------------------------------------------
(* The inductive invariant.                                                *)

MessageType == [role : {"system", "user", "assistant", "tool"},
                calls : Seq(CallIDs), id : CallIDs \cup SetupIDs]

\* The messages of a role.
Positions(ms, r) == {i \in 1..Len(ms) : ms[i].role = r}
Count(ms, r) == Cardinality(Positions(ms, r))

\* Until the run is over no limit has been passed, a command has a call that
\* asked for it, and calls wait only while a response is worked through.
Progress ==
    /\ pc # "done" => turn < MaxTurns /\ toolCalls <= MaxToolCalls
    /\ pc = "command" => queue # <<>> /\ toolCalls >= 1 /\ transcript < MaxTranscript
    /\ pc = "retry" => attempt < MaxRetries
    /\ pc \notin {"tools", "command", "done"} => queue = <<>>
    /\ mode = "bootstrap" /\ pc \notin {"start", "done"} => messages # <<>>

\* The most that is added to an answer's own words without being cut.
Uncut == IF Overhead < MaxQuoted THEN MaxQuoted ELSE Overhead

\* The counters are ahead of the conversation: by one while a command runs,
\* and the turn behind it by one while a response is worked through.
Counted ==
    /\ pc # "done" => Count(messages, "tool") <= toolCalls
    /\ pc = "command" => Count(messages, "tool") + 1 <= toolCalls
    /\ pc # "done" => Count(messages, "assistant") <= turn + 1
    /\ pc \notin {"tools", "command", "done"} => Count(messages, "assistant") <= turn
    /\ Count(messages, "tool") <= MaxToolCalls
    /\ Count(messages, "assistant") <= MaxTurns
    /\ transcript <= MaxTranscript + Overhead + Uncut

\* The j-th message after one that asks for calls answers the j-th of them, or
\* is still to come and its call is in the queue.
Paired(ms, q, i, j) ==
    \/ /\ i + j <= Len(ms)
       /\ ms[i + j].role = "tool"
       /\ Answers_(ms[i].calls[j], ms[i + j].id)
    \/ /\ i + j > Len(ms)
       /\ i + j - Len(ms) <= Len(q)
       /\ q[i + j - Len(ms)].id = ms[i].calls[j]

\* A tool message at i, or the next one to come, is one of the results that a
\* message before it waits for.
Expected(ms, i) == \E p \in 1..(i - 1) : i - p <= Len(ms[p].calls)

\* The calls still to be made are the last ones of the message they came with.
Waiting(ms, q) == \E p \in 1..Len(ms) : Len(ms[p].calls) = Len(ms) - p + Len(q)

Conversation(ms, q) ==
    /\ \A i \in 1..Len(ms) : \A j \in 1..Len(ms[i].calls) : Paired(ms, q, i, j)
    /\ \A i \in 1..Len(ms) : ms[i].role = "tool" => Expected(ms, i)
    /\ q # <<>> => Waiting(ms, q)

Inv == TypeOK /\ Progress /\ Counted /\ NotReplayed /\ Conversation(messages, queue)
-----------------------------------------------------------------------------
(* Operators.                                                              *)

\* A sequence with one more element.
LEMMA AppendFacts ==
    ASSUME NEW S, NEW s \in Seq(S), NEW x \in S
    PROVE  Append(s, x) \in Seq(S) /\ Append(s, x) # <<>>
<1>1. Append(s, x) \in Seq(S) /\ Len(Append(s, x)) = Len(s) + 1 /\ Len(s) \in Nat
  OBVIOUS
<1> QED BY <1>1

\* The messages of a role are finitely many, and one more message of it
\* raises their number by one.
LEMMA CountAppend ==
    ASSUME NEW S, NEW ms \in Seq(S), NEW m \in S, NEW r
    PROVE  /\ Count(ms, r) \in Nat
           /\ Count(Append(ms, m), r) = IF m.role = r THEN Count(ms, r) + 1 ELSE Count(ms, r)
<1> DEFINE ps == Positions(ms, r)
<1>1. Len(ms) \in Nat
  OBVIOUS
<1>2. IsFiniteSet(1..Len(ms)) /\ ps \in SUBSET (1..Len(ms))
  BY <1>1, FS_Interval DEF Positions
<1>3. IsFiniteSet(ps)
  BY <1>2, FS_Subset
<1>4. Cardinality(ps) \in Nat
  BY <1>3, FS_CardinalityType
<1>5. Len(ms) + 1 \notin ps
  BY <1>1, <1>2
<1>6. Positions(Append(ms, m), r) = IF m.role = r THEN ps \cup {Len(ms) + 1} ELSE ps
  BY <1>1 DEF Positions
<1>7. Cardinality(ps \cup {Len(ms) + 1}) = Cardinality(ps) + 1
  BY <1>3, <1>5, FS_AddElement
<1> QED BY <1>4, <1>6, <1>7 DEF Count

\* The conversation a bootstrap starts with, and the empty one.
LEMMA CountStart ==
    ASSUME NEW r \in {"tool", "assistant"}
    PROVE  Count(<<>>, r) = 0 /\ Count(<<System, User>>, r) = 0
<1>1. Positions(<<>>, r) = {}
  BY DEF Positions
<1>2. Positions(<<System, User>>, r) = {}
  <2>1. <<System, User>>[1] = System /\ <<System, User>>[2] = User /\ Len(<<System, User>>) = 2
    OBVIOUS
  <2>2. System.role # r /\ User.role # r
    BY DEF System, User
  <2> QED BY <2>1, <2>2 DEF Positions
<1> QED BY <1>1, <1>2, FS_EmptySet DEF Count

\* What a Model is talked to with is an adapter, the canned answer or an error.
LEMMA GenerateViaRange ==
    ASSUME NEW cfg, NEW chat \in BOOLEAN
    PROVE  GenerateVia(cfg, chat) \in {"openai", "anthropic", "google", "fallback", "error"}
<1>1. adapterFor(cfg, protocolFor(cfg.provider, cfg.protocol))
         \in {"openai", "anthropic", "google", "error"}
  BY DEF adapterFor
<1> QED BY <1>1 DEF GenerateVia

\* A response asks for calls of the present turn.
LEMMA ResponsesFacts ==
    ASSUME TypeOK, turn < MaxTurns, NEW calls \in Responses
    PROVE  /\ calls \in Seq(Calls)
           /\ IDs(calls) \in Seq(CallIDs)
           /\ Len(IDs(calls)) = Len(calls)
           /\ \A j \in 1..Len(calls) : IDs(calls)[j] = calls[j].id
<1> DEFINE Response(k, named, valid) ==
             [n \in 1..k |-> [id |-> IF n \in named THEN <<"call", turn + 1, n>> ELSE NoID,
                              valid |-> n \in valid]]
           Some(k) == {Response(k, named, valid) :
                         named \in SUBSET (1..k), valid \in SUBSET (1..k)}
<1>0. Responses = UNION {Some(k) : k \in 1..MaxPerTurn}
  BY DEF Responses
<1>1. PICK k \in 1..MaxPerTurn : calls \in Some(k)
  <2> HIDE DEF Some
  <2> QED BY <1>0
<1>2. PICK named \in SUBSET (1..k), valid \in SUBSET (1..k) :
        calls = Response(k, named, valid)
  <2> HIDE DEF Response
  <2> QED BY <1>1
<1>3. k \in Nat /\ MaxPerTurn \in Nat /\ MaxTurns \in Nat /\ turn + 1 \in 1..MaxTurns
  BY BootstrapAssumption DEF TypeOK
<1>4. \A n \in 1..k : (IF n \in named THEN <<"call", turn + 1, n>> ELSE NoID) \in CallIDs
  <2> TAKE n \in 1..k
  <2>1. n \in 1..MaxPerTurn
    BY <1>1, <1>3
  <2> QED BY <2>1, <1>3 DEF CallIDs
<1>5. \A n \in 1..k : calls[n] \in Calls
  BY <1>2, <1>4 DEF Calls
<1>6. calls \in Seq(Calls) /\ Len(calls) = k
  BY <1>2, <1>3, <1>5
<1>7. \A n \in 1..k : calls[n].id \in CallIDs
  BY <1>5 DEF Calls
<1>8. IDs(calls) = [i \in 1..k |-> calls[i].id]
  BY <1>6 DEF IDs
<1>9. IDs(calls) \in Seq(CallIDs) /\ Len(IDs(calls)) = k
  BY <1>3, <1>7, <1>8
<1> QED BY <1>6, <1>8, <1>9

\* The answer to a call has its id, or one made up.
LEMMA AnswerIDFacts ==
    ASSUME NEW call \in Calls, NEW n \in 1..(MaxToolCalls + 1)
    PROVE  /\ AnswerID(call, n) \in CallIDs \cup SetupIDs
           /\ Answers_(call.id, AnswerID(call, n))
  BY DEF AnswerID, Calls, SetupIDs, Answers_, NoID

\* The conversation grows by an answer to the first call of the queue.
LEMMA ConversationAnswer ==
    ASSUME NEW ms \in Seq(MessageType), NEW q \in Seq(Calls), q # <<>>, Conversation(ms, q),
           NEW id \in CallIDs \cup SetupIDs, Answers_(Head(q).id, id)
    PROVE  Conversation(Append(ms, ToolResult(id)), Tail(q))
<1> DEFINE nx == Append(ms, ToolResult(id))
<1>1. /\ Len(ms) \in Nat /\ Len(nx) = Len(ms) + 1
      /\ \A i \in 1..Len(ms) : nx[i] = ms[i]
      /\ nx[Len(ms) + 1] = ToolResult(id)
  OBVIOUS
<1>2. /\ Len(q) \in Nat \ {0} /\ Len(Tail(q)) = Len(q) - 1 /\ Head(q) = q[1]
      /\ \A k \in 1..Len(Tail(q)) : Tail(q)[k] = q[k + 1]
  OBVIOUS
<1>a. PICK p \in 1..Len(ms) : Len(ms[p].calls) = Len(ms) - p + Len(q)
  BY DEF Conversation, Waiting
<1>b. p \in 1..Len(ms) /\ p \in Nat /\ nx[p] = ms[p]
  BY <1>1, <1>a
<1>c. Waiting(nx, Tail(q))
  <2> HIDE DEF nx
  <2>1. p \in 1..Len(nx) /\ Len(nx[p].calls) = Len(nx) - p + Len(Tail(q))
    BY <1>1, <1>2, <1>a, <1>b
  <2> QED BY <2>1 DEF Waiting
<1>d. ASSUME NEW i \in 1..Len(nx), nx[i].role = "tool"
      PROVE  Expected(nx, i)
  <2> HIDE DEF nx
  <2>1. CASE i = Len(ms) + 1
    <3>1. p \in 1..(i - 1) /\ i - p <= Len(nx[p].calls)
      BY <1>1, <1>2, <1>a, <1>b, <2>1
    <3> QED BY <3>1 DEF Expected
  <2>2. CASE i # Len(ms) + 1
    <3>1. i \in 1..Len(ms) /\ nx[i] = ms[i] /\ i \in Nat
      BY <1>1, <2>2
    <3>2. PICK r \in 1..(i - 1) : i - r <= Len(ms[r].calls)
      BY <1>d, <3>1 DEF Conversation, Expected
    <3>3. r \in 1..Len(ms) /\ nx[r] = ms[r]
      BY <1>1, <3>1, <3>2
    <3> QED BY <3>2, <3>3 DEF Expected
  <2> QED BY <2>1, <2>2
<1> SUFFICES ASSUME NEW i \in 1..Len(nx), NEW j \in 1..Len(nx[i].calls)
             PROVE  Paired(nx, Tail(q), i, j)
  BY <1>c, <1>d DEF Conversation
<1>3. i # Len(ms) + 1
  <2> SUFFICES ASSUME i = Len(ms) + 1 PROVE FALSE
    OBVIOUS
  <2>1. nx[i].calls = <<>>
    BY <1>1 DEF ToolResult
  <2> QED BY <2>1
<1>4. i \in 1..Len(ms) /\ nx[i] = ms[i]
  BY <1>1, <1>3
<1>5. j \in 1..Len(ms[i].calls) /\ Paired(ms, q, i, j)
  BY <1>4 DEF Conversation
<1>6. ms[i] \in MessageType /\ ms[i].calls \in Seq(CallIDs)
  <2>1. ms[i] \in MessageType
    BY <1>1, <1>4
  <2> QED BY <2>1 DEF MessageType
<1>7. i \in Nat /\ j \in Nat
  BY <1>1, <1>4, <1>5, <1>6
<1> HIDE DEF nx
<1>8. CASE i + j <= Len(ms)
  BY <1>1, <1>4, <1>5, <1>7, <1>8 DEF Paired
<1>9. CASE i + j = Len(ms) + 1
  <2>1. q[1].id = ms[i].calls[j]
    BY <1>1, <1>5, <1>7, <1>9 DEF Paired
  <2>2. nx[i + j].role = "tool" /\ nx[i + j].id = id
    BY <1>1, <1>9 DEF ToolResult
  <2> QED BY <1>1, <1>2, <1>4, <1>7, <1>9, <2>1, <2>2 DEF Paired
<1>10. CASE i + j > Len(ms) + 1
  <2>1. /\ i + j - Len(ms) <= Len(q)
        /\ q[i + j - Len(ms)].id = ms[i].calls[j]
    BY <1>1, <1>5, <1>7, <1>10 DEF Paired
  <2>2. /\ i + j - Len(nx) \in 1..Len(Tail(q))
        /\ i + j - Len(nx) + 1 = i + j - Len(ms)
    BY <1>1, <1>2, <1>7, <1>10, <2>1
  <2>3. Tail(q)[i + j - Len(nx)] = q[i + j - Len(ms)]
    BY <1>2, <2>2
  <2> QED BY <1>1, <1>4, <1>7, <1>10, <2>1, <2>2, <2>3 DEF Paired
<1>11. i + j \in Nat /\ Len(ms) \in Nat
  BY <1>1, <1>7
<1>12. i + j <= Len(ms) \/ i + j = Len(ms) + 1 \/ i + j > Len(ms) + 1
  BY <1>11
<1> QED BY <1>8, <1>9, <1>10, <1>12

\* A response is added once every call before it has been answered.
LEMMA ConversationAsk ==
    ASSUME NEW ms \in Seq(MessageType), Conversation(ms, <<>>),
           NEW q \in Seq(Calls), NEW ids \in Seq(CallIDs), Len(ids) = Len(q),
           \A j \in 1..Len(q) : ids[j] = q[j].id
    PROVE  Conversation(Append(ms, Assistant(ids)), q)
<1> DEFINE nx == Append(ms, Assistant(ids))
<1>1. /\ Len(ms) \in Nat /\ Len(nx) = Len(ms) + 1
      /\ \A i \in 1..Len(ms) : nx[i] = ms[i]
      /\ nx[Len(ms) + 1].calls = ids
  BY DEF Assistant
<1>2. Len(q) \in Nat /\ Len(<<>>) = 0
  OBVIOUS
<1>a. q # <<>> => Waiting(nx, q)
  <2> HIDE DEF nx
  <2>1. Len(ms) + 1 \in 1..Len(nx) /\ Len(nx[Len(ms) + 1].calls) = Len(nx) - (Len(ms) + 1) + Len(q)
    BY <1>1, <1>2
  <2> QED BY <2>1 DEF Waiting
<1>b. ASSUME NEW i \in 1..Len(nx), nx[i].role = "tool"
      PROVE  Expected(nx, i)
  <2>1. nx[Len(ms) + 1].role = "assistant"
    BY <1>1 DEF Assistant
  <2> HIDE DEF nx
  <2>2. i \in 1..Len(ms) /\ nx[i] = ms[i] /\ i \in Nat
    BY <1>1, <1>b, <2>1
  <2>3. PICK r \in 1..(i - 1) : i - r <= Len(ms[r].calls)
    BY <1>b, <2>2 DEF Conversation, Expected
  <2>4. r \in 1..Len(ms) /\ nx[r] = ms[r]
    BY <1>1, <2>2, <2>3
  <2> QED BY <2>3, <2>4 DEF Expected
<1> SUFFICES ASSUME NEW i \in 1..Len(nx), NEW j \in 1..Len(nx[i].calls)
             PROVE  Paired(nx, q, i, j)
  BY <1>a, <1>b DEF Conversation
<1> HIDE DEF nx
<1>3. CASE i = Len(ms) + 1
  <2>1. j \in 1..Len(q) /\ nx[i].calls[j] = q[j].id
    BY <1>1, <1>3
  <2>2. i + j > Len(nx) /\ i + j - Len(nx) = j /\ j <= Len(q)
    BY <1>1, <1>2, <1>3, <2>1
  <2> QED BY <2>1, <2>2 DEF Paired
<1>4. CASE i # Len(ms) + 1
  <2>1. i \in 1..Len(ms) /\ nx[i] = ms[i]
    BY <1>1, <1>4
  <2>2. Paired(ms, <<>>, i, j) /\ ms[i].calls \in Seq(CallIDs)
    <3>1. ms[i] \in MessageType
      BY <1>1, <2>1
    <3>2. ms[i].calls \in Seq(CallIDs)
      BY <3>1 DEF MessageType
    <3>3. j \in 1..Len(ms[i].calls)
      BY <2>1
    <3> QED BY <2>1, <3>2, <3>3 DEF Conversation
  <2>3. i \in Nat /\ j \in Nat
    BY <1>1, <2>1, <2>2
  <2>4. i + j <= Len(ms) /\ ms[i + j].role = "tool" /\ Answers_(ms[i].calls[j], ms[i + j].id)
    BY <1>1, <1>2, <2>2, <2>3 DEF Paired
  <2> QED BY <1>1, <2>1, <2>3, <2>4 DEF Paired
<1> QED BY <1>3, <1>4
-----------------------------------------------------------------------------
(* The steps.                                                              *)

\* The parts of the assumption on the limits, one by one.
LEMMA Limits ==
    /\ MaxTurns \in Nat \ {0} /\ MaxToolCalls \in Nat \ {0} /\ MaxTranscript \in Nat \ {0}
    /\ MaxOutput \in Nat \ {0} /\ MaxRetries \in Nat /\ Overhead \in Nat
    /\ MaxPerTurn \in Nat /\ MaxBytes \in Nat /\ MaxQuoted \in Nat
  BY BootstrapAssumption

\* What is not cut covers the texts around an output and what is quoted.
LEMMA UncutFacts == Uncut \in Nat /\ Overhead <= Uncut /\ MaxQuoted <= Uncut
  BY Limits DEF Uncut

\* What the state is made of.
LEMMA Typed ==
    ASSUME TypeOK
    PROVE  /\ messages \in Seq(MessageType) /\ queue \in Seq(Calls)
           /\ turn \in Nat /\ toolCalls \in Nat /\ transcript \in Nat
           /\ attempt \in Nat /\ completed \in Nat
  BY Limits DEF TypeOK, MessageType

\* An output kept within what is left of the transcript, and the texts added
\* to it.
LEMMA OutputBounded ==
    ASSUME TypeOK, transcript < MaxTranscript, NEW n \in 0..MaxBytes, NEW failed \in BOOLEAN
    PROVE  /\ limitedOutput(n, outputLimit) + (IF failed THEN Overhead ELSE 0) \in Nat
           /\ transcript + (limitedOutput(n, outputLimit) + (IF failed THEN Overhead ELSE 0))
                <= MaxTranscript + Overhead + Uncut
<1>1. /\ outputLimit \in Nat /\ transcript + outputLimit <= MaxTranscript
  BY Limits, Typed DEF outputLimit, Min2
<1>2. /\ limitedOutput(n, outputLimit) \in Nat
      /\ limitedOutput(n, outputLimit) <= outputLimit + Overhead
  BY Limits, <1>1 DEF limitedOutput, Min2
<1>3. /\ (IF failed THEN Overhead ELSE 0) \in Nat
      /\ (IF failed THEN Overhead ELSE 0) <= Overhead
  BY Limits
<1>4. transcript \in Nat
  BY Typed
<1> DEFINE kept == limitedOutput(n, outputLimit)
           mark == IF failed THEN Overhead ELSE 0
<1>5. kept \in Nat /\ mark \in Nat /\ kept <= outputLimit + Overhead /\ mark <= Overhead
  BY <1>2, <1>3
<1> HIDE DEF kept, mark
<1>6. /\ kept + mark \in Nat
      /\ transcript + (kept + mark) <= MaxTranscript + Overhead + Uncut
  BY Limits, <1>1, <1>4, <1>5, UncutFacts
<1> QED BY <1>6 DEF kept, mark

\* An answer is appended and its call leaves the queue.
LEMMA AnswerFacts ==
    ASSUME Inv, queue # <<>>, NEW n \in 1..(MaxToolCalls + 1), NEW bytes \in Nat,
           Answer(AnswerID(Head(queue), n), bytes)
    PROVE  /\ messages' \in Seq(MessageType) /\ messages' # <<>>
           /\ queue' \in Seq(Calls)
           /\ transcript' = transcript + bytes
           /\ Count(messages', "tool") = Count(messages, "tool") + 1
           /\ Count(messages', "assistant") = Count(messages, "assistant")
           /\ Conversation(messages', queue')
<1>1. messages \in Seq(MessageType) /\ queue \in Seq(Calls) /\ Conversation(messages, queue)
  BY Typed DEF Inv
<1>2. Head(queue) \in Calls /\ Tail(queue) \in Seq(Calls)
  BY <1>1
<1> DEFINE id == AnswerID(Head(queue), n)
<1>3. id \in CallIDs \cup SetupIDs /\ Answers_(Head(queue).id, id)
  BY <1>2, AnswerIDFacts
<1>4. messages' = Append(messages, ToolResult(id)) /\ queue' = Tail(queue)
      /\ transcript' = transcript + bytes
  BY DEF Answer
<1> HIDE DEF id
<1>5. ToolResult(id) \in MessageType /\ ToolResult(id).role = "tool"
  BY <1>3 DEF ToolResult, MessageType
<1>6. Append(messages, ToolResult(id)) \in Seq(MessageType)
      /\ Append(messages, ToolResult(id)) # <<>>
  BY <1>1, <1>5
<1>7. /\ Count(Append(messages, ToolResult(id)), "tool") = Count(messages, "tool") + 1
      /\ Count(Append(messages, ToolResult(id)), "assistant") = Count(messages, "assistant")
  BY <1>1, <1>5, CountAppend
<1>8. Conversation(Append(messages, ToolResult(id)), Tail(queue))
  BY <1>1, <1>3, ConversationAnswer
<1> QED BY <1>2, <1>4, <1>6, <1>7, <1>8

\* A response is appended and its calls are the queue.
LEMMA RespondFacts ==
    ASSUME Inv, NEW calls \in Responses, RespondCalls(calls)
    PROVE  /\ messages' \in Seq(MessageType) /\ messages' # <<>>
           /\ queue' \in Seq(Calls)
           /\ Count(messages', "tool") = Count(messages, "tool")
           /\ Count(messages', "assistant") = Count(messages, "assistant") + 1
           /\ Conversation(messages', queue')
<1>1. /\ messages \in Seq(MessageType) /\ Conversation(messages, <<>>)
      /\ turn < MaxTurns /\ TypeOK
  BY Typed DEF Inv, Progress, RespondCalls
<1>2. /\ calls \in Seq(Calls) /\ IDs(calls) \in Seq(CallIDs) /\ Len(IDs(calls)) = Len(calls)
      /\ \A j \in 1..Len(calls) : IDs(calls)[j] = calls[j].id
  BY <1>1, ResponsesFacts
<1>3. messages' = Append(messages, Assistant(IDs(calls))) /\ queue' = calls
  BY DEF RespondCalls
<1> DEFINE m == Assistant(IDs(calls))
<1>4. m \in MessageType /\ m.role = "assistant"
  BY <1>2 DEF Assistant, MessageType, CallIDs, NoID
<1>5. Conversation(Append(messages, m), calls)
  BY <1>1, <1>2, ConversationAsk
<1> HIDE DEF m
<1>6. Append(messages, m) \in Seq(MessageType) /\ Append(messages, m) # <<>>
  BY <1>1, <1>4, AppendFacts
<1>7. /\ Count(Append(messages, m), "tool") = Count(messages, "tool")
      /\ Count(Append(messages, m), "assistant") = Count(messages, "assistant") + 1
  BY <1>1, <1>4, CountAppend
<1> QED BY <1>2, <1>3, <1>5, <1>6, <1>7 DEF m

\* The conversation a bootstrap starts with.
LEMMA StartFacts ==
    /\ <<System, User>> \in Seq(MessageType) /\ <<System, User>> # <<>>
    /\ Conversation(<<System, User>>, <<>>)
    /\ Conversation(<<>>, <<>>)
<1>1. System \in MessageType /\ User \in MessageType /\ System.calls = <<>> /\ User.calls = <<>>
  BY DEF System, User, MessageType, CallIDs, NoID
<1>2. <<System, User>> \in Seq(MessageType) /\ <<System, User>> # <<>>
  BY <1>1
<1>3. \A i \in 1..Len(<<System, User>>) :
        <<System, User>>[i].calls = <<>> /\ <<System, User>>[i].role # "tool"
  BY <1>1 DEF System, User
<1>4. Conversation(<<System, User>>, <<>>)
  BY <1>3 DEF Conversation
<1>5. Conversation(<<>>, <<>>)
  BY DEF Conversation
<1> QED BY <1>2, <1>4, <1>5

\* The numbers of messages of a role are numbers.
LEMMA CountType ==
    ASSUME TypeOK
    PROVE  \A r : Count(messages, r) \in Nat
<1>1. messages \in Seq(MessageType) /\ System \in MessageType
  BY Typed DEF MessageType, System, CallIDs, NoID
<1> QED BY <1>1, CountAppend

\* A bootstrap is left to the other agent, fails, or starts its conversation.
LEMMA InvStartBootstrap ==
    ASSUME Inv, NEW m, NEW key \in BOOLEAN, StartBootstrap(m, key)
    PROVE  Inv'
<1>1. TypeOK /\ Progress /\ Counted /\ NotReplayed /\ Conversation(messages, queue)
  BY DEF Inv
<1>2. /\ Count(messages, "tool") \in Nat /\ Count(messages, "assistant") \in Nat
  BY <1>1, CountType
<1>3. GenerateVia(BootstrapClient(m, key), TRUE)
        \in {"openai", "anthropic", "google", "fallback", "error"}
  BY GenerateViaRange
<1>4. messages' = messages \/ messages' = <<System, User>>
  BY DEF StartBootstrap
<1>5. /\ Count(<<System, User>>, "tool") = 0 /\ Count(<<System, User>>, "assistant") = 0
  BY CountStart
<1>6. <<System, User>> \in Seq(MessageType) /\ <<System, User>> # <<>>
      /\ Conversation(<<System, User>>, <<>>)
  BY StartFacts
<1>7. /\ Count(messages', "tool") \in Nat /\ Count(messages', "tool") <= Count(messages, "tool")
      /\ Count(messages', "assistant") \in Nat
      /\ Count(messages', "assistant") <= Count(messages, "assistant")
  BY <1>2, <1>4, <1>5
<1>10. TypeOK'
  BY <1>1, <1>3, <1>4, <1>6, <1>7, Limits DEF TypeOK, MessageType, StartBootstrap, Done, exchange
<1>11. Progress'
  BY <1>1, <1>3, <1>4, <1>6, <1>7, Limits DEF TypeOK, Progress, StartBootstrap, Done, exchange
<1>12. Counted'
  <2>1. /\ turn' = turn /\ toolCalls' = toolCalls /\ transcript' = transcript
        /\ pc = "start" /\ pc' \in {"done", "generate"}
    BY DEF StartBootstrap, Done
  <2> QED BY <1>1, <1>2, <1>7, <2>1, Limits DEF TypeOK, Progress, Counted
<1>13. NotReplayed'
  BY <1>1, <1>3, <1>4, <1>6, <1>7, Limits DEF TypeOK, NotReplayed, StartBootstrap, Done, exchange
<1>14. Conversation(messages', queue')
  <2>1. queue' = queue /\ queue = <<>>
    BY <1>1 DEF StartBootstrap, Progress
  <2> QED BY <1>1, <1>4, <1>6, <2>1
<1> QED BY <1>10, <1>11, <1>12, <1>13, <1>14 DEF Inv

\* A plan fails or is asked for with a single prompt.
LEMMA InvStartPlan ==
    ASSUME Inv, NEW m, NEW secrets, StartPlan(m, secrets)
    PROVE  Inv'
<1>1. TypeOK /\ Progress /\ Counted /\ NotReplayed /\ Conversation(messages, queue)
  BY DEF Inv
<1>2. /\ Count(messages, "tool") \in Nat /\ Count(messages, "assistant") \in Nat
  BY <1>1, CountType
<1>3. GenerateVia(NewDefaultClientFromStore(m, secrets), FALSE)
        \in {"openai", "anthropic", "google", "fallback", "error"}
  BY GenerateViaRange
<1>10. TypeOK'
  BY <1>1, <1>3, Limits DEF TypeOK, MessageType, StartPlan, Done, exchange, talk
<1>11. Progress'
  BY <1>1, <1>3, Limits DEF TypeOK, Progress, StartPlan, Done, exchange, talk
<1>12. Counted'
  BY <1>1, <1>3, <1>2, Limits DEF TypeOK, Progress, Counted, StartPlan, Done, exchange, talk
<1>13. NotReplayed'
  BY <1>1, <1>3, Limits DEF TypeOK, NotReplayed, StartPlan, Done, exchange, talk
<1>14. Conversation(messages', queue')
  BY <1>1, <1>3, Limits DEF StartPlan, Done, exchange, talk
<1> QED BY <1>10, <1>11, <1>12, <1>13, <1>14 DEF Inv

\* A request begins without any attempt made.
LEMMA InvGenerate ==
    ASSUME Inv, Generate
    PROVE  Inv'
<1>1. TypeOK /\ Progress /\ Counted /\ NotReplayed /\ Conversation(messages, queue)
  BY DEF Inv
<1>2. /\ Count(messages, "tool") \in Nat /\ Count(messages, "assistant") \in Nat
  BY <1>1, CountType
<1>10. TypeOK'
  BY <1>1, Limits DEF TypeOK, MessageType, Generate, Done, talk
<1>11. Progress'
  BY <1>1, Limits DEF TypeOK, Progress, Generate, Done, talk
<1>12. Counted'
  BY <1>1, <1>2, Limits DEF TypeOK, Progress, Counted, Generate, Done, talk
<1>13. NotReplayed'
  BY <1>1, Limits DEF TypeOK, NotReplayed, Generate, Done, talk
<1>14. Conversation(messages', queue')
  BY <1>1, Limits DEF Generate, Done, talk
<1> QED BY <1>10, <1>11, <1>12, <1>13, <1>14 DEF Inv

\* The canned answer ends the run.
LEMMA InvFallback ==
    ASSUME Inv, fallbackResponse
    PROVE  Inv'
<1>1. TypeOK /\ Progress /\ Counted /\ NotReplayed /\ Conversation(messages, queue)
  BY DEF Inv
<1>2. /\ Count(messages, "tool") \in Nat /\ Count(messages, "assistant") \in Nat
  BY <1>1, CountType
<1>10. TypeOK'
  BY <1>1, Limits DEF TypeOK, MessageType, fallbackResponse, Done, talk, exchange
<1>11. Progress'
  BY <1>1, Limits DEF TypeOK, Progress, fallbackResponse, Done, talk, exchange
<1>12. Counted'
  BY <1>1, <1>2, Limits DEF TypeOK, Progress, Counted, fallbackResponse, Done, talk, exchange
<1>13. NotReplayed'
  BY <1>1, Limits DEF TypeOK, NotReplayed, fallbackResponse, Done, talk, exchange
<1>14. Conversation(messages', queue')
  BY <1>1, Limits DEF fallbackResponse, Done, talk, exchange
<1> QED BY <1>10, <1>11, <1>12, <1>13, <1>14 DEF Inv

\* A retryable answer completed nothing, and is followed by a retry only below the limit.
LEMMA InvPost ==
    ASSUME Inv, NEW answer \in {"ok", "busy", "refused", "lost"}, postJSON(answer)
    PROVE  Inv'
<1>1. TypeOK /\ Progress /\ Counted /\ NotReplayed /\ Conversation(messages, queue)
  BY DEF Inv
<1>2. /\ Count(messages, "tool") \in Nat /\ Count(messages, "assistant") \in Nat
  BY <1>1, CountType
<1>10. TypeOK'
  BY <1>1, Limits DEF TypeOK, MessageType, postJSON, Done, talk, MayRetry, retryableStatus
<1>11. Progress'
  BY <1>1, Limits DEF TypeOK, Progress, postJSON, Done, talk, MayRetry, retryableStatus
<1>12. Counted'
  BY <1>1, <1>2, Limits DEF TypeOK, Progress, Counted, postJSON, Done, talk, MayRetry, retryableStatus
<1>13. NotReplayed'
  BY <1>1, Limits DEF TypeOK, NotReplayed, postJSON, Done, talk, MayRetry, retryableStatus
<1>14. Conversation(messages', queue')
  BY <1>1, Limits DEF postJSON, Done, talk, MayRetry, retryableStatus
<1> QED BY <1>10, <1>11, <1>12, <1>13, <1>14 DEF Inv

\* The adapter for Google never asks twice.
LEMMA InvGoogle ==
    ASSUME Inv, NEW answer \in {"ok", "busy", "refused", "lost"}, generateGoogle(answer)
    PROVE  Inv'
<1>1. TypeOK /\ Progress /\ Counted /\ NotReplayed /\ Conversation(messages, queue)
  BY DEF Inv
<1>2. /\ Count(messages, "tool") \in Nat /\ Count(messages, "assistant") \in Nat
  BY <1>1, CountType
<1>10. TypeOK'
  BY <1>1, Limits DEF TypeOK, MessageType, generateGoogle, Done, talk
<1>11. Progress'
  BY <1>1, Limits DEF TypeOK, Progress, generateGoogle, Done, talk
<1>12. Counted'
  BY <1>1, <1>2, Limits DEF TypeOK, Progress, Counted, generateGoogle, Done, talk
<1>13. NotReplayed'
  BY <1>1, Limits DEF TypeOK, NotReplayed, generateGoogle, Done, talk
<1>14. Conversation(messages', queue')
  BY <1>1, Limits DEF generateGoogle, Done, talk
<1> QED BY <1>10, <1>11, <1>12, <1>13, <1>14 DEF Inv

\* A retry is one attempt more.
LEMMA InvWait ==
    ASSUME Inv, waitForProviderRetry
    PROVE  Inv'
<1>1. TypeOK /\ Progress /\ Counted /\ NotReplayed /\ Conversation(messages, queue)
  BY DEF Inv
<1>2. /\ Count(messages, "tool") \in Nat /\ Count(messages, "assistant") \in Nat
  BY <1>1, CountType
<1>10. TypeOK'
  BY <1>1, Limits DEF TypeOK, MessageType, Progress, waitForProviderRetry, Done, talk
<1>11. Progress'
  BY <1>1, Limits DEF TypeOK, Progress, waitForProviderRetry, Done, talk
<1>12. Counted'
  BY <1>1, <1>2, Limits DEF TypeOK, Progress, Counted, waitForProviderRetry, Done, talk
<1>13. NotReplayed'
  BY <1>1, Limits DEF TypeOK, NotReplayed, waitForProviderRetry, Done, talk
<1>14. Conversation(messages', queue')
  BY <1>1, Limits DEF waitForProviderRetry, Done, talk
<1> QED BY <1>10, <1>11, <1>12, <1>13, <1>14 DEF Inv

\* A response without calls ends the run.
LEMMA InvText ==
    ASSUME Inv, NEW text, RespondText(text)
    PROVE  Inv'
<1>1. TypeOK /\ Progress /\ Counted /\ NotReplayed /\ Conversation(messages, queue)
  BY DEF Inv
<1>2. /\ Count(messages, "tool") \in Nat /\ Count(messages, "assistant") \in Nat
  BY <1>1, CountType
<1>10. TypeOK'
  BY <1>1, Limits DEF TypeOK, MessageType, RespondText, Done, talk, exchange
<1>11. Progress'
  BY <1>1, Limits DEF TypeOK, Progress, RespondText, Done, talk, exchange
<1>12. Counted'
  BY <1>1, <1>2, Limits DEF TypeOK, Progress, Counted, RespondText, Done, talk, exchange
<1>13. NotReplayed'
  BY <1>1, Limits DEF TypeOK, NotReplayed, RespondText, Done, talk, exchange
<1>14. Conversation(messages', queue')
  BY <1>1, Limits DEF RespondText, Done, talk, exchange
<1> QED BY <1>10, <1>11, <1>12, <1>13, <1>14 DEF Inv

\* The turn after the last is not begun.
LEMMA InvEndTurn ==
    ASSUME Inv, EndTurn
    PROVE  Inv'
<1>1. TypeOK /\ Progress /\ Counted /\ NotReplayed /\ Conversation(messages, queue)
  BY DEF Inv
<1>2. /\ Count(messages, "tool") \in Nat /\ Count(messages, "assistant") \in Nat
  BY <1>1, CountType
<1>10. TypeOK'
  BY <1>1, Limits DEF TypeOK, MessageType, Progress, EndTurn, Done, exchange
<1>11. Progress'
  BY <1>1, Limits DEF TypeOK, Progress, EndTurn, Done, exchange
<1>12. Counted'
  BY <1>1, <1>2, Limits DEF TypeOK, Progress, Counted, EndTurn, Done, exchange
<1>13. NotReplayed'
  BY <1>1, Limits DEF TypeOK, NotReplayed, EndTurn, Done, exchange
<1>14. Conversation(messages', queue')
  BY <1>1, Limits DEF EndTurn, Done, exchange
<1> QED BY <1>10, <1>11, <1>12, <1>13, <1>14 DEF Inv

\* A call over the limits ends the run unanswered.
LEMMA InvOverLimit ==
    ASSUME Inv, CallOverLimit
    PROVE  Inv'
<1>1. TypeOK /\ Progress /\ Counted /\ NotReplayed /\ Conversation(messages, queue)
  BY DEF Inv
<1>2. /\ Count(messages, "tool") \in Nat /\ Count(messages, "assistant") \in Nat
  BY <1>1, CountType
<1>10. TypeOK'
  BY <1>1, Limits DEF TypeOK, MessageType, CallOverLimit, Done, exchange
<1>11. Progress'
  BY <1>1, Limits DEF TypeOK, Progress, CallOverLimit, Done, exchange
<1>12. Counted'
  BY <1>1, <1>2, Limits DEF TypeOK, Progress, Counted, CallOverLimit, Done, exchange
<1>13. NotReplayed'
  BY <1>1, Limits DEF TypeOK, NotReplayed, CallOverLimit, Done, exchange
<1>14. Conversation(messages', queue')
  BY <1>1, Limits DEF CallOverLimit, Done, exchange
<1> QED BY <1>10, <1>11, <1>12, <1>13, <1>14 DEF Inv

\* A command is started below the limits.
LEMMA InvStartCommand ==
    ASSUME Inv, StartCommand
    PROVE  Inv'
<1>1. TypeOK /\ Progress /\ Counted /\ NotReplayed /\ Conversation(messages, queue)
  BY DEF Inv
<1>2. /\ Count(messages, "tool") \in Nat /\ Count(messages, "assistant") \in Nat
  BY <1>1, CountType
<1>3. held' \in BOOLEAN
  BY DEF StartCommand
<1>10. TypeOK'
  BY <1>1, <1>3, Limits DEF TypeOK, MessageType, StartCommand, OverLimit, exchange
<1>11. Progress'
  BY <1>1, <1>3, Limits DEF TypeOK, Progress, StartCommand, OverLimit, exchange
<1>12. Counted'
  BY <1>1, <1>3, <1>2, Limits DEF TypeOK, Progress, Counted, StartCommand, OverLimit, exchange
<1>13. NotReplayed'
  BY <1>1, <1>3, Limits DEF TypeOK, NotReplayed, StartCommand, OverLimit, exchange
<1>14. Conversation(messages', queue')
  BY <1>1, <1>3, Limits DEF StartCommand, OverLimit, exchange
<1> QED BY <1>10, <1>11, <1>12, <1>13, <1>14 DEF Inv

\* A process left behind ends.
LEMMA InvRelease ==
    ASSUME Inv, Release
    PROVE  Inv'
<1>1. TypeOK /\ Progress /\ Counted /\ NotReplayed /\ Conversation(messages, queue)
  BY DEF Inv
<1>2. /\ Count(messages, "tool") \in Nat /\ Count(messages, "assistant") \in Nat
  BY <1>1, CountType
<1>10. TypeOK'
  BY <1>1, Limits DEF TypeOK, MessageType, Release, talk, exchange
<1>11. Progress'
  BY <1>1, Limits DEF TypeOK, Progress, Release, talk, exchange
<1>12. Counted'
  BY <1>1, <1>2, Limits DEF TypeOK, Progress, Counted, Release, talk, exchange
<1>13. NotReplayed'
  BY <1>1, Limits DEF TypeOK, NotReplayed, Release, talk, exchange
<1>14. Conversation(messages', queue')
  BY <1>1, Limits DEF Release, talk, exchange
<1> QED BY <1>10, <1>11, <1>12, <1>13, <1>14 DEF Inv

\* The deadline passes.
LEMMA InvExpire ==
    ASSUME Inv, Expire
    PROVE  Inv'
<1>1. TypeOK /\ Progress /\ Counted /\ NotReplayed /\ Conversation(messages, queue)
  BY DEF Inv
<1>2. /\ Count(messages, "tool") \in Nat /\ Count(messages, "assistant") \in Nat
  BY <1>1, CountType
<1>10. TypeOK'
  BY <1>1, Limits DEF TypeOK, MessageType, Expire, talk, exchange
<1>11. Progress'
  BY <1>1, Limits DEF TypeOK, Progress, Expire, talk, exchange
<1>12. Counted'
  BY <1>1, <1>2, Limits DEF TypeOK, Progress, Counted, Expire, talk, exchange
<1>13. NotReplayed'
  BY <1>1, Limits DEF TypeOK, NotReplayed, Expire, talk, exchange
<1>14. Conversation(messages', queue')
  BY <1>1, Limits DEF Expire, talk, exchange
<1> QED BY <1>10, <1>11, <1>12, <1>13, <1>14 DEF Inv

\* Nothing happens.
LEMMA InvStutter ==
    ASSUME Inv, UNCHANGED vars
    PROVE  Inv'
<1>1. TypeOK /\ Progress /\ Counted /\ NotReplayed /\ Conversation(messages, queue)
  BY DEF Inv
<1>2. /\ Count(messages, "tool") \in Nat /\ Count(messages, "assistant") \in Nat
  BY <1>1, CountType
<1>10. TypeOK'
  BY <1>1, Limits DEF TypeOK, MessageType, vars
<1>11. Progress'
  BY <1>1, Limits DEF TypeOK, Progress, vars
<1>12. Counted'
  BY <1>1, <1>2, Limits DEF TypeOK, Progress, Counted, vars
<1>13. NotReplayed'
  BY <1>1, Limits DEF TypeOK, NotReplayed, vars
<1>14. Conversation(messages', queue')
  BY <1>1, Limits DEF vars
<1> QED BY <1>10, <1>11, <1>12, <1>13, <1>14 DEF Inv

\* A response is appended in its own turn.
LEMMA InvCalls ==
    ASSUME Inv, NEW calls \in Responses, RespondCalls(calls)
    PROVE  Inv'
<1>1. TypeOK /\ Progress /\ Counted /\ NotReplayed /\ Conversation(messages, queue)
  BY DEF Inv
<1>2. /\ Count(messages, "tool") \in Nat /\ Count(messages, "assistant") \in Nat
  BY <1>1, CountType
<1>3. /\ messages' \in Seq(MessageType) /\ messages' # <<>> /\ queue' \in Seq(Calls)
      /\ Conversation(messages', queue')
      /\ Count(messages', "tool") = Count(messages, "tool")
      /\ Count(messages', "assistant") = Count(messages, "assistant") + 1
  BY RespondFacts
<1>10. TypeOK'
  BY <1>1, <1>3, Limits DEF TypeOK, MessageType, RespondCalls, exchange
<1>11. Progress'
  BY <1>1, <1>3, Limits DEF TypeOK, Progress, RespondCalls, exchange
<1>12. Counted'
  BY <1>1, <1>3, <1>2, Limits DEF TypeOK, Progress, Counted, RespondCalls, exchange
<1>13. NotReplayed'
  BY <1>1, <1>3, Limits DEF TypeOK, NotReplayed, RespondCalls, exchange
<1>14. Conversation(messages', queue')
  BY <1>1, <1>3, Limits DEF RespondCalls, exchange
<1> QED BY <1>10, <1>11, <1>12, <1>13, <1>14 DEF Inv

\* A refusal answers its call and takes its words and what it
\* quotes.
LEMMA InvRefuse ==
    ASSUME Inv, NEW quoted \in 0..MaxQuoted, RefuseCall(quoted)
    PROVE  Inv'
<1>1. TypeOK /\ Progress /\ Counted /\ NotReplayed /\ Conversation(messages, queue)
  BY DEF Inv
<1>2. /\ Count(messages, "tool") \in Nat /\ Count(messages, "assistant") \in Nat
  BY <1>1, CountType
<1>3. toolCalls + 1 \in 1..(MaxToolCalls + 1) /\ Overhead + quoted \in Nat
      /\ transcript < MaxTranscript /\ transcript \in Nat
  BY <1>1, Limits, Typed DEF RefuseCall, OverLimit
<1>4. Answer(AnswerID(Head(queue), toolCalls + 1), Overhead + quoted) /\ queue # <<>>
  BY DEF RefuseCall
<1>5. /\ messages' \in Seq(MessageType) /\ messages' # <<>> /\ queue' \in Seq(Calls)
      /\ Conversation(messages', queue')
      /\ transcript' = transcript + (Overhead + quoted)
      /\ Count(messages', "tool") = Count(messages, "tool") + 1
      /\ Count(messages', "assistant") = Count(messages, "assistant")
  BY <1>3, <1>4, AnswerFacts
<1>6. transcript' \in Nat /\ transcript' <= MaxTranscript + Overhead + Uncut
  BY <1>3, <1>5, Limits, UncutFacts
<1>10. TypeOK'
  BY <1>1, <1>5, <1>6, Limits DEF TypeOK, MessageType, RefuseCall, OverLimit, exchange
<1>11. Progress'
  BY <1>1, <1>5, <1>6, Limits DEF TypeOK, Progress, RefuseCall, OverLimit, exchange
<1>12. Counted'
  <2>1. /\ toolCalls' = toolCalls + 1 /\ toolCalls < MaxToolCalls /\ turn' = turn
        /\ pc = "tools" /\ pc' = pc /\ toolCalls \in Nat /\ turn \in Nat
    BY <1>1, Limits, Typed DEF RefuseCall, OverLimit
  <2> QED BY <1>1, <1>2, <1>5, <1>6, <2>1, Limits DEF Counted
<1>13. NotReplayed'
  BY <1>1, <1>5, <1>6, Limits DEF TypeOK, NotReplayed, RefuseCall, OverLimit, exchange
<1>14. Conversation(messages', queue')
  BY <1>1, <1>5, <1>6, Limits DEF RefuseCall, OverLimit, exchange
<1> QED BY <1>10, <1>11, <1>12, <1>13, <1>14 DEF Inv

\* A command's output answers its call within what is left.
LEMMA InvEndCommand ==
    ASSUME Inv, NEW n \in 0..MaxBytes, NEW failed \in BOOLEAN, EndCommand(n, failed)
    PROVE  Inv'
<1>1. TypeOK /\ Progress /\ Counted /\ NotReplayed /\ Conversation(messages, queue)
  BY DEF Inv
<1>2. /\ Count(messages, "tool") \in Nat /\ Count(messages, "assistant") \in Nat
  BY <1>1, CountType
<1> DEFINE bytes == limitedOutput(n, outputLimit) + IF failed THEN Overhead ELSE 0
<1>3. /\ pc = "command" /\ queue # <<>> /\ toolCalls \in 1..(MaxToolCalls + 1)
      /\ transcript < MaxTranscript
  BY <1>1, Limits, Typed DEF EndCommand, Progress
<1>4. bytes \in Nat /\ transcript + bytes <= MaxTranscript + Overhead + Uncut
  BY <1>1, <1>3, OutputBounded
<1>5. Answer(AnswerID(Head(queue), toolCalls), bytes)
  BY DEF EndCommand
<1> HIDE DEF bytes
<1>6. /\ messages' \in Seq(MessageType) /\ messages' # <<>> /\ queue' \in Seq(Calls)
      /\ Conversation(messages', queue')
      /\ transcript' = transcript + bytes
      /\ Count(messages', "tool") = Count(messages, "tool") + 1
      /\ Count(messages', "assistant") = Count(messages, "assistant")
  BY <1>3, <1>4, <1>5, AnswerFacts
<1>10. TypeOK'
  BY <1>1, <1>3, <1>4, <1>6, Limits DEF TypeOK, MessageType, EndCommand, exchange
<1>11. Progress'
  BY <1>1, <1>3, <1>4, <1>6, Limits DEF TypeOK, Progress, EndCommand, exchange
<1>12. Counted'
  BY <1>1, <1>3, <1>4, <1>6, <1>2, Limits DEF TypeOK, Progress, Counted, EndCommand, exchange
<1>13. NotReplayed'
  BY <1>1, <1>3, <1>4, <1>6, Limits DEF TypeOK, NotReplayed, EndCommand, exchange
<1>14. Conversation(messages', queue')
  BY <1>1, <1>3, <1>4, <1>6, Limits DEF EndCommand, exchange
<1> QED BY <1>10, <1>11, <1>12, <1>13, <1>14 DEF Inv

\* Every step keeps the invariant.
LEMMA InvStep ==
    Inv /\ [Next]_vars => Inv'
<1> SUFFICES ASSUME Inv, [Next]_vars PROVE Inv'
  OBVIOUS
<1>1. CASE \E m : (\E key \in BOOLEAN : StartBootstrap(m, key)) \/ \E secrets : StartPlan(m, secrets)
  BY <1>1, InvStartBootstrap, InvStartPlan
<1>2. CASE Generate \/ fallbackResponse \/ waitForProviderRetry
  BY <1>2, InvGenerate, InvFallback, InvWait
<1>3. CASE \E answer \in {"ok", "busy", "refused", "lost"} : postJSON(answer) \/ generateGoogle(answer)
  BY <1>3, InvPost, InvGoogle
<1>4. CASE (\E calls \in Responses : RespondCalls(calls)) \/ \E text : RespondText(text)
  BY <1>4, InvCalls, InvText
<1>5. CASE EndTurn \/ CallOverLimit \/ StartCommand \/ \E quoted \in 0..MaxQuoted : RefuseCall(quoted)
  BY <1>5, InvEndTurn, InvOverLimit, InvRefuse, InvStartCommand
<1>6. CASE \E n \in 0..MaxBytes, failed \in BOOLEAN : EndCommand(n, failed)
  BY <1>6, InvEndCommand
<1>7. CASE Release \/ Expire \/ UNCHANGED vars
  BY <1>7, InvRelease, InvExpire, InvStutter
<1> QED BY <1>1, <1>2, <1>3, <1>4, <1>5, <1>6, <1>7 DEF Next, Step

\* Nothing has been said yet.
LEMMA InvInit ==
    Init => Inv
<1> SUFFICES ASSUME Init PROVE Inv
  OBVIOUS
<1>1. Count(<<>>, "tool") = 0 /\ Count(<<>>, "assistant") = 0 /\ Conversation(<<>>, <<>>)
  BY CountStart, StartFacts
<1>2. TypeOK
  <2>1. messages \in Seq(MessageType) /\ queue \in Seq(Calls)
    BY DEF Init
  <2>2. held \in BOOLEAN /\ expired \in BOOLEAN
    BY DEF Init
  <2> QED BY <2>1, <2>2, Limits DEF Init, TypeOK, MessageType
<1>3. Progress /\ NotReplayed
  BY Limits DEF Init, Progress, NotReplayed
<1>4. Counted
  BY <1>1, Limits, UncutFacts DEF Init, Counted
<1>5. Conversation(messages, queue)
  BY <1>1 DEF Init
<1> QED BY <1>2, <1>3, <1>4, <1>5 DEF Inv

\* The invariant holds of every run.
LEMMA Invariance ==
    Spec => []Inv
  BY InvInit, InvStep, PTL DEF Spec
-----------------------------------------------------------------------------
(* Theorems.                                                               *)

\* Every run is well typed: neither the turns nor the retries leave their
\* bounds, and each id is one a provider gave or the bootstrap made up.
THEOREM TypeCorrect ==
    Spec => []TypeOK
<1>1. Inv => TypeOK
  BY DEF Inv
<1> QED BY <1>1, Invariance, PTL

\* However the responses, refusals and truncated outputs meet the limits, the
\* loop of runModelBootstrap keeps within the limits on turns and calls, and
\* the transcript within its limit and what is added uncut to the last answer,
\* for every length that a refusal may quote (MaxQuoted).
THEOREM LoopIsBounded ==
    Spec => []LoopBounded
<1>1. Inv => LoopBounded
  BY DEF Inv, Counted, LoopBounded, Count, Positions, Uncut
<1> QED BY <1>1, Invariance, PTL

\* postJSON and generateGoogle never repeat a request that a provider may have
\* completed, with any number of retries.
THEOREM RequestsAreNotReplayed ==
    Spec => []NotReplayed
<1>1. Inv => NotReplayed
  BY DEF Inv
<1> QED BY <1>1, Invariance, PTL

\* What a provider gets in the OpenAI form is well formed: openAIMessages turns
\* the conversation over message by message, so that every call is followed by
\* its results, in order and under its id, and no result is anywhere else.  Every conversation has this form
\* (Conversation); that grouping the results for Anthropic keeps it rests on
\* what SelectSeq selects.
THEOREM OpenAICallsAreAnswered ==
    Spec => [](via # "anthropic" => CallsAnswered)
<1>1. Inv => (via # "anthropic" => CallsAnswered)
  <2> SUFFICES ASSUME Inv, via # "anthropic", pc = "post", mode = "bootstrap"
               PROVE  CallsAnswered
    BY DEF CallsAnswered
  <2> DEFINE wire == Wire
             got(i, j) == IF wire[i + j].results = <<>> THEN <<"nothing">>
                                                        ELSE wire[i + j].results[1]
             openai(i) == [j \in 1..Min2(Len(wire[i].calls), Len(wire) - i) |-> got(i, j)]
             grouped(i) == IF i < Len(wire) THEN wire[i + 1].results ELSE <<>>
             results == [i \in 1..Len(wire) |->
                           IF via = "anthropic" THEN grouped(i) ELSE openai(i)]
  <2>1. /\ messages \in Seq(MessageType) /\ messages # <<>> /\ queue = <<>>
        /\ Conversation(messages, <<>>)
    BY Typed DEF Inv, Progress
  <2>2. /\ Len(messages) \in Nat
        /\ wire = [i \in 1..Len(messages) |->
                     [role |-> messages[i].role, calls |-> messages[i].calls,
                      results |-> IF messages[i].role = "tool" THEN <<messages[i].id>> ELSE <<>>]]
    BY <2>1 DEF Wire, openAIMessages, requestMessages
  <2>3. /\ Len(wire) = Len(messages)
        /\ \A i \in 1..Len(messages) : wire[i].calls = messages[i].calls
        /\ \A i \in 1..Len(messages) : messages[i].role = "tool" =>
             wire[i].results = <<messages[i].id>>
        /\ \A i \in 1..Len(messages) : messages[i].role # "tool" => wire[i].results = <<>>
    BY <2>2
  <2> HIDE DEF wire
  <2>4. ASSUME NEW i \in 1..Len(wire), wire[i].calls # <<>>
        PROVE  /\ Len(results[i]) = Len(wire[i].calls)
               /\ \A j \in 1..Len(results[i]) : Answers_(wire[i].calls[j], results[i][j])
    <3> DEFINE n == Len(wire[i].calls)
    <3>1. i \in 1..Len(messages) /\ i \in Nat
      BY <2>2, <2>3
    <3>2. messages[i] \in MessageType
      BY <2>1, <3>1
    <3>3. wire[i].calls = messages[i].calls /\ messages[i].calls \in Seq(CallIDs)
      BY <2>3, <3>1, <3>2 DEF MessageType
    <3>4. n \in Nat /\ n >= 1
      BY <2>4, <3>3
    <3>5. ASSUME NEW j \in 1..n
          PROVE  /\ i + j <= Len(messages) /\ messages[i + j].role = "tool"
                 /\ Answers_(wire[i].calls[j], messages[i + j].id)
      <4>1. Paired(messages, <<>>, i, j) /\ j \in Nat /\ j >= 1
        BY <2>1, <3>1, <3>3, <3>4 DEF Conversation
      <4>2. Len(<<>>) = 0
        OBVIOUS
      <4> QED BY <2>2, <3>1, <3>3, <4>1, <4>2 DEF Paired
    <3>6. n <= Len(messages) - i
      <4> HIDE DEF n
      <4>1. n \in 1..n
        BY <3>4
      <4>2. i + n <= Len(messages)
        BY <3>5, <4>1
      <4> QED BY <2>2, <3>1, <3>4, <4>2
    <3>7. Min2(n, Len(wire) - i) = n
      BY <2>2, <2>3, <3>1, <3>4, <3>6 DEF Min2
    <3>8. openai(i) = [j \in 1..n |-> got(i, j)]
      BY <3>7
    <3>9. ASSUME NEW j \in 1..n
          PROVE  got(i, j) = messages[i + j].id
      <4>1. i + j \in 1..Len(messages)
        BY <2>2, <3>1, <3>4, <3>5
      <4>2. wire[i + j].results = <<messages[i + j].id>>
        BY <2>3, <3>5, <4>1
      <4> QED BY <4>2
    <3> HIDE DEF got
    <3>10. results[i] = [j \in 1..n |-> got(i, j)]
      BY <3>8
    <3>11. Len(results[i]) = n /\ \A j \in 1..n : results[i][j] = got(i, j)
      <4> HIDE DEF results
      <4> QED BY <3>4, <3>10
    <3> HIDE DEF results
    <3> QED BY <3>5, <3>9, <3>11
  <2>5. \A i \in 1..Len(wire) : wire[i].calls # <<>> =>
          /\ Len(results[i]) = Len(wire[i].calls)
          /\ \A j \in 1..Len(results[i]) : Answers_(wire[i].calls[j], results[i][j])
    <3> HIDE DEF results
    <3> QED BY <2>4
  <2>6. \A i \in 1..Len(wire) : wire[i].results # <<>> =>
          \E p \in 1..(i - 1) : i - p <= Len(wire[p].calls)
    <3> TAKE i \in 1..Len(wire)
    <3> HAVE wire[i].results # <<>>
    <3>1. i \in 1..Len(messages) /\ messages[i].role = "tool" /\ i \in Nat
      BY <2>2, <2>3
    <3>2. PICK p \in 1..(i - 1) : i - p <= Len(messages[p].calls)
      BY <2>1, <3>1 DEF Conversation, Expected
    <3>3. wire[p].calls = messages[p].calls
      BY <2>2, <2>3, <3>1, <3>2
    <3> QED BY <3>2, <3>3
  <2> QED BY <2>5, <2>6 DEF CallsAnswered, wire
<1> QED BY <1>1, Invariance, PTL
=============================================================================
