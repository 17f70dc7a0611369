----------------------------- MODULE TaskQueue ------------------------------
(***************************************************************************)
(* Delivery of task events: the Redis stream and its consumer group        *)
(* (internal/store/redis/store.go, Subscribe, subscription) under the loop *)
(* of each worker (internal/controller/worker.go, Run).                    *)
(*                                                                         *)
(* Events are the stream ids 1, 2, ...: the stream is never trimmed, so it *)
(* is the interval 1..last.  A worker process joins the group under a      *)
(* consumer name derived from its host and start time, so a restarted      *)
(* worker is a new consumer: names are pairs <<worker, starts>>.           *)
(*                                                                         *)
(* "crash" in Faults lets workers die at any point (a shutdown is a crash  *)
(* between two events), "store" lets an XREADGROUP reply or an XACK be     *)
(* lost.                                                                   *)
(***************************************************************************)
EXTENDS Naturals, Sequences, FiniteSets

CONSTANTS
    Workers,
    BatchSize,   \* Options.ReadBatchSize
    Faults,
    MaxEvents,   \* bound on published events
    MaxStarts    \* bound on the starts of one worker

ASSUME QueueAssumption ==
    /\ BatchSize \in Nat \ {0}
    /\ Faults \subseteq {"store", "crash"}
    /\ MaxEvents \in Nat
    /\ MaxStarts \in Nat

Events == 1..MaxEvents

NoConsumer == <<>>
NoEvent == 0

VARIABLES
    last,       \* id of the newest entry of the stream
    group,      \* whether the consumer group exists
    position,   \* the group's last-delivered id
    pel,        \* pending entries list: the consumer each delivered id waits on
    starts,     \* how often each worker has started
    up,         \* worker is subscribed and in its loop
    pending,    \* subscription.pending
    cur,        \* event returned by Next
    acking,     \* processEvent has returned and Ack is next
    handled     \* history: how often processEvent has returned for each id

vars == <<last, group, position, pel, starts, up, pending, cur, acking, handled>>

Consumer(w) == <<w, starts[w]>>

Consumers == Workers \X (1..MaxStarts)

\* A worker acknowledges an event it has in hand, and has one only while it
\* is up (Run: every path to Ack comes through Next).
TypeOK ==
    /\ last \in 0..MaxEvents
    /\ group \in BOOLEAN
    /\ position \in 0..last
    /\ pel \in [Events -> Consumers \cup {NoConsumer}]
    /\ starts \in [Workers -> 0..MaxStarts]
    /\ up \in [Workers -> BOOLEAN]
    /\ pending \in [Workers -> Seq(Events)]
    /\ cur \in [Workers -> Events \cup {NoEvent}]
    /\ acking \in [Workers -> BOOLEAN]
    /\ handled \in [Events -> Nat]
    /\ \A w \in Workers : (acking[w] => cur[w] # NoEvent) /\ (cur[w] # NoEvent => up[w])

Init ==
    /\ last = 0
    /\ group = FALSE
    /\ position = 0
    /\ pel = [e \in Events |-> NoConsumer]
    /\ starts = [w \in Workers |-> 0]
    /\ up = [w \in Workers |-> FALSE]
    /\ pending = [w \in Workers |-> <<>>]
    /\ cur = [w \in Workers |-> NoEvent]
    /\ acking = [w \in Workers |-> FALSE]
    /\ handled = [e \in Events |-> 0]

-----------------------------------------------------------------------------
\* XADD by SaveTask or MarkTaskDeleting.
Publish ==
    /\ last < MaxEvents
    /\ last' = last + 1
    /\ UNCHANGED <<group, position, pel, starts, up, pending, cur, acking, handled>>

\* Mutant: a new group starts at the head of the stream for every start.
SubscribeAtHead(w) ==
    /\ ~up[w]
    /\ starts[w] < MaxStarts
    /\ starts' = [starts EXCEPT ![w] = @ + 1]
    /\ up' = [up EXCEPT ![w] = TRUE]
    /\ group' = TRUE
    /\ position' = 0
    /\ UNCHANGED <<last, pel, pending, cur, acking, handled>>

\* XGROUP CREATE ... $ MKSTREAM: a new group starts at the tail, an existing
\* one (BUSYGROUP) keeps its position.
Subscribe(w) ==
    /\ ~up[w]
    /\ starts[w] < MaxStarts
    /\ starts' = [starts EXCEPT ![w] = @ + 1]
    /\ up' = [up EXCEPT ![w] = TRUE]
    /\ group' = TRUE
    /\ position' = IF group THEN position ELSE last
    /\ UNCHANGED <<last, pel, pending, cur, acking, handled>>

BatchEnd == IF position + BatchSize < last THEN position + BatchSize ELSE last

Batch == (position + 1)..BatchEnd

\* Mutant: a batch is worked through from its end.
InReverse(batch) == [i \in 1..Cardinality(batch) |-> position + Cardinality(batch) + 1 - i]

InIdOrder(batch) == [i \in 1..Cardinality(batch) |-> position + i]

\* XREADGROUP with ">": entries nobody was given, now pending for this
\* consumer.  Its own pending entries are never asked for.
Take(w) ==
    /\ up[w]
    /\ cur[w] = NoEvent
    /\ pending[w] = <<>>
    /\ position < last
    /\ position' = BatchEnd
    /\ pel' = [e \in Events |-> IF e \in Batch THEN Consumer(w) ELSE pel[e]]
    /\ UNCHANGED <<last, group, starts, up, cur, acking, handled>>

\* Mutant: a read waits until it can return a full batch.
ReadFull(w) ==
    /\ position + BatchSize <= last
    /\ Take(w)
    /\ pending' = [pending EXCEPT ![w] = InIdOrder(Batch)]

Read(w) ==
    /\ Take(w)
    /\ pending' = [pending EXCEPT ![w] = InIdOrder(Batch)]

\* Mutant: the loop does not go round again after a failed read, and comes to
\* Ack without an event.
ReadLostGoesOn(w) ==
    /\ "store" \in Faults
    /\ up[w]
    /\ cur[w] = NoEvent
    /\ pending[w] = <<>>
    /\ position < last
    /\ position' = BatchEnd
    /\ pel' = [e \in Events |-> IF e \in Batch THEN Consumer(w) ELSE pel[e]]
    /\ acking' = [acking EXCEPT ![w] = TRUE]
    /\ UNCHANGED <<last, group, starts, up, pending, cur, handled>>

\* The reply is lost after Redis has made the entries pending: Next returns
\* the error and Run goes round its loop.
ReadLost(w) ==
    /\ "store" \in Faults
    /\ Take(w)
    /\ UNCHANGED pending

\* Mutant: the head of the batch is not removed.
NextKept(w) ==
    /\ up[w]
    /\ cur[w] = NoEvent
    /\ pending[w] # <<>>
    /\ cur' = [cur EXCEPT ![w] = Head(pending[w])]
    /\ UNCHANGED <<last, group, position, pel, starts, up, pending, acking, handled>>

Next_(w) ==
    /\ up[w]
    /\ cur[w] = NoEvent
    /\ pending[w] # <<>>
    /\ cur' = [cur EXCEPT ![w] = Head(pending[w])]
    /\ pending' = [pending EXCEPT ![w] = Tail(pending[w])]
    /\ UNCHANGED <<last, group, position, pel, starts, up, acking, handled>>

\* processEvent returns, with or without an error.
Process(w) ==
    /\ up[w]
    /\ cur[w] # NoEvent
    /\ ~acking[w]
    /\ handled' = [handled EXCEPT ![cur[w]] = @ + 1]
    /\ acking' = [acking EXCEPT ![w] = TRUE]
    /\ UNCHANGED <<last, group, position, pel, starts, up, pending, cur>>

\* Mutant: the event is acknowledged before it is processed.
AckFirst(w) ==
    /\ up[w]
    /\ cur[w] # NoEvent
    /\ pel[cur[w]] # NoConsumer \/ acking[w]
    /\ pel' = [pel EXCEPT ![cur[w]] = NoConsumer]
    /\ cur' = [cur EXCEPT ![w] = IF acking[w] THEN NoEvent ELSE cur[w]]
    /\ acking' = [acking EXCEPT ![w] = FALSE]
    /\ UNCHANGED <<last, group, position, starts, up, pending, handled>>

\* XACK takes the event off the pending entries list.  If it fails the worker
\* logs that and goes on.
Ack(w) ==
    /\ up[w]
    /\ acking[w]
    /\ \/ pel' = [pel EXCEPT ![cur[w]] = NoConsumer]
       \/ "store" \in Faults /\ UNCHANGED pel
    /\ cur' = [cur EXCEPT ![w] = NoEvent]
    /\ acking' = [acking EXCEPT ![w] = FALSE]
    /\ UNCHANGED <<last, group, position, starts, up, pending, handled>>

\* The process dies.  Its entries stay pending under its old consumer name.
Crash(w) ==
    /\ "crash" \in Faults
    /\ up[w]
    /\ up' = [up EXCEPT ![w] = FALSE]
    /\ pending' = [pending EXCEPT ![w] = <<>>]
    /\ cur' = [cur EXCEPT ![w] = NoEvent]
    /\ acking' = [acking EXCEPT ![w] = FALSE]
    /\ UNCHANGED <<last, group, position, pel, starts, handled>>

WorkerStep(w) == Subscribe(w) \/ Read(w) \/ Next_(w) \/ Process(w) \/ Ack(w)

Next ==
    \/ Publish
    \/ \E w \in Workers : WorkerStep(w) \/ ReadLost(w) \/ Crash(w)

Spec == Init /\ [][Next]_vars

\* A worker that can take a step does: the deployment restarts a controller
\* that died, and Run loops for as long as the process lives.
FairSpec == Spec /\ \A w \in Workers : WF_vars(WorkerStep(w))

-----------------------------------------------------------------------------
(* Properties.                                                             *)

\* The events a worker still has to process, in the order it will.
Queue(w) ==
    (IF cur[w] = NoEvent \/ acking[w] THEN <<>> ELSE <<cur[w]>>) \o pending[w]

Held(w) == {Queue(w)[i] : i \in 1..Len(Queue(w))}

InHand == UNION {Held(w) : w \in Workers}

Queued(e) == group /\ position < e /\ e <= last

\* Where event e is, in the terms of EventDelivery.
Where(e) ==
    CASE e > last                    -> "unpublished"
      [] handled[e] > 0              -> "done"
      [] e \in InHand                -> "held"
      [] position < e /\ e <= last   -> "queued"
      [] OTHER                       -> "lost"

\* Streams, batches, consumer groups and acknowledgements implement the
\* abstract promise: delivered at most once, then finished with or lost.
Delivery == INSTANCE EventDelivery WITH state <- [e \in Events |-> Where(e)]

DeliveryRefined == Delivery!Spec

\* No event is handled twice or held by two workers, however workers die and
\* come back and whichever acknowledgements fail ("Every event is delivered to
\* exactly one member of a group", store.go EventQueue).
HandledOnce ==
    /\ \A e \in Events : handled[e] <= 1
    /\ \A e \in InHand : handled[e] = 0
    /\ \A v, w \in Workers : v # w => Held(v) \cap Held(w) = {}

\* Each worker works through its events in stream order, whatever batches,
\* lost replies and restarts they came through (subscription.Next).
InStreamOrder ==
    \A w \in Workers : \A i, j \in 1..Len(Queue(w)) : i < j => Queue(w)[i] < Queue(w)[j]

\* "an event stays in the group's pending list until Ack is called for it":
\* what a worker has not finished is pending under the name it has now.
PendingUntilAck == \A w \in Workers : \A e \in Held(w) : pel[e] = Consumer(w)

\* As long as some worker stays up, no queued event waits forever: it is
\* handled, or lost with a reply or with the worker that held it.
Drains ==
    (<>[]\E w \in Workers : up[w]) =>
        \A e \in Events : Queued(e) ~> Where(e) \in {"done", "lost"}

\* "stays pending until that member acknowledges it, so a crashed worker's
\* events can be picked up again" (store.go, EventQueue): with a worker up, an
\* event pending under some consumer is eventually handled.
PickedUpAgain ==
    (<>[]\E w \in Workers : up[w]) =>
        \A e \in Events : pel[e] # NoConsumer ~> handled[e] > 0
=============================================================================
