--------------------------- MODULE TaskQueueProofs ---------------------------
(***************************************************************************)
(* Theorems about TaskQueue for any number of workers, events, restarts    *)
(* and any batch size, and the proof that it implements EventDelivery.     *)
(***************************************************************************)
EXTENDS TaskQueue, FiniteSetTheorems, SequenceTheorems, TLAPS

-----------------------------------------------------------------------------
(* The inductive invariant.                                                *)

\* Worker w has event e before it: as the event in hand or in its batch.
Holds(w, e) ==
    \/ cur[w] = e /\ ~acking[w]
    \/ \E i \in 1..Len(pending[w]) : pending[w][i] = e

\* A worker that is down keeps nothing, and one that is up has a name.
DownIsEmpty ==
    \A w \in Workers :
        /\ up[w] => starts[w] > 0
        /\ ~up[w] => cur[w] = NoEvent /\ ~acking[w] /\ pending[w] = <<>>

\* What is held was delivered, is pending under the holder's present name, and
\* has not been handled.  That no two workers hold an event follows: their
\* names differ.
HeldDelivered ==
    \A w \in Workers : \A e \in Events : Holds(w, e) =>
        e <= position /\ pel[e] = Consumer(w) /\ handled[e] = 0

\* The batch is in stream order and behind the event in hand.
BatchOrdered ==
    \A w \in Workers : \A i \in 1..Len(pending[w]) :
        /\ cur[w] < pending[w][i]
        /\ \A j \in 1..Len(pending[w]) : i < j => pending[w][i] < pending[w][j]

\* An event is handled before it is acknowledged, and after it was delivered.
HandledBeforeAck ==
    /\ \A w \in Workers : acking[w] => cur[w] # NoEvent /\ handled[cur[w]] = 1
    /\ \A e \in Events : handled[e] <= 1 /\ (handled[e] > 0 => e <= position)

Inv == TypeOK /\ DownIsEmpty /\ HeldDelivered /\ BatchOrdered /\ HandledBeforeAck
-----------------------------------------------------------------------------
(* Operators.                                                              *)

\* A batch is the next ids of the stream, at most up to its end, in order.
LEMMA BatchFacts ==
    ASSUME TypeOK, position < last
    PROVE  /\ BatchEnd \in Nat /\ position < BatchEnd /\ BatchEnd <= last
           /\ \A e \in Events : e \in Batch <=> position < e /\ e <= BatchEnd
           /\ InIdOrder(Batch) \in Seq(Events)
           /\ Len(InIdOrder(Batch)) = BatchEnd - position
           /\ \A i \in 1..(BatchEnd - position) : InIdOrder(Batch)[i] = position + i
<1> USE QueueAssumption DEF Events
<1>1. last \in 0..MaxEvents /\ position \in 0..last
  BY DEF TypeOK
<1>2. BatchEnd \in Nat /\ position < BatchEnd /\ BatchEnd <= last
  BY <1>1 DEF BatchEnd
<1>3. \A e \in Events : e \in Batch <=> position < e /\ e <= BatchEnd
  BY <1>1, <1>2 DEF Batch
<1>4. Cardinality(Batch) = BatchEnd - position
  <2>1. position + 1 \in Int /\ BatchEnd \in Int /\ ~(position + 1 > BatchEnd)
    BY <1>1, <1>2
  <2>2. Cardinality((position + 1)..BatchEnd) = BatchEnd - (position + 1) + 1
    BY <2>1, FS_Interval
  <2> QED BY <1>1, <1>2, <2>2 DEF Batch
<1> DEFINE n == BatchEnd - position
<1>5. InIdOrder(Batch) = [i \in 1..n |-> position + i] /\ n \in Nat
  BY <1>1, <1>2, <1>4 DEF InIdOrder
<1>6. \A i \in 1..n : position + i \in Events
  BY <1>1, <1>2
<1>7. [i \in 1..n |-> position + i] \in Seq(Events)
  BY <1>5, <1>6
<1>8. Len([i \in 1..n |-> position + i]) = n
  BY <1>5, <1>7, LenProperties
<1> QED BY <1>2, <1>3, <1>5, <1>7, <1>8

\* The head of a batch and the rest of it.
LEMMA HeadAndTail ==
    ASSUME NEW s \in Seq(Events), s # <<>>
    PROVE  /\ Len(s) \in Nat \ {0} /\ Head(s) = s[1] /\ Head(s) \in Events
           /\ Tail(s) \in Seq(Events) /\ Len(Tail(s)) = Len(s) - 1
           /\ \A i \in 1..(Len(s) - 1) : Tail(s)[i] = s[i + 1]
<1>1. Len(s) \in Nat /\ Len(s) # 0
  BY LenProperties, EmptySeq
<1>2. Head(s) = s[1]
  OBVIOUS
<1> QED BY <1>1, <1>2, HeadTailProperties

\* The queue of a worker, without concatenation.
LEMMA QueueFacts ==
    ASSUME TypeOK, NEW w \in Workers
    PROVE  /\ cur[w] = NoEvent \/ acking[w] => Queue(w) = pending[w]
           /\ ~(cur[w] = NoEvent \/ acking[w]) =>
                /\ Len(Queue(w)) = Len(pending[w]) + 1
                /\ Queue(w)[1] = cur[w]
                /\ \A i \in 1..Len(pending[w]) : Queue(w)[i + 1] = pending[w][i]
<1>1. pending[w] \in Seq(Events) /\ cur[w] \in Events \cup {NoEvent} /\ Len(pending[w]) \in Nat
  BY LenProperties DEF TypeOK
<1>2. cur[w] = NoEvent \/ acking[w] => Queue(w) = pending[w]
  BY <1>1, ConcatEmptySeq DEF Queue
<1>3. ASSUME ~(cur[w] = NoEvent \/ acking[w])
      PROVE  /\ Len(Queue(w)) = Len(pending[w]) + 1
             /\ Queue(w)[1] = cur[w]
             /\ \A i \in 1..Len(pending[w]) : Queue(w)[i + 1] = pending[w][i]
  <2>1. Queue(w) = <<cur[w]>> \o pending[w] /\ cur[w] \in Events
    BY <1>1, <1>3 DEF Queue
  <2>2. <<cur[w]>> \in Seq(Events) /\ Len(<<cur[w]>>) = 1 /\ <<cur[w]>>[1] = cur[w]
    BY <2>1
  <2>3. /\ Len(Queue(w)) = 1 + Len(pending[w])
        /\ \A i \in 1..(1 + Len(pending[w])) :
             Queue(w)[i] = IF i <= 1 THEN <<cur[w]>>[i] ELSE pending[w][i - 1]
    BY <1>1, <2>1, <2>2, ConcatProperties
  <2>4. Queue(w)[1] = cur[w]
    BY <1>1, <2>2, <2>3
  <2>5. ASSUME NEW i \in 1..Len(pending[w]) PROVE Queue(w)[i + 1] = pending[w][i]
    <3>1. i + 1 \in 1..(1 + Len(pending[w])) /\ ~(i + 1 <= 1) /\ (i + 1) - 1 = i
      BY <1>1
    <3> QED BY <2>3, <3>1
  <2> QED BY <1>1, <2>3, <2>4, <2>5
<1> QED BY <1>2, <1>3

\* What a worker's queue contains.
LEMMA HeldFacts ==
    ASSUME TypeOK, NEW w \in Workers
    PROVE  \A e : e \in Held(w) <=> e \in Events /\ Holds(w, e)
<1>1. /\ pending[w] \in Seq(Events) /\ Len(pending[w]) \in Nat
      /\ cur[w] \in Events \cup {NoEvent}
      /\ NoEvent \notin Events
      /\ \A i \in 1..Len(pending[w]) : pending[w][i] \in Events
  <2>1. pending[w] \in Seq(Events) /\ cur[w] \in Events \cup {NoEvent}
    BY DEF TypeOK
  <2>2. NoEvent \notin Events
    BY QueueAssumption DEF NoEvent, Events
  <2> QED BY <2>1, <2>2, LenProperties, ElementOfSeq
<1>2. CASE cur[w] = NoEvent \/ acking[w]
  <2>1. Held(w) = {pending[w][i] : i \in 1..Len(pending[w])}
    BY <1>2, QueueFacts DEF Held
  <2> QED BY <1>1, <1>2, <2>1 DEF Holds
<1>3. CASE ~(cur[w] = NoEvent \/ acking[w])
  <2> SUFFICES ASSUME NEW e
               PROVE  e \in Held(w) <=> e \in Events /\ Holds(w, e)
    OBVIOUS
  <2>1. /\ Len(Queue(w)) = Len(pending[w]) + 1
        /\ Queue(w)[1] = cur[w]
        /\ \A i \in 1..Len(pending[w]) : Queue(w)[i + 1] = pending[w][i]
    BY <1>3, QueueFacts
  <2>2. ASSUME e \in Held(w) PROVE e \in Events /\ Holds(w, e)
    <3>1. PICK k \in 1..Len(Queue(w)) : e = Queue(w)[k]
      BY <2>2 DEF Held
    <3>2. CASE k = 1
      BY <1>1, <1>3, <2>1, <3>1, <3>2 DEF Holds
    <3>3. CASE k # 1
      <4>1. k - 1 \in 1..Len(pending[w]) /\ k = (k - 1) + 1
        BY <1>1, <2>1, <3>1, <3>3
      <4>2. e = pending[w][k - 1]
        BY <2>1, <3>1, <4>1
      <4> QED BY <1>1, <4>1, <4>2 DEF Holds
    <3> QED BY <3>2, <3>3
  <2>3. ASSUME e \in Events, Holds(w, e) PROVE e \in Held(w)
    <3>1. CASE cur[w] = e
      BY <1>1, <2>1, <3>1 DEF Held
    <3>2. CASE \E i \in 1..Len(pending[w]) : pending[w][i] = e
      <4>1. PICK k \in 1..Len(pending[w]) : pending[w][k] = e
        BY <3>2
      <4>2. k + 1 \in 1..Len(Queue(w)) /\ Queue(w)[k + 1] = e
        BY <1>1, <2>1, <4>1
      <4> QED BY <4>2 DEF Held
    <3> QED BY <2>3, <3>1, <3>2 DEF Holds
  <2> QED BY <2>2, <2>3
<1> QED BY <1>2, <1>3

\* The events in some worker's hands.
LEMMA InHandFacts ==
    ASSUME TypeOK
    PROVE  \A e \in Events : e \in InHand <=> \E w \in Workers : Holds(w, e)
BY HeldFacts DEF InHand

-----------------------------------------------------------------------------
(* What each step does to what the workers hold.                           *)

\* Steps that touch neither batches nor events in hand.
LEMMA HoldsSame ==
    ASSUME UNCHANGED <<pending, cur, acking>>
    PROVE  \A v \in Workers, e \in Events : Holds(v, e)' <=> Holds(v, e)
BY DEF Holds

\* A read adds a batch to the worker that made it.
LEMMA HoldsRead ==
    ASSUME Inv, NEW w \in Workers, Read(w)
    PROVE  \A v \in Workers, e \in Events :
             Holds(v, e)' <=> Holds(v, e) \/ (v = w /\ e \in Batch)
<1> SUFFICES ASSUME NEW v \in Workers, NEW e \in Events
             PROVE  Holds(v, e)' <=> Holds(v, e) \/ (v = w /\ e \in Batch)
  OBVIOUS
<1>1. /\ pending' = [pending EXCEPT ![w] = InIdOrder(Batch)] /\ pending[w] = <<>>
      /\ UNCHANGED <<cur, acking>> /\ position < last /\ TypeOK
  BY DEF Read, Take, Inv
<1>2. pending \in [Workers -> Seq(Events)] /\ position \in Nat /\ Events \subseteq Nat
  BY <1>1, QueueAssumption DEF TypeOK, Events
<1>3. CASE v # w
  BY <1>1, <1>2, <1>3 DEF Holds
<1>4. CASE v = w
  <2>1. pending'[w] = InIdOrder(Batch) /\ Len(pending[w]) = 0
    BY <1>1, <1>2, EmptySeq
  <2>2. (\E i \in 1..Len(pending'[w]) : pending'[w][i] = e) <=> e \in Batch
    <3>1. /\ BatchEnd \in Nat /\ position < BatchEnd
          /\ e \in Batch <=> position < e /\ e <= BatchEnd
          /\ Len(pending'[w]) = BatchEnd - position
          /\ \A i \in 1..(BatchEnd - position) : pending'[w][i] = position + i
      BY <1>1, <2>1, BatchFacts
    <3>2. e \in Batch => e - position \in 1..(BatchEnd - position) /\ e = position + (e - position)
      BY <1>2, <3>1
    <3>3. ASSUME NEW i \in 1..(BatchEnd - position), position + i = e PROVE e \in Batch
      BY <1>2, <3>1, <3>3
    <3> QED BY <3>1, <3>2, <3>3
  <2> QED BY <1>1, <1>4, <2>1, <2>2 DEF Holds
<1> QED BY <1>3, <1>4

\* Next takes the head of the batch in hand.
LEMMA HoldsNext ==
    ASSUME Inv, NEW w \in Workers, Next_(w)
    PROVE  \A v \in Workers, e \in Events : Holds(v, e)' <=> Holds(v, e)
<1> SUFFICES ASSUME NEW v \in Workers, NEW e \in Events
             PROVE  Holds(v, e)' <=> Holds(v, e)
  OBVIOUS
<1>1. /\ cur' = [cur EXCEPT ![w] = Head(pending[w])] /\ pending[w] # <<>> /\ cur[w] = NoEvent
      /\ pending' = [pending EXCEPT ![w] = Tail(pending[w])] /\ acking' = acking
  BY DEF Next_
<1>2. /\ pending \in [Workers -> Seq(Events)] /\ cur \in [Workers -> Events \cup {NoEvent}]
      /\ ~acking[w] /\ NoEvent \notin Events
  BY <1>1 DEF Inv, TypeOK, HandledBeforeAck, NoEvent, Events
<1>3. CASE v # w
  BY <1>1, <1>2, <1>3 DEF Holds
<1>4. CASE v = w
  <2>1. /\ pending[w] \in Seq(Events) /\ Len(pending[w]) \in Nat \ {0} /\ cur'[w] = pending[w][1]
        /\ Len(pending'[w]) = Len(pending[w]) - 1
        /\ \A i \in 1..(Len(pending[w]) - 1) : pending'[w][i] = pending[w][i + 1]
    BY <1>1, <1>2, HeadAndTail
  <2>2. Holds(w, e)' <=> pending[w][1] = e
                         \/ \E i \in 1..(Len(pending[w]) - 1) : pending[w][i + 1] = e
    BY <1>1, <1>2, <2>1 DEF Holds
  <2>3. Holds(w, e) <=> \E i \in 1..Len(pending[w]) : pending[w][i] = e
    BY <1>1, <1>2 DEF Holds
  <2>4. ASSUME NEW k \in 1..Len(pending[w]), k # 1
        PROVE  k - 1 \in 1..(Len(pending[w]) - 1) /\ (k - 1) + 1 = k
    BY <2>1, <2>4
  <2>5. 1 \in 1..Len(pending[w])
        /\ \A i \in 1..(Len(pending[w]) - 1) : i + 1 \in 1..Len(pending[w])
    BY <2>1
  <2> QED BY <1>4, <2>2, <2>3, <2>4, <2>5
<1> QED BY <1>3, <1>4

\* processEvent is done with the event in hand.
LEMMA HoldsProcess ==
    ASSUME Inv, NEW w \in Workers, Process(w)
    PROVE  /\ cur[w] \in Events /\ Holds(w, cur[w])
           /\ \A v \in Workers, e \in Events :
                Holds(v, e)' <=> Holds(v, e) /\ ~(v = w /\ e = cur[w])
<1>1. /\ cur[w] # NoEvent /\ ~acking[w] /\ acking' = [acking EXCEPT ![w] = TRUE]
      /\ UNCHANGED <<pending, cur>>
  BY DEF Process
<1>2. /\ cur[w] \in Events /\ acking \in [Workers -> BOOLEAN] /\ Events \subseteq Nat
      /\ pending \in [Workers -> Seq(Events)]
  BY <1>1 DEF Inv, TypeOK, Events
<1>3. Holds(w, cur[w])
  BY <1>1 DEF Holds
<1>4. \A i \in 1..Len(pending[w]) : pending[w][i] # cur[w]
  <2>1. \A i \in 1..Len(pending[w]) : cur[w] < pending[w][i]
    BY DEF Inv, BatchOrdered
  <2>2. cur[w] \in Nat
    BY <1>2
  <2>3. \A n : n \in Nat => ~(n < n)
    OBVIOUS
  <2> QED BY <2>1, <2>2, <2>3
<1>5. \A v \in Workers, e \in Events : v # w => (Holds(v, e)' <=> Holds(v, e))
  BY <1>1, <1>2 DEF Holds
<1>6. \A e \in Events : Holds(w, e)' <=> Holds(w, e) /\ e # cur[w]
  BY <1>1, <1>2, <1>4 DEF Holds
<1> QED BY <1>2, <1>3, <1>5, <1>6

\* An acknowledged event was not before its worker any more.
LEMMA HoldsAck ==
    ASSUME Inv, NEW w \in Workers, Ack(w)
    PROVE  \A v \in Workers, e \in Events : Holds(v, e)' <=> Holds(v, e)
<1>1. /\ acking[w] /\ cur' = [cur EXCEPT ![w] = NoEvent]
      /\ acking' = [acking EXCEPT ![w] = FALSE] /\ pending' = pending
  BY DEF Ack
<1>2. /\ cur \in [Workers -> Events \cup {NoEvent}] /\ acking \in [Workers -> BOOLEAN]
      /\ NoEvent \notin Events
  BY DEF Inv, TypeOK, NoEvent, Events
<1> QED BY <1>1, <1>2 DEF Holds

\* A crash takes everything from the worker.
LEMMA HoldsCrash ==
    ASSUME Inv, NEW w \in Workers, Crash(w)
    PROVE  \A v \in Workers, e \in Events : Holds(v, e)' <=> Holds(v, e) /\ v # w
<1>1. /\ cur' = [cur EXCEPT ![w] = NoEvent] /\ pending' = [pending EXCEPT ![w] = <<>>]
      /\ acking' = [acking EXCEPT ![w] = FALSE]
  BY DEF Crash
<1>2. /\ cur \in [Workers -> Events \cup {NoEvent}] /\ acking \in [Workers -> BOOLEAN]
      /\ NoEvent \notin Events /\ pending \in [Workers -> Seq(Events)]
  BY DEF Inv, TypeOK, NoEvent, Events
<1>3. pending'[w] = <<>> /\ Len(pending'[w]) = 0 /\ cur'[w] = NoEvent
  BY <1>1, <1>2, EmptySeq
<1>4. \A e \in Events : ~Holds(w, e)'
  BY <1>2, <1>3 DEF Holds
<1>5. \A v \in Workers, e \in Events : v # w => (Holds(v, e)' <=> Holds(v, e))
  BY <1>1, <1>2 DEF Holds
<1> QED BY <1>4, <1>5

-----------------------------------------------------------------------------
(* Every step preserves the invariant.                                     *)

\* Type correctness: a consumer that is given events has a name.
LEMMA TypeStep == Inv /\ [Next]_vars => TypeOK'
<1> SUFFICES ASSUME Inv, [Next]_vars
             PROVE  TypeOK'
  OBVIOUS
<1> USE QueueAssumption
<1>0. TypeOK
  BY DEF Inv
<1>1. CASE Publish
  BY <1>0, <1>1 DEF Publish, TypeOK
<1>2. ASSUME NEW w \in Workers, Subscribe(w)
      PROVE  TypeOK'
  BY <1>0, <1>2 DEF Subscribe, TypeOK
<1>3. ASSUME NEW w \in Workers, Take(w)
      PROVE  /\ position' \in 0..last' /\ pel' \in [Events -> Consumers \cup {NoConsumer}]
             /\ UNCHANGED <<last, group, starts, up, cur, acking, handled>>
  <2>1. Consumer(w) \in Consumers
    <3>1. starts[w] \in 0..MaxStarts /\ starts[w] > 0
      BY <1>0, <1>3 DEF Take, Inv, DownIsEmpty, TypeOK
    <3> QED BY <3>1 DEF Consumer, Consumers
  <2>2. pel' \in [Events -> Consumers \cup {NoConsumer}]
    BY <1>0, <1>3, <2>1 DEF Take, TypeOK
  <2>3. BatchEnd \in 0..last
    BY <1>0, <1>3, BatchFacts DEF Take, TypeOK
  <2> QED BY <1>3, <2>2, <2>3 DEF Take
<1>4. ASSUME NEW w \in Workers, Read(w)
      PROVE  TypeOK'
  <2>1. InIdOrder(Batch) \in Seq(Events)
    BY <1>0, <1>4, BatchFacts DEF Read, Take
  <2>2. pending' \in [Workers -> Seq(Events)]
    BY <1>0, <1>4, <2>1 DEF Read, TypeOK
  <2> QED BY <1>0, <1>3, <1>4, <2>2 DEF Read, TypeOK
<1>5. ASSUME NEW w \in Workers, ReadLost(w)
      PROVE  TypeOK'
  BY <1>0, <1>3, <1>5 DEF ReadLost, TypeOK
<1>6. ASSUME NEW w \in Workers, Next_(w)
      PROVE  TypeOK'
  <2>1. pending[w] \in Seq(Events) /\ pending[w] # <<>>
    BY <1>0, <1>6 DEF Next_, TypeOK
  <2>2. Head(pending[w]) \in Events /\ Tail(pending[w]) \in Seq(Events)
    BY <2>1, HeadAndTail
  <2> QED BY <1>0, <1>6, <2>2 DEF Next_, TypeOK
<1>7. ASSUME NEW w \in Workers, Process(w)
      PROVE  TypeOK'
  BY <1>0, <1>7 DEF Process, TypeOK
<1>8. ASSUME NEW w \in Workers, Ack(w)
      PROVE  TypeOK'
  BY <1>0, <1>8 DEF Ack, TypeOK
<1>9. ASSUME NEW w \in Workers, Crash(w)
      PROVE  TypeOK'
  BY <1>0, <1>9, EmptySeq DEF Crash, TypeOK
<1>10. CASE UNCHANGED vars
  BY <1>0, <1>10 DEF vars, TypeOK
<1> QED BY <1>1, <1>2, <1>4, <1>5, <1>6, <1>7, <1>8, <1>9, <1>10 DEF Next, WorkerStep

\* A worker loses what it has when it goes down, and starts under a new name.
LEMMA DownIsEmptyStep == Inv /\ [Next]_vars => DownIsEmpty'
<1> SUFFICES ASSUME Inv, [Next]_vars, NEW v \in Workers
             PROVE  /\ up'[v] => starts'[v] > 0
                    /\ ~up'[v] => cur'[v] = NoEvent /\ ~acking'[v] /\ pending'[v] = <<>>
  BY DEF DownIsEmpty
<1>0. /\ up[v] => starts[v] > 0
      /\ ~up[v] => cur[v] = NoEvent /\ ~acking[v] /\ pending[v] = <<>>
  BY DEF Inv, DownIsEmpty
<1>a. /\ starts \in [Workers -> 0..MaxStarts] /\ up \in [Workers -> BOOLEAN]
      /\ pending \in [Workers -> Seq(Events)] /\ cur \in [Workers -> Events \cup {NoEvent}]
      /\ acking \in [Workers -> BOOLEAN]
  BY DEF Inv, TypeOK
<1>1. CASE Publish
  BY <1>0, <1>1 DEF Publish
<1>2. ASSUME NEW w \in Workers, Subscribe(w) PROVE up'[v] => starts'[v] > 0
  BY <1>0, <1>a, <1>2, QueueAssumption DEF Subscribe
<1>3. ASSUME NEW w \in Workers, Subscribe(w)
      PROVE  ~up'[v] => cur'[v] = NoEvent /\ ~acking'[v] /\ pending'[v] = <<>>
  BY <1>0, <1>a, <1>3 DEF Subscribe
<1>4. ASSUME NEW w \in Workers, Read(w) \/ ReadLost(w) \/ Next_(w) \/ Process(w) \/ Ack(w)
      PROVE  /\ up[w] /\ UNCHANGED <<up, starts>>
             /\ v # w => UNCHANGED <<cur[v], acking[v], pending[v]>>
  BY <1>a, <1>4 DEF Read, ReadLost, Take, Next_, Process, Ack
<1>5. ASSUME NEW w \in Workers, Crash(w)
      PROVE  /\ up'[v] => starts'[v] > 0
             /\ ~up'[v] => cur'[v] = NoEvent /\ ~acking'[v] /\ pending'[v] = <<>>
  BY <1>0, <1>a, <1>5 DEF Crash
<1>6. CASE UNCHANGED vars
  BY <1>0, <1>6 DEF vars
<1> QED BY <1>0, <1>1, <1>2, <1>3, <1>4, <1>5, <1>6 DEF Next, WorkerStep

\* No step reassigns an event that somebody holds.
LEMMA HeldDeliveredStep == Inv /\ [Next]_vars => HeldDelivered'
<1> SUFFICES ASSUME Inv, [Next]_vars, NEW v \in Workers, NEW e \in Events, Holds(v, e)'
             PROVE  e <= position' /\ pel'[e] = Consumer(v)' /\ handled'[e] = 0
  BY DEF HeldDelivered
<1>0. Holds(v, e) => e <= position /\ pel[e] = Consumer(v) /\ handled[e] = 0
  BY DEF Inv, HeldDelivered
<1>a. /\ last \in 0..MaxEvents /\ position \in 0..last /\ e \in Nat
      /\ pel \in [Events -> Consumers \cup {NoConsumer}]
      /\ starts \in [Workers -> 0..MaxStarts] /\ handled \in [Events -> Nat]
  BY QueueAssumption DEF Inv, TypeOK, Events
<1>1. CASE Publish
  <2>1. Holds(v, e)
    BY <1>1, HoldsSame DEF Publish
  <2> QED BY <1>0, <1>1, <2>1 DEF Publish, Consumer
<1>2. ASSUME NEW w \in Workers, Subscribe(w)
      PROVE  e <= position' /\ pel'[e] = Consumer(v)' /\ handled'[e] = 0
  <2>1. Holds(v, e)
    BY <1>2, HoldsSame DEF Subscribe
  <2>2. ~Holds(w, e)
    <3>1. cur[w] = NoEvent /\ pending[w] = <<>> /\ Len(pending[w]) = 0
      BY <1>2, EmptySeq DEF Subscribe, Inv, DownIsEmpty
    <3>2. e # NoEvent
      BY QueueAssumption DEF Events, NoEvent
    <3> QED BY <3>1, <3>2 DEF Holds
  <2>3. Consumer(v)' = Consumer(v) /\ pel' = pel /\ handled' = handled
    BY <1>a, <1>2, <2>1, <2>2 DEF Subscribe, Consumer
  <2>4. e <= position'
    BY <1>0, <1>a, <1>2, <2>1, QueueAssumption DEF Subscribe
  <2> QED BY <1>0, <2>1, <2>3, <2>4
<1>3. ASSUME NEW w \in Workers, Take(w)
      PROVE  /\ position' = BatchEnd /\ position < BatchEnd /\ handled' = handled
             /\ Consumer(v)' = Consumer(v) /\ BatchEnd \in Nat
             /\ pel'[e] = IF e \in Batch THEN Consumer(w) ELSE pel[e]
             /\ e \in Batch <=> position < e /\ e <= BatchEnd
  BY <1>3, BatchFacts DEF Take, Inv, Consumer
<1>4. ASSUME NEW w \in Workers, Read(w)
      PROVE  e <= position' /\ pel'[e] = Consumer(v)' /\ handled'[e] = 0
  <2>1. Holds(v, e) \/ (v = w /\ e \in Batch)
    BY <1>4, HoldsRead
  <2>2. CASE Holds(v, e)
    BY <1>0, <1>a, <1>3, <1>4, <2>2 DEF Read
  <2>3. CASE v = w /\ e \in Batch
    <3>1. position < e => handled[e] = 0
      BY <1>a DEF Inv, HandledBeforeAck
    <3> QED BY <1>3, <1>4, <2>3, <3>1 DEF Read
  <2> QED BY <2>1, <2>2, <2>3
<1>5. ASSUME NEW w \in Workers, ReadLost(w)
      PROVE  e <= position' /\ pel'[e] = Consumer(v)' /\ handled'[e] = 0
  <2>1. Holds(v, e)
    BY <1>5, HoldsSame DEF ReadLost, Take
  <2> QED BY <1>0, <1>a, <1>3, <1>5, <2>1 DEF ReadLost
<1>6. ASSUME NEW w \in Workers, Next_(w)
      PROVE  e <= position' /\ pel'[e] = Consumer(v)' /\ handled'[e] = 0
  BY <1>0, <1>6, HoldsNext DEF Next_, Consumer
<1>7. ASSUME NEW w \in Workers, Process(w)
      PROVE  e <= position' /\ pel'[e] = Consumer(v)' /\ handled'[e] = 0
  <2>1. Holds(v, e) /\ Holds(w, cur[w]) /\ cur[w] \in Events /\ ~(v = w /\ e = cur[w])
    BY <1>7, HoldsProcess
  <2>2. pel[cur[w]] = Consumer(w) /\ pel[e] = Consumer(v)
    BY <2>1 DEF Inv, HeldDelivered
  <2>3. e # cur[w]
    BY <2>1, <2>2 DEF Consumer
  <2> QED BY <1>0, <1>a, <1>7, <2>1, <2>3 DEF Process, Consumer
<1>8. ASSUME NEW w \in Workers, Ack(w)
      PROVE  e <= position' /\ pel'[e] = Consumer(v)' /\ handled'[e] = 0
  <2>1. Holds(v, e)
    BY <1>8, HoldsAck
  <2>2. handled[cur[w]] = 1
    BY <1>8 DEF Ack, Inv, HandledBeforeAck
  <2>3. e # cur[w]
    BY <1>0, <2>1, <2>2
  <2> QED BY <1>0, <1>a, <1>8, <2>1, <2>3 DEF Ack, Consumer
<1>9. ASSUME NEW w \in Workers, Crash(w)
      PROVE  e <= position' /\ pel'[e] = Consumer(v)' /\ handled'[e] = 0
  BY <1>0, <1>9, HoldsCrash DEF Crash, Consumer
<1>10. CASE UNCHANGED vars
  <2>1. Holds(v, e)
    BY <1>10, HoldsSame DEF vars
  <2> QED BY <1>0, <1>10, <2>1 DEF vars, Consumer
<1> QED BY <1>1, <1>2, <1>4, <1>5, <1>6, <1>7, <1>8, <1>9, <1>10 DEF Next, WorkerStep

\* Batches arrive in stream order and are taken from the front.
LEMMA BatchOrderedStep == Inv /\ [Next]_vars => BatchOrdered'
<1> SUFFICES ASSUME Inv, [Next]_vars, NEW v \in Workers
             PROVE  \A i \in 1..Len(pending'[v]) :
                      /\ cur'[v] < pending'[v][i]
                      /\ \A j \in 1..Len(pending'[v]) : i < j => pending'[v][i] < pending'[v][j]
  BY DEF BatchOrdered
<1> DEFINE Goal == \A i \in 1..Len(pending'[v]) :
                      /\ cur'[v] < pending'[v][i]
                      /\ \A j \in 1..Len(pending'[v]) : i < j => pending'[v][i] < pending'[v][j]
<1>0. \A i \in 1..Len(pending[v]) :
        /\ cur[v] < pending[v][i]
        /\ \A j \in 1..Len(pending[v]) : i < j => pending[v][i] < pending[v][j]
  BY DEF Inv, BatchOrdered
<1>a. /\ pending \in [Workers -> Seq(Events)] /\ cur \in [Workers -> Events \cup {NoEvent}]
      /\ position \in Nat /\ Events \subseteq Nat \ {0}
  BY QueueAssumption DEF Inv, TypeOK, Events
<1>b. ASSUME cur'[v] = cur[v], pending'[v] = pending[v]
      PROVE  Goal
  BY <1>0, <1>b
<1>c. \A i \in 1..Len(pending[v]) : pending[v][i] \in Events
  BY <1>a, ElementOfSeq
<1>d. ASSUME cur'[v] = NoEvent, pending'[v] = pending[v]
      PROVE  Goal
  <2>1. ASSUME NEW i \in 1..Len(pending[v]) PROVE NoEvent < pending[v][i]
    <3>1. pending[v][i] \in Nat \ {0}
      BY <1>a, <1>c
    <3> QED BY <3>1 DEF NoEvent
  <2> QED BY <1>0, <1>d, <2>1
<1>e. ASSUME pending'[v] = <<>>
      PROVE  Goal
  <2>1. Len(pending'[v]) = 0
    BY <1>e, EmptySeq
  <2> QED BY <2>1
<1>1. CASE Publish
  BY <1>1, <1>b DEF Publish
<1>2. ASSUME NEW w \in Workers, Subscribe(w) \/ ReadLost(w) \/ Process(w)
      PROVE  Goal
  <2>1. UNCHANGED <<cur, pending>>
    BY <1>2 DEF Subscribe, ReadLost, Take, Process
  <2> QED BY <1>b, <2>1
<1>3. ASSUME NEW w \in Workers, Read(w)
      PROVE  Goal
  <2>1. CASE v # w
    BY <1>3, <1>a, <1>b, <2>1 DEF Read, Take
  <2>2. CASE v = w
    <3>1. cur'[v] = NoEvent /\ pending'[v] = InIdOrder(Batch) /\ position < last /\ TypeOK
      BY <1>3, <1>a, <2>2 DEF Read, Take, Inv
    <3>2. /\ Len(pending'[v]) = BatchEnd - position /\ BatchEnd \in Nat
          /\ \A i \in 1..(BatchEnd - position) : pending'[v][i] = position + i
      BY <3>1, BatchFacts
    <3> QED BY <1>a, <3>1, <3>2 DEF NoEvent
  <2> QED BY <2>1, <2>2
<1>4. ASSUME NEW w \in Workers, Next_(w)
      PROVE  Goal
  <2>1. CASE v # w
    BY <1>4, <1>a, <1>b, <2>1 DEF Next_
  <2>2. CASE v = w
    <3>1. /\ cur'[v] = Head(pending[v]) /\ pending'[v] = Tail(pending[v])
          /\ pending[v] \in Seq(Events) /\ pending[v] # <<>>
      BY <1>4, <1>a, <2>2 DEF Next_
    <3>2. /\ Len(pending[v]) \in Nat \ {0} /\ cur'[v] = pending[v][1]
          /\ Len(pending'[v]) = Len(pending[v]) - 1
          /\ \A i \in 1..(Len(pending[v]) - 1) : pending'[v][i] = pending[v][i + 1]
      BY <3>1, HeadAndTail
    <3>3. ASSUME NEW i \in 1..Len(pending'[v])
          PROVE  cur'[v] < pending'[v][i]
      <4>1. 1 \in 1..Len(pending[v]) /\ i + 1 \in 1..Len(pending[v]) /\ 1 < i + 1
        BY <3>2
      <4> QED BY <1>0, <3>2, <4>1
    <3>4. ASSUME NEW i \in 1..Len(pending'[v]), NEW j \in 1..Len(pending'[v]), i < j
          PROVE  pending'[v][i] < pending'[v][j]
      <4>1. i + 1 \in 1..Len(pending[v]) /\ j + 1 \in 1..Len(pending[v]) /\ i + 1 < j + 1
        BY <3>2, <3>4
      <4> QED BY <1>0, <3>2, <4>1
    <3> QED BY <3>3, <3>4
  <2> QED BY <2>1, <2>2
<1>5. ASSUME NEW w \in Workers, Ack(w)
      PROVE  Goal
  <2>1. pending'[v] = pending[v] /\ cur'[v] \in {cur[v], NoEvent}
    BY <1>5, <1>a DEF Ack
  <2> QED BY <1>b, <1>d, <2>1
<1>6. ASSUME NEW w \in Workers, Crash(w)
      PROVE  Goal
  <2>1. pending'[v] = <<>> \/ (pending'[v] = pending[v] /\ cur'[v] = cur[v])
    BY <1>6, <1>a DEF Crash
  <2> QED BY <1>b, <1>e, <2>1
<1>7. CASE UNCHANGED vars
  BY <1>7, <1>b DEF vars
<1> QED BY <1>1, <1>2, <1>3, <1>4, <1>5, <1>6, <1>7 DEF Next, WorkerStep

\* An event is handled once, because only its holder handles it and it leaves
\* the holder's queue when it has.
LEMMA HandledBeforeAckStep == Inv /\ [Next]_vars => HandledBeforeAck'
<1> SUFFICES ASSUME Inv, [Next]_vars
             PROVE  HandledBeforeAck'
  OBVIOUS
<1>0. /\ \A w \in Workers : acking[w] => cur[w] # NoEvent /\ handled[cur[w]] = 1
      /\ \A e \in Events : handled[e] <= 1 /\ (handled[e] > 0 => e <= position)
  BY DEF Inv, HandledBeforeAck
<1>a. /\ last \in 0..MaxEvents /\ position \in 0..last /\ Events \subseteq Nat
      /\ handled \in [Events -> Nat] /\ cur \in [Workers -> Events \cup {NoEvent}]
      /\ acking \in [Workers -> BOOLEAN]
  BY QueueAssumption DEF Inv, TypeOK, Events
<1>b. ASSUME UNCHANGED <<cur, acking, handled>>, position' \in Nat, position <= position'
      PROVE  HandledBeforeAck'
  <2>1. \A w \in Workers : acking'[w] => cur'[w] # NoEvent /\ handled'[cur'[w]] = 1
    BY <1>0, <1>b
  <2>2. \A e \in Events : handled'[e] <= 1 /\ (handled'[e] > 0 => e <= position')
    BY <1>0, <1>a, <1>b
  <2> QED BY <2>1, <2>2 DEF HandledBeforeAck
<1>1. CASE Publish
  BY <1>1, <1>a, <1>b DEF Publish
<1>2. ASSUME NEW w \in Workers, Subscribe(w) PROVE HandledBeforeAck'
  BY <1>2, <1>a, <1>b DEF Subscribe
<1>3. ASSUME NEW w \in Workers, Read(w) \/ ReadLost(w) PROVE HandledBeforeAck'
  <2>1. UNCHANGED <<cur, acking, handled>> /\ position' = BatchEnd /\ position < last
    BY <1>3 DEF Read, ReadLost, Take
  <2>2. BatchEnd \in Nat /\ position < BatchEnd
    BY <2>1, BatchFacts DEF Inv
  <2> QED BY <1>a, <1>b, <2>1, <2>2
<1>4. ASSUME NEW w \in Workers, Next_(w) PROVE HandledBeforeAck'
  <2>1. ~acking[w] /\ UNCHANGED <<acking, handled, position>>
        /\ \A v \in Workers : v # w => cur'[v] = cur[v]
    BY <1>4, <1>0, <1>a DEF Next_
  <2> QED BY <1>0, <2>1 DEF HandledBeforeAck
<1>5. ASSUME NEW w \in Workers, Process(w) PROVE HandledBeforeAck'
  <2> DEFINE d == cur[w]
  <2>1. d \in Events /\ Holds(w, d) /\ d # NoEvent
    BY <1>5, HoldsProcess DEF Process
  <2>2. handled[d] = 0 /\ d <= position
    BY <2>1 DEF Inv, HeldDelivered
  <2>3. /\ handled'[d] = 1 /\ \A e \in Events : e # d => handled'[e] = handled[e]
        /\ UNCHANGED <<cur, position>>
        /\ \A v \in Workers : v # w => acking'[v] = acking[v]
    BY <1>5, <1>a, <2>1, <2>2 DEF Process
  <2>4. \A e \in Events : handled'[e] <= 1 /\ (handled'[e] > 0 => e <= position)
    BY <1>0, <2>2, <2>3
  <2>5. ASSUME NEW v \in Workers, acking'[v]
        PROVE  cur[v] # NoEvent /\ handled'[cur[v]] = 1
    <3>1. CASE v = w
      BY <2>1, <2>3, <3>1
    <3>2. CASE v # w
      <4>1. acking[v] /\ cur[v] # NoEvent /\ handled[cur[v]] = 1
        BY <1>0, <2>3, <2>5, <3>2
      <4>2. cur[v] # d /\ cur[v] \in Events
        BY <1>a, <2>2, <4>1
      <4> QED BY <2>3, <4>1, <4>2
    <3> QED BY <3>1, <3>2
  <2> QED BY <2>3, <2>4, <2>5 DEF HandledBeforeAck
<1>6. ASSUME NEW w \in Workers, Ack(w) \/ Crash(w) PROVE HandledBeforeAck'
  <2>1. /\ ~acking'[w] /\ UNCHANGED <<handled, position>>
        /\ \A v \in Workers : v # w => acking'[v] = acking[v] /\ cur'[v] = cur[v]
    BY <1>6, <1>a DEF Ack, Crash
  <2> QED BY <1>0, <2>1 DEF HandledBeforeAck
<1>7. CASE UNCHANGED vars
  BY <1>7, <1>a, <1>b DEF vars
<1> QED BY <1>1, <1>2, <1>3, <1>4, <1>5, <1>6, <1>7 DEF Next, WorkerStep

-----------------------------------------------------------------------------
(* The theorems.                                                           *)

\* The invariant holds initially, and every step preserves it.
LEMMA InvInit == Init => Inv
<1> SUFFICES ASSUME Init PROVE Inv
  OBVIOUS
<1>1. TypeOK
  <2>1. last \in 0..MaxEvents /\ position \in 0..last
    BY QueueAssumption DEF Init
  <2>6. group \in BOOLEAN
    BY DEF Init
  <2>2. pel \in [Events -> Consumers \cup {NoConsumer}] /\ handled \in [Events -> Nat]
    BY DEF Init
  <2>4. starts \in [Workers -> 0..MaxStarts] /\ cur \in [Workers -> Events \cup {NoEvent}]
    BY QueueAssumption DEF Init
  <2>5. up \in [Workers -> BOOLEAN] /\ acking \in [Workers -> BOOLEAN]
    BY DEF Init
  <2>3. pending \in [Workers -> Seq(Events)]
    BY EmptySeq DEF Init
  <2>7. \A w \in Workers : (acking[w] => cur[w] # NoEvent) /\ (cur[w] # NoEvent => up[w])
    BY DEF Init
  <2> QED BY <2>1, <2>2, <2>3, <2>4, <2>5, <2>6, <2>7 DEF TypeOK
<1>2. DownIsEmpty
  BY DEF Init, DownIsEmpty
<1>3. \A w \in Workers : Len(pending[w]) = 0 /\ cur[w] = NoEvent /\ ~acking[w]
  BY EmptySeq DEF Init
<1>4. HeldDelivered
  <2>1. NoEvent \notin Events
    BY QueueAssumption DEF NoEvent, Events
  <2> QED BY <1>3, <2>1 DEF HeldDelivered, Holds
<1>5. BatchOrdered
  BY <1>3 DEF BatchOrdered
<1>6. HandledBeforeAck
  BY <1>3 DEF Init, HandledBeforeAck
<1> QED BY <1>1, <1>2, <1>4, <1>5, <1>6 DEF Inv

\* The invariant is inductive.
LEMMA InvNext == Inv /\ [Next]_vars => Inv'
BY TypeStep, DownIsEmptyStep, HeldDeliveredStep, BatchOrderedStep, HandledBeforeAckStep DEF Inv

\* Every reachable state of the queue and its workers is well typed: entries
\* are pending under names that consumers have had, and batches are sequences
\* of published ids (Subscribe, subscription.Next, Ack).
THEOREM TypeCorrect == Spec => []TypeOK
<1>1. Inv => TypeOK
  BY DEF Inv
<1> QED BY <1>1, InvInit, InvNext, PTL DEF Spec

\* However many workers there are, whatever batch they read and however they
\* crash and restart, no event is handled twice, none that was handled is
\* still before a worker, and none is before two workers.
THEOREM EventsHandledOnce == Spec => []HandledOnce
<1>1. Inv => HandledOnce
  <2> SUFFICES ASSUME Inv PROVE HandledOnce
    OBVIOUS
  <2>0. TypeOK
    BY DEF Inv
  <2>1. \A e \in Events : handled[e] <= 1
    BY DEF Inv, HandledBeforeAck
  <2>2. InHand \subseteq Events
    BY <2>0, HeldFacts DEF InHand
  <2>3. \A e \in InHand : handled[e] = 0
    BY <2>0, <2>2, InHandFacts DEF Inv, HeldDelivered
  <2>4. ASSUME NEW v \in Workers, NEW w \in Workers, v # w
        PROVE  Held(v) \cap Held(w) = {}
    <3>1. \A e \in Held(v) \cap Held(w) : e \in Events /\ Holds(v, e) /\ Holds(w, e)
      BY <2>0, HeldFacts
    <3>2. Consumer(v) # Consumer(w)
      BY <2>4 DEF Consumer
    <3> QED BY <3>1, <3>2 DEF Inv, HeldDelivered
  <2> QED BY <2>1, <2>3, <2>4 DEF HandledOnce
<1> QED BY <1>1, InvInit, InvNext, PTL DEF Spec

\* A worker goes through its events in the order of the stream, over all the
\* batches subscription.Next reads for it.
THEOREM EventsInStreamOrder == Spec => []InStreamOrder
<1>1. Inv => InStreamOrder
  <2> SUFFICES ASSUME Inv, NEW w \in Workers,
                      NEW i \in 1..Len(Queue(w)), NEW j \in 1..Len(Queue(w)), i < j
               PROVE  Queue(w)[i] < Queue(w)[j]
    BY DEF InStreamOrder
  <2>0. TypeOK /\ Len(pending[w]) \in Nat
    BY LenProperties DEF Inv, TypeOK
  <2>1. \A k \in 1..Len(pending[w]) :
          /\ cur[w] < pending[w][k]
          /\ \A l \in 1..Len(pending[w]) : k < l => pending[w][k] < pending[w][l]
    BY DEF Inv, BatchOrdered
  <2>2. CASE cur[w] = NoEvent \/ acking[w]
    <3>1. Queue(w) = pending[w]
      BY <2>0, <2>2, QueueFacts
    <3>2. i \in 1..Len(pending[w]) /\ j \in 1..Len(pending[w])
      BY <3>1
    <3> QED BY <2>1, <3>1, <3>2
  <2>3. CASE ~(cur[w] = NoEvent \/ acking[w])
    <3>1. /\ Len(Queue(w)) = Len(pending[w]) + 1
          /\ Queue(w)[1] = cur[w]
          /\ \A k \in 1..Len(pending[w]) : Queue(w)[k + 1] = pending[w][k]
      BY <2>0, <2>3, QueueFacts
    <3>2. j - 1 \in 1..Len(pending[w]) /\ (j - 1) + 1 = j
      BY <2>0, <3>1
    <3>3. Queue(w)[j] = pending[w][j - 1]
      BY <3>1, <3>2
    <3>4. CASE i = 1
      BY <2>1, <3>1, <3>2, <3>3, <3>4
    <3>5. CASE i # 1
      <4>1. i - 1 \in 1..Len(pending[w]) /\ (i - 1) + 1 = i /\ i - 1 < j - 1
        BY <2>0, <3>1, <3>5
      <4>2. Queue(w)[i] = pending[w][i - 1]
        BY <3>1, <4>1
      <4> QED BY <2>1, <3>2, <3>3, <4>1, <4>2
    <3> QED BY <3>4, <3>5
  <2> QED BY <2>2, <2>3
<1> QED BY <1>1, InvInit, InvNext, PTL DEF Spec

\* What a worker has not finished is pending under the consumer name it has
\* now, so that Ack is what takes it off the list.
THEOREM EventsPendingUntilAck == Spec => []PendingUntilAck
<1>1. Inv => PendingUntilAck
  <2> SUFFICES ASSUME Inv, NEW w \in Workers, NEW e \in Held(w)
               PROVE  pel[e] = Consumer(w)
    BY DEF PendingUntilAck
  <2>1. e \in Events /\ Holds(w, e)
    BY HeldFacts DEF Inv
  <2> QED BY <2>1 DEF Inv, HeldDelivered
<1> QED BY <1>1, InvInit, InvNext, PTL DEF Spec

-----------------------------------------------------------------------------
(* The refinement of EventDelivery.                                        *)

\* Where an event is, with InHand spelled out.
WhereIs(e) ==
    /\ e > last => Where(e) = "unpublished"
    /\ position < e /\ e <= last => Where(e) = "queued"
    /\ handled[e] > 0 => Where(e) = "done"
    /\ (\E w \in Workers : Holds(w, e)) => Where(e) = "held"
    /\ e <= position /\ handled[e] = 0 /\ ~(\E w \in Workers : Holds(w, e)) => Where(e) = "lost"
    /\ e \in InHand <=> \E w \in Workers : Holds(w, e)

\* That this is so in every state with the invariant, and after every step.
LEMMA WhereFacts == Inv => \A e \in Events : WhereIs(e)
<1> SUFFICES ASSUME Inv, NEW e \in Events PROVE WhereIs(e)
  OBVIOUS
<1>1. last \in 0..MaxEvents /\ position \in 0..last /\ e \in Nat /\ handled[e] \in Nat
  BY QueueAssumption DEF Inv, TypeOK, Events
<1>2. e \in InHand <=> \E w \in Workers : Holds(w, e)
  BY InHandFacts DEF Inv
<1>3. (\E w \in Workers : Holds(w, e)) => e <= position /\ handled[e] = 0
  BY DEF Inv, HeldDelivered
<1>4. handled[e] > 0 => e <= position
  BY DEF Inv, HandledBeforeAck
<1>5. e > last => Where(e) = "unpublished"
  BY <1>1, <1>2, <1>3, <1>4 DEF Where
<1>6. position < e /\ e <= last => Where(e) = "queued"
  BY <1>1, <1>2, <1>3, <1>4 DEF Where
<1>7. handled[e] > 0 => Where(e) = "done"
  BY <1>1, <1>2, <1>3, <1>4 DEF Where
<1>8. (\E w \in Workers : Holds(w, e)) => Where(e) = "held"
  BY <1>1, <1>2, <1>3, <1>4 DEF Where
<1>9. e <= position /\ handled[e] = 0 /\ ~(\E w \in Workers : Holds(w, e)) => Where(e) = "lost"
  BY <1>1, <1>2 DEF Where
<1> QED BY <1>2, <1>5, <1>6, <1>7, <1>8, <1>9 DEF WhereIs

\* The same in the next state.
LEMMA WhereFactsNext == Inv' => (\A e \in Events : WhereIs(e))'
BY WhereFacts, PTL

\* An event that no step touches stays where it is.
LEMMA WhereSame ==
    ASSUME Inv, Inv', NEW e \in Events, last' = last, position' = position,
           handled'[e] = handled[e], \A w \in Workers : Holds(w, e)' <=> Holds(w, e)
    PROVE  Where(e)' = Where(e)
<1>1. (\E w \in Workers : Holds(w, e)') <=> (\E w \in Workers : Holds(w, e))
  OBVIOUS
<1>2. (e \in InHand)' <=> e \in InHand
  BY <1>1, WhereFacts, WhereFactsNext DEF WhereIs
<1> QED BY <1>2 DEF Where

\* Initially nothing has been published, in either specification.
LEMMA DeliveryInit == Init => Delivery!Init
<1> SUFFICES ASSUME Init PROVE Delivery!Init
  OBVIOUS
<1>1. \A e \in Events : e > last
  BY QueueAssumption DEF Init, Events
<1>2. \A e \in Events : Where(e) = "unpublished"
  BY <1>1, InvInit, WhereFacts DEF WhereIs
<1> QED BY <1>2 DEF Delivery!Init

\* Every step of the queue moves events as EventDelivery allows, or moves none.
LEMMA DeliveryNext ==
    Inv /\ Inv' /\ [Next]_vars => [Delivery!Next]_([e \in Events |-> Where(e)])
<1> SUFFICES ASSUME Inv, Inv', [Next]_vars
             PROVE  [Delivery!Next]_([e \in Events |-> Where(e)])
  OBVIOUS
<1> DEFINE s == [e \in Events |-> Where(e)]
<1>a. /\ last \in 0..MaxEvents /\ position \in 0..last /\ last' \in 0..MaxEvents
      /\ position' \in 0..last' /\ handled \in [Events -> Nat]
  BY DEF Inv, TypeOK
<1>b. Events \subseteq Nat \ {0} /\ MaxEvents \in Nat /\ Events = 1..MaxEvents
  BY QueueAssumption DEF Events
<1>c. \A e \in Events : WhereIs(e)
  BY WhereFacts
<1>d. \A e \in Events : WhereIs(e)'
  BY WhereFactsNext
<1>s. ASSUME \A e \in Events : Where(e)' = Where(e)
      PROVE  s' = s
  BY <1>s
<1>1. CASE Publish
  <2>0. last + 1 \in Events /\ last' = last + 1 /\ position' = position /\ handled' = handled
    BY <1>1, <1>a, <1>b DEF Publish
  <2>1. PICK d \in Events : d = last + 1 /\ d = last' /\ position' = position /\ handled' = handled
    BY <2>0
  <2>2. \A v \in Workers, e \in Events : Holds(v, e)' <=> Holds(v, e)
    BY <1>1, HoldsSame DEF Publish
  <2>3. Where(d) = "unpublished" /\ Where(d)' = "queued"
    BY <1>a, <2>1, <1>c, <1>d DEF WhereIs
  <2>4. ASSUME NEW e \in Events, e # d PROVE Where(e)' = Where(e)
    <3>1. (e \in InHand)' <=> e \in InHand
      BY <2>2, <1>c, <1>d DEF WhereIs
    <3>2. (e > last' <=> e > last) /\ (e <= last' <=> e <= last)
      BY <1>a, <1>b, <2>1, <2>4
    <3> QED BY <2>1, <3>1, <3>2 DEF Where
  <2>5. s[d] = "unpublished" /\ s' = [s EXCEPT ![d] = "queued"]
    BY <2>1, <2>3, <2>4
  <2> QED BY <2>1, <2>5 DEF Delivery!Next, Delivery!Publish, Delivery!Move
<1>2. ASSUME NEW w \in Workers, Subscribe(w)
      PROVE  Delivery!Next
  <2> DEFINE batch == {e \in Events : position < e /\ e <= position'}
  <2>1. last' = last /\ handled' = handled /\ position' \in {position, last}
    BY <1>2 DEF Subscribe
  <2>2. \A v \in Workers, e \in Events : Holds(v, e)' <=> Holds(v, e)
    BY <1>2, HoldsSame DEF Subscribe
  <2>3. ASSUME NEW e \in batch PROVE Where(e) = "queued" /\ Where(e)' = "lost"
    <3>1. Where(e) = "queued"
      BY <1>a, <1>b, <2>1, <1>c, <1>d DEF WhereIs
    <3>2. handled[e] = 0 /\ ~(\E v \in Workers : Holds(v, e))
      BY <1>a, <1>b DEF Inv, HandledBeforeAck, HeldDelivered
    <3> QED BY <1>a, <1>b, <2>1, <2>2, <3>1, <3>2, <1>c, <1>d DEF WhereIs
  <2>4. ASSUME NEW e \in Events, e \notin batch PROVE Where(e)' = Where(e)
    <3>1. (e \in InHand)' <=> e \in InHand
      BY <2>2, <1>c, <1>d DEF WhereIs
    <3>2. position' < e /\ e <= last' <=> position < e /\ e <= last
      BY <1>a, <1>b, <2>1, <2>4
    <3> QED BY <2>1, <3>1, <3>2 DEF Where
  <2>5. s' = [e \in Events |-> IF e \in batch THEN "lost" ELSE s[e]]
    BY <2>3, <2>4
  <2>6. \A e \in batch : s[e] \in {"queued", "held"}
    BY <2>3
  <2>7. batch \in SUBSET Events
    OBVIOUS
  <2> HIDE DEF batch
  <2>8. Delivery!Lose(batch)
    BY <2>5, <2>6 DEF Delivery!Lose
  <2> QED BY <2>7, <2>8 DEF Delivery!Next
<1>3. ASSUME NEW w \in Workers, Take(w)
      PROVE  /\ \A e \in Batch : e \in Events /\ Where(e) = "queued"
             /\ \A e \in Events : e \notin Batch =>
                  (position' < e /\ e <= last' <=> position < e /\ e <= last)
             /\ \A e \in Batch : handled[e] = 0 /\ e <= position' /\ ~(\E v \in Workers : Holds(v, e))
             /\ UNCHANGED <<last, handled, cur, acking>>
  <2>1. /\ position < last /\ position' = BatchEnd /\ UNCHANGED <<last, handled, cur, acking>>
    BY <1>3 DEF Take
  <2>2. /\ BatchEnd \in Nat /\ position < BatchEnd /\ BatchEnd <= last
        /\ \A e \in Events : e \in Batch <=> position < e /\ e <= BatchEnd
    BY <2>1, BatchFacts DEF Inv
  <2>3. ASSUME NEW e \in Batch
        PROVE  /\ e \in Events /\ Where(e) = "queued" /\ handled[e] = 0 /\ e <= position'
               /\ ~(\E v \in Workers : Holds(v, e))
    <3>1. e \in Events
      BY <1>a, <1>b, <2>2 DEF Batch
    <3>2. position < e /\ e <= BatchEnd /\ e <= last /\ e \in Nat
      BY <1>a, <1>b, <2>2, <3>1
    <3> QED BY <1>a, <2>1, <3>1, <3>2, <1>c DEF WhereIs, Inv, HandledBeforeAck, HeldDelivered
  <2>4. ASSUME NEW e \in Events, e \notin Batch
        PROVE  position' < e /\ e <= last' <=> position < e /\ e <= last
    BY <1>a, <1>b, <2>1, <2>2, <2>4
  <2> QED BY <2>1, <2>3, <2>4
<1>4. ASSUME NEW w \in Workers, Read(w)
      PROVE  Delivery!Next
  <2>0. Take(w)
    BY <1>4 DEF Read
  <2>1. ASSUME NEW e \in Batch PROVE Where(e) = "queued" /\ Where(e)' = "held"
    <3>1. Holds(w, e)'
      BY <1>3, <1>4, <2>0, HoldsRead
    <3> QED BY <1>3, <2>0, <3>1, <1>c, <1>d DEF WhereIs
  <2>2. ASSUME NEW e \in Events, e \notin Batch PROVE Where(e)' = Where(e)
    <3>1. \A v \in Workers : Holds(v, e)' <=> Holds(v, e)
      BY <1>4, <2>2, HoldsRead
    <3>2. (e \in InHand)' <=> e \in InHand
      BY <3>1, <1>c, <1>d DEF WhereIs
    <3> QED BY <1>3, <2>0, <2>2, <3>2 DEF Where
  <2>3. Batch \in SUBSET Events
    BY <1>3, <2>0
  <2>4. Delivery!Deliver(Batch)
    BY <2>1, <2>2, <2>3 DEF Delivery!Deliver
  <2> QED BY <2>3, <2>4 DEF Delivery!Next
<1>5. ASSUME NEW w \in Workers, ReadLost(w)
      PROVE  Delivery!Next
  <2>0. Take(w) /\ UNCHANGED <<pending, cur, acking>>
    BY <1>5 DEF ReadLost, Take
  <2>1. \A v \in Workers, e \in Events : Holds(v, e)' <=> Holds(v, e)
    BY <2>0, HoldsSame
  <2>2. ASSUME NEW e \in Batch PROVE Where(e) = "queued" /\ Where(e)' = "lost"
    <3>1. e \in Events /\ Where(e) = "queued" /\ handled'[e] = 0 /\ e <= position'
      BY <1>3, <2>0
    <3>2. ~(\E v \in Workers : Holds(v, e)')
      BY <1>3, <2>0, <2>1, <3>1
    <3> QED BY <3>1, <3>2, <1>c, <1>d DEF WhereIs
  <2>3. ASSUME NEW e \in Events, e \notin Batch PROVE Where(e)' = Where(e)
    <3>1. (e \in InHand)' <=> e \in InHand
      BY <2>1, <1>c, <1>d DEF WhereIs
    <3> QED BY <1>3, <2>0, <2>3, <3>1 DEF Where
  <2>4. Batch \in SUBSET Events
    BY <1>3, <2>0
  <2>5. Delivery!Lose(Batch)
    BY <2>2, <2>3, <2>4 DEF Delivery!Lose
  <2> QED BY <2>4, <2>5 DEF Delivery!Next
<1>6. ASSUME NEW w \in Workers, Next_(w)
      PROVE  s' = s
  BY <1>6, <1>s, HoldsNext, WhereSame DEF Next_
<1>7. ASSUME NEW w \in Workers, Process(w)
      PROVE  Delivery!Next
  <2>0. PICK d \in Events : d = cur[w]
    BY <1>7, HoldsProcess
  <2>1. /\ Holds(w, d)
        /\ \A v \in Workers, e \in Events : Holds(v, e)' <=> Holds(v, e) /\ ~(v = w /\ e = d)
    BY <1>7, <2>0, HoldsProcess
  <2>2. /\ handled'[d] > 0 /\ \A e \in Events : e # d => handled'[e] = handled[e]
        /\ UNCHANGED <<last, position>>
    BY <1>7, <1>a, <2>0 DEF Process
  <2>3. Where(d) = "held" /\ Where(d)' = "done"
    BY <2>1, <2>2, <1>c, <1>d DEF WhereIs
  <2>4. \A e \in Events : e # d => Where(e)' = Where(e)
    BY <2>1, <2>2, WhereSame
  <2>5. s[d] = "held" /\ s' = [s EXCEPT ![d] = "done"]
    BY <2>1, <2>3, <2>4
  <2> QED BY <2>1, <2>5 DEF Delivery!Next, Delivery!Complete, Delivery!Move
<1>8. ASSUME NEW w \in Workers, Ack(w)
      PROVE  s' = s
  BY <1>8, <1>s, HoldsAck, WhereSame DEF Ack
<1>9. ASSUME NEW w \in Workers, Crash(w)
      PROVE  Delivery!Next
  <2> DEFINE batch == {e \in Events : Holds(w, e)}
  <2>1. \A v \in Workers, e \in Events : Holds(v, e)' <=> Holds(v, e) /\ v # w
    BY <1>9, HoldsCrash
  <2>2. UNCHANGED <<last, position, handled>>
    BY <1>9 DEF Crash
  <2>3. ASSUME NEW e \in batch PROVE Where(e) = "held" /\ Where(e)' = "lost"
    <3>1. e <= position /\ handled[e] = 0 /\ pel[e] = Consumer(w)
      BY DEF Inv, HeldDelivered
    <3>2. ASSUME NEW v \in Workers, Holds(v, e) PROVE v = w
      <4>1. pel[e] = Consumer(v)
        BY <3>2 DEF Inv, HeldDelivered
      <4> QED BY <3>1, <4>1 DEF Consumer
    <3>3. ~(\E v \in Workers : Holds(v, e)')
      BY <2>1, <3>2
    <3> QED BY <2>2, <3>1, <3>3, <1>c, <1>d DEF WhereIs
  <2>4. ASSUME NEW e \in Events, e \notin batch PROVE Where(e)' = Where(e)
    <3>1. \A v \in Workers : Holds(v, e)' <=> Holds(v, e)
      BY <2>1, <2>4
    <3> QED BY <2>2, <3>1, WhereSame
  <2>5. s' = [e \in Events |-> IF e \in batch THEN "lost" ELSE s[e]]
    BY <2>3, <2>4
  <2>6. \A e \in batch : s[e] \in {"queued", "held"}
    BY <2>3
  <2>7. batch \in SUBSET Events
    OBVIOUS
  <2> HIDE DEF batch
  <2>8. Delivery!Lose(batch)
    BY <2>5, <2>6 DEF Delivery!Lose
  <2> QED BY <2>7, <2>8 DEF Delivery!Next
<1>10. CASE UNCHANGED vars
  <2>1. \A v \in Workers, e \in Events : Holds(v, e)' <=> Holds(v, e)
    BY <1>10, HoldsSame DEF vars
  <2>2. s' = s
    BY <1>10, <1>s, <2>1, WhereSame DEF vars
  <2> QED BY <2>2
<1> QED BY <1>1, <1>2, <1>4, <1>5, <1>6, <1>7, <1>8, <1>9, <1>10 DEF Next, WorkerStep

\* The stream, its consumer group, batches, acknowledgements and restarts
\* implement EventDelivery: each event is handed out at most once, and one
\* that is finished or lost never comes back.
THEOREM ImplementsDelivery == Spec => DeliveryRefined
<1>1. Spec => []Inv
  BY InvInit, InvNext, PTL DEF Spec
<1> QED BY <1>1, DeliveryInit, DeliveryNext, PTL DEF Spec, DeliveryRefined, Delivery!Spec
=============================================================================
