--------------------------- MODULE EventDelivery ----------------------------
(***************************************************************************)
(* What the event queue promises, without streams, batches or consumer     *)
(* groups: an event that has been published is given to a worker at most   *)
(* once, the worker finishes with it or it is lost, and an event that is   *)
(* finished or lost never comes back.  Module TaskQueue implements this.   *)
(***************************************************************************)
CONSTANT Events

VARIABLE state      \* where each event is

EventStates == {"unpublished", "queued", "held", "done", "lost"}

Init == state = [e \in Events |-> "unpublished"]

Move(e, from, to) == state[e] = from /\ state' = [state EXCEPT ![e] = to]

Publish(e) == Move(e, "unpublished", "queued")

Complete(e) == Move(e, "held", "done")

\* A batch is handed out at once.
Deliver(batch) ==
    /\ \A e \in batch : state[e] = "queued"
    /\ state' = [e \in Events |-> IF e \in batch THEN "held" ELSE state[e]]

\* Events are lost where they wait for a group that does not exist yet, where
\* the reply that carries them is lost, or with the worker that holds them.
Lose(batch) ==
    /\ \A e \in batch : state[e] \in {"queued", "held"}
    /\ state' = [e \in Events |-> IF e \in batch THEN "lost" ELSE state[e]]

Next ==
    \/ \E e \in Events : Publish(e) \/ Complete(e)
    \/ \E batch \in SUBSET Events : Deliver(batch) \/ Lose(batch)

Spec == Init /\ [][Next]_state
=============================================================================
