---------------------------- MODULE MCReconciler ----------------------------
(* The Reconciler on the instances of reconciler.cfg and                   *)
(* ready_too_early.cfg.                                                    *)
EXTENDS Reconciler

Status(phase, value) ==
    [phase |-> phase, ready |-> value, workspaceReady |-> value, gatewayReady |-> value]

\* A manifest without a status.
NoStatus == {Status("Pending", "unset")}

\* Also what MarkTaskDeleting makes of a task that was ready, or a manifest
\* that was exported then.
SomeStatus == NoStatus \cup {Status("Terminating", "True")}
=============================================================================
