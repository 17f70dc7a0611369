------------------------------ MODULE MCTunnel ------------------------------
(* Instances of Tunnel for TLC.                                            *)
EXTENDS Tunnel, TLC

\* Two contexts that differ in a special character and share a state file, and
\* one that differs in a letter.
SomeAlike == {<<"k", "/", "a">>, <<"k", "_", "a">>, <<"k", "/", "b">>}

\* --context is never given: the user switches the current context instead.
NotGiven == {NoContext}

Letters == {"a", "b", "k", "default", "_"}

Symmetry == Permutations(Callers) \cup Permutations(Namespaces)
=============================================================================
