---------------------------- MODULE MCTaskRunner ----------------------------
(* Small instances of TaskRunner. *)
EXTENDS TaskRunner, TLC

A == <<"a">>
B == <<"b">>

Ref(name, path, goal) == [name |-> name, abs |-> TRUE, path |-> path, goal |-> goal]

\* No workspace; one at its default path; two on the volume; two, one of
\* them elsewhere; two whose paths, /workspace/a/b and /workspace/a-b, have
\* one marker name; and lists that ValidateTask rejects.
MCBindings ==
    {<<>>,
     <<Ref(A, NoPath, TRUE)>>,
     <<Ref(A, NoPath, FALSE), Ref(B, NoPath, FALSE)>>,
     <<Ref(A, NoPath, FALSE), Ref(B, <<<<"srv">>, B>>, TRUE)>>,
     <<Ref(A, <<<<"workspace">>, A, B>>, FALSE), Ref(B, <<<<"workspace">>, A \o B>>, FALSE)>>,
     <<Ref(A, NoPath, FALSE), Ref(A, <<<<"srv">>>>, FALSE)>>,
     <<Ref(A, <<B, <<>>>>, FALSE), Ref(B, <<B>>, FALSE)>>,
     <<[Ref(A, <<B>>, FALSE) EXCEPT !.abs = FALSE]>>}

MCGit == A :> 2 @@ B :> 1
=============================================================================
