--------------------------- MODULE WorkspacePaths ---------------------------
(***************************************************************************)
(* Where the workspaces of a task go and which marker file records that    *)
(* one has been set up: WorkspacePaths and ValidateTask                    *)
(* (pkg/apis/v1alpha1/types.go), MarkerName (internal/workspace/setup.go). *)
(*                                                                         *)
(* A path is the sequence of what stands between its slashes, after the    *)
(* leading one: "/" is <<<<>>>>, "/a/" is <<<<"a">>, <<>>>>, and NoPath is *)
(* the empty string.  A component, like a workspace name, is the sequence  *)
(* of what stands between its dashes: "a-b" is <<"a", "b">>.               *)
(***************************************************************************)
EXTENDS Naturals, Sequences
LOCAL INSTANCE SequencesExt

NoPath == <<>>
Dot == <<".">>

DefaultWorkspacePath == <<<<"workspace">>>>

\* An explicit path wins.
WorkspacePaths(refs) ==
    [i \in DOMAIN refs |->
        IF refs[i].path # NoPath THEN refs[i].path
        ELSE Append(DefaultWorkspacePath, refs[i].name)]

\* strings.TrimRight(path, "/")
TrimRight(path) ==
    LET kept == {k \in 0..Len(path) : \A j \in (k + 1)..Len(path) : path[j] = <<>>}
    IN SubSeq(path, 1, CHOOSE k \in kept : \A j \in kept : k <= j)

\* Each workspace has a name and is bound once, explicit paths are absolute,
\* and no two paths are the same up to slashes at their end.
ValidateTask(refs) ==
    LET paths == WorkspacePaths(refs) IN
    \A i \in DOMAIN refs :
        /\ refs[i].name # <<>>
        /\ refs[i].path # NoPath => refs[i].abs
        /\ \A j \in 1..(i - 1) :
            /\ refs[j].name # refs[i].name
            /\ TrimRight(paths[j]) # TrimRight(paths[i])

\* filepath.Clean, of an absolute path without ".."
CleanPath(path) == SelectSeq(path, LAMBDA c : c \notin {<<>>, Dot})

\* Slashes become dashes.
MarkerName(path) ==
    IF CleanPath(path) = <<>> THEN <<"root">>
    ELSE FoldLeft(LAMBDA name, c : name \o c, <<>>, CleanPath(path))
=============================================================================
