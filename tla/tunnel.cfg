\* Two invocations at a time, three contexts, two of which share a state file,
\* two namespaces, interrupted calls, and a user who switches contexts.
SPECIFICATION Spec
CONSTANTS
    Callers = {a1, a2}
    Contexts <- SomeAlike
    Flags <- NotGiven
    SafeChars <- Letters
    Namespaces = {n1, n2}
    MaxProcs = 2
    MaxCalls = 2
    Faults = {"die", "switch"}
SYMMETRY Symmetry
INVARIANTS
    TypeOK
    ReachesTarget
    NoOrphans
CHECK_DEADLOCK FALSE
