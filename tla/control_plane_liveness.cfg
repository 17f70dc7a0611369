\* No call fails, but a Model may be unusable, actors crash and deletions take long.
SPECIFICATION FairSpec
CONSTANTS
    Tasks = {t1}
    NoTask = NoTask
    SubmittedPhases = {"", "Running"}
    MaxStream = 2
    Workers = {w1}
    Clients = {c1}
    BatchSize = 2
    Faults = {"model"}
INVARIANT
    FailureVisible
PROPERTIES
    DeleteCompletes
    Settles
