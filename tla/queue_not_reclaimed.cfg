\* A worker dies while it holds an event and another one lives on.
SPECIFICATION FairSpec
CONSTANTS
    Workers = {w1, w2}
    BatchSize = 1
    Faults = {"crash"}
    MaxEvents = 1
    MaxStarts = 2
PROPERTY
    PickedUpAgain
CHECK_DEADLOCK FALSE
