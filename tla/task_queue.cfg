\* Two workers that die and restart; XREADGROUP replies and XACKs get lost.
SPECIFICATION FairSpec
CONSTANTS
    Workers = {w1, w2}
    BatchSize = 2
    Faults = {"store", "crash"}
    MaxEvents = 3
    MaxStarts = 2
INVARIANTS
    TypeOK
    HandledOnce
    InStreamOrder
    PendingUntilAck
PROPERTIES
    DeliveryRefined
    Drains
CHECK_DEADLOCK FALSE
