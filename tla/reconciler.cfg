\* Two launch configurations, every fault, loops of two attempts; a pass goes on.
SPECIFICATION FairSpec
CONSTANTS
    Launches = {l1, l2}
    NoRecord = NoRecord
    Submitted <- SomeStatus
    CreateRetries = 2
    DeleteRetries = 2
    Polls = 2
    Faults = {"store", "substrate", "model", "crash"}
INVARIANTS
    TypeOK
    ConditionsCoherent
    WorkspaceReadyEarned
    EgressAsReported
    TemplateInUse
    NoSilentLeak
PROPERTIES
    PassEnds
