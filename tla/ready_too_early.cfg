\* No faults but a crashing actor: readiness is not checked again.
SPECIFICATION Spec
CONSTANTS
    Launches = {l1}
    NoRecord = NoRecord
    Submitted <- NoStatus
    CreateRetries = 2
    DeleteRetries = 1
    Polls = 1
    Faults = {}
INVARIANTS
    ReadyMeansSetUp
