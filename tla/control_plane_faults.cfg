\* One controller, as deployed; every call may fail and the worker may crash.
SPECIFICATION Spec
CONSTANTS
    Tasks = {t1}
    NoTask = NoTask
    SubmittedPhases = {""}
    MaxStream = 2
    Workers = {w1}
    Clients = {c1, c2}
    BatchSize = 1
    Faults = {"store", "substrate", "model", "crash"}
SYMMETRY Symmetry
INVARIANTS
    TypeOK
    ConvergedWhenQuiet
    NoOrphan
    WorkerView
    ListedWhenQuiet
