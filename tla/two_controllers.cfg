\* Two controller replicas handle events of one task at the same time.
SPECIFICATION Spec
CONSTANTS
    Tasks = {t1}
    NoTask = NoTask
    SubmittedPhases = {""}
    MaxStream = 2
    Workers = {w1, w2}
    Clients = {c1}
    BatchSize = 1
    Faults = {}
SYMMETRY Symmetry
INVARIANT
    ConvergedWhenQuiet
