\* The limits are small and close to each other, so that each is met first in
\* some run; commands may leave a process behind.
SPECIFICATION FairSpec
CONSTANTS
    MaxTurns = 3
    MaxToolCalls = 3
    MaxTranscript = 4
    MaxOutput = 2
    MaxRetries = 2
    Overhead = 1
    MaxPerTurn = 2
    MaxBytes = 3
    MaxQuoted = 2
    Models <- SomeModels
    Faults = {"background"}
INVARIANTS
    TypeOK
    CallsAnswered
    LoopBounded
    NotReplayed
PROPERTIES
    BootstrapEnds
CHECK_DEADLOCK FALSE
