\* Up to two workspaces, up to two repositories, every fault.
SPECIFICATION FairSpec
CONSTANTS
    Bindings <- MCBindings
    Git <- MCGit
    GitRetries = 2
    Faults = {"git", "bootstrap", "background", "disk", "start", "session", "kill"}
INVARIANTS
    TypeOK
    
    MarkerEarned
    SetupIndependent
    SetupBeforeCommand
    ExitReported
PROPERTIES
    WorkKept
    StopCompletes
