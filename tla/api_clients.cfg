\* Both stores, every kind, two processes with three commands between them.
SPECIFICATION Spec
CONSTANTS
    Ids <- MCIds
    Limit = 1
    Clients = {c1, c2}
    Kinds = {"task", "gateway", "model", "workspace"}
    Stores = {"redis", "memory"}
    Manifests <- MCManifests
    ChanCap = 1
    EventCap = 1
    MaxCommands = 3
CHECK_DEADLOCK FALSE
INVARIANTS
    TypeOK
    ListFaithful
PROPERTIES
    WatchEnds
