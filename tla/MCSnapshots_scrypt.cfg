SPECIFICATION MCSpec
CONSTANTS
    Keeps <- KeepsAll
    MaxData = 2
    MaxSnaps = 4
    MaxClones = 1
    MaxUpsets = 1
    c1 = c1
    c2 = c2
    Calls = {c1, c2}
    Targets = {"file", "vm"}
    NFiles = 2
    MaxSize = 2
    ChunkSize = 2
    QueueMax = 2
    MaxCancels = 2
CHECK_DEADLOCK FALSE
INVARIANTS
    ArchiveIntact
