SPECIFICATION MCSpec
CONSTANTS
    Keeps <- KeepsAll
    FileKeeps <- KeepsAll
    Imports = {i1, i2}
    MaxData = 3
    MaxRevs = 3
    MaxUpsets = 1
    MaxWrites = 4
    MaxCrashes = 2
    Tasks = {t1, t2}
    Operations = {"create", "stop", "resize", "verify"}
    NoTask = NoTask
    MaxCalls = 3
    MaxRestarts = 2
    t1 = t1
    t2 = t2
    a1 = a1
    a2 = a2
    d1 = d1
    Templates = {t1, t2}
    AppVMs = {a1, a2}
    DispVMs = {d1}
    None = None
    MaxChanges = 3
CHECK_DEADLOCK FALSE
INVARIANTS
    CommittedIsWhole
    ReadersServed
    InitializedOnce
    RunsItsTemplate
PROPERTIES
    SessionStartsFromClean
    ReplacedIsKept
