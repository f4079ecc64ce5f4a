SPECIFICATION MCSpec
CONSTANTS
    p1 = p1
    p2 = p2
    u1 = u1
    u2 = u2
    c1 = c1
    c2 = c2
    Procs = {p1, p2}
    Writers = {p1}
    Updates = {u1, u2}
    None = None
    MaxFiles = 4
    MaxCrashes = 1
    Names = {u1, u2}
    Callers = {c1, c2}
    Labels = {"red", "custom"}
    BuiltIn = {"red"}
    Pools = {"main", "extra"}
    MainPool = "main"
    NoQube = NoQube
    MaxObjects = 3
    MaxPools = 3
    MaxEdits = 2
    MaxRestarts = 1
CHECK_DEADLOCK FALSE
SYMMETRY Symmetry
INVARIANTS
    StoreWhole
    StoreLoads
    FilesKept
    AnsweredStays
PROPERTIES
    SingleKeepsPromises
