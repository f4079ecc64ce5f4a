SPECIFICATION MCSpec
CONSTANTS
    q1 = q1
    q2 = q2
    Qubes = {q1, q2}
    Guis = {"g1", "g2"}
    c1 = c1
    c2 = c2
    Clients = {c1, c2}
    Names = {"q1", "q2"}
    Requests <- MCRequests
    Lines <- MCLines
    OldFile <- MCOldFile
    MaxSent = 4
    MaxMoves = 3
    MaxTime = 3
    MaxChanges = 2
    f1 = f1
    f2 = f2
    p1 = p1
    p2 = p2
    d1 = d1
    d2 = d2
    Fronts = {f1, f2}
    Ports = {p1, p2}
    Devs = {d1, d2}
    Keys <- MCKeys
    Star = Star
    None = None
    Free = Free
    Absent = Absent
    MaxEvents = 4
    DeviceKeys <- MCDeviceKeys
    Options <- MCOptions
    Chars <- MCChars
    MaxSteps = 3
CHECK_DEADLOCK FALSE
INVARIANTS
    ClientsServed
    RestoredAfterSleep
    SystemInfoCurrent
    RulesEnforced
    ExpiryPending
    CacheAgrees
    HoldsWhatIsThere
    AutoAttached
    ListedIsAssigned
