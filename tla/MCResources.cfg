SPECIFICATION MCSpec
CONSTANTS
    Keeps <- KeepsAll
    CommandsFail = TRUE
    MaxLists = 1
    MaxData = 2
    MaxTime = 2
    MaxCrashes = 1
    dom0 = dom0
    q1 = q1
    q2 = q2
    Dom0 = dom0
    Qubes = {q1, q2}
    Total = 1600
    MemMax <- MCMemMax
    Uses = {200, 400}
    Sizes = {300, 700}
    MIN_PREFMEM = 200
    DOM0_MEM_BOOST = 350
    XEN_FREE_MEM_LEFT = 50
    XEN_FREE_MEM_MIN = 25
    MIN_TOTAL_MEMORY_TRANSFER = 150
    MIN_MEM_CHANGE_WHEN_UNDER_PREF = 15
    CHECK_PERIOD = 2
    CHECK_DELTA = 300
    CHECK_MB_S = 100
    LAST_SECOND = 2
    Tries = 2
    None = None
    MaxRequests = 2
    MaxEvents = 1
CHECK_DEADLOCK FALSE
INVARIANTS
    CommittedIsWhole
    Backed
PROPERTIES
    OnlyRevertGoesBack
