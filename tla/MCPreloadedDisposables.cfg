SPECIFICATION MCSpec
CONSTANTS
    q1 = q1
    q2 = q2
    u1 = u1
    u2 = u2
    t1 = t1
    Qubes = {q1, q2}
    Users = {u1, u2}
    Tools = {t1}
    None = None
    MaxPreload = 1
    MaxEvents = 1
    MaxMake = 2
    MaxAdmin = 1
    MaxRestarts = 2
    Failures = FALSE
    CreateMayFail = FALSE
    NegativeDelay = FALSE
CHECK_DEADLOCK FALSE
SYMMETRY Symmetry
INVARIANTS
    DeliveredOnce
    DeliveredReady
    PausedAccounted
