SPECIFICATION LiveSpec
CONSTANTS
    q1 = q1
    q2 = q2
    q3 = q3
    q4 = q4
    u1 = u1
    u2 = u2
    t1 = t1
    Qubes = {q1, q2, q3, q4}
    Users = {u1}
    Tools = {}
    None = None
    MaxPreload = 1
    MaxEvents = 1
    MaxMake = 1
    MaxAdmin = 1
    MaxRestarts = 0
    Failures = FALSE
    CreateMayFail = FALSE
    NegativeDelay = FALSE
CHECK_DEADLOCK FALSE
PROPERTIES
    Refilled
    RequestReturns
