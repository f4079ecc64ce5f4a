SPECIFICATION MCFairSpec
CONSTANTS
    t1 = t1
    t2 = t2
    Tasks = {t1, t2}
    Coro = Coro
    None = None
    MaxRuns = 2
    MaxRestarts = 0
    MaxDrops = 1
    Disposable = FALSE
    HandlersMayFail = FALSE
    ShutdownMayTimeOut = FALSE
    CreateMayFailLate = FALSE
    EarlyStopped = TRUE
CHECK_DEADLOCK FALSE
PROPERTIES
    CallsReturn
    EndIsHandled
