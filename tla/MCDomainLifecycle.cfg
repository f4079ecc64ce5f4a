SPECIFICATION MCSpec
CONSTANTS
    t1 = t1
    t2 = t2
    Tasks = {t1, t2}
    Coro = Coro
    None = None
    MaxRuns = 2
    MaxRestarts = 1
    MaxDrops = 1
    Disposable = FALSE
    HandlersMayFail = TRUE
    ShutdownMayTimeOut = TRUE
    CreateMayFailLate = FALSE
    EarlyStopped = TRUE
CHECK_DEADLOCK FALSE
SYMMETRY Symmetry
INVARIANTS
    ShutdownHandled
    StorageUnderLiveDomain
PROPERTIES
    KeepsRunPromise
    StartAfterHandled
