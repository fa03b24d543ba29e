SPECIFICATION MCSpec
CONSTANTS
    t1 = t1
    t2 = t2
    f = f
    Threads = {t1, t2, f}
    Foreign = {f}
    MaxSlots = 1
INVARIANTS
    TypeOK
    RequestsPending
    ThreadStatics
    NothingRunsAfterShutdown
CHECK_DEADLOCK FALSE
PROPERTY ShutdownEnds
