SPECIFICATION SparingSpec
CONSTANTS
    Threads = {t1, t2, t3}
    Mutexes = {m}
    Semaphores = {s}
    AutoEvents = {}
    ManualEvents = {f}
    InitialCount = 0
    MaximumValue = 2
    Limits = {"timed"}
    Interruptibles = {TRUE}
    Throws = TRUE
    MaxAPCs = 1
    MaxDepth = 1
    NULL = NULL
SYMMETRY Symmetry
INVARIANT TypeOK
INVARIANT NoLostWakeup
