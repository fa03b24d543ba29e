SPECIFICATION Spec
CONSTANTS
    Threads = {t1, t2}
    Mutexes = {m}
    Semaphores = {s}
    AutoEvents = {e}
    ManualEvents = {}
    InitialCount = 1
    MaximumValue = 1
    Limits = {"zero", "timed", "infinite"}
    Interruptibles = {TRUE, FALSE}
    Throws = TRUE
    MaxAPCs = 1
    MaxDepth = 2
    NULL = NULL
SYMMETRY Symmetry
INVARIANT HolderOwnsMutex
INVARIANT NoUseAfterDeletion
PROPERTY ImplementsContract
