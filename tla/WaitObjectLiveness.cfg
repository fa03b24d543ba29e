SPECIFICATION FairSpec
CONSTANTS
    Threads = {t1, t2}
    Mutexes = {m}
    Semaphores = {s}
    AutoEvents = {}
    ManualEvents = {}
    InitialCount = 0
    MaximumValue = 1
    Limits = {"timed", "infinite"}
    Interruptibles = {TRUE}
    Throws = FALSE
    MaxAPCs = 1
    MaxDepth = 1
    NULL = NULL
PROPERTY TimedWaitRunsAPCs
PROPERTY FreeObjectIsTaken
