SPECIFICATION FairSpec
CONSTANTS
    Threads = {t1, t2}
    Objects = {a}
    Monitors = {m1, m2}
    Nodes = {n1}
    EnterTimeouts = {"infinite", "timed", "zero"}
    WaitTimeouts = {"zero", "timed", "infinite"}
    Interrupts = TRUE
    MaxDepth = 1
    MaxTokens = 2
    NULL = NULL
CHECK_DEADLOCK FALSE
INVARIANT NoLostWakeup
PROPERTY LockIsTaken
PROPERTY FlushEnds
