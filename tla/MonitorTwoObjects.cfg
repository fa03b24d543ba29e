SPECIFICATION Spec
CONSTANTS
    Threads = {t1, t2, t3}
    Objects = {a, b}
    Monitors = {m1, m2}
    Nodes = {n1}
    EnterTimeouts = {"infinite"}
    WaitTimeouts = {"timed"}
    Interrupts = FALSE
    MaxDepth = 1
    MaxTokens = 1
    NULL = NULL
SYMMETRY Symmetry
CHECK_DEADLOCK FALSE
INVARIANT MonitorAccounting
INVARIANT PinnedWhileReady
PROPERTY OnlyOwnerLetsGo
