SPECIFICATION Spec
CONSTANTS
    Threads = {t1, t2, t3}
    Objects = {a}
    Monitors = {m1, m2}
    Nodes = {n1, n2}
    EnterTimeouts = {"timed"}
    WaitTimeouts = {"timed", "infinite"}
    Interrupts = FALSE
    MaxDepth = 2
    MaxTokens = 1
    NULL = NULL
SYMMETRY Symmetry
INVARIANT TypeOK
INVARIANT MutualExclusion
INVARIANT HolderOwnsMonitor
INVARIANT NoLostWakeup
INVARIANT NodeAccounting
PROPERTY ImplementsContract
