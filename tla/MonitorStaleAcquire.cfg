SPECIFICATION Spec
CONSTANTS
    Threads = {t1, t2, t3}
    Objects = {a, b}
    Monitors = {m1, m2}
    Nodes = {n1}
    EnterTimeouts = {"infinite"}
    WaitTimeouts = {"infinite"}
    Interrupts = FALSE
    MaxDepth = 1
    MaxTokens = 2
    NULL = NULL
SYMMETRY Symmetry
INVARIANT AcquiredIsInstalled
