SPECIFICATION MCSpec
CONSTANTS
    a = a
    b = b
    c = c
    in1 = in1
    out1 = out1
    in2 = in2
    gone = gone
    NoFd = NoFd
    fd1 = fd1
    fd2 = fd2
    w1 = w1
    w2 = w2
    w3 = w3
    None = None
    Items = {a, b, c}
    Workers = {w1, w2, w3}
    Callbacks = {c}
    Parent <- MCParent
    MinThreads = 1
    MaxThreads = 2
    Aborts = TRUE
    Sockets = {in1, out1, in2, gone}
    Fd <- MCFd
    Interest <- MCInterest
    MaxEvents = 2
INVARIANTS
    TypeOK
    QueueAttended
PROPERTIES
    EndInvokeReturns
    ReadyIsForwarded
CHECK_DEADLOCK FALSE
