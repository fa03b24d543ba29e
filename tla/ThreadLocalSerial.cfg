SPECIFICATION Spec
CONSTANTS
    Threads = {t1, t2}
    Objects = {a, b, c}
    MaxKeys = 2
    Overlap = 1
    MaxCount = 4
    NULL = NULL
SYMMETRY Symmetry
INVARIANT TypeOK
INVARIANT ValueIsKept
INVARIANT CountCoversUses
