CONSTANTS
  A = A
  B = B
  C = C
  Threads = {t1, t2}
  Classes = {A, B, C}
  NoThread = NoThread
SPECIFICATION MCSpec
INVARIANTS
  TypeOK
  RunsOnce
  UsesAreInitialized
PROPERTY
  CallsReturn
CHECK_DEADLOCK FALSE
