CONSTANTS
  Objects = {o1, o2}
  Waiters = {w1, w2}
  None = None
  MaxPosts = 2
SPECIFICATION FairSpec
INVARIANTS
  TypeOK
  CacheMatchesCallback
  FinalizedAsRegistered
PROPERTY
  EveryoneComesBack
  HandedOverIsTaken
CHECK_DEADLOCK FALSE
