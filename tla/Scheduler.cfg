CONSTANTS
  N = 2
  Static = {t1, t2, t3}
  Dynamic = {t4, t5}
  Waiters = {t1, t4}
  Setters = {t2}
  NoTask = NoTask
  NDEBUG = FALSE
SPECIFICATION FairSpec
INVARIANTS
  TokenAccounting
  WaitCount
  NoEarlyStop
  NoLostWakeup
PROPERTIES
  Termination
