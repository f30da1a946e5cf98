CONSTANTS
  N = 2
  Static = {t1, t2}
  Dynamic = {t3, t4}
  Waiters = {}
  Setters = {}
  NoTask = NoTask
  NDEBUG = TRUE
SPECIFICATION Spec
INVARIANTS
  AllTasksRun
