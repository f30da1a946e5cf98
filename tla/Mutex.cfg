CONSTANTS
  Coros = {c1, c2, c3}
  nolocked = nolocked
  Nobody = Nobody
SPECIFICATION FairSpec
INVARIANTS
  MutualExclusion
  NoLostWaiter
  UnlockAsserts
  WaitRegistered
PROPERTIES
  FifoRefinement
  NoStarvation
