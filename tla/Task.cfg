CONSTANTS
  Roots = {r1, r2}
  Kept = {r2}
  Depth = 4
  SuspendAt = {1, 2, 4}
  ThrowAt = {2, 4}
  Pod = {3}
  Generic = {4}
  Null = Null
SPECIFICATION FairSpec
INVARIANTS
  HandlesAlive
  RootFramesSafe
  DetachedFreed
  ExceptionsReach
PROPERTIES
  RunsToEnd
