CONSTANTS
  Roots = {r1, r2}
  Kept = {r2}
  Depth = 2
  SuspendAt = {2}
  ThrowAt = {}
  Pod = {}
  Generic = {}
  Null = Null
SPECIFICATION Spec
INVARIANTS
  NoUseAfterFree
