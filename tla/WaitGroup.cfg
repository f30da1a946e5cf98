CONSTANTS
  Waiters = {w1, w2, w3}
  Workers = {d1, d2}
  Extra = {e1}
  NULL = NULL
SPECIFICATION WgFairSpec
INVARIANTS
  SafeWalk
PROPERTIES
  WaitGroupIsGate
  ListedIsReleased
