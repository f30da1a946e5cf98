CONSTANTS
  Waiters = {w1, w2, w3}
  Setters = {s1, s2}
  NULL = NULL
  This = This
  Garbage = Garbage
  Counts = {0, 1, 2, 3}
  NoLatch = NoLatch
  Int64Max = 2
SPECIFICATION LatchSpec
INVARIANTS
  NoDanglingWalk
  ResultIsSet
  NobodyLeft
PROPERTIES
  LatchIsGate
  AllReleased
