CONSTANTS
  Waiters = {w1, w2}
  Plain = {w3}
  Producers = {p1, p2, p3}
  Early = {p2}
  All = {p3}
  Nobody = Nobody
SPECIFICATION FairSpec
INVARIANTS
  PredicateOnReturn
  InOneList
  WaitOnce
  MutexReleased
PROPERTIES
  AllServed
