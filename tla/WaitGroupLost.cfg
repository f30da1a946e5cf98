CONSTANTS
  Waiters = {w1}
  Workers = {d1}
  Extra = {}
  NULL = NULL
SPECIFICATION WgSpec
INVARIANTS
  AllWoken
