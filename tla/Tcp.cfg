CONSTANTS
  Server = Server
  Accepted = {c1, c2}
  Clients = {k1}
  Engines = {e1}
  kFixFdArraySize = 2
  kEnableFixfd = TRUE
  PrepKeepsFlags = TRUE
  MaxFd = 3
  None = None
  NullFd = NullFd
SPECIFICATION FairSpec
INVARIANTS
  LeaseExclusive
  OpOnOwnFile
  ClosedIsReleased
  NoBadDescriptor
PROPERTIES
  SessionsEnd
