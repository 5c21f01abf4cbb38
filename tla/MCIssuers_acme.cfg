CONSTANTS
  Callers = {g1, g2}
  Hosts = {h1, h2}
  Auths = {1, 2}
  Kinds <- MCKinds
  MaxFaults = 3
  NoHost = NoHost
  NoAuth = 0
SPECIFICATION FairSpec
INVARIANTS
  TypeOK
  Reachable
  NoLeftovers
  RefusedForCause
PROPERTY Returns
