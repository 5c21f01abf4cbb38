\* One writer, one rule per Ingress, nothing fails.
SPECIFICATION Spec
CONSTANTS
  h1 = h1  h2 = h2  h3 = h3  w1 = w1  w2 = w2
  Hosts = {h1, h2, h3}
  TLSHosts = {h1, h2}
  IdOf <- DistinctIds
  MaxRoutes = 1
  Writers = {w1}
  SharedHosts = FALSE
  MaxBatch = 3
  MaxIngresses = 3
  MaxFaults = 0
  NoIngress = NoIngress  Idle = Idle
INVARIANT NewNamesAreFree
