\* One writer, rules with and without TLS, failing calls.
SPECIFICATION Spec
CONSTANTS
  h1 = h1  h2 = h2  h3 = h3  w1 = w1  w2 = w2
  Hosts = {h1, h2, h3}
  TLSHosts = {h1, h2}
  IdOf <- DistinctIds
  MaxRoutes = 2
  Writers = {w1}
  SharedHosts = TRUE
  MaxBatch = 3
  MaxIngresses = 3
  MaxFaults = 1
  NoIngress = NoIngress  Idle = Idle
INVARIANTS TypeOK WithinCapacity  DoneAsAsked
PROPERTY RemovesOnlyAsked
