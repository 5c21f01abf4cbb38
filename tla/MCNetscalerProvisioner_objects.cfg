\* Events and cycles over a route with TLS and one without.
SPECIFICATION Spec
CONSTANTS
  h1 = h1  h2 = h2
  Hosts = {h1, h2}
  TLSHosts = {h1}
  BackendsOf <- OneOrTwo
  MaxChanges = 2
  MaxFaults = 1
INVARIANTS TypeOK NoDangling DoneAsAsked
