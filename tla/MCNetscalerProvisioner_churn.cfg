\* Cycles over routes that are in place, and nothing fails.
SPECIFICATION Spec
CONSTANTS
  h1 = h1  h2 = h2
  Hosts = {h1, h2}
  TLSHosts = {h1}
  BackendsOf <- OneOrTwo
  MaxChanges = 0
  MaxFaults = 0
PROPERTY CyclesKeepRoutes
