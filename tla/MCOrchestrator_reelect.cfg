\* Leadership is lost while the loop of the first term is in a cycle.
SPECIFICATION Spec
CONSTANTS
  d1 = d1  d2 = d2  h1 = h1  h2 = h2  h3 = h3
  Docs = {d1, d2}
  Hosts = {h1, h2}
  Absent = Absent  Blank = Blank  Unrouted = Unrouted
  NoEvent = NoEvent  Free = Free
  KeyByHost = TRUE
  TLSDocs = {d1}
  HostsOf <- SharedHosts
  Issuers = {"real"}
  Periodic = TRUE
  Elect = TRUE
  MaxTerm = 2
  MaxChanges = 1
  MaxFaults = 1
INVARIANT InitialReconcileAlone
