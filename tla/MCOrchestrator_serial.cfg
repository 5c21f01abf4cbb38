\* The event loop and the periodic reconciliation of one term, with crashes,
\* failed calls and a broken stream, against provisioner-log.
SPECIFICATION Spec
CONSTANTS
  d1 = d1  d2 = d2  h1 = h1  h2 = h2  h3 = h3
  Docs = {d1, d2}
  Hosts = {h1, h2, h3}
  Absent = Absent  Blank = Blank  Unrouted = Unrouted
  NoEvent = NoEvent  Free = Free
  KeyByHost = FALSE
  TLSDocs = {d1}
  HostsOf <- OwnHosts
  Issuers = {"real", "none"}
  Periodic = TRUE
  Elect = FALSE
  MaxTerm = 1
  MaxChanges = 3
  MaxFaults = 2
INVARIANTS TypeOK PlanCurrent 
