\* Two terms, the loop of the first one surviving into the second, shared
\* hosts, against a gateway keyed by host.
SPECIFICATION FairSpec
CONSTANTS
  d1 = d1  d2 = d2  h1 = h1  h2 = h2  h3 = h3
  Docs = {d1, d2}
  Hosts = {h1, h2}
  Absent = Absent  Blank = Blank  Unrouted = Unrouted
  NoEvent = NoEvent  Free = Free
  KeyByHost = TRUE
  TLSDocs = {d1}
  HostsOf <- SharedHosts
  Issuers = {"real"}
  Periodic = TRUE
  Elect = TRUE
  MaxTerm = 2
  MaxChanges = 1
  MaxFaults = 2
PROPERTY Converges
