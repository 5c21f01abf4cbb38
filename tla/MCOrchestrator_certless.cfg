\* One failed issuance during a reconciliation cycle, and nothing else.
SPECIFICATION FairSpec
CONSTANTS
  d1 = d1  d2 = d2  h1 = h1  h2 = h2  h3 = h3
  Docs = {d1, d2}
  Hosts = {h1, h2, h3}
  Absent = Absent  Blank = Blank  Unrouted = Unrouted
  NoEvent = NoEvent  Free = Free
  KeyByHost = TRUE
  TLSDocs = {d1}
  HostsOf <- OwnHosts
  Issuers = {"real"}
  Periodic = TRUE
  Elect = FALSE
  MaxTerm = 1
  MaxChanges = 0
  MaxFaults = 1
PROPERTY CertificatesConverge
