CONSTANTS
  h1 = h1
  h2 = h2
  Hosts <- MCHosts
  Contents = {a, b}
  Absent = Absent
  Refused = Refused
  Collections = 2
  CollectionOf <- MCCollectionOf
  Providers <- MCProviders
  MaxTerm = 2
  MaxChanges = 2
  MaxFaults = 1
  NoEvent = NoEvent
  Requests = {r1, r2}
  ChanSize = 1
SPECIFICATION FairSpec
INVARIANTS
  TypeOK
  
PROPERTIES
  HostsConverge
  FailsTogether
