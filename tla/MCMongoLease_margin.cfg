\* Two instances and a lease that just covers the slowest renewal.
SPECIFICATION FairSpec
CONSTANTS
  i1 = i1  i2 = i2
  Instances = {i1, i2}
  LeaseDuration = 6
  RenewInterval = 2
  RetryInterval = 1
  MaxCall = 1
  MaxDrain = 1
  MaxSkew = 1
  MaxFaults = 3
  NoLease = NoLease
INVARIANTS TypeOK MutualExclusion LeaderHoldsLease
PROPERTIES ImplementsLeaderLease StableLeader
