\* All kinds of store, failing calls and crashes, two goroutines.
SPECIFICATION Spec
CONSTANTS
  h1 = h1  h2 = h2  w1 = w1  w2 = w2
  Hosts = {h1, h2}
  PlaceOf <- OwnPlaces
  Stores = {"file", "kube", "vault"}
  Alone = {"file"}
  Writers = {w1, w2}
  MaxSerial = 3
  MaxFaults = 2
  NoHost = NoHost  Missing = Missing  Torn = Torn
INVARIANTS TypeOK PairsMatch 
PROPERTY KeepsUsable
