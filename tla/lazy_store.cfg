SPECIFICATION Spec
CONSTANTS
  g1 = g1  d1 = d1
  NoGroup = NoGroup  NoDedup = NoDedup
  Msg = {1, 2, 3}
  Groups = {g1}
  DedupIds = {d1}
  GroupOf <- OneGroup
  DedupOf <- SharedDedup
  Backends = {"sqlite", "badger"}
  Kinds = {TRUE, FALSE}
  MaxReceiveCount = 2
  Retention = 1
  DedupWindow = 1
  DefaultVisibility = 1
  Delays = {0, 1}
  Timeouts = {1}
  Batches = {1, 2}
  MaxTime = 2
  MaxDeliveries = 2
  MaxSequence = 3
  MaxOpens = 1
INVARIANTS OnePlace OneInFlightPerGroup SequenceOrder LapsedComesBack
PROPERTIES GroupOrder DedupWindowHolds KeepsContract
CHECK_DEADLOCK FALSE
