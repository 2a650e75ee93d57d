SPECIFICATION FairSpec
CONSTANTS
  m1 = m1  m2 = m2  m3 = m3  g1 = g1  g2 = g2  d1 = d1  c1 = c1  c2 = c2
  NoGroup = NoGroup  NoDedup = NoDedup
  Msg = {m1}
  Groups = {g1, g2}
  DedupIds = {d1}
  GroupOf <- NoGroups
  DedupOf <- NoDedups
  IsFifo = FALSE
  MaxReceiveCount = 2
  Retention = 2
  DedupWindow = 1
  DefaultVisibility = 1
  Receivers = {c1, c2}
  Delays = {0, 1}
  Timeouts = {0}
  Waits = {0, 2}
  Batches = {1}
  MaxTime = 3
  MaxDeliveries = 3
PROPERTIES PollReturns InFlightReleased
