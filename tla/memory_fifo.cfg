SPECIFICATION Spec
CONSTANTS
  m1 = m1  m2 = m2  m3 = m3  g1 = g1  g2 = g2  d1 = d1  c1 = c1  c2 = c2
  NoGroup = NoGroup  NoDedup = NoDedup
  Msg = {m1, m2}
  Groups = {g1, g2}
  DedupIds = {d1}
  GroupOf <- OneGroup
  DedupOf <- NoDedups
  IsFifo = TRUE
  MaxReceiveCount = 2
  Retention = 2
  DedupWindow = 1
  DefaultVisibility = 1
  Receivers = {c1}
  Delays = {0}
  Timeouts = {1}
  Waits = {0, 1}
  Batches = {2}
  MaxTime = 2
  MaxDeliveries = 3
INVARIANTS GroupHeadOnly RedriveBound NoMissedWakeup
PROPERTY KeepsContract
SYMMETRY MsgSymmetry
