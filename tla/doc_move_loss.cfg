SPECIFICATION Spec
CONSTANTS
  t1 = t1  t2 = t2  m1 = m1  m2 = m2  m3 = m3
  Tasks = {t1}
  Msg = {m1, m2}
  Backend = "sqlite"
  BatchSize = 1
  DestDrops = {}
INVARIANT NoMessageLost
CHECK_DEADLOCK FALSE
