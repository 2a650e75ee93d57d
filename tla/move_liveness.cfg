SPECIFICATION FairSpec
CONSTANTS
  t1 = t1  t2 = t2  m1 = m1  m2 = m2  m3 = m3
  Tasks = {t1}
  Msg = {m1, m2}
  Backend = "sqlite"
  BatchSize = 2
  DestDrops = {}
PROPERTY CancelEndsTask
CHECK_DEADLOCK FALSE
