SPECIFICATION Spec
CONSTANTS
  t1 = t1  t2 = t2  m1 = m1  m2 = m2  m3 = m3
  Tasks = {t1, t2}
  Msg = {m1, m2}
  Backend = "memory"
  BatchSize = 2
  DestDrops = {m2}
INVARIANTS NoMessageLost CancelStopsSends RemovedTasksStopped
SYMMETRY TaskSymmetry
CHECK_DEADLOCK FALSE
