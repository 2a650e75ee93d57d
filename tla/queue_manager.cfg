SPECIFICATION FairSpec
CONSTANTS
  qa = qa  qd = qd  m1 = m1  m2 = m2  p1 = p1  p2 = p2  i1 = i1
  NoQueue = NoQueue  NoProc = NoProc  NoDedup = NoDedup
  Queues = {qa, qd}
  Dlq <- Chain
  Deletable = {qa, qd}
  Msg = {m1, m2}
  DedupIds = {i1}
  KnownAs <- OneId
  Fallible <- Second
  Procs = {p1, p2}
  MaxGen = 2
INVARIANTS NoLeakedStore MappedStoreOpen
PROPERTIES CallsReturn RedriveArrives
CHECK_DEADLOCK FALSE
