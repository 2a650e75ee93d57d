SPECIFICATION FairSpec
CONSTANTS
  qa = qa  qd = qd  m1 = m1  m2 = m2  i1 = i1  NoDedup = NoDedup  p1 = p1  p2 = p2
  NoQueue = NoQueue  NoProc = NoProc
  Queues = {qa, qd}
  Dlq <- Chain
  Deletable = {qa}
  Msg = {m1}
  DedupIds = {i1}
  KnownAs <- OneId
  Fallible = {}
  Procs = {p1, p2}
  MaxGen = 1
PROPERTY RedriveReturns
CHECK_DEADLOCK FALSE
