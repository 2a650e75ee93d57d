SPECIFICATION UISpec
CONSTANTS
  qa = qa  qf = qf  qb = qb  k1 = k1  k2 = k2  k3 = k3  p1 = p1  p2 = p2
  Names = {qa, qf, qb}
  FifoNames = {qf}
  BadNames = {qb}
  UIBadNames = {qb}
  Startup <- Configured
  Requests <- All
  Procs = {p1, p2}
  AutoCreate = TRUE
  StoresFail = TRUE
  Relaxed = FALSE
  MaxTags = 1
  LongKeys = {k3}
  Cooldown = 2
  MaxObj = 3
  MaxCalls = 4
  MaxTime = 2
  MaxReceives = 2
INVARIANTS ObjectsAgree TagsHold PurgesAreApart ReadsAreWhole
PROPERTY BatchAccounts
SYMMETRY ProcSymmetry
CHECK_DEADLOCK FALSE
