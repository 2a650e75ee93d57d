SPECIFICATION Spec
CONSTANTS
  p1 = p1  p2 = p2
  MaxBodySize = 2
  EncodeURI <- MCEncodeURI
  Join <- MCJoin
  Backends = {"memory", "sqlite", "badger"}
  Configs <- MCConfigs
  Generated <- MCGenerated
  MaxId = 4
  MaxBoots = 2
  MaxFaults = 1
  Limited = {"q1", "q2", "acct", "a<FF>", "a<FE>", "a%FF", "all"}
  Shared = "all"
  Burst = 2
  Refill = 1
  MaxBuckets = 3
  Numerals <- MCNumerals
  Lower <- MCLower
  NotBase64 = {"!!"}
  Requests <- MCRequests
  Answers <- MCAnswers
  Errors = {"QueueDoesNotExist"}
  Setups <- MCSetups
  Procs = {p1, p2}
  MaxTicks = 2
INVARIANTS UniqueKeys RevokedIsRefused ConfiguredKeysAreThere AuthenticationIsRight HandlerGetsWhatWasSent RepliesCarryTheAnswer LimitHolds
PROPERTY RefusedOnlyWhenSpent
SYMMETRY ProcSymmetry
CHECK_DEADLOCK FALSE
