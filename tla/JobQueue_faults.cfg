\* Two replicas of one loop, killed at any time: handlers may outlive their lock and even
\* the purge's hour, and acknowledgements may be lost.
CONSTANTS
  j1 = j1  j2 = j2  p1 = p1  p2 = p2  k1 = k1
  Jobs = {j1, j2}
  NoJob = NoJob
  Kinds <- OneKind
  Procs <- TwoProcs
  Loops <- LoopsOne
  KindOf <- KindOfOne
  ProcOf <- ProcOfOne
  Prios = {0}
  Callers = {}
  Keys = {}
  NoKey = NoKey
  MaxAttempts = 2
  LockTicks = 1
  BackoffTicks = 1
  PurgeTicks = 2
  HandlerMax = 3
  AckLoss = TRUE
  OverdueCap = 0
SPECIFICATION FairSpec
INVARIANTS
  AttemptsAreCounted
  PurgeableIsExpired
PROPERTIES
  EverySettles
