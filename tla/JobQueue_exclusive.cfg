\* Two replicas of one loop whose handlers finish inside their lock; two callers race
\* on one idempotency key.
CONSTANTS
  j1 = j1  j2 = j2  p1 = p1  p2 = p2  k1 = k1
  Jobs = {j1, j2}
  NoJob = NoJob
  Kinds <- OneKind
  Procs <- TwoProcs
  Loops <- LoopsOne
  KindOf <- KindOfOne
  ProcOf <- ProcOfOne
  Prios = {0, 5}
  Callers = {c1, c2}
  Keys = {key1}
  NoKey = NoKey
  MaxAttempts = 2
  LockTicks = 2
  BackoffTicks = 1
  PurgeTicks = 3
  HandlerMax = 1
  AckLoss = FALSE
  OverdueCap = 1
SPECIFICATION Spec
INVARIANTS
  TypeOK
  ExclusiveExecution
  OneJobPerKey
  OneVerdictPerAttempt
PROPERTIES
  DoneIsFinal
  ImplementsLease
