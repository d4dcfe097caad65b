\* One worker over three days: dates asked in any order, aborts, and either late crawls
\* and dropped items or orderly days.
CONSTANTS
  f1 = f1  f2 = f2  j1 = j1  j2 = j2  j3 = j3  j4 = j4
  scheduler = scheduler  request = request
  Filings = {f1, f2}
  LastDay = 3
  Lookback = 1
  Jobs = {j1, j2, j3}
  Callers = {scheduler}
  MaxAttempts = 2
  Parallel = FALSE
  MayAbort = TRUE
  Leaving = {2}
  Recomposed = {1}
SPECIFICATION Spec
SYMMETRY Interchangeable
INVARIANTS
  TypeOK
  SentBriefsDisjoint
  MailsMatchRow
  NothingLost
  OneStrayAtMost
CHECK_DEADLOCK FALSE
PROPERTIES
  SentIsFinal
