\* Every selection, score and answer for six rows of five filings under four
\* sets of limits.
CONSTANTS
  a = a  b = b  k = k
  N = 6
  NoKey = NoKey
  NoDocket = NoDocket
  ItemKey <- OnePair
  FilingOf <- OneTwice
  Settings <- FourSettings
  Profiles <- CalmOrDue
  NoProfile = NoProfile
  HighScore = 20
  FallbackCap = 2
SPECIFICATION Spec
INVARIANTS TypeOK BestWithinLimits RowListsTheBrief
CHECK_DEADLOCK FALSE
