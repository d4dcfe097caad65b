SPECIFICATION FairSpec
CONSTANTS
  f1 = f1
  d1 = d1
  d2 = d2
  None = None
  Procs = {p}
  Filings = {f1}
  Dockets = {d1, d2}
  Listings <- OneFiling
  FiledOn <- OnDayOne
  CrossRefs <- NoCrossRefs
  LastDay = 2
  Weekend = {}
  Lookback = 3
  Selective = TRUE
  Curated = FALSE
  SweepDays = 9
  SweepCap = 1
  Docless = {}
  Manual = TRUE
  MayFail = TRUE
  MayCrash = TRUE
  LateListing = TRUE
  MaxJobs = 3
INVARIANTS TypeOK SourcesExist OneOfferPerUrl SweptOnce
PROPERTY NothingForgotten
