\* Requests that overlap, fail and die.
CONSTANTS
  r1 = r1
  r2 = r2
  None = None
  Requests <- TwoRequests
  Sources = {cpuc, puct}
  Limit = 2
  RefreshCap = 2
  PerPin = 2
  CrawlCap = 1
  MaxTasks = 1
  MaxLost = 2
  MayFail = TRUE
  MayCrash = TRUE
SYMMETRY Symmetry
SPECIFICATION Spec
INVARIANTS TypeOK QuotaOverrunIsOverlap HourlyOverrunIsOverlap
