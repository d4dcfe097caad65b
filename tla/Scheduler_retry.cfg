\* A crawl part that raised behind its mark: what the log says of a retry.
CONSTANTS
  s1 = s1  s2 = s2  u1 = u1  u2 = u2
  Schedulers = {s1}
  Users = {u1}
  LastDay = 1
  Weekend = {}
  DayLen = 8
  CrawlAt = 1
  BriefAt = 4
  Window = 2
  MaxGap = 2
  MayRaise = TRUE
  MayCrash = FALSE
SPECIFICATION Spec
INVARIANTS
  FailureIsRetried
CHECK_DEADLOCK FALSE
