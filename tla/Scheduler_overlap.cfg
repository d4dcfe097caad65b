\* Two schedulers, as at a redeploy, over a weekday between two weekend days; either
\* may be killed and any database call may raise.
CONSTANTS
  s1 = s1  s2 = s2  u1 = u1  u2 = u2
  Schedulers = {s1, s2}
  Users = {u1, u2}
  LastDay = 3
  Weekend = {1, 3}
  DayLen = 8
  CrawlAt = 1
  BriefAt = 4
  Window = 2
  MaxGap = 2
  MayRaise = TRUE
  MayCrash = TRUE
SPECIFICATION Spec
SYMMETRY Interchangeable
INVARIANTS
  TypeOK
  MarksAreEarned
  NoWeekdayMissed
  NoDoubleFiring
CHECK_DEADLOCK FALSE
