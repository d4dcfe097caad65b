CONSTANTS
  Sources = {"ferc", "cpuc", "njbpu", "mdpsc", "vascc", "imm", "caiso", "ercot-nprr", "ercot-mn", "puct"}
  N = 3
  Dockets = {1, 2}
  Watched <- WatchedBy
  Forms <- FormsOf
  ElectricNames = {1}
  Item <- PairFirst
  PageSize = 1
  MaxPages = 2
  WindowDays = 2
  MonthDays = 2
  YearDays = 2
  Lookback = 3
  MaxFilings = 2
  Attempts = 2
  LastDay = 3
  Weekend = {1}
  NoForm = NoForm
SPECIFICATION Spec
INVARIANTS TypeOK QuietCrawlIsComplete MissedOnlyByComplaint
CHECK_DEADLOCK FALSE
