\* Two overlapping sweeps over three days.
CONSTANTS
  l1 = l1
  l2 = l2
  Loops <- TwoLoops
  Last = 3
  LastDay = 3
  Electric = {1, 3}
  PageSize = 1
  MaxPages = 3
  MaxFilings = 2
  MaxLookback = 1
  Ttl = 2
  Themes = {roe, bess}
  MaxThemes = 1
SYMMETRY Symmetry
SPECIFICATION Spec
INVARIANTS TypeOK SweepDelivers OneVerdictPerLoop DeletedStaysDeleted
