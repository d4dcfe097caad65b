\* What the module header says of changed top-3 dockets.
CONSTANTS
  d1 = d1  d2 = d2  d3 = d3  d4 = d4
  k1 = k1  k2 = k2  k3 = k3
  Dockets = {d1, d2, d3, d4}
  KeyOf <- TwoSources
  None = None
  TopN = 3
SPECIFICATION SalienceSpec
INVARIANTS
  HeadlineDescribesItsDocket
