CONSTANTS
  Workers = {w1, w2}
  Keys = {k1, k2, k3, k4}
  maxSeries = 1
  PruneFactor = 3
  KeepFactor = 2
  Window = 2
  firstLimit = 1
  MaxTime = 3
  MaxFindings = 6
SYMMETRY Symmetry
SPECIFICATION Spec
INVARIANTS TypeOK UndercountBounded FirstExamplesBounded
PROPERTIES ScrapeIsTop
CHECK_DEADLOCK FALSE
