CONSTANTS
  k1 = k1  k2 = k2  k3 = k3
  Workers = {w1, w2}
  SampleKeys = {k1, k2, k3}
  SampleValues = {v}
  CacheTTL = 1
  DefaultShards = 2
  Hash <- MCHash
  CacheSize = 3
  Second = 1
  MaxClock = 3
SYMMETRY Symmetry
SPECIFICATION MetricsSpec
INVARIANTS MetricsTypeOK LenOfSomeMoment
CHECK_DEADLOCK TRUE
