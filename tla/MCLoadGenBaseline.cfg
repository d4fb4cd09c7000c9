CONSTANTS
  Workers = {w1}
  SeriesPerRequest = 2
  SamplesPerSeries = 2
  ActiveSeries = 3
  PathCount = 2
  MaxTime = 2
  MaxRequests = 3
SPECIFICATION GeneratorSpec
INVARIANT BaselineHasNoConflicts
CHECK_DEADLOCK FALSE
