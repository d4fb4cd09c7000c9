CONSTANTS
  t1 = t1  t2 = t2  p1 = p1  p2 = p2  s1 = s1  v1 = v1  v2 = v2
  Workers = {w1, w2}
  Tenants = {t1, t2}
  Paths = {p1, p2}
  Series = {s1}
  Values = {v1, v2}
  Unknown = Unknown
  Requests <- MCRequests
  StaleCutoff = 1
  FutureSkew = 1
  CacheTTL = 3
  CacheSize = 3
  DefaultShards = 2
  DuplicateDetection = TRUE
  CrossPathDetection = TRUE
  SampleHash <- MCSampleHash
  PathHash <- MCPathHash
  MaxTime = 4
  MaxRequests = 3
  MaxDelay = 1
SYMMETRY Symmetry
SPECIFICATION Spec
INVARIANTS TypeOK FindingsAreReal ConflictsDetected EntriesAccounted
CHECK_DEADLOCK FALSE
