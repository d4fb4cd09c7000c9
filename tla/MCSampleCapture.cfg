CONSTANTS
  Workers = {w1, w2}
  Identities = {i1, i2}
  Rate = 1
  MaxSamples = 3
  Duration = 5
  Second = 2
  Series <- MCSeries
  MaxInspections = 2
  MaxTime = 5
SPECIFICATION Spec
INVARIANTS TypeOK LedgerBalanced AttemptsAccounted RateEnvelope GivesUpOnlyTheRefused
CHECK_DEADLOCK FALSE
