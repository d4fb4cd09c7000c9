CONSTANTS
  Limits = {"MaxIdentityLength", "MaxBodyBytes"}
  DefaultLimit <- MCDefaultLimit
  DefaultCacheSize = 4
  BytesPerEntry = 2
  MaxInt = 5
  DefaultShards = 2
  MalformedNames = {"a-b", "source_a-b"}
  DunderNames = {"__zone"}
  Commands <- MCCommands
  Conns = {c1, c2}
  HeaderSets <- MCHeaderSets
  None = None
SPECIFICATION FairSpec
INVARIANTS TypeOK BudgetRespected CacheForEveryLookup LabelsDistinct ExitZeroCutsNobody
PROPERTIES SignalEndsProcess
CHECK_DEADLOCK FALSE
