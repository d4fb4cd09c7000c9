CONSTANTS
  Workers = {w1, w2}
  SeriesPerRequest = 2
  SamplesPerSeries = 1
  ActiveSeries = 3
  PathCount = 2
  MaxTime = 0
  MaxRequests = 3
SPECIFICATION FairGeneratorSpec
INVARIANTS GeneratorTypeOK SummaryExact ProgressLag EveryPathCarriesEverySeries
PROPERTIES EndsWithSummary
CHECK_DEADLOCK FALSE
