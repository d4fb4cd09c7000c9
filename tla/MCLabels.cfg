CONSTANTS
  Names <- MCNames
  Values <- MCValues
  metricNameLabel <- MCMetricNameLabel
  LabelNames <- MCLabelNames
  MetricNames <- MCMetricNames
  MaxLabels = 3
  MaxLabelValueLength = 1
  MaxLen = 4
SPECIFICATION Spec
INVARIANTS TypeOK ReasonsExact DigestIdentifiesSeries
CHECK_DEADLOCK FALSE
