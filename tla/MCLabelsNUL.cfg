CONSTANTS
  Names <- NULNames
  Values <- NULValues
  metricNameLabel <- MCMetricNameLabel
  LabelNames <- NULNames
  MetricNames <- MCMetricNames
  MaxLabels = 3
  MaxLabelValueLength = 5
  MaxLen = 3
SPECIFICATION Spec
INVARIANT ExactCanonicalSeries
CHECK_DEADLOCK FALSE
