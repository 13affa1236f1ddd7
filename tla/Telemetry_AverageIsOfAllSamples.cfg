SPECIFICATION Spec
CONSTANTS
  MaxTime = 8
  Bucket = 3
  RawRetention = 2
  Retention = 5
  Limit = 4
INVARIANT AverageIsOfAllSamples
CHECK_DEADLOCK FALSE
