SPECIFICATION MCSpec
CONSTANTS
  Buckets = 3
  NsPerBucket = 2
  MaxNs = 7
  MaxSamples = 3
  Percents <- MCPercents
INVARIANTS
  ZeroMeansUnderOneBucket
CHECK_DEADLOCK FALSE
