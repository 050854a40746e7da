\* Hystrix: an outcome of a call admitted before the trip decides the half-open state.
SPECIFICATION FairSpec
CONSTANTS
  Callers = {c1, c2}
  Flavors = {"hystrix"}
  Buckets = 2
  BucketTicks = 2
  Sleep = 2
  Volume = 2
  ErrorPercent = 50
  K = 2
  Alpha = 12
  Beta = 10
  Warmup = 2
  MinRtts = {1}
  MaxRtt = 32
  Rtts = {16, 32, 64}
  MaxCalls = 5
PROPERTIES
  OnlyTheTrialDecides
