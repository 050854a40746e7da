\* Every part with two callers.
SPECIFICATION ResilienceSpec
CONSTANTS
  Callers = {c1, c2}
  Flavors = {"hystrix", "sres", "vegas"}
  Buckets = 2
  BucketTicks = 2
  Sleep = 2
  Volume = 2
  ErrorPercent = 50
  K = 2
  Alpha = 12
  Beta = 10
  Warmup = 2
  MinRtts = {0, 1}
  MaxRtt = 32
  Rtts = {16, 32, 64}
  MaxCalls = 4
  Token = 4
  Rate = 3
  Bursts = {2, 4, 9}
  Takers = {c1, c2}
  MaxTakes = 6
  BbrBuckets = 2
  BbrTicks = 2
  MinQps = 1
  ThresholdNum = 4
  ThresholdDen = 5
  BbrRtts = {0, 1, 3}
  BbrCallers = {c1, c2}
  MaxBbrAsked = 4
  k1 = k1
  k2 = k2
  k3 = k3
  NoTtl = NoTtl
  Endless = Endless
  NoBudget = NoBudget
  Tries = {0, 1, 2}
  Budgets = {NoBudget, 0, 4, 9}
  Initial = 2
  Factor = 2
  Ceiling = 3
  Jitters = {"none", "full", "equal"}
  MaxCallTime = 2
  MaxLag = 1
  Parts = {k1, k2}
  Shapes <- MCShapes
  MaxChanges = 4
  MaxChecks = 1
  Keys = {k1, k2, k3}
  Capacity = 2
  Ttls = {NoTtl, Endless, 0, 1}
  DefaultTtls = {NoTtl, 1}
  MaxKvCalls = 3
  Samples <- AllSamples
  Foreign = {{}, {"n"}}
  Sizes = {0, 2}
  MaxSamples = 3
INVARIANTS
  OneTrialPerSleep
  TrialCanStillDecide
  LimitsHold
  GuardsAccount
PROPERTIES
  TripsEarnedWaitsEnd
\* The takes, calls and samples of a behaviour are spent.
CHECK_DEADLOCK FALSE
