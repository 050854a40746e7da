CONSTANTS
  Workers = {w1, w2}
  Tasks = {t1}
  Settings = 2
  Default = 3
  Limit = 1
  Concurrency = 1
  MaxPush = 1
  MaxUpsets = 2
  NoWorker = none
  MaxBranches = 3
  BranchLimit = 2
  MaxFaults = 2
  Second = 4
  Half = 2
  Minutes = 2
  MaxLate = 1
  Jobs = {"job"}
  MaxValue = 7
  Word = 32
  Filters <- MCFilters
  Topics <- MCTopics
  Channel = 2
  MaxLosses = 1
  MaxDelivers = 1
  Base = 1
  Cap = 3
SPECIFICATION WorkSpec
INVARIANTS
  ClaimsHold
  TransactionsWhole
  HandledOnceByItsOwn
PROPERTY
  WorkEnds
\* The pushes, upsets, minutes and deliveries of a behaviour are spent.
CHECK_DEADLOCK FALSE
