\* Two engines and three callers in both pools; the engines' own instances.
SPECIFICATION MCSpec
CONSTANTS
  c1 = c1
  c2 = c2
  c3 = c3
  Callers = {c1, c2, c3}
  Max = 2
  Faults = {"cancel", "factory", "init_all", "close"}
  Calls <- Three
  Loops = {"l1", "l2"}
  MaxText = 3
  Shady = {2, c2}
  Instances <- AllInstances
INVARIANTS
  PermitsMatchQueue
  PoolIsSound
  LoadsHold
PROPERTIES
  RunsAreTheirOwn
  ScriptsGoOn
\* An engine's instance ends once every caller has made its call.
CHECK_DEADLOCK FALSE
