\* The application: two servers, a hook on each side and a budget of two ticks,
\* so that a future may finish before, at, or after a deadline; both faults may
\* occur.  The servers: four peers, one that a gate rejects and one that never
\* finishes its handshake, for one slot; with and without a handshake deadline.
SPECIFICATION ServingSpec
CONSTANTS
  Servers = {s1, s2}
  BeforeHooks = 1
  AfterHooks = 1
  StopTimeout = 2
  MaxUptime = 1
  Faults = {"run_dropped", "hook_panic"}
  None = None
  Unset = Unset
  Callers = {c1, c2, c3, c4}
  Rejected = {c3}
  Silent = {c4}
  Cap = 1
INVARIANTS
  OrderlyShutdown
  ClosedMeansFinished
  ShutdownBounded
  CapHolds
  NoSlotLeaks
  SessionsAccounted
PROPERTIES
  NothingGivenUpEarly
  StopsAndWaitsEnd
  ImplementsContract
