\* The future of a loading get is dropped, as a timeout around it does.
SPECIFICATION MCSpec
CONSTANTS
  None = None
  r1 = r1
  r2 = r2
  r3 = r3
  own = own
  shared = shared
  Readers = {r1, r2, r3}
  Writers = {w1}
  Scopes = {own, shared}
  ScopeOf <- TwoScopes
  Drops = {"get"}
  Ids = {1, 2, 3, 4, 5, 6}
  Clients = {c1}
  Engines = {"memory"}
  Decorated = {FALSE}
  MaxFaults = 0
PROPERTY GetsAnswered
CHECK_DEADLOCK FALSE
