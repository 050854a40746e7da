\* Three readers, two of them under one scope, against two writes, any future
\* dropped; two clients on the seven engines, bare and behind soft delete, one
\* answer lost; trees of three rows; every question to the filters.
SPECIFICATION MCSpec
CONSTANTS
  None = None
  r1 = r1
  r2 = r2
  r3 = r3
  own = own
  shared = shared
  Readers = {r1, r2, r3}
  Writers = {w1, w2}
  Scopes = {own, shared}
  ScopeOf <- TwoScopes
  Drops = {"get", "write"}
  Ids = {1, 2, 3, 4, 5, 6}
  Clients = {c1, c2}
  Engines = {"memory", "seaorm", "mongodb", "cassandra", "elasticsearch", "influxdb", "clickhouse"}
  Decorated = {TRUE, FALSE}
  MaxFaults = 1
INVARIANTS
  NoStaleEntry
  CacheAnswers
  AnswersMatchTheTable
  WalksAreRight
  EnginesAgree
PROPERTIES
  ScopesAndTombstonesHold
  ReadsEnd
CHECK_DEADLOCK FALSE
