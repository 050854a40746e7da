SPECIFICATION MCSpec
CONSTANTS
  NoAnswer = NoAnswer
  s1 = s1
  s2 = s2
  Subs <- BothSubs
  Instances <- AllInstances
  Msgs = {1, 2}
  MaxConnects = 2
  MaxChanges = 3
  Patience = 2
  MaxRegs = 2
  MaxFaults = 2
  ChatBodies <- AllBodies
  ChatScripts <- AllScripts
INVARIANTS
  RunningTasksAreMapped
  StreamReadsBack
PROPERTIES
  NothingOutOfTurn
  MessagesArrive
  ListsCatchUp
\* The publishes, changes, registrations and calls of an instance are spent.
CHECK_DEADLOCK FALSE
