CONSTANTS
  Workers = {w1, w2}
  Tasks = {t1}
  Settings = 2
  Default = 3
  Limit = 1
  Concurrency = 1
  MaxPush = 1
  MaxUpsets = 1
  NoWorker = none
SPECIFICATION Spec
PROPERTY OrphansReturn
CHECK_DEADLOCK FALSE
