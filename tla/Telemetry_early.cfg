SPECIFICATION FairSpec
CONSTANTS
  k1 = k1
  k2 = k2
  Keys = {k1, k2}
  HaKeys = {k1}
  Numbers = {k1}
  NoKey = NoKey
  Unknown = Unknown
  Device = Device
  Torn = Torn
  QueueSize = 2
  BusQueueSize = 2
  Heard = {k1, NoKey}
  Budgets <- BudgetsLinks
CHECK_DEADLOCK FALSE
PROPERTY RediscoveredAlways
