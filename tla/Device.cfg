SPECIFICATION FairSpec
CONSTANTS
  password = password
  sntp = sntp
  offset = offset
  x = x
  y = y
  r1 = r1
  r2 = r2
  r3 = r3
  SaveOrder <- Order3
  Secrets = {password}
  Flags = {sntp}
  Required = {password}
  Sntp = sntp
  Off = Off
  Values = {x, y, Off}
  Empty = Empty
  Absent = Absent
  Default <- Default3
  Bodies <- Bodies3
  Pieces = 2
  Rules = {r1, r2, r3}
  Schedule <- Schedules
  LocalTime <- Clock3
  MaxRules = 1
  MaxMinute = 2
  Budgets <- BudgetsSmall
CHECK_DEADLOCK FALSE
INVARIANTS
  IInv
  RulesFire
PROPERTIES
  PromisesStand
  UnsaidKept
  QuietFlash
  SelectedBoots
  FiresOnce
  Reconnects
