SPECIFICATION Spec
CONSTANTS
  a = a
  b = b
  c = c
  Keys = {a, b, c}
  Writes = {1, 2}
  Limits = {1}
  PollIds = {x, y, z}
  NoPoll = NoPoll
  Capacity = 2
  WriteCap = 1
  LimitCap = 1
  Requests <- Requests4
  MaxUpload = 1
SYMMETRY Symmetry
INVARIANT
  IInv
  CommandsOwnItems
  BootRestores
PROPERTIES
  OnlyWipeOrphans
  LoadedLimits
  ImplementsList
