SPECIFICATION FairSpec
CONSTANTS
  p = p
  q = q
  r = r
  Nodes = {p, q}
  Addr <- Addr2
  Payload <- Payload1
  MaxRestarts = 3
  Lossy = TRUE
  Reboots = TRUE
  NoOwner = NoOwner
INVARIANTS
  IInv
  MutualExclusion
  NoCollision
  LostNamesWinner
  StartedNamesSelf
PROPERTIES
  ImplementsLock
  RequestAnswered
