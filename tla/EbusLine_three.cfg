SPECIFICATION Spec
CONSTANTS
  p = p
  q = q
  r = r
  Nodes = {p, q, r}
  Addr <- Addr3
  Payload <- Payload1
  MaxRestarts = 3
  Lossy = FALSE
  Reboots = FALSE
  NoOwner = NoOwner
INVARIANT ClassIInv
PROPERTY BestClassWins
