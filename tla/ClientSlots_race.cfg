SPECIFICATION Spec
CONSTANTS
  MaxPlaces = 2
  Fds <- Fds3
  MaxConns = 4
  Malformed = TRUE
INVARIANT NoConnectionLost
CHECK_DEADLOCK FALSE
