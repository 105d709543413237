SPECIFICATION Spec
CONSTANTS
  Places <- Places2
  Fds <- Fds2
  Line <- Line3
  Addresses <- Address1
  MaxQueue = 0
  MaxRestarts = 3
  Modes = {"hangup"}
INVARIANT AnswersAreAsked
