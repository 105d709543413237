SPECIFICATION FairSpec
CONSTANTS
  Places <- Places2
  Fds <- Fds2
  Line <- Line3
  Addresses <- Addresses2
  MaxQueue = 0
  MaxRestarts = 3
  Modes = {"patient", "cancel", "hangup"}
INVARIANTS
  IInv
  ArbitrationServesSlot
  PatientAnswers
PROPERTIES
  RequestAnswered
  SlotFreed
  OnlyWithdrawalUnseats
  OnlyEstrangement
