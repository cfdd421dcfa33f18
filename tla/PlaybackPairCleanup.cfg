SPECIFICATION Spec
CONSTANTS
  N = 1
  Patience = 1
  Routes = {"Speakers", "Other"}
  Interrupts = FALSE
  MaxChanges = 1
  MaxUpsets = 1
  MaxTrips = 0
  MaxLosses = 1
PROPERTY CleanupIsRetried
CHECK_DEADLOCK FALSE
