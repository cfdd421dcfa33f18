SPECIFICATION Spec
CONSTANTS
  N = 2
  Patience = 1
  Routes = {"Speakers"}
  Interrupts = FALSE
  MaxChanges = 0
  MaxUpsets = 0
  MaxTrips = 0
  MaxLosses = 1
PROPERTY RecoversFromClockLoss
CHECK_DEADLOCK FALSE
