SPECIFICATION Spec
CONSTANTS
  N = 1
  Patience = 1
  Routes = {"Speakers", "Other"}
  Interrupts = TRUE
  MaxChanges = 6
  MaxUpsets = 0
  MaxTrips = 1
  MaxLosses = 3
PROPERTY FaultMutes
CHECK_DEADLOCK FALSE
