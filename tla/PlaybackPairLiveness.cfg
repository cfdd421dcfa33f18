SPECIFICATION Spec
CONSTANTS
  N = 2
  Patience = 1
  Routes = {"Unknown", "Speakers", "Other"}
  Interrupts = TRUE
  MaxChanges = 3
  MaxUpsets = 0
  MaxTrips = 1
  MaxLosses = 1
PROPERTIES HealthyPeerStops StaleIsMuted PlaysAgain
CHECK_DEADLOCK FALSE
