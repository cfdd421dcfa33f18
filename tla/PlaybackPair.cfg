SPECIFICATION Spec
CONSTANTS
  N = 2
  Patience = 1
  Routes = {"Unknown", "Speakers", "Other"}
  Interrupts = TRUE
  MaxChanges = 1
  MaxUpsets = 1
  MaxTrips = 1
  MaxLosses = 1
INVARIANTS TypeOK WorkIsPolled
PROPERTIES UnmutedTogether OnlyClockLossForgiven
CHECK_DEADLOCK FALSE
