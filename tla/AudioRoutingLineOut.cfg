SPECIFICATION Spec
CONSTANTS
  c1 = c1
  c2 = c2
  e1 = e1
  Controller <- MCController
  Engine <- MCEngine
  Parent <- MCParent
  Source = {s1, s2}
  None = None
  Output = {"Speakers", "Headphones", "LineOut"}
  MaxCalls = 2
  MaxUpsets = 1
PROPERTIES
  LiveReportWins
CHECK_DEADLOCK FALSE
