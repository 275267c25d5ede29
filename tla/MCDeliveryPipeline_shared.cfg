SPECIFICATION Spec
CONSTANTS
  p1 = p1
  c1 = c1
  c2 = c2
  Projects <- MCProjects
  Callers <- MCCallers
  Heads <- MCHeads
  MaxAttempts = 3
  MaxCaptures = 1
  MaxRuns = 1
  MaxFaults = 1
INVARIANTS
  GatesAreOpened
PROPERTIES
  CallsEnd
CHECK_DEADLOCK FALSE
