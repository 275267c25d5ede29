SPECIFICATION Spec
INVARIANTS
  UploadsOnlyEdits
CONSTANTS
  c1 = c1
  c2 = c2
  k1 = k1
  k2 = k2
  NoTag = NoTag
  Clients <- MCClients
  KeyOrder <- MCKeyOrder
  Seeds <- Seeded
  BatchLimit = 1
  MaxConflictRetries = 2
  Faulty <- NoFault
  MaxEdits = 2
  MaxFaults = 0
  MaxSessions = 0
SYMMETRY ClientSymmetry
CHECK_DEADLOCK FALSE
