SPECIFICATION Spec
INVARIANTS
  TypeOK
  DeliveredIsThere
  KnownWasThere
  ChecksumImpliesHashes
CONSTANTS
  c1 = c1
  c2 = c2
  k1 = k1
  k2 = k2
  NoTag = NoTag
  Clients <- MCClients
  KeyOrder <- MCKeyOrder
  Seeds <- BlankOrSeeded
  BatchLimit = 1
  MaxConflictRetries = 2
  Faulty <- AnyFault
  MaxEdits = 3
  MaxFaults = 2
  MaxSessions = 1
SYMMETRY ClientSymmetry
CHECK_DEADLOCK FALSE
