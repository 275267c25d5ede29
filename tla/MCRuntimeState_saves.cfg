SPECIFICATION Spec
CONSTANTS
  acme = acme
  s1 = s1
  s2 = s2
  NumRequests = 2
  NumJobs = 2
  FirstStatus <- MCFirstStatus
  FollowUps <- MCFollowUps
  Immediate <- MCImmediate
  Project <- MCProject
  Decisions <- MCDecisions
  Savers <- MCSavers
  MaxCrashes = 1
  MaxFaults = 1
INVARIANTS
  TypeOK
  CrashLosesNothing
PROPERTIES
  DurableAnswersStay
SYMMETRY SaverSymmetry
CHECK_DEADLOCK FALSE
