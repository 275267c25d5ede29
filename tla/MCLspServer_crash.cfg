SPECIFICATION Spec
CONSTANTS
  c1 = c1
  c2 = c2
  c3 = c3
  f1 = f1
  Callers <- ThreeCallers
  Files <- OneFile
  Faults <- AllFaults
  MaxRestarts = 1
  MaxFaults = 3
  MaxSpawns = 3
INVARIANTS
  TypeOK
  RunningIsServed
  OneServer
  RestartsAreCapped
  ChangesFollowOpen
SYMMETRY CallerSymmetry
CHECK_DEADLOCK FALSE
