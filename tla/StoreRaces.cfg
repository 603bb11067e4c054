SPECIFICATION Spec
CONSTANTS
  P = P  Q = Q
  Procs <- MCProcs
  MaxRuns = 2
  Exclusive = FALSE
  CrashAt <- Anywhere
  FaultAt <- Anywhere
  UndoFaultAt <- Anywhere
  MaxCrashes = 0
  MaxFaults = 1
SYMMETRY Symmetry
INVARIANTS BeginIsAlone
