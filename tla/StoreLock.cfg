SPECIFICATION Spec
CONSTANTS
  P = P  Q = Q
  Procs <- MCProcs
  MaxRuns = 3
  Exclusive = TRUE
  CrashAt <- Anywhere
  FaultAt <- NotInDropDir
  UndoFaultAt <- NotInSync
  MaxCrashes = 2
  MaxFaults = 2
SYMMETRY Symmetry
INVARIANTS TypeOK LockGuards WriterOwns OneWriter OpenIsVisible
PROPERTIES OneTransaction OwnRollback
