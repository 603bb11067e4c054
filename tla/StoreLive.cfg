SPECIFICATION FairSpec
CONSTANTS
  P = P  Q = Q
  Procs <- MCProcs
  MaxRuns = 2
  Exclusive = TRUE
  CrashAt <- Begun
  FaultAt <- NotInCleanup
  UndoFaultAt <- NotInJournal
  MaxCrashes = 1
  MaxFaults = 1
INVARIANTS RecoverAccepts
PROPERTIES RootIsFreed
