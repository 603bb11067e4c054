SPECIFICATION Spec
CONSTANTS
  A = A  B = B  C = C  T = T
  a = a  b = b  d = d  f = f
  Absent = Absent  Torn = Torn  Dir = Dir
  Paths <- MCPaths
  Parent <- MCParent
  RootOf <- MCRootOf
  DeviceOf <- MCRootOf
  Contents <- MCContents
  Trees <- MCTrees
  Replaced <- MCReplaced
  Cases <- Singles
  MaxOps = 1
  Assertions = 1
  CrashAt <- Anywhere
  FaultAt <- Anywhere
  MaxCrashes = 1
  MaxFaults = 2
INVARIANTS RollbackRestores CommitIsWhole ReleaseIsLast TerminalStatusIsJournaled ResultIsTrue ChangesAreSaved
