SPECIFICATION Spec
CONSTANTS
  A = A  B = B  C = C  T = T
  a = a  b = b  d = d  f = f
  Absent = Absent  Torn = Torn  Dir = Dir
  Paths <- MCPaths
  Parent <- MCParent
  RootOf <- MCOneRoot
  DeviceOf <- MCRootOf
  Contents <- MCContents
  Trees <- MCTrees
  Replaced <- MCReplaced
  Cases <- OverwriteCase
  MaxOps = 1
  Assertions = 1
  CrashAt = {"applying"}
  FaultAt = {}
  MaxCrashes = 1
  MaxFaults = 0
INVARIANTS NeverFailsRecovery
