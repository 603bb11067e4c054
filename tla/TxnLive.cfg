SPECIFICATION FairSpec
CONSTANTS
  A = A  B = B  C = C  T = T
  a = a  b = b  d = d  f = f
  Absent = Absent  Torn = Torn  Dir = Dir
  Paths <- MCPaths
  Parent <- MCParent
  RootOf <- MCRootOf
  DeviceOf <- MCRootOf
  Contents <- MCContents
  Trees <- MCTrees
  Replaced <- MCReplaced
  Cases <- LiveCases
  MaxOps = 2
  Assertions = 1
  CrashAt <- Quiescent
  FaultAt <- Harmless
  MaxCrashes = 1
  MaxFaults = 1
PROPERTIES Resolves
