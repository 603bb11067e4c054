SPECIFICATION Spec
CONSTANTS
  A = A  B = B  C = C  T = T
  a = a  b = b  d = d  f = f
  Absent = Absent  Torn = Torn  Dir = Dir
  Paths <- MCPaths
  Parent <- MCParent
  RootOf <- MCOneRoot
  DeviceOf <- MCRootOf
  Contents <- MCContents
  Trees <- MCTrees
  Replaced <- MCReplaced
  Cases <- AllCases
  MaxOps = 2
  Assertions = 1
  CrashAt <- Anywhere
  FaultAt = {}
  MaxCrashes = 2
  MaxFaults = 0
INVARIANTS TypeOK JournalStaysReadable ChangesAreSaved
PROPERTIES ChangesAreAnnounced AllOrNothing
