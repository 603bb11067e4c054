CONSTANTS
  Paths <- P
  Named <- N
  Disks <- D
  MaxOps = 4
  Avoid = {"remove what was read", "mkdir below file", "use a moved tree"}
SPECIFICATION Spec
CHECK_DEADLOCK FALSE
INVARIANTS TypeOK Foresees NoSurprise Exact
