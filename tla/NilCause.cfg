SPECIFICATION Spec
CONSTANTS
  Last = 2
  MaxRuns = 1
INVARIANT ResultIsPrinted
CHECK_DEADLOCK FALSE
