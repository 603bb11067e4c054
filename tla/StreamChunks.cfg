SPECIFICATION Spec
CONSTANTS
  Bytes <- MCBytes
  Inputs <- MCInputs
  Needles <- MCNeedles
  News <- MCNews
  BufferSize = 3
INVARIANTS TypeOK SameAsWhole NothingAtTheSeam LongestBeginning
CHECK_DEADLOCK FALSE
