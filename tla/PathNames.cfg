SPECIFICATION Spec
CONSTANTS
  Names <- MCNames
  Trees <- MCTrees
  Roots <- MCRoots
  Spellings <- MCSpellings
  MaxLinks = 4
INVARIANTS TypeOK NameIsEntry StateIsReserved
PROPERTY RecoveryReaches
CHECK_DEADLOCK FALSE
