\* Modified Newton-Raphson with a permutation.
SPECIFICATION Spec
CONSTANTS
  iSize = 3
  nThreads = 2
  Patterns <- MCPatterns
  Managers <- ModifiedWithPermutation
INVARIANTS
  SolutionIsAvailable
CHECK_DEADLOCK FALSE
