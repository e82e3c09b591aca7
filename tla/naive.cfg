\* Three threads, three rows.  A solver that is destroyed stops, and so does a
\* program that is terminated.
SPECIFICATION FairSpec
CONSTANTS
  iSize = 3
  nThreads = 3
  Patterns <- MCPatterns
  Managers <- WorkingManagers
INVARIANTS
  TypeOK
  EliminatedInOrder
  ListsAgree
  ColLocksAreLeftClear
  SolutionIsAvailable
PROPERTIES
  PivotRowsAreFinal
  KeepsPromise
  ThreadsEnd
CHECK_DEADLOCK FALSE
