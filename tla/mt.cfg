\* Every kind of assembly, three threads.  A pool that is destroyed stops.
SPECIFICATION FairSpec
CONSTANTS
  nThreads = 3
  iSize = 3
  iNumRows = 2
  Kinds <- AllKinds
  MaxUnsigned = 7
  SpuriousWakeups = FALSE
INVARIANTS
  TypeOK
  CountIsOfPending
  RestartsAfterLast
  SumsAreQuiet
  CopiesCorrespond
PROPERTIES
  RebuildsOnce
  KeepsPromise
  PoolEnds
CHECK_DEADLOCK FALSE
