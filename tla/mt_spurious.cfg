\* Two threads; a wait may end without a notification.
SPECIFICATION Spec
CONSTANTS
  nThreads = 2
  iSize = 1
  iNumRows = 1
  Kinds = {"GRAD"}
  MaxUnsigned = 7
  SpuriousWakeups = TRUE
INVARIANTS
  RestartsAfterLast
CHECK_DEADLOCK FALSE
