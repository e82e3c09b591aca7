\* Every strategy and every phase; two signals.  A run that is over stops.
SPECIFICATION FairSpec
CONSTANTS
  TopStep = 8
  Reduced <- MCReduced
  Raised <- MCRaised
  iStepsBeforeReduction = 1
  iStepsBeforeRaise = 1
  iMinIters = 1
  iMaxIters = 3
  Inputs <- AllInputs
  MaxTimeSteps = {6, 8}
  DriveSteps = {1, 3}
  IterCounts = {1, 2, 4}
  FinalTime = 9
  DummyStep = 1
  AbortStep = 1
  EigTimes <- MCEigTimes
  Signals = {SIGINT, SIGTERM}
  UseMultithread = FALSE
INVARIANTS
  TypeOK
  SameTimeStep
  OutputFollowsTime
  AtMostOneStepAfterStop
  UndershootBounded
  EigOnTime
PROPERTIES
  AbortOnlyAtMinimum
  Terminates
CHECK_DEADLOCK FALSE
