CONSTANTS
  Inputs <- OnSolution
  MaxSteps = 3
  MaxTries = 2
SPECIFICATION Spec
INVARIANT AfterConvergenceIsCalled
CHECK_DEADLOCK FALSE
