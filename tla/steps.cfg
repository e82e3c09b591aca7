CONSTANTS
  Inputs <- WorkingInputs
  MaxSteps = 5
  MaxTries = 2
SPECIFICATION Spec
INVARIANTS
  TypeOK
  PredictsFromHistory
  IntermediatesAreOfLastStep
  HopeAlternates
  AttemptsBeginAlike
  AcceptedStepIsComplete
  QueueFitsNode
\* A run ends.
CHECK_DEADLOCK FALSE
