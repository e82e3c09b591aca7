CONSTANTS
  Inputs <- SingleStepTwice
  MaxSteps = 3
  MaxTries = 2
SPECIFICATION Spec
INVARIANT QueueFitsNode
CHECK_DEADLOCK FALSE
