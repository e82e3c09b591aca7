\* A step that fails and is repeated.
CONSTANTS
  Configurations <- Repeated
  Inputs <- RepeatedInputs
  MaxSteps = 2
  MaxTries = 2
  MaxAhead = 2
SPECIFICATION StreamSpec
INVARIANT
  ReadsOncePerStep
CHECK_DEADLOCK FALSE
