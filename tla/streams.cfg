CONSTANTS
  Configurations <- WorkingConfigurations
  Inputs <- WorkingInputs
  MaxSteps = 4
  MaxTries = 2
  MaxAhead = 1
SPECIFICATION StreamFairSpec
INVARIANTS
  StreamTypeOK
  OutputsFollowSteps
PROPERTIES
  KeepsPromise
  StreamedRunEnds
\* A run ends; that it does, and does not wait before, is StreamedRunEnds.
CHECK_DEADLOCK FALSE
