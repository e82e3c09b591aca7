\* Every pattern that works, two steps, up to three iterations, one retry.
SPECIFICATION FairSpec
CONSTANTS
  Inputs <- WorkingPatterns
  MaxSteps = 2
  MaxIter = 3
INVARIANTS
  TypeOK
  ForceIsOfLatestMotion
PROPERTIES
  TightWaitsForPeer
  CoupledRunEnds
  KeepsPromise
