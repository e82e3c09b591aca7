\* Staggered coupling with a peer that iterates once per step.  After the
\* violation the two programs wait for each other.
SPECIFICATION FairSpec
CONSTANTS
  Inputs <- StaggeredPattern
  MaxSteps = 2
  MaxIter = 3
PROPERTY StaggeredSendsAtEndOfStep
CHECK_DEADLOCK FALSE
