------------------------------ MODULE MCSolver ------------------------------
(* Small instances of Solver.                                              *)
EXTENDS Solver

MCReduced == [h \in StepLen |-> IF h <= 1 THEN h ELSE h \div 2]
MCRaised == [h \in StepLen |-> 2 * h]

MCEigTimes == <<-1, 0, 3, 4, 12>>
MCNoEig == <<>>

Plain ==
  [ strategy |-> "no change", startup |-> 0, dummies |-> 0,
    abortAfter |-> "UNKNOWN", dMinTimeStep |-> dDefaultMinTimeStep,
    dInitialTimeStep |-> 2, hardLimit |-> FALSE, rt |-> FALSE, mayEnd |-> FALSE ]

(* A fixed step with every number of start-up steps and every place to     *)
(* stop, dummy steps, a real-time stop and an element that ends the run.   *)
FixedStep ==
  {[Plain EXCEPT !.startup = s, !.dummies = d, !.abortAfter = a, !.rt = r,
                 !.mayEnd = r] :
     s \in 0 .. 3, d \in {0, 3}, r \in BOOLEAN,
     a \in {"UNKNOWN", "INPUT", "DERIVATIVES", "DUMMY_STEPS", "REGULAR_STEP"}}

(* "factor", with and without a minimum time step, from the minimum and    *)
(* from above it, with a soft and a hard limit.                            *)
FactorStep ==
  {[Plain EXCEPT !.strategy = "factor", !.startup = s, !.dMinTimeStep = m,
                 !.dInitialTimeStep = h, !.hardLimit = l] :
     s \in {0, 1}, m \in {dDefaultMinTimeStep, 4}, h \in {4, 8}, l \in BOOLEAN}

(* "change", with an initial step the strategy accepts, accepts for the    *)
(* larger maximum only or rejects as smaller than the minimum; with dummy  *)
(* steps when there is no start-up.                                        *)
ChangeStep ==
  {[Plain EXCEPT !.strategy = "change", !.startup = s, !.dMinTimeStep = m,
                 !.dummies = 1 - s, !.dInitialTimeStep = h, !.hardLimit = l] :
     s \in {0, 1}, m \in {dDefaultMinTimeStep, 2}, h \in {1, 7}, l \in BOOLEAN}

AllInputs == FixedStep \cup FactorStep \cup ChangeStep
=============================================================================
