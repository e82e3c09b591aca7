-------------------------- MODULE MCStepIntegration --------------------------
(* Instances of StepIntegration.                                            *)
EXTENDS StepIntegration

Combinations(dummies, dummy, regular, throws) ==
  {[iDummyStepsNumber |-> n, DummyType |-> d, RegularType |-> r, bSolConvThrows |-> t] :
     n \in dummies, d \in dummy, r \in regular, t \in throws}

(* One of each number of previous states and of stages.                     *)
Implicit == DOMAIN StepN
Multistage == {"INT_BATHE", "INT_MSSTC3", "INT_MSSTC4", "INT_DIRK54"}

(* A single-step integrator works only if it finds two previous states in   *)
(* the queues, and leaves one.                                              *)
WorkingInputs ==
  Combinations({0}, {"INT_MS2"}, Implicit \cup Multistage \cup SingleStep, {FALSE})
    \cup Combinations({2}, {"INT_CRANKNICOLSON", "INT_HOPE", "INT_MS4", "INT_MSSTC3"},
                      {"INT_MS2", "INT_HOPE", "INT_MS4", "INT_BATHE"}, {FALSE})
    \cup Combinations({2}, {"INT_HOPE", "INT_BATHE"}, {"INT_SS3"}, {FALSE})
    \cup Combinations({2}, {"INT_SS2"}, {"INT_CRANKNICOLSON", "INT_DIRK54"}, {FALSE})
    \cup Combinations({1}, {"INT_CRANKNICOLSON"}, {"INT_MS2", "INT_SS4", "INT_BATHE"}, {TRUE})

SingleStepTwice == Combinations({1}, {"INT_SS2"}, {"INT_SS2"}, {FALSE})
OnSolution == Combinations({0}, {"INT_MS2"}, {"INT_CRANKNICOLSON", "INT_BATHE"}, {TRUE})
=============================================================================
