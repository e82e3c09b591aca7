------------------------- MODULE MCExternalCoupling -------------------------
(* Small instances of ExternalCoupling.                                     *)
EXTENDS ExternalCoupling

(* A peer that never declares the end of its step.                          *)
Never == {99}

Patterns(coupling, sap, tests, retry, iterations) ==
  [ coupling : coupling, sendAfterPredict : sap, solTest : tests,
    retries : retry, iters : iterations, dataAndNext : BOOLEAN ]

(* The patterns that work: tight coupling without a test on the solution;   *)
(* almost tight coupling, the same, with the motion sent after predict;     *)
(* loose coupling after predict with a peer that answers once per step;     *)
(* staggered coupling with a peer that never declares.                      *)
WorkingPatterns ==
  Patterns({COUPLING_TIGHT}, BOOLEAN, {FALSE}, {0, 1}, {{1, 2}})
    \cup Patterns({2}, {TRUE}, {FALSE}, {0, 1}, {{1, 2}})
    \cup Patterns({COUPLING_LOOSE}, {TRUE}, BOOLEAN, {0, 1}, {{1}})
    \cup Patterns({COUPLING_STAGGERED}, {FALSE}, BOOLEAN, {0}, {Never})

StaggeredPattern == Patterns({COUPLING_STAGGERED}, {FALSE}, {FALSE}, {0}, {{1}})
=============================================================================
