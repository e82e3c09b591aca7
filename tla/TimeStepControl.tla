--------------------------- MODULE TimeStepControl ---------------------------
(***************************************************************************)
(* The time step control strategies of mbdyn/base/TimeStepControl.cc:      *)
(* "no change", "change" and "factor".  A strategy object is a record, its *)
(* methods are operators from a record to a record.                        *)
(*                                                                         *)
(* Time is counted in integer ticks.  The only arithmetic the strategies   *)
(* do on a step is to multiply it by one of the two factors read from the  *)
(* input; the products are the functions Reduced and Raised.  The values   *)
(* the drive callers return are arguments, chosen by the caller.           *)
(* iWeightedPerformedIters is written but never read, and is left out.     *)
(***************************************************************************)
EXTENDS Integers

CONSTANTS
  TopStep,                \* longest step the model represents, in ticks
  Reduced,                \* Reduced[h] = h * dReductionFactor
  Raised,                 \* Raised[h]  = h * dRaiseFactor
  iStepsBeforeReduction,  \* the integers of the "factor" card
  iStepsBeforeRaise,
  iMinIters,
  iMaxIters

StepLen == 0 .. TopStep

(* The ranges enforced by FactorTSR::Read: a reduction factor in (0, 1], a *)
(* raise factor of at least 1, counters of at least 1.                     *)
ASSUME FactorAssumption ==
  /\ TopStep \in Nat
  /\ Reduced \in [StepLen -> StepLen]
  /\ Raised \in [StepLen -> Nat]
  /\ \A h \in StepLen : Reduced[h] <= h /\ h <= Raised[h]
  /\ \A g, h \in StepLen : g <= h => Reduced[g] <= Reduced[h]
  /\ iStepsBeforeReduction \in Nat \ {0}
  /\ iStepsBeforeRaise \in Nat \ {0}
  /\ iMinIters \in Nat
  /\ iMaxIters \in Nat

Strategies == {"no change", "change", "factor"}

\* ::dDefaultMinTimeStep, the value that means "no min time step card".
dDefaultMinTimeStep == -1

(* The state of a strategy object.  The two counters are only compared     *)
(* with their thresholds, so they stop counting just above them.           *)
Controllers ==
  [ dCurrTimeStep : StepLen,
    dMinTimeStep : StepLen \cup {dDefaultMinTimeStep},
    bLastChance : BOOLEAN,
    iStepsAfterReduction : 0 .. iStepsBeforeReduction + 1,
    iStepsAfterRaise : 0 .. iStepsBeforeRaise + 1 ]

MinOf(x, y) == IF x <= y THEN x ELSE y
MaxOf(x, y) == IF x <= y THEN y ELSE x

CountUpTo(n, threshold) == IF n <= threshold THEN n + 1 ELSE n

-----------------------------------------------------------------------------

(* The checks of the three Init methods: "no change" only warns, "change"  *)
(* wants dMin <= dInitial <= dMax, "factor" looks at its iteration limits  *)
(* alone (its test of dMin against dMax repeats the test for equality).    *)
AcceptedByInit(strategy, dMin, dMax, dInitial) ==
  /\ strategy = "change" => /\ dMin <= dMax
                            /\ dMin <= dInitial
                            /\ dInitial <= dMax
  /\ strategy = "factor" => iMinIters < iMaxIters

\* Mutant of InitController: a missing minimum is left as it is.
InitControllerNoDefault(strategy, dMin, dInitial) ==
  [ dCurrTimeStep |-> dInitial, dMinTimeStep |-> dMin, bLastChance |-> FALSE,
    iStepsAfterReduction |-> 0, iStepsAfterRaise |-> 0 ]

(* Init: the current step is the initial one; only "factor" replaces a     *)
(* missing minimum by the initial step.                                    *)
InitController(strategy, dMin, dInitial) ==
  [ dCurrTimeStep |-> dInitial,
    dMinTimeStep |-> IF strategy = "factor" /\ dMin = dDefaultMinTimeStep
                     THEN dInitial ELSE dMin,
    bLastChance |-> FALSE,
    iStepsAfterReduction |-> 0,
    iStepsAfterRaise |-> 0 ]

\* The strategy object there is before Start initialises it.
DefaultController == InitController("no change", dDefaultMinTimeStep, 0)

\* ChangeStep::dGetNewStepTime, for a drive that returns dNewStep.
ChangeNewStep(c, dNewStep, dMax) ==
  [c EXCEPT !.dCurrTimeStep = MaxOf(MinOf(dNewStep, dMax), c.dMinTimeStep)]

\* Mutant of FactorRepeatStep: no last chance at the minimum itself.
FactorRepeatStepNoLastChance(c, dMax) ==
  IF Reduced[c.dCurrTimeStep] > c.dMinTimeStep
  THEN [c EXCEPT !.dCurrTimeStep = MinOf(Reduced[c.dCurrTimeStep], dMax)]
  ELSE c

\* Factor::dGetNewStepTime(REPEATSTEP).
FactorRepeatStep(c, dMax) ==
  LET dReduced == Reduced[c.dCurrTimeStep] IN
  IF dReduced > c.dMinTimeStep
  THEN [c EXCEPT !.bLastChance = FALSE,
                 !.iStepsAfterReduction = 0,
                 !.dCurrTimeStep = MinOf(dReduced, dMax)]
  ELSE IF ~c.bLastChance
  THEN [c EXCEPT !.bLastChance = TRUE, !.dCurrTimeStep = c.dMinTimeStep]
  ELSE [c EXCEPT !.dCurrTimeStep = MinOf(dReduced, dMax)]

\* Factor::dGetNewStepTime(NEWSTEP), after a step of iIters iterations.
FactorNewStep(c, iIters, dMax) ==
  LET h == c.dCurrTimeStep
      nRed == CountUpTo(c.iStepsAfterReduction, iStepsBeforeReduction)
      nRaise == CountUpTo(c.iStepsAfterRaise, iStepsBeforeRaise)
      mayRaise == /\ iIters <= iMinIters
                  /\ nRed > iStepsBeforeReduction
                  /\ nRaise > iStepsBeforeRaise
                  /\ h < dMax
  IN IF iIters > iMaxIters
     THEN [c EXCEPT !.iStepsAfterReduction = 0,
                    !.iStepsAfterRaise = nRaise,
                    !.bLastChance = FALSE,
                    !.dCurrTimeStep = MinOf(MaxOf(Reduced[h], c.dMinTimeStep), dMax)]
     ELSE [c EXCEPT !.iStepsAfterReduction = nRed,
                    !.iStepsAfterRaise = IF mayRaise THEN 0 ELSE nRaise,
                    !.dCurrTimeStep = IF mayRaise THEN MinOf(Raised[h], dMax) ELSE h]

(* dGetNewStepTime: the virtual call.  dNewStep and dMax are what the two  *)
(* drive callers return, iIters the iterations of the step just solved.    *)
dGetNewStepTime(strategy, c, why, iIters, dNewStep, dMax) ==
  CASE strategy = "no change" -> c
    [] strategy = "change" -> ChangeNewStep(c, dNewStep, dMax)
    [] strategy = "factor" /\ why = "REPEATSTEP" -> FactorRepeatStep(c, dMax)
    [] strategy = "factor" /\ why = "NEWSTEP" -> FactorNewStep(c, iIters, dMax)
=============================================================================
