---------------------------- MODULE SolverProofs ----------------------------
(***************************************************************************)
(* Proofs about TimeStepControl and Solver, for every input file, every    *)
(* drive, every number of signals and every reduction and raise factor     *)
(* that the assumptions of the two modules allow.                          *)
(***************************************************************************)
EXTENDS Solver, TLAPS

Whys == {"NEWSTEP", "REPEATSTEP"}

-----------------------------------------------------------------------------
\* The strategies.

(* The bounds the strategies put on a step are steps.                      *)
LEMMA StepBounds ==
  ASSUME NEW h \in StepLen, NEW dMax \in StepLen,
         NEW dMin \in StepLen \cup {dDefaultMinTimeStep}
  PROVE  /\ MinOf(h, dMax) \in StepLen
         /\ MaxOf(h, dMin) \in StepLen
         /\ MinOf(Raised[h], dMax) \in StepLen
         /\ Reduced[h] \in StepLen
BY FactorAssumption DEF StepLen, dDefaultMinTimeStep, MinOf, MaxOf

\* The counters of a strategy stay within their bounds.
LEMMA CountBounds ==
  ASSUME NEW threshold \in Nat \ {0}, NEW n \in 0 .. threshold + 1
  PROVE  CountUpTo(n, threshold) \in 0 .. threshold + 1
BY DEF CountUpTo

(* A strategy object stays well formed, whichever strategy it is and       *)
(* whichever way it is asked, and its minimum never changes.               *)
LEMMA NewStepTimeType ==
  ASSUME NEW strategy \in Strategies, NEW c \in Controllers,
         NEW why \in Whys, NEW iIters \in Nat,
         NEW dNewStep \in StepLen, NEW dMax \in StepLen
  PROVE  /\ dGetNewStepTime(strategy, c, why, iIters, dNewStep, dMax)
              \in Controllers
         /\ dGetNewStepTime(strategy, c, why, iIters, dNewStep, dMax).dMinTimeStep
              = c.dMinTimeStep
<1> DEFINE h == c.dCurrTimeStep
           dMin == c.dMinTimeStep
<1>1. /\ h \in StepLen
      /\ dMin \in StepLen \cup {dDefaultMinTimeStep}
      /\ c.iStepsAfterReduction \in 0 .. iStepsBeforeReduction + 1
      /\ c.iStepsAfterRaise \in 0 .. iStepsBeforeRaise + 1
  BY DEF Controllers
<1>2. CASE strategy = "no change"
  BY <1>2 DEF dGetNewStepTime
<1>3. CASE strategy = "change"
  <2>1. MinOf(dNewStep, dMax) \in StepLen
    BY <1>1, StepBounds
  <2>2. MaxOf(MinOf(dNewStep, dMax), dMin) \in StepLen
    BY <1>1, <2>1, StepBounds
  <2> QED
    BY <1>3, <2>2 DEF dGetNewStepTime, ChangeNewStep, Controllers
<1>4. CASE strategy = "factor" /\ why = "REPEATSTEP"
  <2> DEFINE new == FactorRepeatStep(c, dMax)
  <2>1. /\ Reduced[h] \in StepLen
        /\ MinOf(Reduced[h], dMax) \in StepLen
    BY <1>1, StepBounds
  <2>2. new \in Controllers /\ new.dMinTimeStep = dMin
    <3>1. CASE Reduced[h] > dMin
      <4>1. new = [c EXCEPT !.bLastChance = FALSE,
                            !.iStepsAfterReduction = 0,
                            !.dCurrTimeStep = MinOf(Reduced[h], dMax)]
        BY <3>1 DEF FactorRepeatStep
      <4>2. 0 \in 0 .. iStepsBeforeReduction + 1
        BY FactorAssumption
      <4> QED
        BY <2>1, <4>1, <4>2 DEF Controllers
    <3>2. CASE ~(Reduced[h] > dMin) /\ ~c.bLastChance
      <4>1. dMin \in StepLen
        BY <1>1, <2>1, <3>2 DEF StepLen, dDefaultMinTimeStep
      <4>2. new = [c EXCEPT !.bLastChance = TRUE, !.dCurrTimeStep = dMin]
        BY <3>2 DEF FactorRepeatStep
      <4> QED
        BY <4>1, <4>2 DEF Controllers
    <3>3. CASE ~(Reduced[h] > dMin) /\ c.bLastChance
      <4>1. new = [c EXCEPT !.dCurrTimeStep = MinOf(Reduced[h], dMax)]
        BY <3>3 DEF FactorRepeatStep
      <4> QED
        BY <2>1, <4>1 DEF Controllers
    <3> QED
      BY <3>1, <3>2, <3>3
  <2> QED
    BY <1>4, <2>2 DEF dGetNewStepTime
<1>5. CASE strategy = "factor" /\ why = "NEWSTEP"
  <2> DEFINE new == FactorNewStep(c, iIters, dMax)
             nRed == CountUpTo(c.iStepsAfterReduction, iStepsBeforeReduction)
             nRaise == CountUpTo(c.iStepsAfterRaise, iStepsBeforeRaise)
  <2>1. /\ nRed \in 0 .. iStepsBeforeReduction + 1
        /\ nRaise \in 0 .. iStepsBeforeRaise + 1
        /\ 0 \in 0 .. iStepsBeforeReduction + 1
        /\ 0 \in 0 .. iStepsBeforeRaise + 1
    BY <1>1, FactorAssumption, CountBounds
  <2>2. /\ MinOf(Raised[h], dMax) \in StepLen
        /\ MaxOf(Reduced[h], dMin) \in StepLen
    BY <1>1, StepBounds
  <2>3. MinOf(MaxOf(Reduced[h], dMin), dMax) \in StepLen
    BY <2>2, StepBounds
  <2> HIDE DEF nRed, nRaise
  <2>4. \/ new = [c EXCEPT !.iStepsAfterReduction = 0,
                           !.iStepsAfterRaise = nRaise,
                           !.bLastChance = FALSE,
                           !.dCurrTimeStep = MinOf(MaxOf(Reduced[h], dMin), dMax)]
        \/ new = [c EXCEPT !.iStepsAfterReduction = nRed,
                           !.iStepsAfterRaise = 0,
                           !.dCurrTimeStep = MinOf(Raised[h], dMax)]
        \/ new = [c EXCEPT !.iStepsAfterReduction = nRed,
                           !.iStepsAfterRaise = nRaise,
                           !.dCurrTimeStep = h]
    BY DEF FactorNewStep, nRed, nRaise
  <2>5. new \in Controllers /\ new.dMinTimeStep = dMin
    BY <1>1, <2>1, <2>2, <2>3, <2>4 DEF Controllers
  <2> QED
    BY <1>5, <2>5 DEF dGetNewStepTime
<1> QED
  BY <1>2, <1>3, <1>4, <1>5 DEF Strategies, Whys

-----------------------------------------------------------------------------
\* Type correctness.

\* What ReadData leaves in the input.
LEMMA InputOK ==
  ASSUME RunTypeOK
  PROVE  /\ input.strategy \in Strategies
         /\ input.startup \in 0 .. 3
         /\ input.dMinTimeStep \in (StepLen \ {0}) \cup {dDefaultMinTimeStep}
         /\ input.dInitialTimeStep \in StepLen
BY SolverAssumption DEF RunTypeOK, ReadData, InputType

\* A step is a length of time.
LEMMA StepIsNat == StepLen \subseteq Nat /\ 0 \in StepLen
BY FactorAssumption DEF StepLen

\* What the strategy of the run may return.
LEMMA NewStepTimesType ==
  ASSUME RunTypeOK, StepTypeOK, NEW why \in Whys, NEW iIters \in Nat,
         NEW c \in NewStepTimes(why, iIters)
  PROVE  /\ c \in Controllers
         /\ c.dCurrTimeStep \in StepLen
         /\ c.dMinTimeStep = tsc.dMinTimeStep
<1>1. PICK dNewStep \in DriveSteps, dMax \in MaxTimeSteps :
        c = dGetNewStepTime(input.strategy, tsc, why, iIters, dNewStep, dMax)
  BY DEF NewStepTimes
<1>2. dNewStep \in StepLen /\ dMax \in StepLen
  BY SolverAssumption
<1>3. input.strategy \in Strategies /\ tsc \in Controllers
  BY InputOK DEF StepTypeOK
<1>4. c \in Controllers /\ c.dMinTimeStep = tsc.dMinTimeStep
  BY <1>1, <1>2, <1>3, NewStepTimeType
<1> QED
  BY <1>4 DEF Controllers

(* The eigenanalyses only move on through the array of times; an analysis  *)
(* is recorded at a valid position.                                        *)
LEMMA EigAllType ==
  ASSUME EigTypeOK, StepTypeOK, NEW now \in Nat,
         NEW when \in {"BeforeNow", "UntilNow", "ExactlyNow", "AllRemaining"},
         EigAll(when, now)
  PROVE  EigTypeOK' /\ currAnalysis' >= currAnalysis
<1>1. Len(EigTimes) \in Nat
  BY SolverAssumption
<1>2. /\ currAnalysis \in 1 .. Len(EigTimes) + 1
      /\ currAnalysisIndex \in Nat
      /\ lStep \in Nat /\ dTime \in Nat
  BY DEF EigTypeOK, StepTypeOK
<1>3. CASE UNCHANGED eigVars
  BY <1>1, <1>2, <1>3 DEF eigVars, EigTypeOK
<1>4. CASE /\ currAnalysis <= Len(EigTimes)
           /\ currAnalysis' \in currAnalysis + 1 .. Len(EigTimes) + 1
           /\ currAnalysisIndex' = currAnalysisIndex + 1
           /\ eigDone' = eigDone \cup
                {[pos |-> currAnalysis, index |-> currAnalysisIndex,
                  step |-> lStep, since |-> dTime, time |-> now, when |-> when]}
  <2>1. currAnalysis \in 1 .. Len(EigTimes)
    BY <1>1, <1>2, <1>4
  <2>2. eigDone' \subseteq
          [pos : 1 .. Len(EigTimes), index : Nat, step : Nat, since : Nat,
           time : Nat, when : {"BeforeNow", "UntilNow", "ExactlyNow", "AllRemaining"}]
    BY <1>2, <1>4, <2>1 DEF EigTypeOK
  <2>3. /\ currAnalysis' \in 1 .. Len(EigTimes) + 1
        /\ currAnalysisIndex' \in Nat
        /\ currAnalysis' >= currAnalysis
    BY <1>1, <1>2, <1>4
  <2> QED
    BY <2>2, <2>3 DEF EigTypeOK
<1> QED
  BY <1>3, <1>4 DEF EigAll

(* The controller a run starts with.                                       *)
LEMMA InitControllerType ==
  ASSUME NEW strategy \in Strategies, NEW dInitial \in StepLen,
         NEW dMin \in StepLen \cup {dDefaultMinTimeStep}
  PROVE  InitController(strategy, dMin, dInitial) \in Controllers
<1>1. 0 \in 0 .. iStepsBeforeReduction + 1 /\ 0 \in 0 .. iStepsBeforeRaise + 1
  BY FactorAssumption
<1> QED
  BY <1>1 DEF InitController, Controllers

\* A run starts well typed: the default strategy object is a legal one.
LEMMA InitTypeOK == Init => TypeOK
<1> SUFFICES ASSUME Init PROVE TypeOK
  OBVIOUS
<1>1. RunTypeOK /\ MinimumIsSet
  BY DEF Init, RunTypeOK, MinimumIsSet, Labels, Outcomes
<1>2. StepTypeOK
  <2>1. DefaultController \in Controllers
    BY StepIsNat, InitControllerType DEF Strategies, DefaultController
  <2> QED
    BY <2>1, StepIsNat, SolverAssumption DEF Init, StepTypeOK
<1>3. EigTypeOK
  <2>1. Len(EigTimes) \in Nat
    BY SolverAssumption
  <2> QED
    BY <2>1 DEF Init, EigTypeOK
<1>4. OutputTypeOK
  BY StepIsNat DEF Init, OutputTypeOK
<1>5. SignalTypeOK
  BY Z3 DEF Init, SignalTypeOK
<1> QED
  BY <1>1, <1>2, <1>3, <1>4, <1>5 DEF TypeOK

\* The records that Output writes.
Records == [step : Nat, time : Nat, dt : StepLen, solConv : BOOLEAN]

\* Every record that Output writes, whichever way, is a record.
LEMMA OutputType ==
  ASSUME NEW n \in Nat, NEW t \in Nat, NEW h \in StepLen, NEW conv \in BOOLEAN,
         Output(n, t, h, conv)
  PROVE  lastOutput' \in Records
BY DEF Output, Records

\* What AskReduction changes.
AskedTypeOK ==
  /\ CurrStep \in {"NEWSTEP", "REPEATSTEP"}
  /\ tsc \in Controllers
  /\ dCurrTimeStep \in StepLen
  /\ MinimumIsSet

\* A failed attempt leaves the step and the strategy well formed.
LEMMA AskReductionType ==
  ASSUME RunTypeOK, StepTypeOK, MinimumIsSet, pc = "Attempt",
         UNCHANGED input, AskReduction
  PROVE  AskedTypeOK'
<1>1. PICK c \in NewStepTimes("REPEATSTEP", 0) :
        tsc' = c /\ dCurrTimeStep' = c.dCurrTimeStep
  BY DEF AskReduction
<1>2. /\ tsc' \in Controllers
      /\ dCurrTimeStep' \in StepLen
      /\ tsc'.dMinTimeStep = tsc.dMinTimeStep
  BY <1>1, NewStepTimesType DEF Whys
<1> QED
  BY <1>2 DEF AskedTypeOK, AskReduction, MinimumIsSet

\* No step of the run, of an element or of a signal breaks the types.
LEMMA NextTypeOK == TypeOK /\ [Next]_vars => TypeOK'
<1> SUFFICES ASSUME TypeOK, [Next]_vars PROVE TypeOK'
  OBVIOUS
<1> USE DEF TypeOK, RunTypeOK, StepTypeOK, MinimumIsSet, EigTypeOK, OutputTypeOK, SignalTypeOK,
      GoTo, Finish, Labels, Outcomes, stepVars, eigVars, outVars, signalVars
<1>1. CASE PrepareInput
  <2> USE DEF PrepareInput
  <2>1. EigTypeOK'
    <3>1. CASE EigAll("BeforeNow", dTime)
      BY <3>1, EigAllType
    <3>2. CASE UNCHANGED eigVars
      BY <3>2
    <3> QED
      BY <1>1, <3>1, <3>2
  <2>2. OutputTypeOK'
    <3>1. CASE Output(0, dTime, 0, FALSE)
      <4>1. lastOutput' \in Records
        BY <3>1, StepIsNat, OutputType
      <4> QED
        BY <1>1, <4>1 DEF Records
    <3>2. CASE UNCHANGED lastOutput
      BY <1>1, <3>2
    <3> QED
      BY <1>1, <3>1, <3>2
  <2>3. RunTypeOK' /\ StepTypeOK' /\ MinimumIsSet' /\ SignalTypeOK'
    BY <1>1
  <2> QED
    BY <2>1, <2>2, <2>3
<1>2. CASE DerivativesConverge
  <2> USE DEF DerivativesConverge
  <2>1. EigTypeOK'
    <3>1. CASE EigAll("ExactlyNow", dTime)
      BY <3>1, EigAllType
    <3>2. CASE UNCHANGED eigVars
      BY <3>2
    <3> QED
      BY <1>2, <3>1, <3>2
  <2>2. OutputTypeOK'
    <3>1. CASE Output(0, dTime, 0, FALSE)
      <4>1. lastOutput' \in Records
        BY <3>1, StepIsNat, OutputType
      <4> QED
        BY <1>2, <4>1 DEF Records
    <3>2. CASE UNCHANGED lastOutput
      BY <1>2, <3>2
    <3> QED
      BY <1>2, <3>1, <3>2
  <2>3. StepTypeOK'
    <3>1. DummyStep \in StepLen
      BY SolverAssumption
    <3>2. /\ lStep' \in {lStep, 1}
          /\ dRefTimeStep' \in {dRefTimeStep, DummyStep}
          /\ dCurrTimeStep' \in {dCurrTimeStep, DummyStep}
      BY <1>2
    <3>3. UNCHANGED <<eStatus, stage, dTime, dFinalTime, CurrStep, tsc>>
      BY <1>2
    <3> QED
      BY <3>1, <3>2, <3>3
  <2>4. RunTypeOK' /\ MinimumIsSet' /\ SignalTypeOK'
    BY <1>2
  <2> QED
    BY <2>1, <2>2, <2>3, <2>4
<1>3. CASE DummyStepConverges
  <2>1. dTime' \in Nat
    BY <1>3, StepIsNat DEF DummyStepConverges
  <2> QED
    BY <1>3, <2>1 DEF DummyStepConverges
<1>4. CASE PrepareFails
  <2>1. PICK failure \in SolveFailures :
          /\ Finish(Thrown(failure))
          /\ IF failure = "NoConvergence"
             THEN Output(0, dTime, IF pc = "Dummy" THEN dCurrTimeStep ELSE 0,
                         FALSE)
             ELSE UNCHANGED lastOutput
    BY <1>4 DEF PrepareFails
  <2>2. OutputTypeOK'
    <3> DEFINE h == IF pc = "Dummy" THEN dCurrTimeStep ELSE 0
    <3>1. h \in StepLen
      BY StepIsNat
    <3>2. CASE Output(0, dTime, h, FALSE)
      <4> HIDE DEF h
      <4>1. lastOutput' \in Records
        BY <3>1, <3>2, OutputType
      <4> QED
        BY <1>4, <4>1 DEF PrepareFails, Records
    <3>3. CASE UNCHANGED lastOutput
      BY <1>4, <3>3 DEF PrepareFails
    <3> QED
      BY <2>1, <3>2, <3>3
  <2> QED
    BY <1>4, <2>1, <2>2 DEF PrepareFails, Thrown
<1>5. CASE OutputInitial
  BY <1>5, StepIsNat DEF OutputInitial, Output
<1>6. CASE Start
  <2> USE DEF Start
  <2>1. tsc' \in Controllers
    BY <1>6, InputOK, InitControllerType
  <2>2. MinimumIsSet'
    BY <1>6, InputOK, StepIsNat DEF InitController, dDefaultMinTimeStep
  <2>3. StepTypeOK'
    BY <1>6, <2>1, InputOK
  <2>4. RunTypeOK'
    BY <1>6
  <2> QED
    BY <1>6, <2>2, <2>3, <2>4
<1>7. CASE BeginFirstStep
  BY <1>7, InputOK DEF BeginFirstStep
<1>8. CASE EndSimulation
  <2> USE DEF EndSimulation
  <2>1. EigTypeOK'
    <3>1. CASE EigAll("AllRemaining", dTime)
      BY <3>1, EigAllType
    <3>2. CASE UNCHANGED eigVars
      BY <3>2
    <3> QED
      BY <1>8, <3>1, <3>2
  <2>2. FinalTimeNow \in Nat
    BY DEF FinalTimeNow
  <2> QED
    BY <1>8, <2>1, <2>2
<1>9. CASE StopByRT
  BY <1>9 DEF StopByRT
<1>10. CASE Interrupt
  BY <1>10 DEF Interrupt
<1>11. CASE BeginStep
  BY <1>11 DEF BeginStep
<1>12. CASE FirstStepInterrupted
  <2>1. OutputTypeOK'
    BY <1>12, StepIsNat DEF FirstStepInterrupted, StepConverges, Output
  <2> QED
    BY <1>12, <2>1 DEF FirstStepInterrupted
<1>13. CASE AcceptStep
  <2>1. dTime' \in Nat
    BY <1>13, StepIsNat DEF AcceptStep
  <2>2. EigTypeOK'
    BY <1>13, <2>1, EigAllType DEF AcceptStep
  <2>3. OutputTypeOK'
    <3>1. PICK onSolution \in BOOLEAN :
            Output(lStep, dTime + dCurrTimeStep, dCurrTimeStep,
                   bSolConv \/ onSolution)
      BY <1>13 DEF AcceptStep, StepConverges
    <3>2. dTime + dCurrTimeStep \in Nat
      BY StepIsNat
    <3>3. lastOutput' \in Records
      BY <3>1, <3>2, OutputType
    <3>4. afterStop' \in Nat
      BY <1>13 DEF AcceptStep, StepConverges
    <3> QED
      BY <1>13, <3>3, <3>4 DEF AcceptStep, Records
  <2>4. PICK iIters \in IterCounts : \E c \in NewStepTimes(CurrStep, iIters) :
          tsc' = c /\ dCurrTimeStep' = c.dCurrTimeStep
    BY <1>13 DEF AcceptStep
  <2>5. /\ tsc' \in Controllers
        /\ dCurrTimeStep' \in StepLen
        /\ tsc'.dMinTimeStep = tsc.dMinTimeStep
    BY <2>4, NewStepTimesType, SolverAssumption DEF Whys
  <2>6. stage' \in 1 .. 4
    BY <1>13, InputOK DEF AcceptStep, IsRegular
  <2>7. StepTypeOK'
    BY <1>13, <2>1, <2>5, <2>6 DEF AcceptStep
  <2>8. MinimumIsSet'
    BY <1>13, <2>5 DEF AcceptStep, StepConverges
  <2> QED
    BY <1>13, <2>2, <2>3, <2>7, <2>8 DEF AcceptStep
<1>14. CASE RetryStep
  <2>1. AskedTypeOK'
    BY <1>14, AskReductionType DEF RetryStep
  <2> QED
    BY <1>14, <2>1 DEF RetryStep, AskedTypeOK
<1>15. CASE AbortRun
  <2>1. AskedTypeOK'
    BY <1>15, AskReductionType DEF AbortRun, AskedTypeOK
  <2>2. PICK failure \in SolveFailures :
          /\ Finish(Thrown(failure))
          /\ IF IsFirst /\ failure = "NoConvergence"
             THEN Output(0, dTime, dCurrTimeStep', bSolConv)
             ELSE UNCHANGED lastOutput
    BY <1>15 DEF AbortRun
  <2>3. OutputTypeOK'
    BY <1>15, <2>1, <2>2 DEF AbortRun, Output, AskedTypeOK
  <2> QED
    BY <1>15, <2>1, <2>2, <2>3 DEF AbortRun, Thrown, AskedTypeOK
<1>16. CASE SolveEndsSimulation
  BY <1>16 DEF SolveEndsSimulation
<1>17. CASE mbdyn_set_stop
  BY <1>17 DEF mbdyn_set_stop, STOP_AT_END_OF_TIME_STEP, STOP_AT_END_OF_ITERATION
<1>18. CASE SolveInterrupted
  BY <1>18 DEF SolveInterrupted
<1>19. CASE \E s \in Signals : Signal(s)
  BY <1>19 DEF Signal, mbdyn_modify_final_time_handler, mbdyn_modify_last_iteration_handler,
    mbdyn_really_exit_handler, STOP_AT_END_OF_TIME_STEP, STOP_AT_END_OF_ITERATION, STOP_NOW
<1>20. CASE UNCHANGED vars
  BY <1>20 DEF vars
<1> QED
  BY <1>1, <1>2, <1>3, <1>4, <1>5, <1>6, <1>7, <1>8, <1>9, <1>10, <1>11, <1>12, <1>13, <1>14, <1>15, <1>16, <1>17, <1>18, <1>19, <1>20 DEF Next, Run, Prepare, Advance

(* Every reachable state of Solver is well typed, and "factor" never works *)
(* without a minimum: the default of -1 is replaced before the first step. *)
THEOREM TypeCorrect == Spec => []TypeOK
BY InitTypeOK, NextTypeOK, PTL DEF Spec

-----------------------------------------------------------------------------
\* The steps: SameTimeStep, OutputFollowsTime, AtMostOneStepAfterStop.

\* Start finds the record of the initial conditions.
StartsClean ==
  pc = "Start" => lastOutput.step = 0 /\ lastOutput.time = dTime

\* Before the first start-up step nothing has been tried, and it is step 1.
NothingTried ==
  /\ pc = "Step" /\ IsFirst => lStep = 0 /\ dCurrTimeStep = input.dInitialTimeStep
  /\ pc = "Attempt" /\ IsFirst => lStep = 1

\* The run has no outcome before its end, nor a status before it is prepared.
StatusFollows ==
  /\ pc # "Done" => outcome = "none"
  /\ pc \in {"Read", "Derivatives", "Dummy", "Initial"} => eStatus = "UNINITIALIZED"

\* A step is completed after a request only if it was under way.
StopHeeded ==
  /\ afterStop <= 1
  /\ afterStop > 0 => stopAtEndOfTimeStep
  /\ pc \notin {"Step", "Done"} => afterStop = 0
  /\ pc = "Step" /\ IsFirst => afterStop = 0

StepInv ==
  /\ TypeOK
  /\ SameTimeStep
  /\ OutputFollowsTime
  /\ StartsClean
  /\ NothingTried
  /\ StatusFollows
  /\ StopHeeded

\* The inductive invariant holds when the run starts.
LEMMA InitStepInv == Init => StepInv
<1> SUFFICES ASSUME Init PROVE StepInv
  OBVIOUS
<1>1. TypeOK
  BY InitTypeOK
<1>2. SameTimeStep /\ OutputFollowsTime /\ StartsClean /\ NothingTried /\ StatusFollows
  BY DEF Init, SameTimeStep, OutputFollowsTime, StartsClean, NothingTried, StatusFollows
<1>3. StopHeeded
  BY DEF Init, StopHeeded
<1> QED
  BY <1>1, <1>2, <1>3 DEF StepInv

(* Every step keeps the inductive invariant: it says what each phase may   *)
(* rely on, so one action per phase breaks or uses each conjunct.          *)
LEMMA NextStepInv == StepInv /\ [Next]_vars => StepInv'
<1> SUFFICES ASSUME StepInv, [Next]_vars PROVE StepInv'
  OBVIOUS
<1>0. TypeOK /\ TypeOK'
  BY NextTypeOK DEF StepInv
<1>1. lStep \in Nat /\ afterStop \in Nat /\ keepGoing \in 0 .. 3
      /\ stage \in 1 .. 4 /\ input.startup \in 0 .. 3
  BY <1>0, InputOK DEF TypeOK, RunTypeOK, StepTypeOK, OutputTypeOK, SignalTypeOK
<1> USE DEF StepInv, SameTimeStep, OutputFollowsTime, StartsClean, NothingTried, StatusFollows, StopHeeded,
            GoTo, Finish, stepVars, eigVars, outVars, signalVars,
            IsFirst, IsRegular, stopAtEndOfTimeStep, STOP_AT_END_OF_TIME_STEP
<1>2. CASE PrepareInput
  BY <1>0, <1>1, <1>2 DEF PrepareInput
<1>3. CASE DerivativesConverge
  BY <1>0, <1>1, <1>3 DEF DerivativesConverge
<1>4. CASE DummyStepConverges
  BY <1>0, <1>1, <1>4 DEF DummyStepConverges
<1>5. CASE PrepareFails
  BY <1>0, <1>1, <1>5 DEF PrepareFails
<1>6. CASE OutputInitial
  BY <1>0, <1>1, <1>6 DEF OutputInitial, Output
<1>7. CASE Start
  BY <1>0, <1>1, <1>7 DEF Start, InitController
<1>8. CASE BeginFirstStep
  BY <1>0, <1>1, <1>8 DEF BeginFirstStep
<1>9. CASE EndSimulation
  BY <1>0, <1>1, <1>9 DEF EndSimulation
<1>10. CASE StopByRT
  BY <1>0, <1>1, <1>10 DEF StopByRT
<1>11. CASE Interrupt
  BY <1>0, <1>1, <1>11 DEF Interrupt
<1>12. CASE BeginStep
  BY <1>0, <1>1, <1>12 DEF BeginStep
<1>13. CASE FirstStepInterrupted
  BY <1>0, <1>1, <1>13 DEF FirstStepInterrupted, StepConverges
<1>14. CASE AcceptStep
  BY <1>0, <1>1, <1>14 DEF AcceptStep, StepConverges, Output
<1>15. CASE RetryStep
  BY <1>0, <1>1, <1>15 DEF RetryStep, AskReduction
<1>16. CASE AbortRun
  <2>1. /\ pc = "Attempt" /\ pc' = "Done"
        /\ UNCHANGED <<lStep, dTime, eStatus, afterStop, keepGoing, input, stage>>
    BY <1>16 DEF AbortRun
  <2>2. lastOutput.step + 1 = lStep /\ lastOutput.time = dTime
    BY <2>1
  <2>3. \/ UNCHANGED lastOutput
        \/ IsFirst /\ lastOutput' = [step |-> 0, time |-> dTime, dt |-> dCurrTimeStep', solConv |-> bSolConv]
    BY <1>16 DEF AbortRun, Output
  <2>4. IsFirst => lStep = 1
    BY <2>1
  <2>5. lastOutput'.step + 1 = lStep /\ lastOutput'.time = dTime
    <3>1. CASE UNCHANGED lastOutput
      BY <2>2, <3>1
    <3>2. CASE IsFirst /\ lastOutput' = [step |-> 0, time |-> dTime, dt |-> dCurrTimeStep',
                                         solConv |-> bSolConv]
      <4>1. lastOutput'.step = 0 /\ lastOutput'.time = dTime /\ lStep = 1
        BY <2>4, <3>2
      <4> QED
        BY <4>1
    <3> QED
      BY <2>3, <3>1, <3>2
  <2> QED
    BY <1>0, <2>1, <2>5
<1>17. CASE SolveEndsSimulation
  BY <1>0, <1>1, <1>17 DEF SolveEndsSimulation
<1>18. CASE mbdyn_set_stop
  BY <1>0, <1>1, <1>18 DEF mbdyn_set_stop, STOP_AT_END_OF_ITERATION
<1>19. CASE SolveInterrupted
  BY <1>0, <1>1, <1>19 DEF SolveInterrupted
<1>20. CASE \E s \in Signals : Signal(s)
  BY <1>0, <1>1, <1>20 DEF Signal, mbdyn_modify_final_time_handler,
    mbdyn_modify_last_iteration_handler, mbdyn_really_exit_handler,
    STOP_AT_END_OF_ITERATION, STOP_NOW
<1>21. CASE UNCHANGED vars
  BY <1>0, <1>21 DEF vars
<1> QED
  BY <1>2, <1>3, <1>4, <1>5, <1>6, <1>7, <1>8, <1>9, <1>10, <1>11, <1>12, <1>13, <1>14, <1>15, <1>16, <1>17, <1>18, <1>19, <1>20, <1>21 DEF Next, Run, Prepare, Advance

(* The inductive invariant of the time stepping: from it follow the three  *)
(* theorems below.                                                         *)
THEOREM StepInvariant == Spec => []StepInv
BY InitStepInv, NextStepInv, PTL DEF Spec

(* The solver and its strategy hold the same step whenever either is read: *)
(* the eight assignments of solver.cc and TimeStepControl.cc agree.        *)
THEOREM StepsAgree == Spec => []SameTimeStep
<1>1. StepInv => SameTimeStep
  BY DEF StepInv
<1> QED
  BY <1>1, StepInvariant, PTL

(* No rejected attempt leaves a trace in the output, in the time or in the *)
(* reference step handed to the integrator, however long the retries.      *)
THEOREM OutputAndTimeAgree == Spec => []OutputFollowsTime
<1>1. StepInv => OutputFollowsTime
  BY DEF StepInv
<1> QED
  BY <1>1, StepInvariant, PTL

(* A stop request is heeded after one step at the latest, whenever it      *)
(* comes and from however many signals.                                    *)
THEOREM StopIsHeeded == Spec => []AtMostOneStepAfterStop
<1>1. StepInv => AtMostOneStepAfterStop
  BY DEF StepInv, StopHeeded, AtMostOneStepAfterStop
<1> QED
  BY <1>1, StepInvariant, PTL

-----------------------------------------------------------------------------
\* The minimum step of "factor": UndershootBounded, AbortOnlyAtMinimum.

(* Limits that make sense together: the initial step and whatever the max  *)
(* time step drive returns are not below the minimum.                      *)
SensibleLimits ==
  \A i \in Inputs :
    i.strategy = "factor" /\ i.dMinTimeStep # dDefaultMinTimeStep
      => /\ i.dMinTimeStep <= i.dInitialTimeStep
         /\ \A dMax \in MaxTimeSteps : i.dMinTimeStep <= dMax

(* A repetition gives at least the minimum, or one reduction of the step   *)
(* (when the last chance is used up).                                      *)
LEMMA RepeatBound ==
  ASSUME NEW c \in Controllers, NEW dMax \in StepLen,
         c.dMinTimeStep \in StepLen, c.dMinTimeStep <= dMax
  PROVE  LET new == FactorRepeatStep(c, dMax).dCurrTimeStep
         IN  new >= c.dMinTimeStep \/ new >= Reduced[c.dCurrTimeStep]
<1> DEFINE h == c.dCurrTimeStep
           dMin == c.dMinTimeStep
           new == FactorRepeatStep(c, dMax).dCurrTimeStep
<1>1. /\ h \in Nat /\ dMin \in Nat /\ dMax \in Nat /\ Reduced[h] \in Nat
      /\ h \in StepLen
  BY StepIsNat, FactorAssumption DEF Controllers
<1>2. new \in {MinOf(Reduced[h], dMax), dMin}
  BY DEF FactorRepeatStep, Controllers
<1>3. CASE new = dMin
  BY <1>1, <1>3
<1>4. CASE new = MinOf(Reduced[h], dMax)
  BY <1>1, <1>4 DEF MinOf
<1> QED
  BY <1>2, <1>3, <1>4

\* A new step is at least the minimum, or not shorter than the last one.
LEMMA NewStepBound ==
  ASSUME NEW c \in Controllers, NEW dMax \in StepLen, NEW iIters \in Nat,
         c.dMinTimeStep \in StepLen, c.dMinTimeStep <= dMax
  PROVE  LET new == FactorNewStep(c, iIters, dMax).dCurrTimeStep
         IN  new >= c.dMinTimeStep \/ new >= c.dCurrTimeStep
<1> DEFINE h == c.dCurrTimeStep
           dMin == c.dMinTimeStep
           new == FactorNewStep(c, iIters, dMax).dCurrTimeStep
<1>1. /\ h \in Nat /\ dMin \in Nat /\ dMax \in Nat
      /\ Reduced[h] \in Nat /\ Raised[h] \in Nat
      /\ h <= Raised[h]
  BY StepIsNat, FactorAssumption DEF Controllers
<1>2. \/ new = MinOf(MaxOf(Reduced[h], dMin), dMax)
      \/ h < dMax /\ new = MinOf(Raised[h], dMax)
      \/ new = h
  BY DEF FactorNewStep, Controllers
<1>3. CASE new = MinOf(MaxOf(Reduced[h], dMin), dMax)
  BY <1>1, <1>3 DEF MinOf, MaxOf
<1>4. CASE h < dMax /\ new = MinOf(Raised[h], dMax)
  BY <1>1, <1>4 DEF MinOf
<1>5. CASE new = h
  BY <1>1, <1>5
<1> QED
  BY <1>2, <1>3, <1>4, <1>5

\* The minimum of the strategy is the one Factor::Init chose.
MinimumKept ==
  input.strategy = "factor" /\ pc \in {"Step", "Attempt"}
    => tsc.dMinTimeStep = IF input.dMinTimeStep = dDefaultMinTimeStep
                          THEN input.dInitialTimeStep ELSE input.dMinTimeStep

(* The minimum a strategy works with is the one of the input, or the       *)
(* initial step when the input gives none, for as long as steps are taken. *)
LEMMA NextMinimumKept ==
  ASSUME TypeOK, MinimumKept, [Next]_vars
  PROVE  MinimumKept'
<1> USE DEF MinimumKept, GoTo, Finish, stepVars
<1>0. RunTypeOK /\ StepTypeOK
  BY DEF TypeOK
<1>1. CASE Start
  BY <1>1 DEF Start, InitController
<1>2. CASE AcceptStep
  <2>1. PICK iIters \in IterCounts : \E c \in NewStepTimes(CurrStep, iIters) : tsc' = c
    BY <1>2 DEF AcceptStep
  <2>2. tsc'.dMinTimeStep = tsc.dMinTimeStep
    BY <1>0, <2>1, NewStepTimesType, SolverAssumption DEF StepTypeOK, Whys
  <2> QED
    BY <1>2, <2>2 DEF AcceptStep, StepConverges
<1>3. CASE RetryStep
  <2>1. PICK c \in NewStepTimes("REPEATSTEP", 0) : tsc' = c
    BY <1>3 DEF RetryStep, AskReduction
  <2>2. tsc'.dMinTimeStep = tsc.dMinTimeStep
    BY <1>0, <2>1, NewStepTimesType DEF Whys
  <2> QED
    BY <1>3, <2>2 DEF RetryStep
<1>4. CASE BeginFirstStep \/ BeginStep
  BY <1>4 DEF BeginFirstStep, BeginStep
<1>5. CASE mbdyn_set_stop \/ UNCHANGED vars
  BY <1>5 DEF mbdyn_set_stop, vars
<1>6. CASE \E s \in Signals : Signal(s)
  BY <1>6 DEF Signal, mbdyn_modify_final_time_handler,
    mbdyn_modify_last_iteration_handler, mbdyn_really_exit_handler
<1>7. CASE Prepare
  BY <1>7 DEF Prepare, PrepareInput, DerivativesConverge, DummyStepConverges,
    PrepareFails, OutputInitial
<1>8. CASE \/ EndSimulation \/ StopByRT \/ Interrupt \/ FirstStepInterrupted
           \/ AbortRun \/ SolveEndsSimulation \/ SolveInterrupted
  BY <1>8 DEF EndSimulation, StopByRT, Interrupt, FirstStepInterrupted, AbortRun,
    SolveEndsSimulation, SolveInterrupted
<1> QED
  BY <1>1, <1>2, <1>3, <1>4, <1>5, <1>6, <1>7, <1>8 DEF Next, Run, Advance

\* What RepeatBound and NewStepBound say of the step of the run.
LEMMA NewStepTimesBound ==
  ASSUME SensibleLimits, TypeOK, SameTimeStep, MinimumKept, pc = "Attempt",
         input.strategy = "factor", input.dMinTimeStep # dDefaultMinTimeStep,
         NEW why \in Whys, NEW iIters \in Nat, NEW c \in NewStepTimes(why, iIters)
  PROVE  \/ c.dCurrTimeStep >= input.dMinTimeStep
         \/ why = "REPEATSTEP" /\ c.dCurrTimeStep >= Reduced[dCurrTimeStep]
         \/ why = "NEWSTEP" /\ c.dCurrTimeStep >= dCurrTimeStep
<1>1. PICK dNewStep \in DriveSteps, dMax \in MaxTimeSteps :
        c = dGetNewStepTime(input.strategy, tsc, why, iIters, dNewStep, dMax)
  BY DEF NewStepTimes
<1>2. /\ tsc \in Controllers
      /\ dMax \in StepLen
      /\ tsc.dMinTimeStep = input.dMinTimeStep
      /\ tsc.dCurrTimeStep = dCurrTimeStep
      /\ input.dMinTimeStep \in StepLen
  BY InputOK, SolverAssumption DEF TypeOK, StepTypeOK, MinimumKept, SameTimeStep
<1>3. input.dMinTimeStep <= dMax
  BY DEF SensibleLimits, TypeOK, RunTypeOK
<1>4. CASE why = "REPEATSTEP"
  BY <1>1, <1>2, <1>3, <1>4, RepeatBound DEF dGetNewStepTime
<1>5. CASE why = "NEWSTEP"
  BY <1>1, <1>2, <1>3, <1>5, NewStepBound DEF dGetNewStepTime
<1> QED
  BY <1>4, <1>5 DEF Whys

\* Two reductions of the minimum, in numbers.
LEMMA TwoReductions ==
  ASSUME NEW m \in StepLen
  PROVE  /\ Reduced[m] \in StepLen /\ Reduced[Reduced[m]] \in StepLen
         /\ Reduced[Reduced[m]] <= Reduced[m]
         /\ Reduced[m] <= m
         /\ \A h \in StepLen : h >= m => Reduced[h] >= Reduced[m]
         /\ \A h \in StepLen : h >= Reduced[m] => Reduced[h] >= Reduced[Reduced[m]]
<1>1. /\ Reduced[m] \in StepLen /\ Reduced[Reduced[m]] \in StepLen
      /\ Reduced[Reduced[m]] <= Reduced[m] /\ Reduced[m] <= m
  BY FactorAssumption
<1>2. \A g, h \in StepLen : h >= g => Reduced[h] >= Reduced[g]
  BY FactorAssumption, StepIsNat
<1> QED
  BY <1>1, <1>2

MinimumInv == StepInv /\ MinimumKept /\ UndershootBounded

(* The bound on the undershoot is kept, case by case on how the step was   *)
(* chosen.                                                                 *)
LEMMA NextUndershootBounded ==
  ASSUME SensibleLimits, MinimumInv, [Next]_vars
  PROVE  UndershootBounded'
<1> SUFFICES ASSUME (/\ input.strategy = "factor"
                     /\ input.dMinTimeStep # dDefaultMinTimeStep
                     /\ pc \in {"Step", "Attempt"})'
             PROVE  (/\ dCurrTimeStep >= Reduced[Reduced[input.dMinTimeStep]]
                     /\ pc = "Attempt" /\ CurrStep = "REPEATSTEP"
                          => dCurrTimeStep >= Reduced[input.dMinTimeStep])'
  BY DEF UndershootBounded
<1> DEFINE m == input.dMinTimeStep
<1>0. TypeOK /\ RunTypeOK /\ StepTypeOK /\ SameTimeStep /\ MinimumKept
  BY DEF MinimumInv, StepInv, TypeOK
<1>1. /\ input' = input
      /\ input.strategy = "factor"
      /\ m \in StepLen /\ m \in Nat /\ m # dDefaultMinTimeStep
      /\ dCurrTimeStep \in StepLen /\ dCurrTimeStep \in Nat
  <2>1. input' = input
    BY DEF Next, Run, Prepare, Advance, PrepareInput, DerivativesConverge,
      DummyStepConverges, PrepareFails, OutputInitial, Start, BeginFirstStep,
      EndSimulation, StopByRT, Interrupt, BeginStep, FirstStepInterrupted,
      AcceptStep, RetryStep, AbortRun, SolveEndsSimulation, SolveInterrupted,
      mbdyn_set_stop, Signal, vars
  <2> QED
    BY <1>0, <2>1, InputOK, StepIsNat DEF StepTypeOK
<1>2. /\ Reduced[m] \in Nat /\ Reduced[Reduced[m]] \in Nat
      /\ Reduced[Reduced[m]] <= Reduced[m] /\ Reduced[m] <= m
      /\ \A h \in StepLen : h >= m => Reduced[h] >= Reduced[m]
      /\ \A h \in StepLen : h >= Reduced[m] => Reduced[h] >= Reduced[Reduced[m]]
  BY <1>1, TwoReductions, StepIsNat
<1>3. m <= input.dInitialTimeStep /\ input.dInitialTimeStep \in Nat
  BY <1>0, <1>1, InputOK, StepIsNat DEF SensibleLimits, RunTypeOK
<1>4. pc \in {"Step", "Attempt"}
        => /\ dCurrTimeStep >= Reduced[Reduced[m]]
           /\ pc = "Attempt" /\ CurrStep = "REPEATSTEP"
                => dCurrTimeStep >= Reduced[m]
  BY <1>1 DEF MinimumInv, UndershootBounded
<1> HIDE DEF m
<1>5. CASE UNCHANGED <<pc, CurrStep, dCurrTimeStep>>
  BY <1>1, <1>4, <1>5 DEF m
<1>6. CASE Start \/ BeginFirstStep
  <2>1. /\ dCurrTimeStep' = input.dInitialTimeStep
        /\ pc' = "Attempt" => CurrStep' = "NEWSTEP"
    BY <1>6 DEF Start, BeginFirstStep, GoTo, Finish
  <2> QED
    BY <1>1, <1>2, <1>3, <2>1 DEF m
<1>7. CASE BeginStep
  <2>1. dCurrTimeStep' = dCurrTimeStep /\ CurrStep' = "NEWSTEP" /\ pc = "Step"
    BY <1>7 DEF BeginStep
  <2> QED
    BY <1>1, <1>4, <2>1 DEF m
<1>8. CASE AcceptStep
  <2>1. PICK iIters \in IterCounts : \E c \in NewStepTimes(CurrStep, iIters) :
          dCurrTimeStep' = c.dCurrTimeStep
    BY <1>8 DEF AcceptStep
  <2>2. pc = "Attempt" /\ pc' = "Step" /\ iIters \in Nat /\ CurrStep \in Whys
    BY <1>0, <1>8, SolverAssumption DEF AcceptStep, StepConverges, GoTo, StepTypeOK, Whys
  <2>3. dCurrTimeStep' \in Nat
    BY <1>0, <2>1, <2>2, NewStepTimesType, StepIsNat
  <2>4. \/ dCurrTimeStep' >= m
        \/ CurrStep = "REPEATSTEP" /\ dCurrTimeStep' >= Reduced[dCurrTimeStep]
        \/ CurrStep = "NEWSTEP" /\ dCurrTimeStep' >= dCurrTimeStep
    BY <1>0, <1>1, <2>1, <2>2, NewStepTimesBound DEF m
  <2>5. Reduced[dCurrTimeStep] \in Nat
    BY <1>1, FactorAssumption, StepIsNat
  <2>6. dCurrTimeStep' >= Reduced[Reduced[m]]
    BY <1>1, <1>2, <1>4, <2>2, <2>3, <2>4, <2>5
  <2> QED
    BY <1>1, <2>2, <2>6 DEF m
<1>9. CASE RetryStep
  <2>1. PICK c \in NewStepTimes("REPEATSTEP", 0) : dCurrTimeStep' = c.dCurrTimeStep
    BY <1>9 DEF RetryStep, AskReduction
  <2>2. pc = "Attempt" /\ dCurrTimeStep > m
    BY <1>9 DEF RetryStep, AskReduction, m
  <2>3. dCurrTimeStep' \in Nat
    BY <1>0, <2>1, NewStepTimesType, StepIsNat DEF Whys
  <2>4. dCurrTimeStep' >= m \/ dCurrTimeStep' >= Reduced[dCurrTimeStep]
    BY <1>0, <1>1, <2>1, <2>2, NewStepTimesBound DEF m, Whys
  <2>5. Reduced[dCurrTimeStep] \in Nat
    BY <1>1, FactorAssumption, StepIsNat
  <2>6. dCurrTimeStep' >= Reduced[m]
    BY <1>1, <1>2, <2>2, <2>3, <2>4, <2>5
  <2> QED
    BY <1>1, <1>2, <2>3, <2>6 DEF m
<1>10. CASE Prepare
  BY <1>10 DEF Prepare, PrepareInput, DerivativesConverge, DummyStepConverges,
    PrepareFails, OutputInitial, GoTo, Finish
<1>11. CASE \/ EndSimulation \/ StopByRT \/ Interrupt \/ FirstStepInterrupted
            \/ AbortRun \/ SolveEndsSimulation \/ SolveInterrupted
  BY <1>11 DEF EndSimulation, StopByRT, Interrupt, FirstStepInterrupted, AbortRun,
    SolveEndsSimulation, SolveInterrupted, Finish
<1>12. CASE mbdyn_set_stop \/ UNCHANGED vars
  BY <1>5, <1>12 DEF mbdyn_set_stop, vars, stepVars
<1>13. CASE \E s \in Signals : Signal(s)
  BY <1>5, <1>13 DEF Signal, stepVars, mbdyn_modify_final_time_handler,
    mbdyn_modify_last_iteration_handler, mbdyn_really_exit_handler, Finish
<1> QED
  BY <1>6, <1>7, <1>8, <1>9, <1>10, <1>11, <1>12, <1>13 DEF Next, Run, Advance

(* With sensible limits "factor" undershoots the minimum by one reduction  *)
(* while a step is repeated and by two at most between steps.              *)
THEOREM UndershootIsBounded ==
  ASSUME SensibleLimits
  PROVE  Spec => []UndershootBounded
<1>1. Init => MinimumInv
  BY InitStepInv DEF MinimumInv, Init, MinimumKept, UndershootBounded
<1>2. MinimumInv /\ [Next]_vars => MinimumInv'
  BY NextStepInv, NextMinimumKept, NextUndershootBounded DEF MinimumInv, StepInv
<1>3. MinimumInv => UndershootBounded
  BY DEF MinimumInv
<1> QED
  BY <1>1, <1>2, <1>3, PTL DEF Spec

(* "factor" with a real reduction: a step longer than a tick is shortened. *)
ReductionReduces ==
  /\ \A h \in StepLen : h > 1 => Reduced[h] < h
  /\ \A i \in Inputs : i.strategy = "factor" => i.dInitialTimeStep > 0

\* A run has an outcome when it is over, and only then.
Running == (pc = "Done") <=> (outcome # "none")

\* A step ends the run and gives it its outcome together.
LEMMA NextRunning ==
  ASSUME Running, [Next]_vars
  PROVE  Running'
<1> USE DEF Running, GoTo, Finish
<1>1. CASE Prepare
  BY <1>1 DEF Prepare, PrepareInput, DerivativesConverge, DummyStepConverges,
    PrepareFails, OutputInitial, Thrown
<1>2. CASE Start \/ BeginFirstStep \/ BeginStep \/ AcceptStep \/ RetryStep
  BY <1>2 DEF Start, BeginFirstStep, BeginStep, AcceptStep, StepConverges, RetryStep
<1>3. CASE \/ EndSimulation \/ StopByRT \/ Interrupt \/ FirstStepInterrupted
           \/ AbortRun \/ SolveEndsSimulation \/ SolveInterrupted
  BY <1>3 DEF EndSimulation, StopByRT, Interrupt, FirstStepInterrupted, AbortRun,
    SolveEndsSimulation, SolveInterrupted, Thrown
<1>4. CASE mbdyn_set_stop \/ UNCHANGED vars
  BY <1>4 DEF mbdyn_set_stop, vars
<1>5. CASE \E s \in Signals : Signal(s)
  BY <1>5 DEF Signal, mbdyn_modify_final_time_handler,
    mbdyn_modify_last_iteration_handler, mbdyn_really_exit_handler
<1> QED
  BY <1>1, <1>2, <1>3, <1>4, <1>5 DEF Next, Run, Advance

\* The numbers compared when a step fails.
LEMMA StrategyNumbers ==
  ASSUME StepTypeOK
  PROVE  dCurrTimeStep \in Int /\ tsc.dMinTimeStep \in Int
<1>1. dDefaultMinTimeStep \in Int /\ StepLen \subseteq Int
  BY StepIsNat DEF dDefaultMinTimeStep
<1>2. dCurrTimeStep \in StepLen /\ tsc.dMinTimeStep \in StepLen \cup {dDefaultMinTimeStep}
  BY DEF StepTypeOK, Controllers
<1>3. CASE tsc.dMinTimeStep = dDefaultMinTimeStep
  BY <1>1, <1>2, <1>3
<1>4. CASE tsc.dMinTimeStep \in StepLen
  BY <1>1, <1>2, <1>4
<1> QED
  BY <1>2, <1>3, <1>4

\* A repetition that does not shorten the step finds it at the minimum.
LEMMA NoReduction ==
  ASSUME ReductionReduces, TypeOK, SameTimeStep, MinimumKept, pc = "Attempt",
         input.strategy = "factor", AskReduction, ~(dCurrTimeStep' < dCurrTimeStep)
  PROVE  dCurrTimeStep <= tsc.dMinTimeStep
<1>0. dCurrTimeStep \in Int /\ tsc.dMinTimeStep \in Int
  BY StrategyNumbers DEF TypeOK
<1> SUFFICES ASSUME dCurrTimeStep > tsc.dMinTimeStep PROVE FALSE
  BY <1>0
<1>1. PICK dNewStep \in DriveSteps, dMax \in MaxTimeSteps :
        dCurrTimeStep' = dGetNewStepTime(input.strategy, tsc, "REPEATSTEP", 0,
                                         dNewStep, dMax).dCurrTimeStep
  BY DEF AskReduction, NewStepTimes
<1> DEFINE h == dCurrTimeStep
           dMin == tsc.dMinTimeStep
<1>2. /\ tsc \in Controllers /\ tsc.dCurrTimeStep = h
      /\ h \in StepLen /\ h \in Nat /\ dMax \in StepLen /\ dMax \in Nat
  BY StepIsNat, SolverAssumption DEF TypeOK, StepTypeOK, SameTimeStep
<1>3. dMin \in Nat /\ dMin > 0
  <2>1. input.dInitialTimeStep \in Nat /\ input.dInitialTimeStep > 0
    BY InputOK, StepIsNat DEF ReductionReduces, TypeOK, RunTypeOK
  <2>2. input.dMinTimeStep # dDefaultMinTimeStep => input.dMinTimeStep \in Nat \ {0}
    BY InputOK, StepIsNat DEF TypeOK
  <2> QED
    BY <2>1, <2>2 DEF MinimumKept
<1>4. Reduced[h] \in Nat /\ Reduced[h] < h
  <2>1. h > 1
    BY <1>2, <1>3
  <2>2. Reduced[h] \in StepLen
    BY <1>2, FactorAssumption
  <2> QED
    BY <1>2, <2>1, <2>2, StepIsNat DEF ReductionReduces
<1>5. dCurrTimeStep' \in {MinOf(Reduced[h], dMax), dMin}
  BY <1>1, <1>2 DEF dGetNewStepTime, FactorRepeatStep, Controllers
<1>6. MinOf(Reduced[h], dMax) < h /\ dMin < h
  BY <1>2, <1>4 DEF MinOf
<1> QED
  BY <1>5, <1>6

(* "factor" aborts the run only when the step it failed with was already   *)
(* at the minimum or below it: the last chance is never skipped.           *)
THEOREM AbortsOnlyAtMinimum ==
  ASSUME ReductionReduces
  PROVE  Spec => AbortOnlyAtMinimum
<1> DEFINE Inv == StepInv /\ MinimumKept /\ Running
           Gives == /\ pc = "Attempt"
                    /\ input.strategy = "factor"
                    /\ outcome' \in {"ErrMaxIterations", "SimulationDiverged"}
<1>1. Init => Inv
  BY InitStepInv DEF Init, MinimumKept, Running
<1>2. Inv /\ [Next]_vars => Inv'
  BY NextStepInv, NextMinimumKept, NextRunning DEF StepInv
<1>3. Inv /\ [Next]_vars => [Gives => dCurrTimeStep <= tsc.dMinTimeStep]_vars
  <2> SUFFICES ASSUME Inv, Next, Gives PROVE dCurrTimeStep <= tsc.dMinTimeStep
    OBVIOUS
  <2>0. TypeOK /\ RunTypeOK /\ StepTypeOK /\ SameTimeStep
    BY DEF StepInv, TypeOK
  <2>1. AbortRun
    <3>1. outcome = "none"
      BY DEF Running
    <3>2. outcome' # outcome /\ outcome' # "ended" /\ outcome' # "stopped"
          /\ outcome' # "interrupted" /\ outcome' # "exited" /\ pc = "Attempt"
      BY <3>1
    <3> QED
      BY <3>2 DEF Next, Run, Prepare, Advance, PrepareInput, DerivativesConverge,
        DummyStepConverges, PrepareFails, OutputInitial, Start, BeginFirstStep,
        EndSimulation, StopByRT, Interrupt, BeginStep, FirstStepInterrupted,
        AcceptStep, RetryStep, SolveEndsSimulation, SolveInterrupted,
        mbdyn_set_stop, Signal, mbdyn_modify_final_time_handler,
        mbdyn_modify_last_iteration_handler, mbdyn_really_exit_handler, GoTo, Finish
  <2>2. CASE AskReduction /\ ~(dCurrTimeStep' < dCurrTimeStep)
    BY <2>0, <2>2, NoReduction
  <2>3. CASE dCurrTimeStep <= input.dMinTimeStep
    <3>1. tsc.dMinTimeStep = input.dMinTimeStep
      BY <2>0, <2>3, StepIsNat DEF MinimumKept, StepTypeOK, dDefaultMinTimeStep
    <3> QED
      BY <2>3, <3>1
  <2> QED
    BY <2>1, <2>2, <2>3 DEF AbortRun
<1> QED
  BY <1>1, <1>2, <1>3, PTL DEF Spec, AbortOnlyAtMinimum

-----------------------------------------------------------------------------
\* The eigenanalyses.

\* What is recorded: in order, and each analysis when it was due.
RecordedWhenDue ==
  \A e \in eigDone : e.when = "UntilNow" =>
     /\ EigTimes[e.pos] <= e.time
     /\ EigTimes[e.pos] > e.since \/ e.step = 1
RecordedInOrder == \A e, f \in eigDone : e.index < f.index => e.pos < f.pos
RecordedBefore == \A e \in eigDone : e.pos < currAnalysis /\ e.index < currAnalysisIndex
EigRecorded == RecordedWhenDue /\ RecordedInOrder /\ RecordedBefore

NoneOverdue(now) == currAnalysis <= Len(EigTimes) => EigTimes[currAnalysis] > now

\* During a step but the first, as between two steps, none is overdue.
EigInv ==
  /\ EigRecorded
  /\ pc = "Step" /\ lStep > 0 => NoneOverdue(dTime)
  /\ pc = "Attempt" => lStep > 0
  /\ pc = "Attempt" /\ lStep > 1 => NoneOverdue(dTime)

(* EigNext performs what is due, unless nothing is, and passes over what   *)
(* is due with it.                                                         *)
LEMMA EigAllRecords ==
  ASSUME TypeOK, EigRecorded, NEW now \in Nat,
         NEW when \in {"BeforeNow", "UntilNow", "ExactlyNow", "AllRemaining"},
         when = "UntilNow" => lStep = 1 \/ NoneOverdue(dTime),
         EigAll(when, now)
  PROVE  /\ EigRecorded'
         /\ when = "UntilNow" => (currAnalysis' <= Len(EigTimes) => EigTimes[currAnalysis'] > now)
<1> DEFINE N == Len(EigTimes)
           new == [pos |-> currAnalysis, index |-> currAnalysisIndex,
                   step |-> lStep, since |-> dTime, time |-> now, when |-> when]
<1>1. /\ N \in Nat /\ currAnalysis \in 1 .. N + 1 /\ currAnalysisIndex \in Nat
      /\ lStep \in Nat /\ dTime \in Nat
      /\ \A n \in 1 .. N : EigTimes[n] \in Int
      /\ \A e \in eigDone : e.pos \in 1 .. N /\ e.index \in Nat
  BY SolverAssumption DEF TypeOK, EigTypeOK, StepTypeOK
<1>2. CASE UNCHANGED eigVars /\ ~(currAnalysis <= N /\ EigAnTime(when, EigTimes[currAnalysis], now))
  <2>1. EigRecorded'
    BY <1>2 DEF EigRecorded, RecordedWhenDue, RecordedInOrder, RecordedBefore, eigVars
  <2>2. when = "UntilNow" => (currAnalysis' <= N => EigTimes[currAnalysis'] > now)
    BY <1>1, <1>2 DEF EigAnTime, eigVars
  <2> QED
    BY <2>1, <2>2
<1>3. ASSUME currAnalysis <= N, EigAnTime(when, EigTimes[currAnalysis], now),
             NEW n \in currAnalysis + 1 .. N + 1,
             n <= N => ~EigAnTime(when, EigTimes[n], now),
             currAnalysis' = n, currAnalysisIndex' = currAnalysisIndex + 1,
             eigDone' = eigDone \cup {new}
      PROVE  /\ EigRecorded'
             /\ when = "UntilNow" => (currAnalysis' <= N => EigTimes[currAnalysis'] > now)
  <2>1. when = "UntilNow" => /\ EigTimes[currAnalysis] <= now
                             /\ EigTimes[currAnalysis] > dTime \/ lStep = 1
    BY <1>1, <1>3 DEF EigAnTime, NoneOverdue
  <2>2. /\ new.pos = currAnalysis /\ new.index = currAnalysisIndex /\ new.step = lStep
        /\ new.since = dTime /\ new.time = now /\ new.when = when
    OBVIOUS
  <2> HIDE DEF new
  <2>3. RecordedWhenDue'
    BY <1>3, <2>1, <2>2 DEF EigRecorded, RecordedWhenDue
  <2>4. RecordedBefore'
    BY <1>1, <1>3, <2>2 DEF EigRecorded, RecordedBefore
  <2>5. RecordedInOrder'
    BY <1>1, <1>3, <2>2 DEF EigRecorded, RecordedInOrder, RecordedBefore
  <2>6. when = "UntilNow" => (currAnalysis' <= N => EigTimes[currAnalysis'] > now)
    BY <1>1, <1>3 DEF EigAnTime
  <2>7. EigRecorded'
    BY <2>3, <2>4, <2>5 DEF EigRecorded
  <2> QED
    BY <2>6, <2>7
<1>4. CASE ~(currAnalysis <= N /\ EigAnTime(when, EigTimes[currAnalysis], now))
  <2>1. UNCHANGED eigVars
    BY <1>4, EigAll(when, now) DEF EigAll
  <2> QED
    BY <2>1, <1>4, <1>2
<1>5. CASE currAnalysis <= N /\ EigAnTime(when, EigTimes[currAnalysis], now)
  <2>1. PICK n \in currAnalysis + 1 .. N + 1 :
               /\ n <= N => ~EigAnTime(when, EigTimes[n], now)
               /\ currAnalysis' = n
    BY <1>5 DEF EigAll
  <2>2. currAnalysisIndex' = currAnalysisIndex + 1 /\ eigDone' = eigDone \cup {new}
    BY <1>5 DEF EigAll
  <2> HIDE DEF new
  <2> QED
    BY <2>1, <2>2, <1>5, <1>3
<1> QED
  BY <1>4, <1>5

LEMMA NextEigInv ==
  ASSUME StepInv, EigInv, [Next]_vars
  PROVE  EigInv'
<1>1. TypeOK /\ lStep \in Nat /\ dTime \in Nat /\ dCurrTimeStep \in Nat
  BY StepIsNat DEF StepInv, TypeOK, StepTypeOK
<1>2. CASE UNCHANGED <<eigVars, lStep, dTime>> /\ pc' = pc
  BY <1>2 DEF EigInv, EigRecorded, RecordedWhenDue, RecordedInOrder,
                RecordedBefore, NoneOverdue, eigVars
<1>3. CASE UNCHANGED eigVars /\ pc' \notin {"Step", "Attempt"}
  BY <1>3 DEF EigInv, EigRecorded, RecordedWhenDue, RecordedInOrder,
                RecordedBefore, eigVars
<1>4. CASE PrepareInput \/ DerivativesConverge \/ EndSimulation
  <2>1. pc' \notin {"Step", "Attempt"}
    BY <1>4 DEF PrepareInput, DerivativesConverge, EndSimulation, GoTo, Finish
  <2>2. UNCHANGED eigVars \/ \E when \in {"BeforeNow", "ExactlyNow", "AllRemaining"} :
                                EigAll(when, dTime)
    BY <1>4 DEF PrepareInput, DerivativesConverge, EndSimulation
  <2>3. CASE UNCHANGED eigVars
    BY <2>1, <2>3, <1>3
  <2>4. ASSUME NEW when \in {"BeforeNow", "ExactlyNow", "AllRemaining"}, EigAll(when, dTime)
        PROVE  EigRecorded'
    BY <1>1, <2>4, EigAllRecords DEF EigInv
  <2> QED
    BY <2>1, <2>2, <2>3, <2>4 DEF EigInv
<1>5. CASE DummyStepConverges \/ PrepareFails \/ OutputInitial \/ FirstStepInterrupted
           \/ AbortRun \/ StopByRT \/ Interrupt \/ SolveEndsSimulation \/ SolveInterrupted
  <2>1. UNCHANGED eigVars
    BY <1>5 DEF DummyStepConverges, PrepareFails, OutputInitial, FirstStepInterrupted, AbortRun,
                StopByRT, Interrupt, SolveEndsSimulation, SolveInterrupted
  <2>2. pc' \notin {"Step", "Attempt"}
    BY <1>5 DEF DummyStepConverges, PrepareFails, OutputInitial, FirstStepInterrupted, AbortRun,
                StopByRT, Interrupt, SolveEndsSimulation, SolveInterrupted, GoTo, Finish
  <2> QED
    BY <2>1, <2>2, <1>3
<1>6. CASE Start
  BY <1>6 DEF Start, GoTo, Finish, EigInv, EigRecorded, RecordedWhenDue, RecordedInOrder,
                RecordedBefore, NoneOverdue, eigVars
<1>7. CASE BeginFirstStep \/ BeginStep
  <2>1. /\ pc = "Step" /\ pc' = "Attempt" /\ lStep' = lStep + 1 /\ dTime' = dTime
        /\ UNCHANGED eigVars
    BY <1>7 DEF BeginFirstStep, BeginStep, GoTo
  <2> QED
    BY <1>1, <2>1 DEF EigInv, EigRecorded, RecordedWhenDue, RecordedInOrder,
                RecordedBefore, NoneOverdue, eigVars
<1>8. CASE AcceptStep
  <2>1. /\ pc = "Attempt" /\ pc' = "Step" /\ dTime' = dTime + dCurrTimeStep /\ lStep' = lStep
        /\ EigAll("UntilNow", dTime + dCurrTimeStep)
    BY <1>8 DEF AcceptStep, StepConverges, GoTo
  <2>2. dTime + dCurrTimeStep \in Nat /\ (lStep = 1 \/ NoneOverdue(dTime))
    BY <1>1, <2>1 DEF EigInv
  <2>3. /\ EigRecorded'
        /\ currAnalysis' <= Len(EigTimes) => EigTimes[currAnalysis'] > dTime + dCurrTimeStep
    BY <1>1, <2>1, <2>2, EigAllRecords DEF EigInv
  <2>4. EigRecorded' /\ NoneOverdue(dTime)'
    BY <2>1, <2>3 DEF NoneOverdue
  <2> QED
    BY <2>1, <2>4 DEF EigInv
<1>9. CASE RetryStep \/ mbdyn_set_stop
  BY <1>9, <1>2 DEF RetryStep, mbdyn_set_stop, stepVars, AskReduction
<1>10. CASE \E s \in Signals : Signal(s)
  BY <1>10, <1>2, <1>3 DEF Signal, mbdyn_modify_final_time_handler, stepVars,
    mbdyn_modify_last_iteration_handler, mbdyn_really_exit_handler, Finish
<1>11. CASE UNCHANGED vars
  BY <1>11, <1>2 DEF vars, stepVars
<1> QED
  BY <1>4, <1>5, <1>6, <1>7, <1>8, <1>9, <1>10, <1>11 DEF Next, Run, Prepare, Advance

(* Every analysis is performed at the first step that reaches its time, in *)
(* order and once, whatever times the input asks for.                      *)
THEOREM AnalysesAreOnTime == Spec => []EigOnTime
<1>1. Init => EigInv
  BY DEF Init, EigInv, EigRecorded, RecordedWhenDue, RecordedInOrder, RecordedBefore
<1>2. StepInv /\ EigInv /\ [Next]_vars => EigInv'
  BY NextEigInv
<1>3. EigInv => EigOnTime
  BY DEF EigInv, EigRecorded, RecordedWhenDue, RecordedInOrder, RecordedBefore, NoneOverdue,
         EigOnTime
<1> QED
  BY <1>1, <1>2, <1>3, StepInvariant, PTL DEF Spec
=============================================================================
