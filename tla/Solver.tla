------------------------------- MODULE Solver -------------------------------
(***************************************************************************)
(* The time stepping of mbdyn/base/solver.cc: Solver::Run, that is Prepare *)
(* (derivatives, dummy steps), Start (start-up steps) and Advance (regular *)
(* steps), with the retry of a step that fails, the time step strategies,  *)
(* the scheduled eigenanalyses and the signal handlers.                    *)
(*                                                                         *)
(* One attempt at a step, StepIntegrator::Advance, is one action: it ends  *)
(* in one of the ways the code distinguishes.  Signals are handled between *)
(* any two actions.  A run that is over has pc = "Done".                   *)
(***************************************************************************)
EXTENDS TimeStepControl, Sequences

CONSTANTS
  Inputs,          \* what ReadData may have read (records, see InputType)
  MaxTimeSteps,    \* values the max time step drive may return; 0: unlimited
  DriveSteps,      \* values the drive of the "change" strategy may return
  IterCounts,      \* iterations a converging step may take
  FinalTime,       \* final time
  DummyStep,       \* dInitialTimeStep * dDummyStepsRatio
  AbortStep,       \* n of "abort after : regular step, n"
  EigTimes,        \* the times of the eigenanalysis card
  Signals,         \* the signals MBDyn catches and was not told to ignore
  UseMultithread   \* USE_MULTITHREAD

InputType ==
  [ strategy : Strategies,
    startup : 0 .. 3,           \* start-up steps of the regular method
    dummies : 0 .. 3,           \* dummy steps, start-up ones included
    abortAfter : {"UNKNOWN", "INPUT", "ASSEMBLY", "DERIVATIVES",
                  "DUMMY_STEPS", "REGULAR_STEP"},
    dMinTimeStep : (StepLen \ {0}) \cup {dDefaultMinTimeStep},
    dInitialTimeStep : StepLen,
    hardLimit : BOOLEAN,        \* eTimeStepLimit = TS_HARD_LIMIT
    rt : BOOLEAN,               \* there is a pRTSolver
    mayEnd : BOOLEAN ]          \* an element may end or stop the run

(* After reading, MS3 and MS4 keep no strategy but "no change".            *)
ReadData == {i \in InputType : i.startup > 1 => i.strategy = "no change"}

ASSUME SolverAssumption ==
  /\ Inputs \subseteq ReadData
  /\ MaxTimeSteps \subseteq StepLen
  /\ DriveSteps \subseteq StepLen
  /\ IterCounts \subseteq Nat
  /\ FinalTime \in Nat \ {0}
  /\ DummyStep \in StepLen
  /\ AbortStep \in Nat
  /\ \A n \in 1 .. Len(EigTimes) : EigTimes[n] \in Int
  /\ \A n, m \in 1 .. Len(EigTimes) : n < m => EigTimes[n] < EigTimes[m]
  /\ EigTimes \in Seq(Int)
  /\ UseMultithread \in BOOLEAN

VARIABLES
  input,        \* the input file, chosen once
  pc,           \* where the run is
  outcome,      \* how the run ended, "none" while it goes on
  eStatus,
  iSubStep,     \* dummy steps done
  stage,        \* start-up step to do, startup + 1 for a regular step
  lStep,
  dTime,
  dFinalTime,
  dRefTimeStep,
  dCurrTimeStep,
  CurrStep,
  tsc,          \* *pTSC
  bSolConv,
  lastOutput,   \* the last record written by DataManager::Output
  currAnalysis, \* EigAn.currAnalysis, as a position in EigTimes
  currAnalysisIndex,
  eigDone,      \* eigenanalyses done: position, file number, time
  keepGoing,    \* mbdyn_keep_going
  handler,      \* the handler installed for each signal
  afterStop     \* steps completed since a stop was requested (history)

stepVars == <<eStatus, stage, lStep, dTime, dFinalTime, dRefTimeStep,
              dCurrTimeStep, CurrStep, tsc>>
eigVars == <<currAnalysis, currAnalysisIndex, eigDone>>
outVars == <<bSolConv, lastOutput, afterStop>>
signalVars == <<keepGoing, handler>>
vars == <<input, pc, outcome, iSubStep, stepVars, eigVars, outVars, signalVars>>

-----------------------------------------------------------------------------

STOP_AT_END_OF_TIME_STEP == 1
STOP_AT_END_OF_ITERATION == 2
STOP_NOW == 3

stopAtEndOfTimeStep == keepGoing >= STOP_AT_END_OF_TIME_STEP
stopAtEndOfIteration == keepGoing >= STOP_AT_END_OF_ITERATION

Finish(how) == pc' = "Done" /\ outcome' = how
GoTo(label) == pc' = label /\ UNCHANGED outcome

(* Output(lStep, time, dt, ..., bSolConv).                                 *)
Output(n, t, h, conv) ==
  lastOutput' = [step |-> n, time |-> t, dt |-> h, solConv |-> conv]

\* Mutant of EigAnTime: an analysis due exactly now has to wait.
EigAnTimeLate(when, dTimeEigAn, dTimeCurr) ==
  CASE when \in {"BeforeNow", "UntilNow"} -> dTimeEigAn < dTimeCurr
    [] when = "ExactlyNow" -> dTimeEigAn = dTimeCurr
    [] when = "AllRemaining" -> TRUE

\* The four predicates on the time of an analysis.
EigAnTime(when, dTimeEigAn, dTimeCurr) ==
  CASE when = "BeforeNow" -> dTimeEigAn < dTimeCurr
    [] when = "UntilNow" -> dTimeEigAn <= dTimeCurr
    [] when = "ExactlyNow" -> dTimeEigAn = dTimeCurr
    [] when = "AllRemaining" -> TRUE

(* EigAll: EigNext repeated.  The first analysis that is due is performed, *)
(* every other one due at the same time is passed over, and the number of  *)
(* analyses performed grows by one.                                        *)
EigAll(when, now) ==
  LET Due(n) == EigAnTime(when, EigTimes[n], now)
      N == Len(EigTimes)
  IN IF currAnalysis <= N /\ Due(currAnalysis)
     THEN /\ \E n \in currAnalysis + 1 .. N + 1 :
               /\ \A m \in currAnalysis .. n - 1 : Due(m)
               /\ n <= N => ~Due(n)
               /\ currAnalysis' = n
          /\ currAnalysisIndex' = currAnalysisIndex + 1
          /\ eigDone' = eigDone \cup
               {[pos |-> currAnalysis, index |-> currAnalysisIndex,
                 step |-> lStep, since |-> dTime, time |-> now, when |-> when]}
     ELSE UNCHANGED eigVars

Init ==
  /\ input \in Inputs
  /\ pc = "Read"
  /\ outcome = "none"
  /\ eStatus = "UNINITIALIZED"
  /\ iSubStep = 0
  /\ stage = 1
  /\ lStep = 0
  /\ dTime = 0
  /\ dFinalTime = FinalTime
  /\ dRefTimeStep = 0
  /\ dCurrTimeStep = 0
  /\ CurrStep = "NEWSTEP"
  /\ tsc = DefaultController
  /\ bSolConv = FALSE
  /\ lastOutput = [step |-> 0, time |-> 0, dt |-> 0, solConv |-> FALSE]
  /\ currAnalysis = 1
  /\ currAnalysisIndex = 0
  /\ eigDone = {}
  /\ keepGoing = 0
  /\ handler = [s \in Signals |-> "really_exit"]
  /\ afterStop = 0

-----------------------------------------------------------------------------
\* Prepare.

(* From the end of ReadData to the derivatives step.                       *)
PrepareInput ==
  /\ pc = "Read"
  /\ IF input.abortAfter \in {"INPUT", "ASSEMBLY"}
     THEN /\ Output(0, dTime, 0, FALSE)
          /\ Finish("ended")
          /\ UNCHANGED <<eigVars, handler>>
     ELSE /\ EigAll("BeforeNow", dTime)
          /\ handler' = [s \in Signals |-> "final_time"]
          /\ GoTo("Derivatives")
          /\ UNCHANGED lastOutput
  /\ UNCHANGED <<input, iSubStep, stepVars, bSolConv, afterStop, keepGoing>>

(* The derivatives step converges.                                         *)
DerivativesConverge ==
  /\ pc = "Derivatives"
  /\ \E onSolution \in BOOLEAN : bSolConv' = (bSolConv \/ onSolution)
  /\ IF input.abortAfter = "DERIVATIVES" \/ stopAtEndOfTimeStep
     THEN /\ Output(0, dTime, 0, FALSE)
          /\ Finish(IF input.abortAfter = "DERIVATIVES"
                    THEN "ended" ELSE "interrupted")
          /\ UNCHANGED <<eigVars, lStep, dRefTimeStep, dCurrTimeStep>>
     ELSE /\ EigAll("ExactlyNow", dTime)
          /\ lStep' = 1
          /\ IF input.dummies > 0
             THEN /\ dRefTimeStep' = DummyStep
                  /\ dCurrTimeStep' = DummyStep
                  /\ GoTo("Dummy")
             ELSE /\ GoTo("Initial")
                  /\ UNCHANGED <<dRefTimeStep, dCurrTimeStep>>
          /\ UNCHANGED lastOutput
  /\ UNCHANGED <<input, iSubStep, eStatus, stage, dTime, dFinalTime, CurrStep,
                 tsc, afterStop, signalVars>>

(* CheckTimeStepLimit throws at every residual when the limit is hard,     *)
(* unless the derivatives are being computed.                              *)
OverHardLimit(dMax) ==
  /\ input.hardLimit
  /\ dCurrTimeStep > dMax
  /\ dCurrTimeStep > input.dMinTimeStep

(* A dummy step converges; none is ever retried.  The time after an        *)
(* interrupted dummy step is not used any more.                            *)
DummyStepConverges ==
  /\ pc = "Dummy"
  /\ \E dMax \in MaxTimeSteps : ~OverHardLimit(dMax)
  /\ \E onSolution \in BOOLEAN : bSolConv' = (bSolConv \/ onSolution)
  /\ iSubStep' = iSubStep + 1
  /\ dTime' = dTime + dRefTimeStep
  /\ IF stopAtEndOfTimeStep
     THEN Finish("interrupted")
     ELSE GoTo(IF iSubStep' < input.dummies THEN "Dummy" ELSE "Initial")
  /\ UNCHANGED <<input, eStatus, stage, lStep, dFinalTime, dRefTimeStep,
                 dCurrTimeStep, CurrStep, tsc, eigVars, lastOutput, afterStop,
                 signalVars>>

SolveFailures == {"NoConvergence", "ErrSimulationDiverged", "ErrFactor"}

\* The exception Solver throws for a failure it cannot cure.
Thrown(failure) ==
  IF failure = "NoConvergence" THEN "ErrMaxIterations" ELSE "SimulationDiverged"

(* The derivatives step or a dummy step fails.                             *)
PrepareFails ==
  /\ pc \in {"Derivatives", "Dummy"}
  /\ \E failure \in SolveFailures :
       /\ Finish(Thrown(failure))
       /\ IF failure = "NoConvergence"
          THEN Output(0, dTime, IF pc = "Dummy" THEN dCurrTimeStep ELSE 0,
                      FALSE)
          ELSE UNCHANGED lastOutput
  /\ UNCHANGED <<input, iSubStep, stepVars, eigVars, bSolConv, afterStop,
                 signalVars>>

(* The initial conditions are written; the run may end here.               *)
OutputInitial ==
  /\ pc = "Initial"
  /\ Output(0, dTime, dCurrTimeStep, bSolConv)
  /\ IF input.abortAfter = "DUMMY_STEPS"
     THEN Finish("ended") /\ UNCHANGED eStatus
     ELSE IF stopAtEndOfTimeStep
     THEN Finish("interrupted") /\ UNCHANGED eStatus
     ELSE GoTo("Start") /\ eStatus' = "PREPARED"
  /\ UNCHANGED <<input, iSubStep, stage, lStep, dTime, dFinalTime, dRefTimeStep,
                 dCurrTimeStep, CurrStep, tsc, bSolConv, eigVars, afterStop,
                 signalVars>>

-----------------------------------------------------------------------------
\* Start and Advance.

IsRegular == stage > input.startup
IsFirst == stage = 1 /\ ~IsRegular

\* Mutant of Start: the step of the dummy steps is not replaced.
StartKeepsDummyStep ==
  /\ pc = "Start"
  /\ lStep' = 0
  /\ dRefTimeStep' = input.dInitialTimeStep
  /\ tsc' = InitController(input.strategy, input.dMinTimeStep,
                           input.dInitialTimeStep)
  /\ eStatus' = IF IsRegular THEN "STARTED" ELSE eStatus
  /\ GoTo("Step")
  /\ UNCHANGED <<input, iSubStep, stage, dTime, dFinalTime, dCurrTimeStep, CurrStep,
                 eigVars, outVars, signalVars>>

(* Start: the strategy is initialised, which may reject the input; without *)
(* start-up steps the solver is started at once.                           *)
Start ==
  /\ pc = "Start"
  /\ eStatus = "PREPARED"
  /\ lStep' = 0
  /\ dRefTimeStep' = input.dInitialTimeStep
  /\ dCurrTimeStep' = input.dInitialTimeStep
  /\ tsc' = InitController(input.strategy, input.dMinTimeStep,
                           input.dInitialTimeStep)
  /\ \E dMax \in MaxTimeSteps :
       IF AcceptedByInit(input.strategy, input.dMinTimeStep, dMax,
                         input.dInitialTimeStep)
       THEN GoTo("Step")
       ELSE Finish("ErrGeneric")
  /\ eStatus' = IF IsRegular THEN "STARTED" ELSE eStatus
  /\ UNCHANGED <<input, iSubStep, stage, dTime, dFinalTime, CurrStep, eigVars,
                 outVars, signalVars>>

(* The first start-up step begins, whatever was requested meanwhile.       *)
BeginFirstStep ==
  /\ pc = "Step"
  /\ IsFirst
  /\ lStep' = lStep + 1
  /\ dRefTimeStep' = input.dInitialTimeStep
  /\ dCurrTimeStep' = input.dInitialTimeStep
  /\ CurrStep' = "NEWSTEP"
  /\ GoTo("Attempt")
  /\ UNCHANGED <<input, iSubStep, eStatus, stage, dTime, dFinalTime, tsc, eigVars,
                 outVars, signalVars>>

\* "abort after : regular step" ends the simulation where it is.
FinalTimeNow ==
  IF /\ IsRegular
     /\ input.abortAfter = "REGULAR_STEP"
     /\ lStep >= AbortStep + input.startup
  THEN dTime ELSE dFinalTime

(* What every step but the first finds on its way: the end of the          *)
(* simulation, after which Advance performs the remaining eigenanalyses... *)
EndSimulation ==
  /\ pc = "Step"
  /\ ~IsFirst
  /\ input.mayEnd \/ dTime >= FinalTimeNow
  /\ CurrStep' = "NEWSTEP"
  /\ dFinalTime' = FinalTimeNow
  /\ IF IsRegular THEN EigAll("AllRemaining", dTime) ELSE UNCHANGED eigVars
  /\ Finish("ended")
  /\ UNCHANGED <<input, iSubStep, eStatus, stage, lStep, dTime, dRefTimeStep,
                 dCurrTimeStep, tsc, outVars, signalVars>>

\* ...a stop commanded by the real-time task...
StopByRT ==
  /\ pc = "Step"
  /\ ~IsFirst
  /\ dTime < FinalTimeNow
  /\ input.rt
  /\ CurrStep' = "NEWSTEP"
  /\ Finish("stopped")
  /\ UNCHANGED <<input, iSubStep, eStatus, stage, lStep, dTime, dFinalTime,
                 dRefTimeStep, dCurrTimeStep, tsc, eigVars, outVars, signalVars>>

\* ...or one requested by a signal...
Interrupt ==
  /\ pc = "Step"
  /\ ~IsFirst
  /\ dTime < FinalTimeNow
  /\ stopAtEndOfTimeStep
  /\ CurrStep' = "NEWSTEP"
  /\ Finish("interrupted")
  /\ UNCHANGED <<input, iSubStep, eStatus, stage, lStep, dTime, dFinalTime,
                 dRefTimeStep, dCurrTimeStep, tsc, eigVars, outVars, signalVars>>

\* Mutant of BeginStep: the stop request is not looked at.
BeginStepAnyway ==
  /\ pc = "Step" /\ ~IsFirst /\ dTime < FinalTimeNow
  /\ lStep' = lStep + 1
  /\ CurrStep' = "NEWSTEP"
  /\ GoTo("Attempt")
  /\ UNCHANGED <<input, iSubStep, eStatus, stage, dTime, dFinalTime, dRefTimeStep,
                 dCurrTimeStep, tsc, eigVars, outVars, signalVars>>

\* Mutant of BeginStep: a repeated step stays one to be repeated.
BeginStepStillRepeated ==
  /\ pc = "Step" /\ ~IsFirst /\ dTime < FinalTimeNow /\ ~stopAtEndOfTimeStep
  /\ lStep' = lStep + 1
  /\ GoTo("Attempt")
  /\ UNCHANGED <<input, iSubStep, eStatus, stage, dTime, dFinalTime, dRefTimeStep,
                 dCurrTimeStep, CurrStep, tsc, eigVars, outVars, signalVars>>

\* ...and if none of them, the step begins.
BeginStep ==
  /\ pc = "Step"
  /\ ~IsFirst
  /\ dTime < FinalTimeNow
  /\ ~stopAtEndOfTimeStep
  /\ lStep' = lStep + 1
  /\ CurrStep' = "NEWSTEP"
  /\ GoTo("Attempt")
  /\ UNCHANGED <<input, iSubStep, eStatus, stage, dTime, dFinalTime, dRefTimeStep,
                 dCurrTimeStep, tsc, eigVars, outVars, signalVars>>

\* The states dGetNewStepTime may leave the strategy in.
NewStepTimes(why, iIters) ==
  {dGetNewStepTime(input.strategy, tsc, why, iIters, dNewStep, dMax) :
     dNewStep \in DriveSteps, dMax \in MaxTimeSteps}

(* The attempt converges, on the residual or on the solution: output and   *)
(* the count of the steps completed after a stop was requested.            *)
StepConverges ==
  /\ pc = "Attempt"
  /\ \E dMax \in MaxTimeSteps : ~OverHardLimit(dMax)
  /\ \E onSolution \in BOOLEAN :
       Output(lStep, dTime + dCurrTimeStep, dCurrTimeStep, bSolConv \/ onSolution)
  /\ afterStop' = IF stopAtEndOfTimeStep THEN afterStop + 1 ELSE afterStop

(* The first step converges after a stop was requested: out at once.       *)
FirstStepInterrupted ==
  /\ StepConverges
  /\ IsFirst
  /\ stopAtEndOfTimeStep
  /\ bSolConv' = lastOutput'.solConv
  /\ Finish("interrupted")
  /\ UNCHANGED <<input, iSubStep, stepVars, eigVars, signalVars>>

(* The step is accepted: time moves on by it, the eigenanalyses due by now *)
(* are performed and the strategy chooses the next step.                   *)
AcceptStep ==
  /\ StepConverges
  /\ ~(IsFirst /\ stopAtEndOfTimeStep)
  /\ bSolConv' = FALSE
  /\ dRefTimeStep' = dCurrTimeStep
  /\ dTime' = dTime + dCurrTimeStep
  /\ EigAll("UntilNow", dTime')
  /\ \E iIters \in IterCounts : \E c \in NewStepTimes(CurrStep, iIters) :
       /\ tsc' = c
       /\ dCurrTimeStep' = c.dCurrTimeStep
  /\ stage' = IF IsRegular THEN stage ELSE stage + 1
  /\ eStatus' = IF stage >= input.startup THEN "STARTED" ELSE eStatus
  /\ GoTo("Step")
  /\ UNCHANGED <<input, iSubStep, lStep, dFinalTime, CurrStep, signalVars>>

(* bReduceTimeStep up to its test: unless the step is already at the       *)
(* minimum, the strategy is told that the step is to be repeated.          *)
AskReduction ==
  /\ dCurrTimeStep > input.dMinTimeStep
  /\ CurrStep' = "REPEATSTEP"
  /\ \E c \in NewStepTimes("REPEATSTEP", 0) :
       /\ tsc' = c
       /\ dCurrTimeStep' = c.dCurrTimeStep

\* Mutant of RetryStep: any change of the step is taken for a reduction.
RetryStepOnAnyChange ==
  /\ pc = "Attempt"
  /\ AskReduction
  /\ dCurrTimeStep' # dCurrTimeStep
  /\ UNCHANGED <<input, pc, outcome, iSubStep, eStatus, stage, lStep, dTime,
                 dFinalTime, dRefTimeStep, eigVars, outVars, signalVars>>

\* Mutant of RetryStep: the rejected step becomes the reference step.
RetryStepMovesReference ==
  /\ pc = "Attempt"
  /\ AskReduction
  /\ dCurrTimeStep' < dCurrTimeStep
  /\ dRefTimeStep' = dCurrTimeStep
  /\ UNCHANGED <<input, pc, outcome, iSubStep, eStatus, stage, lStep, dTime,
                 dFinalTime, eigVars, outVars, signalVars>>

(* The attempt fails and the step is repeated with a shorter one.          *)
RetryStep ==
  /\ pc = "Attempt"
  /\ AskReduction
  /\ dCurrTimeStep' < dCurrTimeStep
  /\ UNCHANGED <<input, pc, outcome, iSubStep, eStatus, stage, lStep, dTime,
                 dFinalTime, dRefTimeStep, eigVars, outVars, signalVars>>

(* The attempt fails and the step cannot be reduced: the run aborts, the   *)
(* first step, which is in Start, writing what it has as step 0.           *)
AbortRun ==
  /\ pc = "Attempt"
  /\ \/ AskReduction /\ ~(dCurrTimeStep' < dCurrTimeStep)
     \/ /\ dCurrTimeStep <= input.dMinTimeStep
        /\ UNCHANGED <<CurrStep, tsc, dCurrTimeStep>>
  /\ \E failure \in SolveFailures :
       /\ Finish(Thrown(failure))
       /\ IF IsFirst /\ failure = "NoConvergence"
          THEN Output(0, dTime, dCurrTimeStep', bSolConv)
          ELSE UNCHANGED lastOutput
  /\ UNCHANGED <<input, iSubStep, eStatus, stage, lStep, dTime, dFinalTime,
                 dRefTimeStep, eigVars, bSolConv, afterStop, signalVars>>

Solving == pc \in {"Derivatives", "Dummy", "Attempt"}

(* An element throws EndOfSimulation while the problem is being solved.    *)
SolveEndsSimulation ==
  /\ Solving
  /\ input.mayEnd
  /\ Finish("ended")
  /\ UNCHANGED <<input, iSubStep, stepVars, eigVars, outVars, signalVars>>

(* An element asks for a stop, as the external forces do when their peer   *)
(* leaves; unlike a signal it leaves the handlers alone.                   *)
mbdyn_set_stop ==
  /\ Solving
  /\ input.mayEnd
  /\ keepGoing' \in {STOP_AT_END_OF_TIME_STEP, STOP_AT_END_OF_ITERATION}
  /\ UNCHANGED <<input, pc, outcome, iSubStep, stepVars, eigVars, outVars, handler>>

(* NewtonRaphsonSolver::Solve gives up at the end of an iteration.         *)
SolveInterrupted ==
  /\ Solving
  /\ stopAtEndOfIteration
  /\ Finish("interrupted")
  /\ UNCHANGED <<input, iSubStep, stepVars, eigVars, outVars, signalVars>>

-----------------------------------------------------------------------------
\* The signal handlers, each for the signal it was installed for.

mbdyn_modify_final_time_handler(s) ==
  /\ handler[s] = "final_time"
  /\ keepGoing' = STOP_AT_END_OF_TIME_STEP
  /\ handler' = [handler EXCEPT ![s] = "last_iteration"]
  /\ UNCHANGED <<pc, outcome>>

mbdyn_modify_last_iteration_handler(s) ==
  /\ handler[s] = "last_iteration"
  /\ keepGoing' = STOP_AT_END_OF_ITERATION
  /\ handler' = IF UseMultithread THEN handler
                ELSE [handler EXCEPT ![s] = "really_exit"]
  /\ UNCHANGED <<pc, outcome>>

mbdyn_really_exit_handler(s) ==
  /\ handler[s] = "really_exit"
  /\ keepGoing' = STOP_NOW
  /\ Finish("exited")
  /\ UNCHANGED handler

Signal(s) ==
  /\ pc # "Done"
  /\ \/ mbdyn_modify_final_time_handler(s)
     \/ mbdyn_modify_last_iteration_handler(s)
     \/ mbdyn_really_exit_handler(s)
  /\ UNCHANGED <<input, iSubStep, stepVars, eigVars, outVars>>

-----------------------------------------------------------------------------

Prepare == \/ PrepareInput \/ DerivativesConverge \/ DummyStepConverges
           \/ PrepareFails \/ OutputInitial

Advance == \/ BeginFirstStep \/ EndSimulation \/ StopByRT \/ Interrupt
           \/ BeginStep \/ FirstStepInterrupted \/ AcceptStep \/ RetryStep
           \/ AbortRun

Run == Prepare \/ Start \/ Advance \/ SolveEndsSimulation \/ SolveInterrupted

Next == Run \/ mbdyn_set_stop \/ \E s \in Signals : Signal(s)

Spec == Init /\ [][Next]_vars

(* The run goes on by itself: every attempt at a step returns, since the   *)
(* iterations of the nonlinear solvers are bounded.  No signal is due.     *)
FairSpec == Spec /\ WF_vars(Run)

-----------------------------------------------------------------------------
\* Properties.

Labels == {"Read", "Derivatives", "Dummy", "Initial", "Start", "Step",
           "Attempt", "Done"}
Outcomes == {"none", "ended", "stopped", "interrupted", "exited", "ErrGeneric",
             "ErrMaxIterations", "SimulationDiverged"}

(* The type of every variable, and the minimum "factor" works with.        *)
RunTypeOK ==
  /\ input \in Inputs
  /\ pc \in Labels
  /\ outcome \in Outcomes
  /\ iSubStep \in Nat

StepTypeOK ==
  /\ eStatus \in {"UNINITIALIZED", "PREPARED", "STARTED"}
  /\ stage \in 1 .. 4
  /\ lStep \in Nat
  /\ dTime \in Nat
  /\ dFinalTime \in Nat
  /\ dRefTimeStep \in StepLen
  /\ dCurrTimeStep \in StepLen
  /\ CurrStep \in {"NEWSTEP", "REPEATSTEP"}
  /\ tsc \in Controllers

MinimumIsSet ==
  input.strategy = "factor" /\ pc \in {"Step", "Attempt"}
    => tsc.dMinTimeStep # dDefaultMinTimeStep

EigTypeOK ==
  /\ currAnalysis \in 1 .. Len(EigTimes) + 1
  /\ currAnalysisIndex \in Nat
  /\ eigDone \subseteq [pos : 1 .. Len(EigTimes), index : Nat, step : Nat,
                        since : Nat, time : Nat,
                        when : {"BeforeNow", "UntilNow", "ExactlyNow", "AllRemaining"}]

OutputTypeOK ==
  /\ bSolConv \in BOOLEAN
  /\ lastOutput \in [step : Nat, time : Nat, dt : StepLen, solConv : BOOLEAN]
  /\ afterStop \in Nat

SignalTypeOK ==
  /\ keepGoing \in 0 .. 3
  /\ handler \in [Signals -> {"final_time", "last_iteration", "really_exit"}]

TypeOK == RunTypeOK /\ StepTypeOK /\ MinimumIsSet /\ EigTypeOK /\ OutputTypeOK
            /\ SignalTypeOK

(* The step the solver is about to solve, or is solving, is the one its    *)
(* strategy holds: the two copies, in Solver and in TimeStepControl, are   *)
(* assigned in eight places and must agree whenever one of them is read.   *)
SameTimeStep ==
  pc \in {"Step", "Attempt"} => tsc.dCurrTimeStep = dCurrTimeStep

(* The output follows the time: between two steps the last record written  *)
(* is that of the last step, at the current time and with the reference    *)
(* step of the next prediction; during a step, however often it is         *)
(* repeated, it is still that of the step before, and when the run aborts  *)
(* it has its number and its time, also if the first step, giving up, has  *)
(* written another.  So a rejected step leaves no trace, and the step      *)
(* ratio handed to the integrator always refers to an accepted step.       *)
OutputFollowsTime ==
  /\ pc = "Step" => /\ lastOutput.step = lStep
                    /\ lastOutput.time = dTime
                    /\ lStep > 0 => lastOutput.dt = dRefTimeStep
  /\ pc = "Attempt" => /\ lastOutput.step + 1 = lStep
                       /\ lastOutput.time = dTime
                       /\ lStep > 1 => lastOutput.dt = dRefTimeStep
  /\ eStatus # "UNINITIALIZED" /\ outcome \in {"ErrMaxIterations", "SimulationDiverged"}
       => lastOutput.step + 1 = lStep /\ lastOutput.time = dTime

(* After a stop is requested, at most one more step is completed, whatever *)
(* the phase in which the signal arrives.                                  *)
AtMostOneStepAfterStop == afterStop <= 1

(* How far below the minimum "factor" can go, whatever the sequence of     *)
(* failures, acceptances and raises: a repeated step is at most one        *)
(* reduction below it, and a step chosen after a repeated one was accepted *)
(* at most two, because the mark that the step was repeated and the last   *)
(* chance both outlive the repetition.                                     *)
UndershootBounded ==
  /\ input.strategy = "factor"
  /\ input.dMinTimeStep # dDefaultMinTimeStep
  /\ pc \in {"Step", "Attempt"}
  => /\ dCurrTimeStep >= Reduced[Reduced[input.dMinTimeStep]]
     /\ pc = "Attempt" /\ CurrStep = "REPEATSTEP"
          => dCurrTimeStep >= Reduced[input.dMinTimeStep]

(* "factor" does not give up a step above the minimum: bReduceTimeStep and *)
(* the last-chance flag between them try the minimum itself, or a step     *)
(* below it, before the run aborts.                                        *)
AbortOnlyAtMinimum ==
  [][/\ pc = "Attempt"
     /\ input.strategy = "factor"
     /\ outcome' \in {"ErrMaxIterations", "SimulationDiverged"}
     => dCurrTimeStep <= tsc.dMinTimeStep]_vars

(* An analysis is performed at the first step that reaches its time, in    *)
(* order, none twice, and between two steps none is overdue.               *)
EigOnTime ==
  /\ \A e \in eigDone : e.when = "UntilNow" =>
       /\ EigTimes[e.pos] <= e.time
       /\ EigTimes[e.pos] > e.since \/ e.step = 1
  /\ \A e, f \in eigDone : e.index < f.index => e.pos < f.pos
  /\ \A e \in eigDone : e.pos < currAnalysis /\ e.index < currAnalysisIndex
  /\ pc = "Step" /\ lStep > 0 /\ currAnalysis <= Len(EigTimes)
       => EigTimes[currAnalysis] > dTime

(* Every run comes to an end: the retries of a step are finitely many and  *)
(* the final time is reached, or a stop, an end or an abort comes first.   *)
Terminates == <>(pc = "Done")
=============================================================================
