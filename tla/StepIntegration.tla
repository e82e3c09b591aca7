--------------------------- MODULE StepIntegration ---------------------------
(* The history of the solution: the queues of previous states that Solver   *)
(* keeps (qX, qXPrime, Flip in mbdyn/base/solver.h), the step integrators   *)
(* that predict from them (stepsol_tpl.h, singlestepsol_tpl.h,              *)
(* multistagestepsol_tpl.h) and the orientations a structural node keeps    *)
(* besides (struct/strnode.cc), through derivatives, dummy steps, start-up  *)
(* steps, stages and steps that are repeated.                               *)
(*                                                                          *)
(* A solution is known by the step, the attempt and the stage it was        *)
(* computed for.  The rotation parameters of a node in a vector are not     *)
(* total: they are the rotation between two such solutions.                 *)
EXTENDS Integers, Sequences, SequencesExt

CONSTANTS
  Inputs,      \* what the input file chooses
  MaxSteps,    \* regular steps, a bound of the model
  MaxTries     \* attempts at a step, a bound of the model

(* The implicit integrators, with the previous states they read, and the    *)
(* multistage ones, with their stages.                                      *)
StepN ==
  [INT_IMPLICITEULER |-> 1, INT_CRANKNICOLSON |-> 1, INT_MS2 |-> 2, INT_HOPE |-> 2,
   INT_HYBRID |-> 2, INT_MS3 |-> 3, INT_MS4 |-> 4]
StageN ==
  [INT_BATHE |-> 2, INT_MSSTC3 |-> 3, INT_MSSTH3 |-> 3, INT_DIRK33 |-> 3, INT_MSSTC4 |-> 4,
   INT_MSSTH4 |-> 4, INT_DIRK43 |-> 4, INT_MSSTC5 |-> 5, INT_MSSTH5 |-> 5, INT_DIRK54 |-> 5]
SingleStep == {"INT_SS2", "INT_SS3", "INT_SS4"}
RegularTypes == DOMAIN StepN \cup DOMAIN StageN \cup SingleStep

(* What the parser accepts; bSolConvThrows says that the nonlinear solver   *)
(* is one that throws ConvergenceOnSolution (gmres.cc, bicg.cc).            *)
InputType ==
  [iDummyStepsNumber : Nat, DummyType : RegularTypes \ {"INT_HYBRID"},
   RegularType : RegularTypes, bSolConvThrows : BOOLEAN]

ASSUME StepAssumption ==
  /\ Inputs \subseteq InputType
  /\ MaxSteps \in Nat \ {0}
  /\ MaxTries \in Nat \ {0}

(* Of each type the previous states it asks for, and the start-up steps:    *)
(* one of each order below its own.                                         *)
NumPreviousStates(type) ==
  CASE type \in DOMAIN StepN -> StepN[type]
    [] type \in SingleStep -> 2
    [] OTHER -> 1

(* A mutation of StartUpSteps that forgets the last of them.                *)
StartUpStepsOneLess(type) ==
  IF type \in DOMAIN StepN /\ StepN[type] > 2 THEN StepN[type] - 2 ELSE 0

StartUpSteps(type) == IF type \in DOMAIN StepN THEN StepN[type] - 1 ELSE 0

(* A mutation of VariableStep with every type, as its TODO has it.          *)
VariableStepEvery == RegularTypes

(* The types ReadData leaves the time step control strategy to; with any    *)
(* other the step does not change, and a step that fails ends the run.      *)
VariableStep ==
  {"INT_IMPLICITEULER", "INT_CRANKNICOLSON", "INT_MS2", "INT_HOPE", "INT_HYBRID"}

NPREV == 4

(* Solutions.                                                               *)
Solution(step, try, stage) == [step |-> step, try |-> try, stage |-> stage]
Nothing == Solution(-1, 0, 0)   \* a vector after Reset
Mixed == Solution(-1, 0, 1)     \* computed from solutions that do not belong together
InitialState == Solution(0, 0, 0)

(* A vector: whose positions it has, and of what rotation its parameters    *)
(* are.  No rotation is written as that of a solution from itself.          *)
Vector(x, from, to) == [x |-> x, from |-> from, to |-> to]
Still(x) == Vector(x, x, x)

VARIABLES
  input,
  pc,
  step, try, stage,   \* where the run is: steps count dummy and regular ones
  CurrStep,           \* NEWSTEP or REPEATSTEP
  X, XPrime,          \* pX, pXPrime
  qX, qXPrime,        \* the previous states, latest first
  node,               \* what the nodes and elements were last set to
  qPrev,              \* qRPrev and qWPrev of a node, latest first
  committed,          \* the solution elements saw in their AfterConvergence
  time,               \* the step, attempt and stage the drives have the time of
  bStep,              \* m_bStep of HOPE
  inte,               \* the intermediate variables of a single-step integrator
  mX, mXP,            \* the stages of a multistage integrator, after the first state
  mqX,                \* m_qXPr: of 0, the previous state, and the stages
  read,               \* history: the vectors the last prediction was made from
  accepted,           \* history: the solutions accepted, latest first
  thrown              \* history: in what ConvergenceOnSolution was thrown

solver == <<input, step, try, CurrStep>>
vectors == <<X, XPrime, qX, qXPrime>>
model == <<node, qPrev, committed, time>>
integrator == <<bStep, inte, mX, mXP, mqX>>
vars == <<solver, pc, stage, vectors, model, integrator, read, accepted, thrown>>

(* The start-up of a dummy integrator is done whatever the number of dummy  *)
(* steps.                                                                   *)
DummySteps ==
  IF input.iDummyStepsNumber = 0 THEN 0
  ELSE IF StartUpSteps(input.DummyType) > input.iDummyStepsNumber
       THEN StartUpSteps(input.DummyType)
       ELSE input.iDummyStepsNumber
IsDummy == step <= DummySteps
Type == IF IsDummy THEN input.DummyType ELSE input.RegularType
Place == IF IsDummy THEN step ELSE step - DummySteps
IsStartUp == Place <= StartUpSteps(Type)
Stages == IF Type \in DOMAIN StageN THEN StageN[Type] ELSE 1
iNumPreviousVectors ==
  LET r == NumPreviousStates(input.RegularType)
      d == IF input.iDummyStepsNumber = 0 THEN 0 ELSE NumPreviousStates(input.DummyType)
  IN IF r < d THEN d ELSE r

(* The current solution.                                                    *)
Current == Solution(step, try, stage)

Init ==
  /\ input \in Inputs
  /\ pc = "Derivatives"
  /\ step = 0 /\ try = 1 /\ stage = 1
  /\ CurrStep = "NEWSTEP"
  /\ X = Still(InitialState) /\ XPrime = Still(InitialState)
  /\ qX = [n \in 1 .. iNumPreviousVectors |-> Still(Nothing)]
  /\ qXPrime = [n \in 1 .. iNumPreviousVectors |-> Still(Nothing)]
  /\ node = InitialState
  /\ qPrev = [n \in 1 .. NPREV |-> InitialState]
  /\ committed = InitialState
  /\ time = InitialState
  /\ bStep = 0 /\ inte = Nothing
  /\ mX = <<>> /\ mXP = <<>> /\ mqX = <<>>
  /\ read = <<>> /\ accepted = <<InitialState>> /\ thrown = {}

-----------------------------------------------------------------------------
(* The derivatives are solved on copies of pX and pXPrime.                  *)
SolveDerivatives ==
  /\ pc = "Derivatives"
  /\ node' = Current
  /\ pc' = "Derived"
  /\ UNCHANGED <<solver, stage, vectors, qPrev, committed, time, integrator, read, accepted, thrown>>

DerivativesConverge ==
  /\ pc = "Derived"
  /\ committed' = node
  /\ X' = Vector(Current, Current, Nothing) /\ XPrime' = X'
  /\ accepted' = <<Current>>
  /\ pc' = "Idle"
  /\ UNCHANGED <<solver, stage, qX, qXPrime, node, qPrev, time, integrator, read, thrown>>

(* Another coefficient is tried; DerivativesUpdate sets the nodes back.     *)
RepeatDerivatives ==
  /\ pc = "Derived" /\ try < MaxTries
  /\ try' = try + 1
  /\ node' = X.x
  /\ pc' = "Derivatives"
  /\ UNCHANGED <<input, step, CurrStep, stage, vectors, qPrev, committed, time, integrator,
                 read, accepted, thrown>>

(* The exception passes through the clause that only relinks pX, and Solver *)
(* takes it for convergence.                                                *)
DerivativesConvergeOnSolution ==
  /\ pc = "Derived" /\ input.bSolConvThrows
  /\ accepted' = <<Current>>
  /\ thrown' = thrown \cup {"derivatives"}
  /\ pc' = "Idle"
  /\ UNCHANGED <<solver, stage, vectors, model, integrator, read>>

-----------------------------------------------------------------------------
(* BeforePredict of a node, called before Flip: the rotations of the        *)
(* previous states are made relative to the current one.  The last of the   *)
(* queue is left out, as Flip makes it the first.                           *)
Relative(q) ==
  [n \in DOMAIN q |-> IF n < Len(qX) THEN Vector(q[n].x, qPrev[n], node) ELSE q[n]]

(* With more derivatives than states, which is how a node recognizes a      *)
(* single-step integrator, the last derivatives get the angular velocity    *)
(* itself.                                                                  *)
RelativeDerivatives ==
  IF Len(qX) = 1 /\ Len(qXPrime) > 1
  THEN [qXPrime EXCEPT ![1] = Vector(@.x, qPrev[1], qPrev[1])]
  ELSE Relative(qXPrime)

Flip(q, x) == <<x>> \o Front(q)

(* A node keeps its present orientation as the previous one.                *)
Remember == qPrev' = <<node>> \o Front(qPrev)

(* A mutation of BeginStep in which a step after a repeated one is not new. *)
BeginStepStillRepeated ==
  /\ pc = "Idle" /\ step < DummySteps + MaxSteps /\ qX # <<>>
  /\ X' = Vector(X.x, node, node) /\ XPrime' = Vector(XPrime.x, node, node)
  /\ qX' = Flip(Relative(qX), X') /\ qXPrime' = Flip(RelativeDerivatives, XPrime')
  /\ Remember
  /\ step' = step + 1 /\ try' = 1 /\ stage' = 1
  /\ UNCHANGED CurrStep
  /\ IF step = DummySteps
     THEN bStep' = 0 /\ inte' = Nothing /\ mX' = <<>> /\ mXP' = <<>> /\ mqX' = <<>>
     ELSE UNCHANGED integrator
  /\ pc' = "SetTime"
  /\ UNCHANGED <<input, node, committed, time, read, accepted, thrown>>

(* Solver begins a step: BeforePredict and Flip.  The regular steps have    *)
(* integrators of their own.                                                *)
BeginStep ==
  /\ pc = "Idle" /\ step < DummySteps + MaxSteps /\ qX # <<>>
  /\ X' = Vector(X.x, node, node) /\ XPrime' = Vector(XPrime.x, node, node)
  /\ qX' = Flip(Relative(qX), X') /\ qXPrime' = Flip(RelativeDerivatives, XPrime')
  /\ Remember
  /\ step' = step + 1 /\ try' = 1 /\ stage' = 1
  /\ CurrStep' = "NEWSTEP"
  /\ IF step = DummySteps
     THEN bStep' = 0 /\ inte' = Nothing /\ mX' = <<>> /\ mXP' = <<>> /\ mqX' = <<>>
     ELSE UNCHANGED integrator
  /\ pc' = "SetTime"
  /\ UNCHANGED <<input, node, committed, time, read, accepted, thrown>>

(* The drives get the time of the end of the step, at every attempt; the    *)
(* loop on the dummy steps calls SetTime twice.                             *)
EndOfStep == Solution(step, try, Stages)
SetTime ==
  /\ pc \in {"SetTime", "SetTimeAgain"}
  /\ time' = EndOfStep
  /\ pc' = IF pc = "SetTime" /\ IsDummy /\ ~IsStartUp THEN "SetTimeAgain" ELSE "Advance"
  /\ UNCHANGED <<solver, stage, vectors, node, qPrev, committed, integrator, read, accepted, thrown>>

(* LinkToSolution and AfterPredict: the solution moves on, with a rotation  *)
(* from the prediction that only the next BeforePredict replaces.           *)
Predict(solution) ==
  /\ X' = Vector(solution, solution, Nothing) /\ XPrime' = X'
  /\ node' = solution
  /\ pc' = "Solve"

(* StepIntegrator::Advance up to the solution, for the implicit             *)
(* integrators.  The first steps are made by integrators of lower order.    *)
AdvanceStepN ==
  /\ pc = "Advance" /\ Type \in DOMAIN StepN
  /\ LET n == IF IsStartUp THEN Place ELSE StepN[Type] IN
     /\ Len(qX) >= n
     /\ read' = SubSeq(qX, 1, n) \o SubSeq(qXPrime, 1, n)
  /\ bStep' = IF Type = "INT_HOPE" /\ ~IsStartUp /\ CurrStep = "NEWSTEP" THEN 1 - bStep
                                                                       ELSE bStep
  /\ Predict(Current)
  /\ UNCHANGED <<solver, stage, qX, qXPrime, qPrev, committed, time, inte, mX, mXP, mqX,
                 accepted, thrown>>

(* UpdateInte: the intermediate variables of the last step from those of    *)
(* the step before and from the derivatives at both.                        *)
UpdateInte == IF qXPrime[2] = Still(inte) THEN qXPrime[1].x ELSE Mixed

(* A mutation of AdvanceSingleStep that takes the derivatives out as well.  *)
AdvanceSingleStepPopsBoth ==
  /\ pc = "Advance" /\ Type \in SingleStep /\ qX # <<>>
  /\ IF inte = Nothing
     THEN /\ inte' = qXPrime[1].x
          /\ qX' = Front(qX) /\ qXPrime' = Front(qXPrime)
          /\ read' = <<IF Len(qX) = 1 THEN Still(Nothing) ELSE qX[1], qXPrime[1]>>
     ELSE /\ inte' = UpdateInte
          /\ read' = <<qX[1], qXPrime[1]>>
          /\ UNCHANGED <<qX, qXPrime>>
  /\ Predict(Current)
  /\ UNCHANGED <<solver, stage, qPrev, committed, time, bStep, mX, mXP, mqX,
                 accepted, thrown>>

(* A mutation of AdvanceSingleStep that takes a state out every time.       *)
AdvanceSingleStepPopsAlways ==
  /\ pc = "Advance" /\ Type \in SingleStep /\ qX # <<>>
  /\ IF inte = Nothing
     THEN /\ inte' = qXPrime[1].x
          /\ qX' = Front(qX)
          /\ read' = <<IF Len(qX) = 1 THEN Still(Nothing) ELSE qX[1], qXPrime[1]>>
     ELSE /\ inte' = UpdateInte
          /\ read' = <<qX[1], qXPrime[1]>>
          /\ qX' = Front(qX)
  /\ Predict(Current)
  /\ UNCHANGED <<solver, stage, qXPrime, qPrev, committed, time, bStep, mX, mXP, mqX,
                 accepted, thrown>>

(* The first time, a single-step integrator takes the oldest state out of   *)
(* the queue and deletes it, be it the one it is about to read.             *)
AdvanceSingleStep ==
  /\ pc = "Advance" /\ Type \in SingleStep /\ qX # <<>>
  /\ IF inte = Nothing
     THEN /\ inte' = qXPrime[1].x
          /\ qX' = Front(qX)
          /\ read' = <<IF Len(qX) = 1 THEN Still(Nothing) ELSE qX[1], qXPrime[1]>>
     ELSE /\ inte' = UpdateInte
          /\ read' = <<qX[1], qXPrime[1]>>
          /\ UNCHANGED qX
  /\ Predict(Current)
  /\ UNCHANGED <<solver, stage, qXPrime, qPrev, committed, time, bStep, mX, mXP, mqX,
                 accepted, thrown>>

(* The first stage of a multistage integrator, which sets the time back.    *)
AdvanceStages ==
  /\ pc = "Advance" /\ Type \in DOMAIN StageN
  /\ mqX' = <<0>> \o mqX
  /\ mX' = IF mX = <<>> THEN [k \in 1 .. Stages - 1 |-> Still(Nothing)] ELSE mX
  /\ mXP' = IF mX = <<>> THEN mX' ELSE mXP
  /\ time' = [time EXCEPT !.stage = @ - (Stages - 1)]
  /\ read' = <<qX[1], qXPrime[1]>>
  /\ Predict(Current)
  /\ UNCHANGED <<solver, stage, qX, qXPrime, qPrev, committed, bStep, inte, accepted, thrown>>

(* BeforePredict between two stages, on the queue of the stages q: the last *)
(* one is left out.                                                         *)
Relate(q, k, v) ==
  LET places == {n \in 1 .. NPREV : n < Len(q) /\ q[n] = k} IN
  IF places = {} THEN v
  ELSE Vector(v.x, qPrev[CHOOSE n \in places : \A p \in places : p <= n], node)

(* A mutation of NextStage that does not set the time.                      *)
NextStageKeepsTime ==
  /\ pc = "Stage"
  /\ stage' = stage + 1
  /\ mqX' = <<stage - 1>> \o mqX
  /\ qX' = [qX EXCEPT ![1] = Relate(mqX', 0, @)]
  /\ qXPrime' = [qXPrime EXCEPT ![1] = Relate(mqX', 0, @)]
  /\ mX' = [k \in DOMAIN mX |-> IF k = stage THEN Vector(X.x, node, node)
                                             ELSE Relate(mqX', k, mX[k])]
  /\ mXP' = [k \in DOMAIN mXP |-> IF k = stage THEN Vector(XPrime.x, node, node)
                                               ELSE Relate(mqX', k, mXP[k])]
  /\ Remember
  /\ read' = Reverse(SubSeq(mX', 1, stage)) \o <<qX'[1]>>
               \o Reverse(SubSeq(mXP', 1, stage)) \o <<qXPrime'[1]>>
  /\ Predict(Solution(step, try, stage + 1))
  /\ UNCHANGED <<solver, committed, time, bStep, inte, accepted, thrown>>

(* BeforePredict, and the prediction of the next stage from all before it.  *)
NextStage ==
  /\ pc = "Stage"
  /\ stage' = stage + 1
  /\ mqX' = <<stage - 1>> \o mqX
  /\ qX' = [qX EXCEPT ![1] = Relate(mqX', 0, @)]
  /\ qXPrime' = [qXPrime EXCEPT ![1] = Relate(mqX', 0, @)]
  /\ mX' = [k \in DOMAIN mX |-> IF k = stage THEN Vector(X.x, node, node)
                                             ELSE Relate(mqX', k, mX[k])]
  /\ mXP' = [k \in DOMAIN mXP |-> IF k = stage THEN Vector(XPrime.x, node, node)
                                               ELSE Relate(mqX', k, mXP[k])]
  /\ Remember
  /\ time' = [time EXCEPT !.stage = @ + 1]
  /\ read' = Reverse(SubSeq(mX', 1, stage)) \o <<qX'[1]>>
               \o Reverse(SubSeq(mXP', 1, stage)) \o <<qXPrime'[1]>>
  /\ Predict(Solution(step, try, stage + 1))
  /\ UNCHANGED <<solver, committed, bStep, inte, accepted, thrown>>

-----------------------------------------------------------------------------
Accept ==
  /\ accepted' = SubSeq(<<Current>> \o accepted, 1, IF Len(accepted) < 4 THEN Len(accepted) + 1 ELSE 4)
  /\ pc' = "Idle"

(* A mutation of StageConverges that leaves the queue of stages.            *)
StageConvergesKeepsQueue ==
  /\ pc = "Solve"
  /\ committed' = node
  /\ IF stage < Stages THEN pc' = "Stage" /\ UNCHANGED <<mqX, accepted>>
                       ELSE UNCHANGED mqX /\ Accept
  /\ UNCHANGED <<solver, stage, vectors, node, qPrev, time, bStep, inte, mX, mXP, read,
                 thrown>>

(* The nonlinear solver returns, the elements are told, and Advance goes on *)
(* with the next stage or returns.                                          *)
StageConverges ==
  /\ pc = "Solve"
  /\ committed' = node
  /\ IF stage < Stages THEN pc' = "Stage" /\ UNCHANGED <<mqX, accepted>>
                       ELSE mqX' = <<>> /\ Accept
  /\ UNCHANGED <<solver, stage, vectors, node, qPrev, time, bStep, inte, mX, mXP, read,
                 thrown>>

(* Solver catches ConvergenceOnSolution, which has left Advance, and goes   *)
(* on as if it had returned.                                                *)
ConvergesOnSolution ==
  /\ pc = "Solve" /\ input.bSolConvThrows
  /\ Accept
  /\ thrown' = thrown \cup {IF Stages = 1 THEN "step" ELSE "stages"}
  /\ UNCHANGED <<solver, stage, vectors, model, integrator, read>>

(* A regular step that failed is repeated with a shorter time step.         *)
RepeatStep ==
  /\ pc = "Solve" /\ ~IsDummy /\ try < MaxTries
  /\ input.RegularType \in VariableStep
  /\ CurrStep' = "REPEATSTEP"
  /\ try' = try + 1 /\ stage' = 1
  /\ pc' = "SetTime"
  /\ UNCHANGED <<input, step, vectors, model, integrator, read, accepted, thrown>>

(* A failure for good, or the end of the simulation.                        *)
EndRun ==
  /\ pc \in {"Derived", "Solve", "Idle"}
  /\ pc' = "End"
  /\ UNCHANGED <<solver, stage, vectors, model, integrator, read, accepted, thrown>>

Prepare ==
  SolveDerivatives \/ DerivativesConverge \/ RepeatDerivatives \/ DerivativesConvergeOnSolution
Advance ==
  AdvanceStepN \/ AdvanceSingleStep \/ AdvanceStages \/ NextStage \/ StageConverges
  \/ ConvergesOnSolution
Next == Prepare \/ BeginStep \/ SetTime \/ Advance \/ RepeatStep \/ EndRun

Spec == Init /\ [][Next]_vars

-----------------------------------------------------------------------------
Solutions ==
  {Nothing, Mixed} \cup [step : 0 .. DummySteps + MaxSteps, try : 0 .. MaxTries, stage : 0 .. 5]
Vectors == [x : Solutions, from : Solutions, to : Solutions]

TypeOK ==
  /\ input \in Inputs
  /\ pc \in {"Derivatives", "Derived", "Idle", "SetTime", "SetTimeAgain", "Advance", "Solve",
             "Stage", "End"}
  /\ step \in 0 .. DummySteps + MaxSteps /\ try \in 1 .. MaxTries /\ stage \in 1 .. Stages
  /\ CurrStep \in {"NEWSTEP", "REPEATSTEP"}
  /\ X \in Vectors /\ XPrime \in Vectors
  /\ qX \in Seq(Vectors) /\ qXPrime \in Seq(Vectors) /\ Len(qXPrime) = iNumPreviousVectors
  /\ node \in Solutions /\ committed \in Solutions /\ time \in Solutions
  /\ qPrev \in [1 .. NPREV -> Solutions]
  /\ bStep \in 0 .. 1 /\ inte \in Solutions
  /\ mX \in Seq(Vectors) /\ mXP \in Seq(Vectors) /\ mqX \in Seq(0 .. 4)
  /\ read \in Seq(Vectors) /\ accepted \in Seq(Solutions)
  /\ thrown \subseteq {"derivatives", "step", "stages"}

(* The solutions a prediction is to be made from: for the first stage those *)
(* of the last steps accepted, for a later one also the stages before it.   *)
Expected(n) ==
  IF stage = 1 THEN SubSeq(accepted, 1, n)
  ELSE [k \in 1 .. stage |-> IF k = stage THEN accepted[1] ELSE Solution(step, try, stage - k)]

(* Every prediction, of whatever step, attempt or stage, is made from the   *)
(* last solutions in order, states and derivatives, none of a rejected      *)
(* attempt, with rotations relative to the one the node predicts from       *)
(* (BeforePredict, Flip and Predict of each integrator); unless an          *)
(* exception threw away the derivatives or left stages in their queues.     *)
PredictsFromHistory ==
  pc = "Solve" /\ thrown \subseteq {"step"} =>
    LET n == Len(read) \div 2
        e == Expected(n)
    IN /\ stage = 1 => n <= Len(accepted)
       /\ qPrev[1] = e[1]
       /\ \A k \in 1 .. n : /\ read[k] = Vector(e[k], e[k], e[1])
                            /\ read[k + n] = Vector(e[k], e[k], e[1])

(* The intermediate variables of a single-step integrator are those of the  *)
(* last accepted step (singlestepsol_tpl.h:369).                            *)
IntermediatesAreOfLastStep ==
  pc = "Solve" /\ Type \in SingleStep /\ thrown \subseteq {"step"} => inte = accepted[1]

(* HOPE alternates its two formulas from one step to the next, however      *)
(* often a step is repeated (HopeSolver::SetCoef).                          *)
HopeAlternates ==
  pc = "Solve" /\ Type = "INT_HOPE" /\ ~IsStartUp => bStep = (Place - 1) % 2

(* Every attempt begins as the first one did: from the accepted solution in *)
(* the queues, in the previous orientation of the nodes and in the          *)
(* elements, with empty queues of stages (the assertions at                 *)
(* multistagestepsol_tpl.h:337) and the drives at its own time ("mi         *)
(* servira' se devo ripetere il passo", strnode.cc:2404).                   *)
AttemptsBeginAlike ==
  pc = "Advance" =>
    /\ qPrev[1] = accepted[1]
    /\ time = EndOfStep
    /\ thrown \subseteq {"step"} => /\ qX[1] = Still(accepted[1]) /\ qXPrime[1] = Still(accepted[1])
                                    /\ mqX = <<>>
    /\ thrown = {} => committed = accepted[1]

(* When a step is accepted the vectors, the nodes and the drives are at its *)
(* end, and so are the elements, which AfterConvergence tells.              *)
AcceptedStepIsComplete ==
  pc = "Idle" =>
    /\ node = accepted[1]
    /\ thrown \subseteq {"step"} =>
         /\ X.x = accepted[1] /\ XPrime.x = accepted[1]
         /\ step > 0 => accepted[1] = EndOfStep /\ time = EndOfStep
    /\ thrown = {} => committed = accepted[1]

(* AfterConvergence is called for every step that is accepted: the comment  *)
(* at linesearch.cc:683, "Attention: Do not throw ConvergenceOnSolution     *)
(* here! It would prevent that AfterConvergence is called in                *)
(* StepIntegrator::Advance."                                                *)
AfterConvergenceIsCalled == pc = "Idle" => committed = accepted[1]

(* ASSERT(qRPrev.size() >= qXPr.size() - 1) in StructNode::BeforePredict:   *)
(* the size is unsigned, an empty queue has none less.                      *)
QueueFitsNode == pc = "Idle" => Len(qX) \in 1 .. NPREV + 1
=============================================================================
