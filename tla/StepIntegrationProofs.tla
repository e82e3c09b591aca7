------------------------ MODULE StepIntegrationProofs ------------------------
(* Theorems about StepIntegration, for every integrator, number of dummy    *)
(* steps, of regular steps and of attempts.                                 *)
EXTENDS StepIntegration, SequenceTheorems, TLAPS

-----------------------------------------------------------------------------
\* The tables of integrators.

LEMMA StepTable ==
  /\ DOMAIN StepN = {"INT_IMPLICITEULER", "INT_CRANKNICOLSON", "INT_MS2", "INT_HOPE",
                     "INT_HYBRID", "INT_MS3", "INT_MS4"}
  /\ \A type \in DOMAIN StepN : StepN[type] \in 1 .. 4
  /\ StepN["INT_HOPE"] = 2
  BY DEF StepN

LEMMA StageTable ==
  /\ DOMAIN StageN = {"INT_BATHE", "INT_MSSTC3", "INT_MSSTH3", "INT_DIRK33", "INT_MSSTC4",
                      "INT_MSSTH4", "INT_DIRK43", "INT_MSSTC5", "INT_MSSTH5", "INT_DIRK54"}
  /\ \A type \in DOMAIN StageN : StageN[type] \in 2 .. 5
  BY DEF StageN

(* The three kinds exclude each other; only implicit integrators may have   *)
(* steps that are repeated.                                                 *)
LEMMA Kinds ==
  /\ \A type \in RegularTypes : type \in DOMAIN StepN \/ type \in DOMAIN StageN \/ type \in SingleStep
  /\ \A type \in DOMAIN StepN : type \notin DOMAIN StageN /\ type \notin SingleStep
  /\ \A type \in DOMAIN StageN : type \notin SingleStep
  /\ \A type \in VariableStep : type \in DOMAIN StepN
  /\ "INT_HOPE" \in DOMAIN StepN
  BY StepTable, StageTable DEF RegularTypes, SingleStep, VariableStep

(* How many states and start-up steps an integrator asks for.               *)
LEMMA NumbersOfTypes ==
  ASSUME NEW type \in RegularTypes
  PROVE  /\ NumPreviousStates(type) \in 1 .. 4
         /\ type \in SingleStep => NumPreviousStates(type) = 2
         /\ type \in DOMAIN StepN => NumPreviousStates(type) = StepN[type]
         /\ StartUpSteps(type) \in 0 .. 3
         /\ type \in DOMAIN StepN => StartUpSteps(type) = StepN[type] - 1
         /\ type \notin DOMAIN StepN => StartUpSteps(type) = 0
<1>1. CASE type \in DOMAIN StepN
  BY <1>1, StepTable, Kinds DEF NumPreviousStates, StartUpSteps
<1>2. CASE type \in SingleStep
  <2>1. type \notin DOMAIN StepN
    BY <1>2, Kinds
  <2>2. NumPreviousStates(type) = 2
    BY <1>2, <2>1 DEF NumPreviousStates
  <2> QED
    BY <2>1, <2>2 DEF StartUpSteps
<1>3. CASE type \in DOMAIN StageN
  <2>1. type \notin DOMAIN StepN /\ type \notin SingleStep
    BY <1>3, Kinds
  <2>2. NumPreviousStates(type) = 1
    BY <2>1 DEF NumPreviousStates
  <2> QED
    BY <2>1, <2>2 DEF StartUpSteps
<1> QED
  BY <1>1, <1>2, <1>3, Kinds

(* What follows from the input and the number of the step.                  *)
LEMMA NumbersOfInput ==
  ASSUME input \in Inputs
  PROVE  /\ input.DummyType \in RegularTypes /\ input.RegularType \in RegularTypes
         /\ DummySteps \in Nat
         /\ iNumPreviousVectors \in 1 .. 4
         /\ input.RegularType \in SingleStep => iNumPreviousVectors >= 2
         /\ input.DummyType \in SingleStep /\ DummySteps > 0 => iNumPreviousVectors >= 2
<1>1. /\ input.DummyType \in RegularTypes /\ input.RegularType \in RegularTypes
      /\ input.iDummyStepsNumber \in Nat
  BY StepAssumption DEF InputType
<1>2. StartUpSteps(input.DummyType) \in 0 .. 3
  BY <1>1, NumbersOfTypes
<1>3. DummySteps \in Nat /\ (input.iDummyStepsNumber = 0 <=> DummySteps = 0)
  BY <1>1, <1>2 DEF DummySteps
<1>4. /\ NumPreviousStates(input.DummyType) \in 1 .. 4
      /\ NumPreviousStates(input.RegularType) \in 1 .. 4
      /\ input.RegularType \in SingleStep => NumPreviousStates(input.RegularType) = 2
      /\ input.DummyType \in SingleStep => NumPreviousStates(input.DummyType) = 2
  BY <1>1, NumbersOfTypes
<1>5. iNumPreviousVectors =
        IF NumPreviousStates(input.RegularType)
             < (IF input.iDummyStepsNumber = 0 THEN 0 ELSE NumPreviousStates(input.DummyType))
        THEN IF input.iDummyStepsNumber = 0 THEN 0 ELSE NumPreviousStates(input.DummyType)
        ELSE NumPreviousStates(input.RegularType)
  BY DEF iNumPreviousVectors
<1> QED
  BY <1>1, <1>3, <1>4, <1>5

LEMMA NumbersOfStep ==
  ASSUME input \in Inputs, step \in Nat
  PROVE  /\ Type \in RegularTypes
         /\ Place \in Nat /\ (step > 0 => Place > 0) /\ Place <= step
         /\ Stages \in 1 .. 5
         /\ Type \in DOMAIN StageN <=> Stages > 1
         /\ Type \in DOMAIN StageN => Stages = StageN[Type]
         /\ IsStartUp \in BOOLEAN /\ IsDummy \in BOOLEAN
         /\ IsStartUp /\ Type \in DOMAIN StepN => Place < StepN[Type]
         /\ ~IsStartUp /\ Type \in DOMAIN StepN => Place >= StepN[Type]
<1>1. Type \in RegularTypes /\ DummySteps \in Nat
  BY NumbersOfInput DEF Type
<1>2. Place \in Nat /\ (step > 0 => Place > 0) /\ Place <= step
  BY <1>1 DEF Place, IsDummy
<1>3. Stages \in 1 .. 5 /\ (Type \in DOMAIN StageN <=> Stages > 1)
      /\ (Type \in DOMAIN StageN => Stages = StageN[Type])
  BY StageTable DEF Stages
<1>4. Type \in DOMAIN StepN => StartUpSteps(Type) = StepN[Type] - 1 /\ StepN[Type] \in Nat
  BY <1>1, NumbersOfTypes, StepTable
<1> QED
  BY <1>1, <1>2, <1>3, <1>4 DEF IsStartUp, IsDummy

(* Within a step nothing of this changes.                                   *)
LEMMA SameStep ==
  ASSUME UNCHANGED <<input, step>>
  PROVE  /\ DummySteps' = DummySteps /\ iNumPreviousVectors' = iNumPreviousVectors
         /\ IsDummy' = IsDummy /\ Type' = Type /\ Place' = Place
         /\ IsStartUp' = IsStartUp /\ Stages' = Stages
         /\ Solutions' = Solutions /\ Vectors' = Vectors
<1>1. /\ DummySteps' = DummySteps /\ iNumPreviousVectors' = iNumPreviousVectors
      /\ IsDummy' = IsDummy
  BY DEF DummySteps, iNumPreviousVectors, IsDummy
<1>2. Type' = Type /\ Place' = Place
  BY <1>1 DEF Type, Place
<1>3. Stages' = Stages /\ IsStartUp' = IsStartUp
  BY <1>2 DEF Stages, IsStartUp
<1>4. Solutions' = Solutions
  BY <1>1 DEF Solutions
<1> QED
  BY <1>1, <1>2, <1>3, <1>4 DEF Vectors

(* From one step to the next the integrators are the same, or the regular   *)
(* ones begin.                                                              *)
LEMMA NextStep ==
  ASSUME input \in Inputs, step \in Nat, input' = input, step' = step + 1
  PROVE  /\ DummySteps' = DummySteps /\ iNumPreviousVectors' = iNumPreviousVectors
         /\ Solutions' = Solutions /\ Vectors' = Vectors
         /\ step = DummySteps => Place' = 1 /\ Type' = input.RegularType /\ ~IsDummy'
         /\ step # DummySteps => /\ Place' = Place + 1 /\ Type' = Type /\ IsDummy' = IsDummy
                                 /\ Stages' = Stages
<1>1. DummySteps' = DummySteps /\ iNumPreviousVectors' = iNumPreviousVectors
  BY DEF DummySteps, iNumPreviousVectors
<1>2. DummySteps \in Nat
  BY NumbersOfInput
<1>3. step = DummySteps => Place' = 1 /\ Type' = input.RegularType /\ ~IsDummy'
  BY <1>1, <1>2 DEF Place, Type, IsDummy
<1>4. step # DummySteps => Place' = Place + 1 /\ Type' = Type /\ IsDummy' = IsDummy
  BY <1>1, <1>2 DEF Place, Type, IsDummy
<1>5. Solutions' = Solutions
  BY <1>1 DEF Solutions
<1>6. step # DummySteps => Stages' = Stages
  BY <1>4 DEF Stages
<1> QED
  BY <1>1, <1>3, <1>4, <1>5, <1>6 DEF Vectors

-----------------------------------------------------------------------------
\* Where the run is.

Attempting == {"SetTime", "SetTimeAgain", "Advance"}
InStep == {"SetTime", "SetTimeAgain", "Advance", "Solve", "Stage"}

Ranges ==
  /\ input \in Inputs
  /\ pc \in {"Derivatives", "Derived", "Idle", "SetTime", "SetTimeAgain", "Advance", "Solve",
             "Stage", "End"}
  /\ step \in 0 .. DummySteps + MaxSteps /\ try \in 1 .. MaxTries /\ stage \in 1 .. Stages
  /\ CurrStep \in {"NEWSTEP", "REPEATSTEP"}
  /\ thrown \subseteq {"derivatives", "step", "stages"}

(* A step has a number, is attempted from its first stage, accepted at its  *)
(* last, and repeated only if it is a regular one of variable length; the   *)
(* drives have the time of the end of the step, then of the stage.          *)
Phases ==
  /\ pc \in {"Derivatives", "Derived"} => step = 0 /\ stage = 1 /\ thrown = {}
  /\ pc \in InStep => step > 0
  /\ pc \in Attempting => stage = 1
  /\ pc = "Stage" => stage < Stages
  /\ pc = "Idle" /\ step > 0 /\ thrown \subseteq {"step"} => stage = Stages
  /\ CurrStep = "REPEATSTEP" => Type \in VariableStep
  /\ pc \in {"SetTimeAgain", "Advance"} => time = EndOfStep
  /\ pc \in {"Solve", "Stage"} \/ (pc = "Idle" /\ step > 0) => time = Current

ControlInv == Ranges /\ Phases

LEMMA InitControl == Init => ControlInv
<1> SUFFICES ASSUME Init PROVE ControlInv
  OBVIOUS
<1>1. input \in Inputs /\ step = 0 /\ try = 1 /\ stage = 1 /\ pc = "Derivatives"
      /\ CurrStep = "NEWSTEP" /\ thrown = {}
  BY DEF Init
<1>2. DummySteps \in Nat /\ Stages \in 1 .. 5
  BY <1>1, NumbersOfInput, NumbersOfStep
<1> QED
  BY <1>1, <1>2, StepAssumption DEF ControlInv, Ranges, Phases, InStep, Attempting

LEMMA NextControl ==
  ASSUME ControlInv, [Next]_vars
  PROVE  ControlInv'
<1>1. /\ input \in Inputs /\ step \in Nat /\ try \in Nat /\ stage \in Nat /\ stage \in 1 .. Stages
      /\ DummySteps \in Nat /\ Stages \in 1 .. 5
      /\ (Type \in DOMAIN StageN <=> Stages > 1)
      /\ Type \in VariableStep => Stages = 1
  <2>1. input \in Inputs /\ step \in Nat /\ try \in Nat /\ stage \in Nat /\ DummySteps \in Nat
    BY NumbersOfInput, StepAssumption DEF ControlInv, Ranges
  <2> QED
    BY <2>1, NumbersOfStep, Kinds DEF ControlInv, Ranges
<1>2. ASSUME UNCHANGED <<input, step>> PROVE
        /\ DummySteps' = DummySteps /\ Type' = Type /\ Stages' = Stages /\ IsDummy' = IsDummy
  BY <1>2, SameStep
<1> USE <1>1 DEF ControlInv
<1>3. CASE SolveDerivatives \/ DerivativesConverge \/ RepeatDerivatives \/ DerivativesConvergeOnSolution
  <2>1. /\ UNCHANGED <<input, step, stage, CurrStep>> /\ pc \in {"Derivatives", "Derived"}
        /\ pc' \in {"Derivatives", "Derived", "Idle"}
        /\ try' \in 1 .. MaxTries
        /\ pc' \in {"Derivatives", "Derived"} => UNCHANGED thrown
        /\ thrown' \subseteq thrown \cup {"derivatives"}
    BY <1>3, StepAssumption DEF SolveDerivatives, DerivativesConverge, RepeatDerivatives,
         DerivativesConvergeOnSolution, solver, Ranges
  <2>2. Ranges'
    BY <2>1, <1>2 DEF Ranges
  <2>3. Phases'
    BY <2>1, <1>2 DEF Phases, InStep, Attempting
  <2> QED
    BY <2>2, <2>3
<1>4. CASE BeginStep
  <2>1. /\ input' = input /\ step' = step + 1 /\ try' = 1 /\ stage' = 1 /\ CurrStep' = "NEWSTEP"
        /\ pc' = "SetTime" /\ thrown' = thrown /\ step < DummySteps + MaxSteps
    BY <1>4 DEF BeginStep
  <2>2. DummySteps' = DummySteps /\ Stages' \in 1 .. 5
    <3>1. DummySteps' = DummySteps
      BY <2>1 DEF DummySteps
    <3>2. (input \in Inputs)' /\ (step \in Nat)'
      BY <2>1
    <3> QED
      BY <3>1, StageTable DEF Stages
  <2>3. Ranges'
    BY <2>1, <2>2, StepAssumption DEF Ranges
  <2>4. Phases'
    BY <2>1 DEF Phases, InStep, Attempting
  <2> QED
    BY <2>3, <2>4
<1>5. CASE SetTime
  <2>1. /\ UNCHANGED <<input, step, try, stage, CurrStep, thrown>> /\ pc \in Attempting
        /\ pc' \in {"SetTimeAgain", "Advance"} /\ time' = EndOfStep
    BY <1>5 DEF SetTime, solver, Attempting
  <2>2. Ranges'
    BY <2>1, <1>2 DEF Ranges
  <2>3. EndOfStep' = EndOfStep
    BY <2>1, <1>2 DEF EndOfStep
  <2>4. Phases'
    BY <2>1, <2>3, <1>2 DEF Phases, InStep, Attempting
  <2> QED
    BY <2>2, <2>4
<1>6. CASE AdvanceStepN \/ AdvanceSingleStep \/ AdvanceStages
  <2>1. /\ UNCHANGED <<input, step, try, stage, CurrStep, thrown>> /\ pc = "Advance"
        /\ pc' = "Solve"
        /\ time' = time \/ time' = [time EXCEPT !.stage = @ - (Stages - 1)]
        /\ Stages = 1 \/ time' = [time EXCEPT !.stage = @ - (Stages - 1)]
    BY <1>6, Kinds DEF AdvanceStepN, AdvanceSingleStep, AdvanceStages, solver, Predict
  <2>2. Ranges'
    BY <2>1, <1>2 DEF Ranges
  <2>3. time = EndOfStep /\ stage = 1
    BY <2>1 DEF Phases, Attempting
  <2>4. time' = Current'
    BY <2>1, <2>3 DEF EndOfStep, Current, Solution
  <2>5. Phases'
    BY <2>1, <2>4, <1>2 DEF Phases, InStep, Attempting
  <2> QED
    BY <2>2, <2>5
<1>7. CASE NextStage
  <2>1. /\ UNCHANGED <<input, step, try, CurrStep, thrown>> /\ pc = "Stage"
        /\ pc' = "Solve" /\ stage' = stage + 1
        /\ time' = [time EXCEPT !.stage = @ + 1]
    BY <1>7 DEF NextStage, solver, Predict
  <2>2. stage < Stages /\ time = Current
    BY <2>1 DEF Phases
  <2>3. Ranges'
    BY <2>1, <2>2, <1>2 DEF Ranges
  <2>4. time' = Current'
    BY <2>1, <2>2 DEF Current, Solution
  <2>5. Phases'
    BY <2>1, <2>2, <2>4, <1>2 DEF Phases, InStep, Attempting
  <2> QED
    BY <2>3, <2>5
<1>8. CASE StageConverges
  <2>1. /\ UNCHANGED <<input, step, try, stage, CurrStep, thrown, time>> /\ pc = "Solve"
        /\ pc' = IF stage < Stages THEN "Stage" ELSE "Idle"
    BY <1>8 DEF StageConverges, solver, Accept
  <2>2. Current' = Current
    BY <2>1 DEF Current
  <2>3. Ranges'
    BY <2>1, <1>2 DEF Ranges
  <2>4. Phases'
    BY <2>1, <2>2, <1>2 DEF Phases, InStep, Attempting, Ranges
  <2> QED
    BY <2>3, <2>4
<1>9. CASE ConvergesOnSolution
  <2>1. /\ UNCHANGED <<input, step, try, stage, CurrStep, time>> /\ pc = "Solve" /\ pc' = "Idle"
        /\ thrown' = thrown \cup {IF Stages = 1 THEN "step" ELSE "stages"}
    BY <1>9 DEF ConvergesOnSolution, solver, model, Accept
  <2>2. Current' = Current
    BY <2>1 DEF Current
  <2>3. Ranges'
    BY <2>1, <1>2 DEF Ranges
  <2>4. Phases'
    BY <2>1, <2>2, <1>2 DEF Phases, InStep, Attempting, Ranges
  <2> QED
    BY <2>3, <2>4
<1>10. CASE RepeatStep
  <2>1. /\ UNCHANGED <<input, step, thrown, time>> /\ pc = "Solve" /\ pc' = "SetTime"
        /\ ~IsDummy /\ input.RegularType \in VariableStep /\ CurrStep' = "REPEATSTEP"
        /\ try < MaxTries /\ try' = try + 1 /\ stage' = 1
    BY <1>10 DEF RepeatStep, model
  <2>2. Type \in VariableStep /\ step > 0
    BY <2>1 DEF Type, Phases, InStep
  <2>3. Ranges'
    BY <2>1, <1>2, StepAssumption DEF Ranges
  <2>4. Phases'
    BY <2>1, <2>2, <1>2 DEF Phases, InStep, Attempting
  <2> QED
    BY <2>3, <2>4
<1>11. CASE EndRun \/ UNCHANGED vars
  <2>1. /\ UNCHANGED <<input, step, try, stage, CurrStep, time, thrown>>
        /\ pc' = "End" \/ pc' = pc
    BY <1>11 DEF EndRun, solver, model, vars
  <2>2. Current' = Current /\ EndOfStep' = EndOfStep
    BY <2>1, <1>2 DEF Current, EndOfStep
  <2>3. Ranges'
    BY <2>1, <1>2 DEF Ranges
  <2>4. Phases'
    BY <2>1, <2>2, <1>2 DEF Phases, InStep, Attempting
  <2> QED
    BY <2>3, <2>4
<1> QED
  BY <1>3, <1>4, <1>5, <1>6, <1>7, <1>8, <1>9, <1>10, <1>11 DEF Next, Prepare, Advance

(* The control of a run, for the theorems below.                            *)
LEMMA ControlInvariant == Spec => []ControlInv
  BY InitControl, NextControl, PTL DEF Spec

-----------------------------------------------------------------------------
\* HOPE.

(* The formula of the p-th step of HOPE, the first being a start-up step.   *)
Formula(p) == IF p <= 1 THEN 0 ELSE (p - 1) % 2

(* m_bStep is moved on by the prediction of a new step, and by no other.    *)
HopeInv ==
  /\ bStep \in 0 .. 1
  /\ Type = "INT_HOPE" =>
       bStep = IF pc \in Attempting /\ CurrStep = "NEWSTEP" THEN Formula(Place - 1)
                                                            ELSE Formula(Place)

LEMMA FormulasAlternate ==
  /\ \A p \in Nat : Formula(p) \in 0 .. 1 /\ (p > 0 => Formula(p + 1) = 1 - Formula(p))
  /\ Formula(0) = 0
  BY DEF Formula

LEMMA NextHope ==
  ASSUME ControlInv, HopeInv, [Next]_vars
  PROVE  HopeInv'
<1>1. /\ input \in Inputs /\ step \in Nat /\ Place \in Nat /\ (step > 0 => Place > 0)
      /\ Type = "INT_HOPE" => (IsStartUp <=> Place <= 1)
  <2>1. input \in Inputs /\ step \in Nat
    BY NumbersOfInput, StepAssumption DEF ControlInv, Ranges
  <2>2. Place \in Nat /\ (step > 0 => Place > 0)
    BY <2>1, NumbersOfStep
  <2>3. Type = "INT_HOPE" => StartUpSteps(Type) = 1
    BY StepTable DEF StartUpSteps
  <2> QED
    BY <2>1, <2>2, <2>3 DEF IsStartUp
<1>2. ASSUME UNCHANGED <<input, step>> PROVE Type' = Type /\ Place' = Place
  BY <1>2, SameStep
<1>3. CASE /\ UNCHANGED <<input, step, CurrStep, bStep>>
           /\ pc \in Attempting <=> pc' \in Attempting
  BY <1>3, <1>2 DEF HopeInv
<1>4. CASE SolveDerivatives \/ DerivativesConverge \/ RepeatDerivatives
           \/ DerivativesConvergeOnSolution \/ SetTime \/ NextStage \/ StageConverges
           \/ ConvergesOnSolution \/ EndRun \/ UNCHANGED vars
  <2>1. /\ UNCHANGED <<input, step, CurrStep, bStep>>
        /\ pc \in Attempting <=> pc' \in Attempting
    BY <1>4 DEF SolveDerivatives, DerivativesConverge, RepeatDerivatives, Attempting,
         DerivativesConvergeOnSolution, SetTime, NextStage, StageConverges, Accept, Predict,
         ConvergesOnSolution, EndRun, vars, solver, integrator
  <2> QED
    BY <2>1, <1>3
<1>5. CASE BeginStep
  <2>1. /\ input' = input /\ step' = step + 1 /\ CurrStep' = "NEWSTEP" /\ pc' \in Attempting
        /\ pc \notin Attempting
        /\ bStep' = IF step = DummySteps THEN 0 ELSE bStep
    BY <1>5 DEF BeginStep, Attempting, integrator
  <2>2. CASE step = DummySteps
    BY <2>1, <2>2, <1>1, NextStep, FormulasAlternate DEF HopeInv
  <2>3. CASE step # DummySteps
    <3>1. Place' = Place + 1 /\ Type' = Type
      BY <2>1, <2>3, <1>1, NextStep
    <3> QED
      BY <2>1, <2>3, <3>1, <1>1 DEF HopeInv
  <2> QED
    BY <2>2, <2>3
<1>6. CASE AdvanceStepN
  <2>1. /\ UNCHANGED <<input, step, CurrStep>> /\ pc = "Advance" /\ pc' = "Solve"
        /\ bStep' = IF Type = "INT_HOPE" /\ ~IsStartUp /\ CurrStep = "NEWSTEP"
                    THEN 1 - bStep ELSE bStep
    BY <1>6 DEF AdvanceStepN, solver, Predict
  <2>2. step > 0
    BY <2>1 DEF ControlInv, Phases, InStep
  <2>3. CASE Type = "INT_HOPE" /\ CurrStep = "NEWSTEP" /\ ~IsStartUp
    <3>1. Place \in Nat /\ Place - 1 \in Nat /\ Place - 1 > 0 /\ bStep = Formula(Place - 1)
      BY <2>1, <2>3, <1>1 DEF HopeInv, Attempting
    <3>2. bStep' = 1 - bStep /\ Formula((Place - 1) + 1) = 1 - Formula(Place - 1)
      BY <2>1, <2>3, <3>1, FormulasAlternate
    <3> QED
      BY <2>1, <3>1, <3>2, <1>2 DEF HopeInv, Attempting
  <2>4. CASE Type = "INT_HOPE" /\ CurrStep = "NEWSTEP" /\ IsStartUp
    <3>1. Place = 1 /\ bStep = Formula(0) /\ bStep' = bStep
      BY <2>1, <2>2, <2>4, <1>1 DEF HopeInv, Attempting
    <3> QED
      BY <2>1, <3>1, <1>2 DEF HopeInv, Attempting, Formula
  <2>5. CASE Type # "INT_HOPE" \/ CurrStep # "NEWSTEP"
    BY <2>1, <2>5, <1>2 DEF HopeInv, Attempting
  <2> QED
    BY <2>3, <2>4, <2>5
<1>7. CASE AdvanceSingleStep \/ AdvanceStages
  <2>1. UNCHANGED <<input, step, CurrStep, bStep>> /\ Type # "INT_HOPE"
    BY <1>7, Kinds DEF AdvanceSingleStep, AdvanceStages, solver
  <2> QED
    BY <2>1, <1>2 DEF HopeInv
<1>8. CASE RepeatStep
  BY <1>8, <1>2 DEF RepeatStep, integrator, HopeInv, Attempting
<1> QED
  BY <1>4, <1>5, <1>6, <1>7, <1>8 DEF Next, Prepare, Advance

LEMMA HopeInvariant == Spec => []HopeInv
<1>1. Init => HopeInv
  <2> SUFFICES ASSUME Init PROVE HopeInv
    OBVIOUS
  <2>1. bStep = 0 /\ step = 0 /\ pc \notin Attempting /\ DummySteps \in Nat
    BY NumbersOfInput DEF Init, Attempting
  <2>2. Place = 0
    BY <2>1 DEF Place, IsDummy
  <2> QED
    BY <2>1, <2>2, FormulasAlternate DEF HopeInv
<1> QED
  BY <1>1, NextHope, ControlInvariant, PTL DEF Spec

(* HOPE takes its two formulas in turn, from one step to the next, through  *)
(* dummy steps, the start-up step and any number of repeated attempts.      *)
THEOREM HopeTakesTurns == Spec => []HopeAlternates
<1>1. ControlInv /\ HopeInv => HopeAlternates
  <2> SUFFICES ASSUME ControlInv, HopeInv, pc = "Solve", Type = "INT_HOPE", ~IsStartUp
               PROVE  bStep = (Place - 1) % 2
    BY DEF HopeAlternates
  <2>1. Place \in Nat /\ Place > 1
    <3>1. input \in Inputs /\ step \in Nat
      BY NumbersOfInput, StepAssumption DEF ControlInv, Ranges
    <3> QED
      BY <3>1, NumbersOfStep, StepTable, Kinds
  <2> QED
    BY <2>1 DEF HopeInv, Attempting, Formula
<1> QED
  BY <1>1, ControlInvariant, HopeInvariant, PTL

-----------------------------------------------------------------------------
\* Types.

Vectors_ ==
  /\ X \in Vectors /\ XPrime \in Vectors
  /\ qX \in Seq(Vectors) /\ qXPrime \in Seq(Vectors)
  /\ Len(qXPrime) = iNumPreviousVectors /\ Len(qX) <= Len(qXPrime)
  /\ pc \in Attempting \/ (pc \in {"Solve", "Stage"} /\ Type \notin SingleStep) => qX # <<>>

Model ==
  /\ node \in Solutions /\ committed \in Solutions /\ time \in Solutions
  /\ qPrev \in Seq(Solutions) /\ Len(qPrev) = NPREV

(* A multistage integrator keeps as many stages as it has but one.          *)
Integrator ==
  /\ inte \in Solutions
  /\ mX \in Seq(Vectors) /\ mXP \in Seq(Vectors) /\ Len(mXP) = Len(mX)
  /\ mqX \in Seq(0 .. 4)
  /\ mX = <<>> \/ (Type \in DOMAIN StageN /\ Len(mX) = Stages - 1)
  /\ pc \in {"Solve", "Stage"} /\ Type \in DOMAIN StageN => mX # <<>>

History ==
  /\ read \in Seq(Vectors)
  /\ accepted \in Seq(Solutions) /\ accepted # <<>> /\ Len(accepted) <= 4

TypeInv == Vectors_ /\ Model /\ Integrator /\ History

LEMMA SomeSolutions ==
  /\ Nothing \in Solutions /\ Mixed \in Solutions
  /\ Ranges => InitialState \in Solutions /\ Current \in Solutions /\ EndOfStep \in Solutions
  /\ \A v \in Vectors : v.x \in Solutions /\ v.from \in Solutions /\ v.to \in Solutions
  /\ \A x, from, to \in Solutions : Vector(x, from, to) \in Vectors
  /\ \A x \in Solutions : Still(x) \in Vectors
  /\ \A x, from, to : /\ Vector(x, from, to).x = x
                      /\ Vector(x, from, to).from = from /\ Vector(x, from, to).to = to
<1>1. Nothing \in Solutions /\ Mixed \in Solutions
  BY DEF Solutions
<1>2. ASSUME Ranges PROVE InitialState \in Solutions /\ Current \in Solutions /\ EndOfStep \in Solutions
  <2>1. DummySteps \in Nat /\ MaxSteps \in Nat /\ MaxTries \in Nat /\ step \in Nat /\ Stages \in 1 .. 5
    BY <1>2, NumbersOfInput, NumbersOfStep, StepAssumption DEF Ranges
  <2> QED
    BY <1>2, <2>1 DEF Ranges, Solutions, InitialState, Current, EndOfStep, Solution
<1>3. \A v \in Vectors : v.x \in Solutions /\ v.from \in Solutions /\ v.to \in Solutions
  BY DEF Vectors
<1>4. \A x, from, to \in Solutions : Vector(x, from, to) \in Vectors
  BY DEF Vectors, Vector
<1>5. \A x \in Solutions : Still(x) \in Vectors
  BY <1>4 DEF Still
<1>6. \A x, from, to : /\ Vector(x, from, to).x = x
                       /\ Vector(x, from, to).from = from /\ Vector(x, from, to).to = to
  BY DEF Vector
<1> QED
  BY <1>1, <1>2, <1>3, <1>4, <1>5, <1>6

LEMMA FunctionIsSeq ==
  ASSUME NEW S, NEW n \in Nat, NEW f \in [1 .. n -> S]
  PROVE  f \in Seq(S) /\ Len(f) = n
  OBVIOUS

(* Sequences put together and turned round.                                 *)
LEMMA Beginnings ==
  ASSUME NEW S, NEW q \in Seq(S), NEW n \in Nat, n <= Len(q)
  PROVE  /\ SubSeq(q, 1, n) \in Seq(S) /\ Len(SubSeq(q, 1, n)) = n
         /\ \A k \in 1 .. n : SubSeq(q, 1, n)[k] = q[k]
<1>1. Len(q) \in Nat /\ \A k \in 1 .. Len(q) : q[k] \in S
  BY LenProperties
<1>2. 1 \in Int /\ n \in Int /\ \A k \in 1 .. n : q[k] \in S
  BY <1>1
<1>3. /\ SubSeq(q, 1, n) \in Seq(S)
      /\ Len(SubSeq(q, 1, n)) = IF 1 <= n THEN n - 1 + 1 ELSE 0
      /\ \A k \in 1 .. n - 1 + 1 : SubSeq(q, 1, n)[k] = q[1 + k - 1]
  BY <1>2, SubSeqProperties
<1> DEFINE F == SubSeq(q, 1, n)
<1>4. /\ F \in Seq(S) /\ Len(F) = IF 1 <= n THEN n - 1 + 1 ELSE 0
      /\ \A k \in 1 .. n - 1 + 1 : F[k] = q[1 + k - 1]
  BY <1>3
<1> HIDE DEF F
<1>5. \A m \in Nat : (IF 1 <= m THEN m - 1 + 1 ELSE 0) = m
  OBVIOUS
<1>6. F \in Seq(S) /\ Len(F) = n
  BY <1>4, <1>5, Zenon
<1>7. \A k \in 1 .. n : F[k] = q[k]
  BY <1>4
<1> QED
  BY <1>6, <1>7 DEF F

LEMMA Reversing ==
  ASSUME NEW S, NEW q \in Seq(S)
  PROVE  /\ Reverse(q) \in Seq(S) /\ Len(Reverse(q)) = Len(q)
         /\ \A n \in 1 .. Len(q) : Reverse(q)[n] = q[Len(q) - n + 1]
<1>1. Len(q) \in Nat /\ \A n \in 1 .. Len(q) : q[n] \in S
  BY LenProperties
<1> DEFINE m == Len(q)
<1>2. Reverse(q) = [n \in 1 .. m |-> q[m - n + 1]]
  BY DEF Reverse
<1>3. m \in Nat /\ \A n \in 1 .. m : q[n] \in S
  BY <1>1
<1> HIDE DEF m
<1>4. \A n \in 1 .. m : m - n + 1 \in 1 .. m
  BY <1>3
<1>5. \A n \in 1 .. m : q[m - n + 1] \in S
  BY <1>3, <1>4
<1>6. Reverse(q) \in [1 .. m -> S]
  BY <1>2, <1>5
<1>7. Reverse(q) \in Seq(S) /\ Len(Reverse(q)) = m
  BY <1>3, <1>6, FunctionIsSeq
<1>8. \A n \in 1 .. m : Reverse(q)[n] = q[m - n + 1]
  BY <1>2
<1> QED
  BY <1>7, <1>8 DEF m

LEMMA Joining ==
  ASSUME NEW S, NEW q \in Seq(S), NEW r \in Seq(S)
  PROVE  /\ q \o r \in Seq(S) /\ Len(q \o r) = Len(q) + Len(r)
         /\ \A n \in 1 .. Len(q) : (q \o r)[n] = q[n]
         /\ \A n \in 1 .. Len(r) : (q \o r)[Len(q) + n] = r[n]
<1>1. Len(q) \in Nat /\ Len(r) \in Nat
  BY LenProperties
<1>2. /\ q \o r \in Seq(S) /\ Len(q \o r) = Len(q) + Len(r)
      /\ \A n \in 1 .. Len(q) + Len(r) : (q \o r)[n] = IF n <= Len(q) THEN q[n] ELSE r[n - Len(q)]
  BY ConcatProperties
<1> DEFINE a == Len(q)
           b == Len(r)
           c == q \o r
<1> HIDE DEF a, b, c
<1>3. /\ a \in Nat /\ b \in Nat
      /\ \A n \in 1 .. a + b : c[n] = IF n <= a THEN q[n] ELSE r[n - a]
  BY <1>1, <1>2 DEF a, b, c
<1>4. \A n \in 1 .. a : c[n] = q[n]
  BY <1>3
<1>5. \A n \in 1 .. b : c[a + n] = r[n]
  <2> TAKE n \in 1 .. b
  <2>1. a + n \in 1 .. a + b /\ ~(a + n <= a) /\ a + n - a = n
    BY <1>3
  <2> QED
    BY <1>3, <2>1
<1> QED
  BY <1>2, <1>4, <1>5 DEF a, b, c

LEMMA OneIsSeq ==
  ASSUME NEW S, NEW x \in S
  PROVE  <<x>> \in Seq(S) /\ Len(<<x>>) = 1 /\ <<x>>[1] = x
  OBVIOUS

(* A queue without its last one.                                            *)
LEMMA Dropping ==
  ASSUME NEW S, NEW q \in Seq(S), q # <<>>
  PROVE  /\ Front(q) \in Seq(S) /\ Len(Front(q)) = Len(q) - 1
         /\ \A n \in 1 .. Len(q) - 1 : Front(q)[n] = q[n]
<1>1. Len(q) \in Nat /\ Len(q) > 0
  BY EmptySeq
<1> DEFINE m == Len(q) - 1
           F == SubSeq(q, 1, m)
<1>2. m \in Nat /\ m <= Len(q)
  BY <1>1
<1>3. Front(q) = F
  BY DEF Front
<1> HIDE DEF m
<1>4. F \in Seq(S) /\ Len(F) = m /\ \A n \in 1 .. m : F[n] = q[n]
  BY <1>2, Beginnings
<1> HIDE DEF F
<1> QED
  BY <1>3, <1>4 DEF m

(* Flip: the new one first, the last one out.                               *)
LEMMA Flipping ==
  ASSUME NEW S, NEW x \in S, NEW q \in Seq(S), q # <<>>
  PROVE  /\ <<x>> \o Front(q) \in Seq(S) /\ Len(<<x>> \o Front(q)) = Len(q)
         /\ (<<x>> \o Front(q))[1] = x
         /\ \A n \in 1 .. Len(q) - 1 : (<<x>> \o Front(q))[n + 1] = q[n]
<1>1. Len(q) \in Nat /\ Len(q) > 0
  BY EmptySeq
<1>2. /\ Front(q) \in Seq(S) /\ Len(Front(q)) = Len(q) - 1
      /\ \A n \in 1 .. Len(q) - 1 : Front(q)[n] = q[n]
  BY Dropping
<1>3. <<x>> \in Seq(S) /\ Len(<<x>>) = 1 /\ <<x>>[1] = x
  OBVIOUS
<1> HIDE DEF Front
<1>4. /\ <<x>> \o Front(q) \in Seq(S) /\ Len(<<x>> \o Front(q)) = 1 + (Len(q) - 1)
      /\ \A n \in 1 .. 1 + (Len(q) - 1) : (<<x>> \o Front(q))[n] = IF n <= 1 THEN x ELSE Front(q)[n - 1]
  BY <1>2, <1>3, ConcatProperties
<1> QED
  BY <1>1, <1>2, <1>4

(* BeforePredict changes what the rotations are measured from and to.       *)
LEMMA Relating ==
  ASSUME Ranges, Vectors_, Model, NEW q \in Seq(Vectors)
  PROVE  /\ Relative(q) \in Seq(Vectors) /\ Len(Relative(q)) = Len(q)
         /\ \A n \in 1 .. Len(q) :
              Relative(q)[n] = IF n < Len(qX) THEN Vector(q[n].x, qPrev[n], node) ELSE q[n]
<1>1. Len(q) \in Nat /\ DOMAIN q = 1 .. Len(q) /\ \A n \in 1 .. Len(q) : q[n] \in Vectors
  BY LenProperties
<1>2. Len(qX) \in Nat /\ Len(qX) <= 4
  <2>1. iNumPreviousVectors \in 1 .. 4 /\ Len(qX) \in Nat
    BY NumbersOfInput, LenProperties DEF Ranges, Vectors_
  <2> QED
    BY <2>1 DEF Vectors_
<1>3. \A n \in 1 .. 4 : qPrev[n] \in Solutions
  BY LenProperties DEF Model, NPREV
<1>4. node \in Solutions
  BY DEF Model
<1>5. \A n \in 1 .. Len(q) :
         (IF n < Len(qX) THEN Vector(q[n].x, qPrev[n], node) ELSE q[n]) \in Vectors
  <2> SUFFICES ASSUME NEW n \in 1 .. Len(q), n < Len(qX)
               PROVE  Vector(q[n].x, qPrev[n], node) \in Vectors
    BY <1>1
  <2>1. q[n] \in Vectors /\ n \in 1 .. 4
    BY <1>1, <1>2
  <2>2. q[n].x \in Solutions /\ qPrev[n] \in Solutions
    BY <2>1, <1>3, SomeSolutions
  <2> QED
    BY <2>2, <1>4, SomeSolutions
<1>6. Relative(q) = [n \in 1 .. Len(q) |->
                       IF n < Len(qX) THEN Vector(q[n].x, qPrev[n], node) ELSE q[n]]
  BY <1>1 DEF Relative
<1> QED
  BY <1>1, <1>5, <1>6

LEMMA RelatingDerivatives ==
  ASSUME Ranges, Vectors_, Model
  PROVE  /\ RelativeDerivatives \in Seq(Vectors)
         /\ Len(RelativeDerivatives) = Len(qXPrime)
         /\ Len(qX) # 1 \/ Len(qXPrime) = 1 => RelativeDerivatives = Relative(qXPrime)
         /\ Len(qX) = 1 /\ Len(qXPrime) > 1 =>
              RelativeDerivatives[1] = Vector(qXPrime[1].x, qPrev[1], qPrev[1])
<1>1. qXPrime \in Seq(Vectors) /\ Len(qXPrime) \in Nat /\ iNumPreviousVectors \in 1 .. 4
      /\ Len(qXPrime) = iNumPreviousVectors
  BY NumbersOfInput, LenProperties DEF Vectors_, Ranges
<1>2. CASE Len(qX) = 1 /\ Len(qXPrime) > 1
  <2>1. qPrev[1] \in Solutions /\ qXPrime[1] \in Vectors
    BY <1>1, LenProperties DEF Model, NPREV
  <2>2. Vector(qXPrime[1].x, qPrev[1], qPrev[1]) \in Vectors
    BY <2>1, SomeSolutions
  <2> DEFINE e == Vector(qXPrime[1].x, qPrev[1], qPrev[1])
  <2>3. RelativeDerivatives = [qXPrime EXCEPT ![1] = e]
    BY <1>2 DEF RelativeDerivatives
  <2> HIDE DEF e
  <2>4. e \in Vectors
    BY <2>2 DEF e
  <2>5. /\ [qXPrime EXCEPT ![1] = e] \in Seq(Vectors)
        /\ Len([qXPrime EXCEPT ![1] = e]) = Len(qXPrime)
        /\ [qXPrime EXCEPT ![1] = e][1] = e
    BY <1>1, <2>4, ExceptSeq
  <2> QED
    BY <1>1, <1>2, <2>3, <2>5 DEF e
<1>3. CASE ~(Len(qX) = 1 /\ Len(qXPrime) > 1)
  BY <1>1, <1>3, Relating DEF RelativeDerivatives
<1> QED
  BY <1>2, <1>3

LEMMA SameInput ==
  ASSUME [Next]_vars
  PROVE  /\ input' = input /\ DummySteps' = DummySteps
         /\ iNumPreviousVectors' = iNumPreviousVectors
         /\ Solutions' = Solutions /\ Vectors' = Vectors
<1>1. input' = input
  BY DEF Next, Prepare, Advance, SolveDerivatives, DerivativesConverge, RepeatDerivatives,
    DerivativesConvergeOnSolution, BeginStep, SetTime, AdvanceStepN, AdvanceSingleStep,
    AdvanceStages, NextStage, StageConverges, ConvergesOnSolution, RepeatStep, EndRun,
    solver, vars
<1>2. DummySteps' = DummySteps /\ iNumPreviousVectors' = iNumPreviousVectors
  BY <1>1 DEF DummySteps, iNumPreviousVectors
<1>3. Solutions' = Solutions
  BY <1>2 DEF Solutions
<1> QED
  BY <1>1, <1>2, <1>3 DEF Vectors

LEMMA InitTypes == Init => TypeInv
<1> SUFFICES ASSUME Init PROVE TypeInv
  OBVIOUS
<1>1. Ranges /\ input \in Inputs /\ pc = "Derivatives"
  BY InitControl DEF Init, ControlInv
<1>2. iNumPreviousVectors \in 1 .. 4
  BY <1>1, NumbersOfInput
<1>3. Still(Nothing) \in Vectors /\ InitialState \in Solutions /\ Still(InitialState) \in Vectors
  BY <1>1, SomeSolutions
<1>4. \A n \in 1 .. iNumPreviousVectors : qX[n] \in Vectors
  BY <1>3 DEF Init
<1>5. Vectors_
  <2>1. /\ qX \in [1 .. iNumPreviousVectors -> Vectors]
        /\ qXPrime \in [1 .. iNumPreviousVectors -> Vectors]
    BY <1>3 DEF Init
  <2>2. /\ qX \in Seq(Vectors) /\ Len(qX) = iNumPreviousVectors
        /\ qXPrime \in Seq(Vectors) /\ Len(qXPrime) = iNumPreviousVectors
    BY <1>2, <2>1
  <2> QED
    BY <1>1, <1>2, <1>3, <2>2 DEF Init, Vectors_, Attempting
<1>6. Model
  <2>1. qPrev \in [1 .. 4 -> Solutions]
    BY <1>3 DEF Init, NPREV
  <2>2. qPrev \in Seq(Solutions) /\ Len(qPrev) = 4
    BY <2>1, FunctionIsSeq
  <2> QED
    BY <1>3, <2>2 DEF Init, Model, NPREV
<1>7. Integrator /\ History
  BY <1>1, <1>3, SomeSolutions DEF Init, Integrator, History
<1> QED
  BY <1>5, <1>6, <1>7 DEF TypeInv

(* What a step of the nonlinear solver that is accepted adds.               *)
LEMMA Accepting ==
  ASSUME Ranges, History, Accept
  PROVE  /\ accepted' \in Seq(Solutions) /\ accepted' # <<>>
         /\ Len(accepted') = IF Len(accepted) < 4 THEN Len(accepted) + 1 ELSE 4
         /\ accepted'[1] = Current
         /\ \A n \in 1 .. Len(accepted') - 1 : accepted'[n + 1] = accepted[n]
<1> DEFINE a == <<Current>> \o accepted
           l == IF Len(accepted) < 4 THEN Len(accepted) + 1 ELSE 4
<1>1. Len(accepted) \in 1 .. 4
  <2>1. Len(accepted) \in Nat \ {0} /\ Len(accepted) <= 4
    BY EmptySeq DEF History
  <2>2. \A m \in Nat \ {0} : m <= 4 => m \in 1 .. 4
    OBVIOUS
  <2> QED
    BY <2>1, <2>2, Zenon
<1>2. Current \in Solutions
  BY SomeSolutions
<1>3. <<Current>> \in Seq(Solutions) /\ Len(<<Current>>) = 1 /\ <<Current>>[1] = Current
  BY <1>2
<1>4. /\ a \in Seq(Solutions) /\ Len(a) = 1 + Len(accepted)
      /\ \A n \in 1 .. 1 + Len(accepted) : a[n] = IF n <= 1 THEN Current ELSE accepted[n - 1]
  BY <1>3, ConcatProperties DEF History
<1>5. accepted' = SubSeq(a, 1, l)
  BY DEF Accept
<1>6. l \in 2 .. 4 /\ l <= 1 + Len(accepted)
  BY <1>1
<1> HIDE DEF a, l
<1>7. \A n \in 1 .. l : a[n] \in Solutions
  BY <1>4, <1>6, <1>1, LenProperties
<1>8. /\ SubSeq(a, 1, l) \in Seq(Solutions) /\ Len(SubSeq(a, 1, l)) = l
      /\ \A n \in 1 .. l : SubSeq(a, 1, l)[n] = a[n]
  <2>1. /\ SubSeq(a, 1, l) \in Seq(Solutions)
        /\ Len(SubSeq(a, 1, l)) = IF 1 <= l THEN l - 1 + 1 ELSE 0
        /\ \A n \in 1 .. l - 1 + 1 : SubSeq(a, 1, l)[n] = a[1 + n - 1]
    BY <1>6, <1>7, SubSeqProperties
  <2> QED
    BY <1>6, <2>1
<1>9. Len(accepted') = l /\ accepted' \in Seq(Solutions) /\ accepted' # <<>>
  <2>1. Len(accepted') = l /\ accepted' \in Seq(Solutions)
    BY <1>5, <1>8
  <2>2. Len(accepted') # 0
    BY <2>1, <1>6
  <2> QED
    BY <2>1, <2>2, EmptySeq
<1>10. \A n \in 1 .. l : accepted'[n] = IF n <= 1 THEN Current ELSE accepted[n - 1]
  BY <1>4, <1>5, <1>6, <1>8, <1>1
<1>11. accepted'[1] = Current /\ \A n \in 1 .. l - 1 : accepted'[n + 1] = accepted[n]
  BY <1>6, <1>10
<1> QED
  BY <1>9, <1>11 DEF l

(* The beginning of a step: what BeforePredict and Flip make of the queues. *)
LEMMA Beginning ==
  ASSUME Ranges, TypeInv, BeginStep
  PROVE  /\ X' = Vector(X.x, node, node) /\ XPrime' = Vector(XPrime.x, node, node)
         /\ X' \in Vectors /\ XPrime' \in Vectors
         /\ qX' \in Seq(Vectors) /\ Len(qX') = Len(qX) /\ qX' # <<>> /\ qX'[1] = X'
         /\ \A n \in 1 .. Len(qX) - 1 : qX'[n + 1] = Vector(qX[n].x, qPrev[n], node)
         /\ qXPrime' \in Seq(Vectors) /\ Len(qXPrime') = Len(qXPrime) /\ qXPrime'[1] = XPrime'
         /\ \A n \in 1 .. Len(qXPrime) - 1 : qXPrime'[n + 1] = RelativeDerivatives[n]
         /\ qPrev' \in Seq(Solutions) /\ Len(qPrev') = NPREV /\ qPrev'[1] = node
         /\ \A n \in 1 .. NPREV - 1 : qPrev'[n + 1] = qPrev[n]
<1>1. /\ X \in Vectors /\ XPrime \in Vectors /\ node \in Solutions
      /\ qX \in Seq(Vectors) /\ qX # <<>> /\ qXPrime \in Seq(Vectors)
      /\ qPrev \in Seq(Solutions) /\ Len(qPrev) = NPREV
      /\ Vectors_ /\ Model
  BY DEF TypeInv, Vectors_, Model, BeginStep
<1>2. X' = Vector(X.x, node, node) /\ XPrime' = Vector(XPrime.x, node, node)
      /\ qX' = <<X'>> \o Front(Relative(qX))
      /\ qXPrime' = <<XPrime'>> \o Front(RelativeDerivatives)
      /\ qPrev' = <<node>> \o Front(qPrev)
  BY DEF BeginStep, Flip, Remember
<1>3. X' \in Vectors /\ XPrime' \in Vectors
  BY <1>1, <1>2, SomeSolutions
<1>4. /\ Relative(qX) \in Seq(Vectors) /\ Len(Relative(qX)) = Len(qX)
      /\ \A n \in 1 .. Len(qX) :
           Relative(qX)[n] = IF n < Len(qX) THEN Vector(qX[n].x, qPrev[n], node) ELSE qX[n]
  BY <1>1, Relating
<1>5. Len(qX) \in Nat /\ Len(qX) > 0 /\ Len(qXPrime) \in Nat /\ Len(qXPrime) > 0
  <2>1. iNumPreviousVectors \in 1 .. 4 /\ Len(qXPrime) = iNumPreviousVectors
    BY <1>1, NumbersOfInput DEF Vectors_, Ranges
  <2> QED
    BY <1>1, <2>1, EmptySeq
<1>6. /\ RelativeDerivatives \in Seq(Vectors) /\ Len(RelativeDerivatives) = Len(qXPrime)
  BY <1>1, RelatingDerivatives
<1>7. Relative(qX) # <<>> /\ RelativeDerivatives # <<>> /\ qPrev # <<>>
  <2>1. Len(<<>>) = 0
    OBVIOUS
  <2>2. Len(Relative(qX)) # 0
    BY <1>4, <1>5
  <2>3. Len(RelativeDerivatives) # 0
    BY <1>5, <1>6
  <2>4. Len(qPrev) # 0
    BY <1>1 DEF NPREV
  <2> QED
    BY <2>1, <2>2, <2>3, <2>4, Zenon
<1>8. /\ qX' \in Seq(Vectors) /\ Len(qX') = Len(qX) /\ qX'[1] = X'
      /\ \A n \in 1 .. Len(qX) - 1 : qX'[n + 1] = Relative(qX)[n]
  BY <1>2, <1>3, <1>4, <1>7, Flipping
<1>9. \A n \in 1 .. Len(qX) - 1 : qX'[n + 1] = Vector(qX[n].x, qPrev[n], node)
  BY <1>4, <1>5, <1>8
<1>10. /\ qXPrime' \in Seq(Vectors) /\ Len(qXPrime') = Len(qXPrime) /\ qXPrime'[1] = XPrime'
       /\ \A n \in 1 .. Len(qXPrime) - 1 : qXPrime'[n + 1] = RelativeDerivatives[n]
  BY <1>2, <1>3, <1>6, <1>7, Flipping
<1>11. /\ qPrev' \in Seq(Solutions) /\ Len(qPrev') = NPREV /\ qPrev'[1] = node
       /\ \A n \in 1 .. NPREV - 1 : qPrev'[n + 1] = qPrev[n]
  <2>1. /\ <<node>> \o Front(qPrev) \in Seq(Solutions)
        /\ Len(<<node>> \o Front(qPrev)) = Len(qPrev)
        /\ (<<node>> \o Front(qPrev))[1] = node
        /\ \A n \in 1 .. Len(qPrev) - 1 : (<<node>> \o Front(qPrev))[n + 1] = qPrev[n]
    <3>1. node \in Solutions /\ qPrev \in Seq(Solutions) /\ qPrev # <<>>
      BY <1>1, <1>7
    <3> QED
      <4> DEFINE S == Solutions
                 q == qPrev
                 x == node
      <4>1. x \in S /\ q \in Seq(S) /\ q # <<>>
        BY <3>1
      <4> HIDE DEF S, q, x
      <4>2. /\ <<x>> \o Front(q) \in Seq(S) /\ Len(<<x>> \o Front(q)) = Len(q)
            /\ (<<x>> \o Front(q))[1] = x
            /\ \A n \in 1 .. Len(q) - 1 : (<<x>> \o Front(q))[n + 1] = q[n]
        BY <4>1, Flipping
      <4> QED
        BY <4>2 DEF S, q, x
  <2> QED
    BY <1>1, <1>2, <2>1, Zenon
<1>12. qX' # <<>>
  BY <1>5, <1>8, EmptySeq
<1> QED
  BY <1>2, <1>3, <1>8, <1>9, <1>10, <1>11, <1>12

(* BeforePredict between two stages takes the last place the stage has in   *)
(* the queue.                                                               *)
LEMMA RelatingStages ==
  ASSUME Ranges, Model, NEW q, NEW k, NEW v \in Vectors
  PROVE  /\ Relate(q, k, v) \in Vectors
         /\ \A n \in 1 .. NPREV :
              n < Len(q) /\ q[n] = k /\ (\A p \in 1 .. NPREV : p < Len(q) /\ q[p] = k => p = n)
                => Relate(q, k, v) = Vector(v.x, qPrev[n], node)
<1> DEFINE places == {n \in 1 .. NPREV : n < Len(q) /\ q[n] = k}
           last == CHOOSE n \in places : \A p \in places : p <= n
<1>1. Relate(q, k, v) = IF places = {} THEN v ELSE Vector(v.x, qPrev[last], node)
  BY DEF Relate
<1>2. places \subseteq 1 .. 4
  BY DEF NPREV
<1>3. ASSUME places # {} PROVE last \in places
  <2> HIDE DEF places
  <2>1. \E n \in places : \A p \in places : p <= n
    <3>1. CASE 4 \in places
      BY <3>1, <1>2
    <3>2. CASE 4 \notin places /\ 3 \in places
      BY <3>2, <1>2
    <3>3. CASE 4 \notin places /\ 3 \notin places /\ 2 \in places
      BY <3>3, <1>2
    <3>4. CASE 4 \notin places /\ 3 \notin places /\ 2 \notin places
      <4>1. \A p \in places : p = 1
        BY <3>4, <1>2
      <4>2. 1 \in places
        BY <4>1, <1>3
      <4> QED
        BY <4>1, <4>2
    <3> QED
      BY <3>1, <3>2, <3>3, <3>4
  <2> QED
    BY <2>1
<1>4. \A n \in 1 .. 4 : qPrev[n] \in Solutions
  BY LenProperties DEF Model, NPREV
<1> HIDE DEF last
<1>5. Relate(q, k, v) \in Vectors
  <2>1. CASE places = {}
    BY <1>1, <2>1
  <2>2. CASE places # {}
    <3>1. qPrev[last] \in Solutions /\ v.x \in Solutions /\ node \in Solutions
      BY <1>2, <1>3, <1>4, <2>2, SomeSolutions DEF Model
    <3>2. Vector(v.x, qPrev[last], node) \in Vectors
      BY <3>1, SomeSolutions
    <3> QED
      BY <1>1, <2>2, <3>2
  <2> QED
    BY <2>1, <2>2
<1>6. ASSUME NEW n \in 1 .. NPREV, n < Len(q), q[n] = k,
             \A p \in 1 .. NPREV : p < Len(q) /\ q[p] = k => p = n
      PROVE  Relate(q, k, v) = Vector(v.x, qPrev[n], node)
  <2>1. places = {n}
    BY <1>6
  <2>2. last = n
    BY <1>3, <2>1
  <2> QED
    BY <1>1, <2>1, <2>2
<1> QED
  BY <1>5, <1>6

LEMMA CurrentIsSolution == Ranges => Current \in Solutions /\ EndOfStep \in Solutions
  BY SomeSolutions

LEMMA NextTypes ==
  ASSUME ControlInv, ControlInv', TypeInv, [Next]_vars
  PROVE  TypeInv'
<1>1. /\ Ranges /\ Ranges' /\ Phases /\ Phases' /\ Vectors_ /\ Model /\ Integrator /\ History
      /\ input \in Inputs /\ step \in Nat
      /\ Stages \in 1 .. 5 /\ stage \in 1 .. Stages
      /\ Type \in DOMAIN StageN <=> Stages > 1
      /\ iNumPreviousVectors \in 1 .. 4
  <2>1. Ranges /\ Ranges' /\ Phases /\ Phases' /\ Vectors_ /\ Model /\ Integrator /\ History
    BY DEF ControlInv, TypeInv
  <2>2. input \in Inputs /\ step \in Nat
    BY <2>1, NumbersOfInput, StepAssumption DEF Ranges
  <2>3. stage \in 1 .. Stages
    BY <2>1 DEF Ranges
  <2> QED
    BY <2>1, <2>2, <2>3, NumbersOfStep, NumbersOfInput
<1>2. Solutions' = Solutions /\ Vectors' = Vectors /\ iNumPreviousVectors' = iNumPreviousVectors
  BY SameInput
<1>3. ASSUME UNCHANGED <<input, step>> PROVE Type' = Type /\ Stages' = Stages
  BY <1>3, SameStep
<1>4. Current \in Solutions /\ EndOfStep \in Solutions /\ InitialState \in Solutions
      /\ Nothing \in Solutions /\ Mixed \in Solutions
      /\ Current' \in Solutions /\ EndOfStep' \in Solutions
  <2>1. Current' \in Solutions' /\ EndOfStep' \in Solutions'
    <3>1. (Ranges => Current \in Solutions /\ EndOfStep \in Solutions)'
      BY CurrentIsSolution, PTL
    <3> QED
      BY <1>1, <3>1
  <2> QED
    BY <1>1, <1>2, <2>1, SomeSolutions
<1>5. \A n \in 1 .. Len(qX) : qX[n] \in Vectors
  BY <1>1, LenProperties DEF Vectors_
<1>6. Len(qX) \in Nat /\ Len(qXPrime) = iNumPreviousVectors /\ qXPrime[1] \in Vectors
      /\ (qX # <<>> => Len(qX) \in 1 .. 4 /\ qX[1] \in Vectors)
  <2>1. Len(qX) \in Nat /\ Len(qXPrime) = iNumPreviousVectors /\ Len(qX) <= Len(qXPrime)
    BY <1>1, LenProperties DEF Vectors_
  <2>2. \A n \in 1 .. Len(qXPrime) : qXPrime[n] \in Vectors
    BY <1>1, LenProperties DEF Vectors_
  <2>3. qX # <<>> => Len(qX) # 0
    BY <1>1, EmptySeq DEF Vectors_
  <2>4. qXPrime[1] \in Vectors
    <3>1. 1 \in 1 .. iNumPreviousVectors
      BY <1>1
    <3> QED
      BY <2>1, <2>2, <3>1, Zenon
  <2>5. \A m, n \in Nat : n \in 1 .. 4 /\ m <= n /\ m # 0 => m \in 1 .. 4 /\ 1 \in 1 .. m
    OBVIOUS
  <2>6. ASSUME qX # <<>> PROVE Len(qX) \in 1 .. 4 /\ 1 \in 1 .. Len(qX)
    <3>1. iNumPreviousVectors \in Nat
      BY <1>1
    <3> QED
      BY <1>1, <2>1, <2>3, <2>5, <2>6, <3>1, Zenon
  <2> QED
    BY <1>5, <2>1, <2>4, <2>6
<1>7. \A x, y \in Solutions : Vector(x, y, Nothing) \in Vectors
  BY <1>4, SomeSolutions
<1>8. CASE SolveDerivatives \/ DerivativesConverge \/ RepeatDerivatives \/ DerivativesConvergeOnSolution
  <2>1. UNCHANGED <<input, step, stage, qX, qXPrime, time, qPrev, inte, mX, mXP, mqX, read>>
        /\ pc' \notin {"SetTime", "SetTimeAgain", "Advance", "Solve", "Stage"}
    BY <1>8 DEF SolveDerivatives, DerivativesConverge, RepeatDerivatives,
      DerivativesConvergeOnSolution, solver, vectors, model, integrator
  <2>2. /\ X' \in {X, Vector(Current, Current, Nothing)}
        /\ XPrime' \in {XPrime, Vector(Current, Current, Nothing)}
        /\ node' \in {node, Current, X.x} /\ committed' \in {committed, node}
        /\ accepted' \in {accepted, <<Current>>}
    BY <1>8 DEF SolveDerivatives, DerivativesConverge, RepeatDerivatives,
      DerivativesConvergeOnSolution, solver, vectors, model, integrator
  <2>3. Vectors_'
    BY <1>1, <1>2, <1>4, <1>7, <2>1, <2>2 DEF Vectors_, Attempting
  <2>4. Model'
    BY <1>1, <1>2, <1>4, <2>1, <2>2, SomeSolutions DEF Model, Vectors_
  <2>5. Integrator'
    BY <1>1, <1>2, <1>3, <2>1 DEF Integrator
  <2>6. <<Current>> \in Seq(Solutions) /\ <<Current>> # <<>> /\ Len(<<Current>>) = 1
    BY <1>4
  <2>7. History'
    <3>1. accepted' \in Seq(Solutions) /\ accepted' # <<>> /\ Len(accepted') <= 4
      <4>1. CASE accepted' = accepted
        BY <1>1, <4>1 DEF History
      <4>2. CASE accepted' = <<Current>>
        <5>1. 1 <= 4
          OBVIOUS
        <5> QED
          BY <2>6, <4>2, <5>1, Zenon
      <4> QED
        BY <2>2, <4>1, <4>2
    <3> QED
      BY <1>1, <1>2, <2>1, <3>1 DEF History
  <2> QED
    BY <2>3, <2>4, <2>5, <2>7 DEF TypeInv
<1>9. CASE BeginStep
  <2>1. /\ X' \in Vectors /\ XPrime' \in Vectors
        /\ qX' \in Seq(Vectors) /\ Len(qX') = Len(qX) /\ qX' # <<>>
        /\ qXPrime' \in Seq(Vectors) /\ Len(qXPrime') = Len(qXPrime)
        /\ qPrev' \in Seq(Solutions) /\ Len(qPrev') = NPREV
    BY <1>1, <1>9, Beginning
  <2>2. /\ UNCHANGED <<input, node, committed, time, read, accepted>>
        /\ step' = step + 1 /\ pc' = "SetTime"
        /\ IF step = DummySteps
           THEN inte' = Nothing /\ mX' = <<>> /\ mXP' = <<>> /\ mqX' = <<>>
           ELSE UNCHANGED <<inte, mX, mXP, mqX>>
    BY <1>9 DEF BeginStep, integrator
  <2>3. step # DummySteps => Type' = Type /\ Stages' = Stages
    BY <1>1, <2>2, NextStep
  <2>4. Vectors_'
    BY <1>1, <1>2, <1>6, <2>1, <2>2 DEF Vectors_
  <2>5. Model'
    BY <1>1, <1>2, <2>1, <2>2 DEF Model
  <2>6. Integrator'
    <3>1. CASE step = DummySteps
      BY <1>2, <1>4, <2>2, <3>1 DEF Integrator
    <3>2. CASE step # DummySteps
      BY <1>1, <1>2, <2>2, <2>3, <3>2 DEF Integrator
    <3> QED
      BY <3>1, <3>2
  <2>7. History'
    BY <1>1, <1>2, <2>2 DEF History
  <2> QED
    BY <2>4, <2>5, <2>6, <2>7 DEF TypeInv
<1>10. CASE SetTime
  <2>1. /\ UNCHANGED <<input, step, X, XPrime, qX, qXPrime, node, committed, qPrev, inte, mX, mXP,
                       mqX, read, accepted>>
        /\ pc \in Attempting /\ pc' \in Attempting /\ time' = EndOfStep
    BY <1>10 DEF SetTime, solver, vectors, integrator, Attempting
  <2>2. Vectors_'
    BY <1>1, <1>2, <2>1 DEF Vectors_, Attempting
  <2>3. Model' /\ Integrator' /\ History'
    BY <1>1, <1>2, <1>3, <1>4, <2>1 DEF Model, Integrator, History, Attempting
  <2> QED
    BY <2>2, <2>3 DEF TypeInv
<1>11. CASE StageConverges \/ ConvergesOnSolution
  <2>1. /\ UNCHANGED <<input, step, X, XPrime, qX, qXPrime, node, qPrev, time, inte, mX, mXP, read>>
        /\ pc = "Solve" /\ pc' \in {"Stage", "Idle"}
        /\ committed' \in {committed, node} /\ mqX' \in {mqX, <<>>}
        /\ Accept \/ accepted' = accepted
    BY <1>11 DEF StageConverges, ConvergesOnSolution, solver, vectors, model, integrator, Accept
  <2>2. Vectors_'
    BY <1>1, <1>2, <1>3, <2>1 DEF Vectors_, Attempting
  <2>3. Model' /\ Integrator'
    <3>1. mqX' \in Seq(0 .. 4)
      <4>1. mqX \in Seq(0 .. 4) /\ <<>> \in Seq(0 .. 4)
        BY <1>1 DEF Integrator
      <4> QED
        BY <2>1, <4>1, Zenon
    <3> QED
      BY <1>1, <1>2, <1>3, <2>1, <3>1 DEF Model, Integrator
  <2>4. accepted' \in Seq(Solutions) /\ accepted' # <<>> /\ Len(accepted') <= 4
    <3>1. CASE Accept
      <4>1. /\ accepted' \in Seq(Solutions) /\ accepted' # <<>>
            /\ Len(accepted') = IF Len(accepted) < 4 THEN Len(accepted) + 1 ELSE 4
        BY <1>1, <3>1, Accepting
      <4>2. Len(accepted) \in Nat
        BY <1>1, LenProperties DEF History
      <4>3. Len(accepted') <= 4
        BY <4>1, <4>2
      <4> QED
        BY <4>1, <4>3
    <3>2. CASE accepted' = accepted
      BY <1>1, <3>2 DEF History
    <3> QED
      BY <2>1, <3>1, <3>2
  <2>5. History'
    BY <1>1, <1>2, <2>1, <2>4 DEF History
  <2> QED
    BY <2>2, <2>3, <2>5 DEF TypeInv
<1>12. CASE RepeatStep
  <2>1. /\ UNCHANGED <<input, step, vectors, model, integrator, read, accepted>>
        /\ pc = "Solve" /\ pc' = "SetTime"
        /\ ~IsDummy /\ input.RegularType \in VariableStep
    BY <1>12 DEF RepeatStep
  <2>2. Type \notin SingleStep
    BY <2>1, Kinds DEF Type
  <2>3. Vectors_'
    BY <1>1, <1>2, <2>1, <2>2 DEF Vectors_, vectors
  <2>4. Model' /\ Integrator' /\ History'
    BY <1>1, <1>2, <1>3, <2>1 DEF Model, Integrator, History, model, integrator
  <2> QED
    BY <2>3, <2>4 DEF TypeInv
<1>13. CASE EndRun \/ UNCHANGED vars
  <2>1. /\ UNCHANGED <<input, step, vectors, model, integrator, read, accepted>>
        /\ pc' = "End" \/ pc' = pc
    BY <1>13 DEF EndRun, solver, vars
  <2>2. Vectors_'
    BY <1>1, <1>2, <1>3, <2>1 DEF Vectors_, vectors, Attempting
  <2>3. Model' /\ Integrator' /\ History'
    BY <1>1, <1>2, <1>3, <2>1 DEF Model, Integrator, History, model, integrator
  <2> QED
    BY <2>2, <2>3 DEF TypeInv
<1>14. CASE AdvanceStepN
  <2> DEFINE n == IF IsStartUp THEN Place ELSE StepN[Type]
  <2>1. /\ UNCHANGED <<input, step, stage, try, qX, qXPrime, qPrev, committed, time, inte, mX, mXP,
                       mqX, accepted>>
        /\ pc = "Advance" /\ pc' = "Solve" /\ Type \in DOMAIN StepN
        /\ node' = Current /\ X' = Vector(Current, Current, Nothing) /\ XPrime' = X'
        /\ Len(qX) >= n /\ read' = SubSeq(qX, 1, n) \o SubSeq(qXPrime, 1, n)
    BY <1>14 DEF AdvanceStepN, Predict, solver
  <2>2. n \in Nat
    BY <1>1, <2>1, NumbersOfStep, StepTable
  <2> HIDE DEF n
  <2>3. SubSeq(qX, 1, n) \in Seq(Vectors) /\ SubSeq(qXPrime, 1, n) \in Seq(Vectors)
    <3>1. n <= Len(qX) /\ n <= Len(qXPrime)
      BY <1>1, <1>6, <2>1, <2>2 DEF Vectors_
    <3> QED
      BY <1>1, <2>2, <3>1, Beginnings DEF Vectors_
  <2>4. read' \in Seq(Vectors)
    BY <2>1, <2>3, Joining
  <2>5. Vectors_'
    BY <1>1, <1>2, <1>3, <1>4, <1>7, <2>1 DEF Vectors_, Attempting
  <2>6. Model'
    BY <1>1, <1>2, <1>4, <2>1 DEF Model
  <2>7. Integrator'
    BY <1>1, <1>2, <1>3, <2>1, Kinds DEF Integrator
  <2>8. History'
    BY <1>1, <1>2, <2>1, <2>4 DEF History
  <2> QED
    BY <2>5, <2>6, <2>7, <2>8 DEF TypeInv
<1>15. CASE AdvanceSingleStep
  <2>1. /\ UNCHANGED <<input, step, stage, try, qXPrime, qPrev, committed, time, mX, mXP, mqX,
                       accepted>>
        /\ pc = "Advance" /\ pc' = "Solve" /\ Type \in SingleStep /\ qX # <<>>
        /\ node' = Current /\ X' = Vector(Current, Current, Nothing) /\ XPrime' = X'
        /\ qX' \in {qX, Front(qX)}
        /\ inte' \in {qXPrime[1].x, Mixed}
        /\ read' \in {<<Still(Nothing), qXPrime[1]>>, <<qX[1], qXPrime[1]>>}
    BY <1>15 DEF AdvanceSingleStep, UpdateInte, Predict, solver
  <2>2. read' \in Seq(Vectors)
    <3>1. Still(Nothing) \in Vectors /\ qX[1] \in Vectors /\ qXPrime[1] \in Vectors
      BY <1>4, <1>6, <2>1, SomeSolutions
    <3> DEFINE a == Still(Nothing)
               b == qX[1]
               c == qXPrime[1]
               V == Vectors
    <3>2. a \in V /\ b \in V /\ c \in V /\ read' \in {<<a, c>>, <<b, c>>}
      BY <2>1, <3>1
    <3> HIDE DEF a, b, c, V
    <3>3. <<a, c>> \in Seq(V) /\ <<b, c>> \in Seq(V)
      BY <3>2
    <3>4. read' \in Seq(V)
      BY <3>2, <3>3
    <3> QED
      BY <3>4 DEF V
  <2>3. qX' \in Seq(Vectors) /\ Len(qX') <= Len(qX)
    <3>4. Front(qX) \in Seq(Vectors) /\ Len(Front(qX)) <= Len(qX)
      <4>1. Front(qX) \in Seq(Vectors) /\ Len(Front(qX)) = Len(qX) - 1
        BY <1>1, <2>1, Dropping DEF Vectors_
      <4>2. Len(qX) - 1 <= Len(qX)
        BY <1>6
      <4> QED
        BY <4>1, <4>2, Zenon
    <3>5. qX \in Seq(Vectors) /\ Len(qX) <= Len(qX)
      BY <1>1, <1>6 DEF Vectors_
    <3> QED
      BY <2>1, <3>4, <3>5
  <2>4. inte' \in Solutions
    BY <1>4, <1>6, <2>1, SomeSolutions
  <2>5. Type' = Type
    BY <1>3, <2>1
  <2>6. Len(qX') <= Len(qXPrime')
    <3>1. Len(qX') \in Nat /\ Len(qX) <= Len(qXPrime)
      BY <1>1, <2>3, LenProperties DEF Vectors_
    <3>2. \A a, b, c \in Nat : a <= b /\ b <= c => a <= c
      OBVIOUS
    <3>3. Len(qXPrime) \in Nat
      BY <1>1, <1>6
    <3> QED
      BY <1>6, <2>1, <2>3, <3>1, <3>2, <3>3, Zenon
  <2>7. Vectors_'
    BY <1>1, <1>2, <1>4, <1>7, <2>1, <2>3, <2>5, <2>6 DEF Vectors_, Attempting
  <2>8. Model'
    BY <1>1, <1>2, <1>4, <2>1 DEF Model
  <2>9. Integrator'
    BY <1>1, <1>2, <1>3, <2>1, <2>4, Kinds DEF Integrator
  <2>10. History'
    BY <1>1, <1>2, <2>1, <2>2 DEF History
  <2> QED
    BY <2>7, <2>8, <2>9, <2>10 DEF TypeInv
<1>16. CASE AdvanceStages
  <2>1. /\ UNCHANGED <<input, step, stage, try, qX, qXPrime, qPrev, committed, inte, accepted>>
        /\ pc = "Advance" /\ pc' = "Solve" /\ Type \in DOMAIN StageN
        /\ node' = Current /\ X' = Vector(Current, Current, Nothing) /\ XPrime' = X'
        /\ mqX' = <<0>> \o mqX /\ read' = <<qX[1], qXPrime[1]>>
        /\ mX' = IF mX = <<>> THEN [k \in 1 .. Stages - 1 |-> Still(Nothing)] ELSE mX
        /\ mXP' = IF mX = <<>> THEN mX' ELSE mXP
    BY <1>16 DEF AdvanceStages, Predict, solver
  <2>2. Type' = Type /\ Stages' = Stages /\ Type \notin SingleStep /\ Stages > 1
    BY <1>1, <1>3, <2>1, Kinds
  <2>3. qX # <<>>
    BY <1>1, <2>1 DEF Vectors_, Attempting
  <2>4. read' \in Seq(Vectors)
    <3>1. qX[1] \in Vectors /\ qXPrime[1] \in Vectors
      BY <1>6, <2>3
    <3> DEFINE a == qX[1]
               b == qXPrime[1]
               V == Vectors
    <3>2. a \in V /\ b \in V /\ read' = <<a, b>>
      BY <2>1, <3>1
    <3> HIDE DEF a, b, V
    <3>3. read' \in Seq(V)
      BY <3>2
    <3> QED
      BY <3>3 DEF V
  <2>5. mqX' \in Seq(0 .. 4)
    <3>1. mqX \in Seq(0 .. 4) /\ <<0>> \in Seq(0 .. 4)
      BY <1>1, OneIsSeq DEF Integrator
    <3> QED
      BY <2>1, <3>1, Joining
  <2>6. mX' \in Seq(Vectors) /\ Len(mX') = Stages - 1 /\ mXP' \in Seq(Vectors) /\ Len(mXP') = Stages - 1
    <3>1. CASE mX = <<>>
      <4>1. Stages - 1 \in Nat /\ Still(Nothing) \in Vectors
        BY <1>1, <1>4, SomeSolutions
      <4>2. mX' \in [1 .. Stages - 1 -> Vectors] /\ mXP' = mX'
        BY <2>1, <3>1, <4>1
      <4>3. mX' \in Seq(Vectors) /\ Len(mX') = Stages - 1
        BY <4>1, <4>2, FunctionIsSeq
      <4> QED
        BY <4>2, <4>3
    <3>2. CASE mX # <<>>
      BY <1>1, <2>1, <3>2 DEF Integrator
    <3> QED
      BY <3>1, <3>2
  <2>7. mX' # <<>>
    <3>1. Len(mX') # 0
      BY <1>1, <2>2, <2>6
    <3> QED
      BY <2>6, <3>1, EmptySeq
  <2>8. Vectors_'
    BY <1>1, <1>2, <1>4, <1>7, <2>1, <2>3 DEF Vectors_, Attempting
  <2>9. Model'
    <3>1. time' \in Solutions
      BY <1>1, <1>4, <2>1 DEF Phases
    <3> QED
      BY <1>1, <1>2, <1>4, <2>1, <3>1 DEF Model
  <2>10. Integrator'
    BY <1>1, <1>2, <2>1, <2>2, <2>5, <2>6, <2>7 DEF Integrator
  <2>11. History'
    BY <1>1, <1>2, <2>1, <2>4 DEF History
  <2> QED
    BY <2>8, <2>9, <2>10, <2>11 DEF TypeInv
<1>17. CASE NextStage
  <2> DEFINE q == mqX'
  <2>1. /\ UNCHANGED <<input, step, try, committed, inte, accepted>>
        /\ pc = "Stage" /\ pc' = "Solve" /\ stage' = stage + 1
        /\ node' = Solution(step, try, stage + 1)
        /\ X' = Vector(Solution(step, try, stage + 1), Solution(step, try, stage + 1), Nothing)
        /\ XPrime' = X'
        /\ mqX' = <<stage - 1>> \o mqX /\ qPrev' = <<node>> \o Front(qPrev)
        /\ qX' = [qX EXCEPT ![1] = Relate(q, 0, qX[1])]
        /\ qXPrime' = [qXPrime EXCEPT ![1] = Relate(q, 0, qXPrime[1])]
        /\ mX' = [k \in DOMAIN mX |-> IF k = stage THEN Vector(X.x, node, node)
                                                   ELSE Relate(q, k, mX[k])]
        /\ mXP' = [k \in DOMAIN mXP |-> IF k = stage THEN Vector(XPrime.x, node, node)
                                                     ELSE Relate(q, k, mXP[k])]
        /\ read' = (Reverse(SubSeq(mX', 1, stage)) \o <<qX'[1]>>)
                     \o Reverse(SubSeq(mXP', 1, stage)) \o <<qXPrime'[1]>>
    BY <1>17 DEF NextStage, Predict, Remember, solver
  <2> HIDE DEF q
  <2>2. /\ Type' = Type /\ Stages' = Stages /\ stage < Stages /\ Stages > 1
        /\ Type \in DOMAIN StageN /\ Type \notin SingleStep
    <3>1. stage < Stages
      BY <1>1, <2>1 DEF Phases
    <3>2. Stages > 1
      BY <1>1, <3>1
    <3> QED
      BY <1>1, <1>3, <2>1, <3>1, <3>2, Kinds
  <2>3. Current' \in Solutions /\ Current' = Solution(step, try, stage + 1)
    BY <1>4, <2>1 DEF Current
  <2>4. qX # <<>>
    BY <1>1, <2>1, <2>2 DEF Vectors_
  <2>5. /\ qX' \in Seq(Vectors) /\ Len(qX') = Len(qX) /\ qX'[1] \in Vectors /\ qX' # <<>>
        /\ qXPrime' \in Seq(Vectors) /\ Len(qXPrime') = Len(qXPrime) /\ qXPrime'[1] \in Vectors
    <3> DEFINE e == Relate(q, 0, qX[1])
               p == Relate(q, 0, qXPrime[1])
    <3>1. e \in Vectors /\ p \in Vectors
      BY <1>1, <1>6, <2>4, RelatingStages
    <3>2. qX' = [qX EXCEPT ![1] = e] /\ qXPrime' = [qXPrime EXCEPT ![1] = p]
      BY <2>1
    <3> HIDE DEF e, p
    <3>3. 1 \in 1 .. Len(qX) /\ 1 \in 1 .. Len(qXPrime) /\ Len(qX) # 0
      BY <1>1, <1>6, <2>4
    <3>4. qX \in Seq(Vectors) /\ qXPrime \in Seq(Vectors)
      BY <1>1 DEF Vectors_
    <3>5. /\ qX' \in Seq(Vectors) /\ Len(qX') = Len(qX) /\ qX'[1] = e
          /\ qXPrime' \in Seq(Vectors) /\ Len(qXPrime') = Len(qXPrime) /\ qXPrime'[1] = p
      BY <3>1, <3>2, <3>3, <3>4, ExceptSeq
    <3>6. qX' # <<>>
      <4>1. Len(qX') # 0
        BY <3>3, <3>5
      <4> QED
        BY <3>5, <4>1, EmptySeq
    <3> QED
      BY <3>1, <3>5, <3>6
  <2>6. /\ mX' \in Seq(Vectors) /\ Len(mX') = Stages - 1
        /\ mXP' \in Seq(Vectors) /\ Len(mXP') = Stages - 1
    <3>1. /\ mX # <<>> /\ mX \in Seq(Vectors) /\ mXP \in Seq(Vectors)
          /\ Len(mX) = Stages - 1 /\ Len(mXP) = Stages - 1
      BY <1>1, <2>1, <2>2 DEF Integrator
    <3> DEFINE m == Stages - 1
    <3>2. m \in Nat
      BY <1>1
    <3> HIDE DEF m
    <3>3. /\ DOMAIN mX = 1 .. m /\ DOMAIN mXP = 1 .. m
          /\ \A k \in 1 .. m : mX[k] \in Vectors /\ mXP[k] \in Vectors
      BY <3>1, LenProperties DEF m
    <3>4. Vector(X.x, node, node) \in Vectors /\ Vector(XPrime.x, node, node) \in Vectors
      BY <1>1, SomeSolutions DEF Vectors_, Model
    <3>5. \A k \in 1 .. m : Relate(q, k, mX[k]) \in Vectors /\ Relate(q, k, mXP[k]) \in Vectors
      BY <1>1, <3>3, RelatingStages
    <3>6. mX' \in [1 .. m -> Vectors] /\ mXP' \in [1 .. m -> Vectors]
      BY <2>1, <3>3, <3>4, <3>5
    <3>7. mX' \in Seq(Vectors) /\ Len(mX') = m /\ mXP' \in Seq(Vectors) /\ Len(mXP') = m
      BY <3>2, <3>6, FunctionIsSeq
    <3> QED
      BY <3>7 DEF m
  <2>7. mX' # <<>>
    <3>1. Len(mX') # 0
      BY <1>1, <2>2, <2>6
    <3> QED
      BY <2>6, <3>1, EmptySeq
  <2>8. mqX' \in Seq(0 .. 4)
    <3>1. mqX \in Seq(0 .. 4) /\ stage - 1 \in 0 .. 4
      BY <1>1 DEF Integrator
    <3>2. <<stage - 1>> \in Seq(0 .. 4)
      BY <3>1, OneIsSeq
    <3> QED
      BY <2>1, <3>1, <3>2, Joining
  <2>9. qPrev' \in Seq(Solutions) /\ Len(qPrev') = NPREV
    <3>1. qPrev \in Seq(Solutions) /\ Len(qPrev) = NPREV /\ node \in Solutions
      BY <1>1 DEF Model
    <3>2. qPrev # <<>>
      <4>1. Len(qPrev) # 0
        BY <3>1 DEF NPREV
      <4> QED
        BY <3>1, <4>1, EmptySeq
    <3> DEFINE S == Solutions
               r == qPrev
               x == node
    <3>3. x \in S /\ r \in Seq(S) /\ r # <<>>
      BY <3>1, <3>2
    <3> HIDE DEF S, r, x
    <3>4. <<x>> \o Front(r) \in Seq(S) /\ Len(<<x>> \o Front(r)) = Len(r)
      BY <3>3, Flipping
    <3> QED
      BY <2>1, <3>1, <3>4 DEF S, r, x
  <2>10. read' \in Seq(Vectors)
    <3> DEFINE m == mX'
               p == mXP'
               a == qX'[1]
               b == qXPrime'[1]
    <3>1. /\ m \in Seq(Vectors) /\ p \in Seq(Vectors) /\ stage \in Nat
          /\ stage <= Len(m) /\ stage <= Len(p) /\ a \in Vectors /\ b \in Vectors
      BY <1>1, <2>2, <2>5, <2>6
    <3>2. read' = (Reverse(SubSeq(m, 1, stage)) \o <<a>>) \o Reverse(SubSeq(p, 1, stage)) \o <<b>>
      BY <2>1
    <3> HIDE DEF m, p, a, b
    <3>3. SubSeq(m, 1, stage) \in Seq(Vectors) /\ SubSeq(p, 1, stage) \in Seq(Vectors)
      BY <3>1, Beginnings
    <3>4. Reverse(SubSeq(m, 1, stage)) \in Seq(Vectors) /\ Reverse(SubSeq(p, 1, stage)) \in Seq(Vectors)
      BY <3>3, Reversing
    <3>5. <<a>> \in Seq(Vectors) /\ <<b>> \in Seq(Vectors)
      BY <3>1, OneIsSeq
    <3>6. Reverse(SubSeq(m, 1, stage)) \o <<a>> \in Seq(Vectors)
      BY <3>4, <3>5, Joining
    <3>7. Reverse(SubSeq(m, 1, stage)) \o <<a>> \o Reverse(SubSeq(p, 1, stage)) \in Seq(Vectors)
      BY <3>4, <3>6, Joining
    <3> QED
      BY <3>2, <3>5, <3>7, Joining
  <2>11. Vectors_'
    BY <1>1, <1>2, <1>6, <1>7, <2>1, <2>3, <2>5 DEF Vectors_
  <2>12. Model'
    <3>1. time' \in Solutions
      BY <1>1, <1>4, <2>1 DEF Phases
    <3> QED
      BY <1>1, <1>2, <2>1, <2>3, <2>9, <3>1 DEF Model
  <2>13. Integrator'
    BY <1>1, <1>2, <2>1, <2>2, <2>6, <2>7, <2>8 DEF Integrator
  <2>14. History'
    BY <1>1, <1>2, <2>1, <2>10 DEF History
  <2> QED
    BY <2>11, <2>12, <2>13, <2>14 DEF TypeInv
<1> QED
  BY <1>8, <1>9, <1>10, <1>11, <1>12, <1>13, <1>14, <1>15, <1>16, <1>17 DEF Next, Prepare, Advance

LEMMA TypeInvariant == Spec => []TypeInv
  BY InitTypes, NextTypes, ControlInvariant, PTL DEF Spec

(* The variables have their types in every run, whatever the integrators,   *)
(* the number of dummy and of regular steps, and of attempts at one.        *)
THEOREM TypeCorrect == Spec => []TypeOK
<1>1. ControlInv /\ HopeInv /\ TypeInv => TypeOK
  <2> SUFFICES ASSUME ControlInv, HopeInv, TypeInv PROVE TypeOK
    OBVIOUS
  <2>1. qPrev \in [1 .. NPREV -> Solutions]
    <3>1. DOMAIN qPrev = 1 .. NPREV /\ qPrev \in [1 .. Len(qPrev) -> Solutions] /\ Len(qPrev) = NPREV
      BY LenProperties DEF TypeInv, Model
    <3> QED
      BY <3>1, Zenon
  <2> QED
    BY <2>1 DEF TypeOK, ControlInv, Ranges, HopeInv, TypeInv, Vectors_, Model, Integrator, History
<1> QED
  BY <1>1, ControlInvariant, HopeInvariant, TypeInvariant, PTL

-----------------------------------------------------------------------------
\* Where the present solution is.

(* No exception threw away derivatives or left stages in their queues.      *)
Unspoilt == thrown \subseteq {"step"}

(* An attempt is under way that may be repeated.                            *)
Repeatable == pc \in Attempting \/ (pc = "Solve" /\ Type \in DOMAIN StepN)

AtSolution ==
  /\ pc = "Derived" => node = Current
  /\ pc \in {"Solve", "Stage"} => node = Current /\ X.x = Current /\ XPrime.x = Current
  /\ pc = "Idle" => /\ node = accepted[1]
                    /\ step > 0 => accepted[1] = Current
                    /\ Unspoilt => X.x = accepted[1] /\ XPrime.x = accepted[1]

AtBeginning ==
  Repeatable => /\ qPrev[1] = accepted[1]
                /\ Unspoilt => qX[1] = Still(accepted[1]) /\ qXPrime[1] = Still(accepted[1])

Told == thrown = {} /\ (Repeatable \/ pc = "Idle") => committed = accepted[1]

NoStages ==
  Unspoilt /\ pc # "End" /\ (pc \notin {"Solve", "Stage"} \/ Type \notin DOMAIN StageN)
    => mqX = <<>>

PresentInv == AtSolution /\ AtBeginning /\ Told /\ NoStages

LEMMA InitPresent == Init => PresentInv
<1> SUFFICES ASSUME Init PROVE PresentInv
  OBVIOUS
<1>1. pc = "Derivatives" /\ mqX = <<>>
  BY DEF Init
<1> QED
  BY <1>1 DEF PresentInv, AtSolution, AtBeginning, Told, NoStages, Repeatable, Attempting

LEMMA NextPresent ==
  ASSUME ControlInv, ControlInv', TypeInv, PresentInv, [Next]_vars
  PROVE  PresentInv'
<1>1. /\ Ranges /\ Phases /\ Phases' /\ AtSolution /\ AtBeginning /\ Told /\ NoStages /\ History
      /\ input \in Inputs /\ step \in Nat
      /\ Type \in DOMAIN StageN <=> Stages > 1
      /\ Type \in RegularTypes
      /\ Type \in DOMAIN StepN => Type \notin DOMAIN StageN
      /\ Type \in SingleStep => Type \notin DOMAIN StageN /\ Type \notin DOMAIN StepN
  <2>1. Ranges /\ Phases /\ Phases' /\ AtSolution /\ AtBeginning /\ Told /\ NoStages /\ History
    BY DEF ControlInv, PresentInv, TypeInv
  <2>2. input \in Inputs /\ step \in Nat
    BY <2>1, NumbersOfInput, StepAssumption DEF Ranges
  <2> QED
    BY <2>1, <2>2, NumbersOfStep, Kinds
<1>2. ASSUME UNCHANGED <<input, step>> PROVE Type' = Type /\ Stages' = Stages
  BY <1>2, SameStep
<1>3. ASSUME UNCHANGED <<step, try, stage>> PROVE Current' = Current
  BY <1>3 DEF Current
<1>4. \A x, from, to : Vector(x, from, to).x = x
  BY SomeSolutions
<1>5. <<Current>>[1] = Current
  OBVIOUS
<1> USE DEF Unspoilt, Repeatable, Attempting
<1>6. CASE SolveDerivatives \/ DerivativesConverge \/ RepeatDerivatives \/ DerivativesConvergeOnSolution
  <2>1. CASE SolveDerivatives
    <3>1. UNCHANGED <<input, step, try, stage, thrown, mqX>> /\ pc = "Derivatives" /\ pc' = "Derived"
          /\ node' = Current
      BY <2>1 DEF SolveDerivatives, solver, integrator
    <3> QED
      BY <1>1, <1>2, <1>3, <3>1 DEF PresentInv, AtSolution, AtBeginning, Told, NoStages
  <2>2. CASE DerivativesConverge
    <3>1. /\ UNCHANGED <<input, step, try, stage, thrown, mqX, node>>
          /\ pc = "Derived" /\ pc' = "Idle"
          /\ committed' = node /\ accepted' = <<Current>>
          /\ X' = Vector(Current, Current, Nothing) /\ XPrime' = X'
      BY <2>2 DEF DerivativesConverge, solver, integrator
    <3>2. step = 0 /\ node = Current
      BY <1>1, <3>1 DEF Phases, AtSolution
    <3> QED
      BY <1>1, <1>2, <1>3, <1>4, <1>5, <3>1, <3>2
        DEF PresentInv, AtSolution, AtBeginning, Told, NoStages
  <2>3. CASE RepeatDerivatives
    <3>1. UNCHANGED <<input, step, thrown, mqX>> /\ pc = "Derived" /\ pc' = "Derivatives"
      BY <2>3 DEF RepeatDerivatives, integrator
    <3> QED
      BY <1>1, <1>2, <3>1 DEF PresentInv, AtSolution, AtBeginning, Told, NoStages
  <2>4. CASE DerivativesConvergeOnSolution
    <3>1. /\ UNCHANGED <<input, step, try, stage, mqX, node>>
          /\ pc = "Derived" /\ pc' = "Idle"
          /\ accepted' = <<Current>> /\ "derivatives" \in thrown'
      BY <2>4 DEF DerivativesConvergeOnSolution, solver, integrator, model
    <3>2. step = 0 /\ node = Current
      BY <1>1, <3>1 DEF Phases, AtSolution
    <3> QED
      BY <1>1, <1>2, <1>3, <1>5, <3>1, <3>2
        DEF PresentInv, AtSolution, AtBeginning, Told, NoStages
  <2> QED
    BY <1>6, <2>1, <2>2, <2>3, <2>4
<1>7. CASE BeginStep
  <2>1. /\ X' = Vector(X.x, node, node) /\ XPrime' = Vector(XPrime.x, node, node)
        /\ qX'[1] = X' /\ qXPrime'[1] = XPrime' /\ qPrev'[1] = node
    BY <1>1, <1>7, Beginning
  <2>2. /\ UNCHANGED <<input, committed, accepted, thrown>> /\ pc = "Idle" /\ pc' = "SetTime"
        /\ mqX' \in {mqX, <<>>}
    BY <1>7 DEF BeginStep, integrator
  <2>3. node = accepted[1]
        /\ (thrown \subseteq {"step"} => X.x = accepted[1] /\ XPrime.x = accepted[1])
    BY <1>1, <2>2 DEF AtSolution
  <2>4. (AtSolution /\ AtBeginning /\ Told)'
    BY <1>1, <2>1, <2>2, <2>3 DEF AtSolution, AtBeginning, Told, Still
  <2>5. NoStages'
    BY <1>1, <2>2 DEF NoStages
  <2> QED
    BY <2>4, <2>5 DEF PresentInv
<1>8. CASE SetTime
  <2>1. /\ UNCHANGED <<input, step, try, stage, qX, qXPrime, node, committed, qPrev, mqX, accepted,
                       thrown>>
        /\ pc \in Attempting /\ pc' \in Attempting
    BY <1>8 DEF SetTime, solver, vectors, integrator
  <2> QED
    BY <1>1, <1>2, <2>1 DEF PresentInv, AtSolution, AtBeginning, Told, NoStages
<1>9. CASE AdvanceStepN
  <2>1. /\ UNCHANGED <<input, step, try, stage, qX, qXPrime, committed, qPrev, mqX, accepted, thrown>>
        /\ pc = "Advance" /\ pc' = "Solve" /\ Type \in DOMAIN StepN
        /\ node' = Current /\ X' = Vector(Current, Current, Nothing) /\ XPrime' = X'
    BY <1>9 DEF AdvanceStepN, Predict, solver
  <2> QED
    BY <1>1, <1>2, <1>3, <1>4, <2>1 DEF PresentInv, AtSolution, AtBeginning, Told, NoStages
<1>10. CASE AdvanceSingleStep \/ AdvanceStages
  <2>1. /\ UNCHANGED <<input, step, try, stage, thrown>>
        /\ pc = "Advance" /\ pc' = "Solve" /\ Type \notin DOMAIN StepN
        /\ Type \in DOMAIN StageN \/ mqX' = mqX
        /\ node' = Current /\ X' = Vector(Current, Current, Nothing) /\ XPrime' = X'
    BY <1>10, <1>1 DEF AdvanceSingleStep, AdvanceStages, Predict, solver
  <2> QED
    BY <1>1, <1>2, <1>3, <1>4, <2>1 DEF PresentInv, AtSolution, AtBeginning, Told, NoStages
<1>11. CASE NextStage
  <2>1. /\ UNCHANGED <<input, step, try, thrown>> /\ stage' = stage + 1
        /\ pc = "Stage" /\ pc' = "Solve"
        /\ node' = Solution(step, try, stage + 1)
        /\ X' = Vector(Solution(step, try, stage + 1), Solution(step, try, stage + 1), Nothing)
        /\ XPrime' = X'
    BY <1>11 DEF NextStage, Predict, solver
  <2>2. Current' = Solution(step, try, stage + 1)
    BY <2>1 DEF Current
  <2>3. Type \in DOMAIN StageN /\ Type \notin DOMAIN StepN
    <3>1. stage \in Nat /\ stage > 0 /\ Stages \in Nat /\ stage < Stages
      BY <1>1, <2>1, StageTable DEF Phases, Ranges, Stages
    <3> QED
      BY <1>1, <3>1
  <2> QED
    BY <1>1, <1>2, <1>4, <2>1, <2>2, <2>3 DEF PresentInv, AtSolution, AtBeginning, Told, NoStages
<1>12. CASE StageConverges
  <2>1. /\ UNCHANGED <<input, step, try, stage, X, XPrime, node, thrown>>
        /\ pc = "Solve" /\ committed' = node
    BY <1>12 DEF StageConverges, solver, vectors
  <2>2. node = Current /\ X.x = Current /\ XPrime.x = Current
    BY <1>1, <2>1 DEF AtSolution
  <2>3. CASE stage < Stages
    <3>1. pc' = "Stage" /\ UNCHANGED <<mqX, accepted>>
      BY <1>12, <2>3 DEF StageConverges
    <3> QED
      BY <1>1, <1>2, <1>3, <2>1, <2>2, <3>1
        DEF PresentInv, AtSolution, AtBeginning, Told, NoStages
  <2>4. CASE ~(stage < Stages)
    <3>1. Accept /\ mqX' = <<>> /\ pc' = "Idle"
      BY <1>12, <2>4 DEF StageConverges, Accept
    <3>2. accepted'[1] = Current
      BY <1>1, <3>1, Accepting
    <3> QED
      BY <1>1, <1>2, <1>3, <2>1, <2>2, <3>1, <3>2
        DEF PresentInv, AtSolution, AtBeginning, Told, NoStages
  <2> QED
    BY <2>3, <2>4
<1>13. CASE ConvergesOnSolution
  <2>1. /\ UNCHANGED <<input, step, try, stage, X, XPrime, node, mqX>>
        /\ pc = "Solve" /\ pc' = "Idle" /\ Accept
        /\ thrown' = thrown \cup {IF Stages = 1 THEN "step" ELSE "stages"}
    BY <1>13 DEF ConvergesOnSolution, Accept, solver, vectors, model, integrator
  <2>2. node = Current /\ X.x = Current /\ XPrime.x = Current
    BY <1>1, <2>1 DEF AtSolution
  <2>3. accepted'[1] = Current
    BY <1>1, <2>1, Accepting
  <2>4. (AtSolution /\ AtBeginning /\ Told)'
    BY <1>1, <1>2, <1>3, <2>1, <2>2, <2>3 DEF AtSolution, AtBeginning, Told
  <2>5. ASSUME Unspoilt' PROVE Unspoilt /\ Type \notin DOMAIN StageN
    <3>1. thrown \subseteq {"step"} /\ Stages = 1
      BY <2>1, <2>5
    <3> QED
      BY <1>1, <3>1
  <2>6. NoStages'
    BY <1>1, <2>1, <2>5 DEF NoStages
  <2> QED
    BY <2>4, <2>6 DEF PresentInv
<1>14. CASE RepeatStep
  <2>1. /\ UNCHANGED <<input, step, vectors, model, integrator, accepted, thrown>>
        /\ pc = "Solve" /\ pc' = "SetTime"
        /\ ~IsDummy /\ input.RegularType \in VariableStep
    BY <1>14 DEF RepeatStep
  <2>2. Type \in DOMAIN StepN
    BY <2>1, Kinds DEF Type
  <2> QED
    BY <1>1, <1>2, <2>1, <2>2
      DEF PresentInv, AtSolution, AtBeginning, Told, NoStages, vectors, model, integrator
<1>15. CASE EndRun
  <2>1. pc' = "End"
    BY <1>15 DEF EndRun
  <2> QED
    BY <2>1 DEF PresentInv, AtSolution, AtBeginning, Told, NoStages
<1>16. CASE UNCHANGED vars
  BY <1>1, <1>2, <1>3, <1>16 DEF PresentInv, AtSolution, AtBeginning, Told, NoStages,
    vars, solver, vectors, model, integrator
<1> QED
  BY <1>6, <1>7, <1>8, <1>9, <1>10, <1>11, <1>12, <1>13, <1>14, <1>15, <1>16
    DEF Next, Prepare, Advance

LEMMA PresentInvariant == Spec => []PresentInv
  BY InitPresent, NextPresent, ControlInvariant, TypeInvariant, PTL DEF Spec

(* Every attempt at a step begins from the accepted solution, in the        *)
(* vectors, the nodes and the elements, however many were rejected before   *)
(* it, with the drives at the end of the step and no stage left over.       *)
THEOREM AttemptsBegin == Spec => []AttemptsBeginAlike
<1>1. ControlInv /\ PresentInv => AttemptsBeginAlike
  BY DEF AttemptsBeginAlike, ControlInv, Phases, PresentInv, AtBeginning, Told, NoStages,
    Repeatable, Attempting, Unspoilt
<1> QED
  BY <1>1, ControlInvariant, PresentInvariant, PTL

(* An accepted step has the vectors, the nodes, the drives and, unless      *)
(* ConvergenceOnSolution was thrown, the elements at its end.               *)
THEOREM AcceptedIsComplete == Spec => []AcceptedStepIsComplete
<1>1. ControlInv /\ PresentInv => AcceptedStepIsComplete
  <2> SUFFICES ASSUME ControlInv, PresentInv, pc = "Idle" PROVE AcceptedStepIsComplete
    BY DEF AcceptedStepIsComplete
  <2>1. step > 0 /\ Unspoilt => EndOfStep = Current
    BY DEF EndOfStep, Current, ControlInv, Phases, Unspoilt
  <2> QED
    BY <2>1 DEF AcceptedStepIsComplete, ControlInv, Phases, PresentInv, AtSolution, Told, Unspoilt
<1> QED
  BY <1>1, ControlInvariant, PresentInvariant, PTL

-----------------------------------------------------------------------------
\* The length of the queues.

(* No input has single-step integrators both for the dummy steps and for    *)
(* the regular ones: the second would take another state out of a queue     *)
(* that is kept for two.                                                    *)
NoSingleStepTwice ==
  \A i \in Inputs :
    ~(i.iDummyStepsNumber > 0 /\ i.DummyType \in SingleStep /\ i.RegularType \in SingleStep)

(* A single-step integrator has taken a state out.                          *)
Popped == inte # Nothing \/ (~IsDummy /\ DummySteps > 0 /\ input.DummyType \in SingleStep)

Computed ==
  /\ XPrime.x # Nothing
  /\ Repeatable => qXPrime[1].x # Nothing

QueueInv ==
  /\ Computed
  /\ inte # Nothing => Type \in SingleStep /\ step > 0 /\ Len(qX) = iNumPreviousVectors - 1
  /\ qX # <<>>
  /\ Len(qX) = iNumPreviousVectors \/ (Popped /\ Len(qX) = iNumPreviousVectors - 1)

LEMMA NotNothing == Ranges => Current # Nothing /\ InitialState # Nothing
<1> SUFFICES ASSUME Ranges PROVE Current # Nothing /\ InitialState # Nothing
  OBVIOUS
<1>1. step # -1
  BY NumbersOfInput, StepAssumption DEF Ranges
<1> QED
  BY <1>1 DEF Current, InitialState, Nothing, Solution

LEMMA NotMixed == Mixed # Nothing
  BY DEF Mixed, Nothing, Solution

LEMMA NextComputed ==
  ASSUME ControlInv, ControlInv', TypeInv, Computed, [Next]_vars
  PROVE  Computed'
<1>1. Ranges /\ Phases /\ input \in Inputs /\ step \in Nat
  BY NumbersOfInput, StepAssumption DEF Ranges, ControlInv
<1>2. Current # Nothing /\ Current' # Nothing
  <2>1. (Ranges => Current # Nothing /\ InitialState # Nothing)'
    BY NotNothing, PTL
  <2> QED
    BY <1>1, <2>1, NotNothing DEF ControlInv
<1>3. ASSUME UNCHANGED <<input, step>> PROVE Type' = Type
  BY <1>3, SameStep
<1>4. \A x, from, to : Vector(x, from, to).x = x
  BY SomeSolutions
<1> USE DEF Repeatable, Attempting
<1>5. CASE BeginStep
  <2>1. XPrime' = Vector(XPrime.x, node, node) /\ qXPrime'[1] = XPrime'
    BY <1>1, <1>5, Beginning
  <2> QED
    BY <1>4, <2>1 DEF Computed
<1>6. CASE AdvanceStepN \/ AdvanceSingleStep \/ AdvanceStages
  <2>1. /\ UNCHANGED <<input, step, try, stage, qXPrime>> /\ pc = "Advance"
        /\ XPrime' = Vector(Current, Current, Nothing)
    BY <1>6 DEF AdvanceStepN, AdvanceSingleStep, AdvanceStages, Predict, solver
  <2> QED
    BY <1>2, <1>4, <2>1 DEF Computed
<1>7. CASE NextStage
  <2>1. /\ UNCHANGED <<input, step, try>> /\ stage' = stage + 1 /\ pc = "Stage" /\ pc' = "Solve"
        /\ XPrime' = Vector(Solution(step, try, stage + 1), Solution(step, try, stage + 1), Nothing)
    BY <1>7 DEF NextStage, Predict, solver
  <2>2. XPrime'.x = Current'
    BY <1>4, <2>1 DEF Current
  <2>3. stage \in Nat /\ stage > 0 /\ Stages \in Nat /\ stage < Stages
    BY <1>1, <2>1, StageTable DEF Phases, Ranges, Stages
  <2>4. Type' \notin DOMAIN StepN
    BY <1>1, <1>3, <2>1, <2>3, NumbersOfStep, Kinds
  <2> QED
    BY <1>2, <2>1, <2>2, <2>4 DEF Computed
<1>8. CASE SolveDerivatives \/ DerivativesConverge \/ RepeatDerivatives \/ DerivativesConvergeOnSolution
  <2>1. /\ XPrime' \in {XPrime, Vector(Current, Current, Nothing)}
        /\ pc' \notin {"SetTime", "SetTimeAgain", "Advance", "Solve"}
    BY <1>8 DEF SolveDerivatives, DerivativesConverge, RepeatDerivatives,
      DerivativesConvergeOnSolution, vectors
  <2> QED
    BY <1>2, <1>4, <2>1 DEF Computed
<1>9. CASE SetTime \/ StageConverges \/ ConvergesOnSolution \/ EndRun \/ UNCHANGED vars
  <2>1. /\ UNCHANGED <<input, step, XPrime, qXPrime>>
        /\ pc' \in Attempting => pc \in Attempting
        /\ pc' = "Solve" => pc = "Solve"
    BY <1>9 DEF SetTime, StageConverges, ConvergesOnSolution, EndRun, Accept, vars, solver, vectors
  <2> QED
    BY <1>3, <2>1 DEF Computed
<1>10. CASE RepeatStep
  <2>1. /\ UNCHANGED <<input, step, XPrime, qXPrime>> /\ pc = "Solve"
        /\ ~IsDummy /\ input.RegularType \in VariableStep
    BY <1>10 DEF RepeatStep, vectors
  <2>2. Type \in DOMAIN StepN
    BY <2>1, Kinds DEF Type
  <2> QED
    BY <2>1, <2>2 DEF Computed
<1> QED
  BY <1>5, <1>6, <1>7, <1>8, <1>9, <1>10 DEF Next, Prepare, Advance

LEMMA NextQueue ==
  ASSUME NoSingleStepTwice, ControlInv, ControlInv', TypeInv, QueueInv, [Next]_vars
  PROVE  QueueInv'
<1>1. /\ Ranges /\ Phases /\ Computed /\ input \in Inputs /\ step \in Nat
      /\ DummySteps \in Nat /\ iNumPreviousVectors \in 1 .. 4
      /\ qX \in Seq(Vectors) /\ Len(qX) \in Nat /\ Len(qX) > 0
      /\ Type \in RegularTypes
  <2>1. qX \in Seq(Vectors) /\ qX # <<>>
    BY DEF TypeInv, Vectors_, QueueInv
  <2>2. Len(qX) \in Nat /\ Len(qX) > 0
    BY <2>1, EmptySeq
  <2>3. Ranges /\ Phases /\ Computed /\ input \in Inputs /\ step \in Nat
    BY NumbersOfInput, StepAssumption DEF Ranges, ControlInv, QueueInv
  <2> QED
    BY <2>1, <2>2, <2>3, NumbersOfInput, NumbersOfStep
<1>2. Computed'
  BY NextComputed DEF QueueInv
<1>3. iNumPreviousVectors' = iNumPreviousVectors /\ DummySteps' = DummySteps /\ input' = input
  BY SameInput
<1>4. ASSUME UNCHANGED <<input, step>> PROVE Type' = Type /\ IsDummy' = IsDummy
  BY <1>4, SameStep
<1>5. CASE UNCHANGED <<input, step, qX, inte>>
  BY <1>2, <1>3, <1>4, <1>5 DEF QueueInv, Popped
<1>6. CASE SolveDerivatives \/ DerivativesConverge \/ RepeatDerivatives
           \/ DerivativesConvergeOnSolution \/ SetTime \/ AdvanceStepN \/ AdvanceStages
           \/ StageConverges \/ ConvergesOnSolution \/ RepeatStep \/ EndRun \/ UNCHANGED vars
  <2>1. UNCHANGED <<input, step, qX, inte>>
    BY <1>6 DEF SolveDerivatives, DerivativesConverge, RepeatDerivatives,
      DerivativesConvergeOnSolution, SetTime, AdvanceStepN, AdvanceStages, StageConverges,
      ConvergesOnSolution, RepeatStep, EndRun, vars, solver, vectors, integrator
  <2> QED
    BY <1>5, <2>1
<1>7. CASE NextStage
  <2>1. /\ UNCHANGED <<input, step, inte>>
        /\ qX' = [qX EXCEPT ![1] = Relate(mqX', 0, qX[1])]
    BY <1>7 DEF NextStage, solver
  <2> DEFINE e == Relate(mqX', 0, qX[1])
  <2>2. qX' = [qX EXCEPT ![1] = e]
    BY <2>1
  <2> HIDE DEF e
  <2>3. DOMAIN qX' = DOMAIN qX /\ Len(qX') = Len(qX) /\ qX' # <<>>
    <3>1. DOMAIN qX' = DOMAIN qX /\ Len(qX') = Len(qX)
      BY <1>1, <2>2
    <3>2. DOMAIN <<>> = {} /\ 1 \in DOMAIN qX
      BY <1>1, LenProperties
    <3> QED
      BY <3>1, <3>2
  <2> QED
    BY <1>2, <1>3, <1>4, <2>1, <2>3 DEF QueueInv, Popped
<1>8. CASE BeginStep
  <2>1. Len(qX') = Len(qX) /\ qX' # <<>>
    BY <1>1, <1>8, Beginning
  <2>2. /\ step' = step + 1
        /\ IF step = DummySteps THEN inte' = Nothing ELSE inte' = inte
    BY <1>8 DEF BeginStep, integrator
  <2>3. CASE step # DummySteps
    <3>1. Type' = Type /\ IsDummy' = IsDummy
      BY <1>1, <1>3, <2>2, <2>3, NextStep
    <3> QED
      BY <1>1, <1>2, <1>3, <2>1, <2>2, <2>3, <3>1 DEF QueueInv, Popped
  <2>4. CASE step = DummySteps
    <3>1. ~IsDummy' /\ IsDummy /\ inte' = Nothing
      BY <1>1, <1>3, <2>2, <2>4, NextStep DEF IsDummy
    <3>2. Popped => Popped'
      <4> SUFFICES ASSUME Popped PROVE DummySteps > 0 /\ input.DummyType \in SingleStep
        BY <1>3, <3>1 DEF Popped
      <4>1. Type \in SingleStep /\ step > 0
        BY <3>1 DEF Popped, QueueInv
      <4> QED
        BY <2>4, <3>1, <4>1 DEF Type
    <3> QED
      BY <1>2, <1>3, <2>1, <3>1, <3>2 DEF QueueInv
  <2> QED
    BY <2>3, <2>4
<1>9. CASE AdvanceSingleStep
  <2>1. /\ UNCHANGED <<input, step>> /\ pc = "Advance" /\ Type \in SingleStep
        /\ IF inte = Nothing THEN inte' = qXPrime[1].x /\ qX' = Front(qX)
           ELSE inte' = UpdateInte /\ qX' = qX
    BY <1>9 DEF AdvanceSingleStep, solver
  <2>2. Type' \in SingleStep /\ step' > 0 /\ IsDummy' = IsDummy
    BY <1>1, <1>4, <2>1 DEF Phases, InStep
  <2>3. inte' # Nothing
    <3>1. qXPrime[1].x # Nothing
      BY <1>1, <2>1 DEF Computed, Repeatable, Attempting
    <3> QED
      BY <2>1, <3>1, NotMixed DEF UpdateInte
  <2>4. CASE inte # Nothing
    BY <1>1, <1>2, <1>3, <2>1, <2>2, <2>3, <2>4 DEF QueueInv, Popped
  <2>5. CASE inte = Nothing
    <3>1. ~Popped
      <4> SUFFICES ASSUME ~IsDummy, DummySteps > 0, input.DummyType \in SingleStep PROVE FALSE
        BY <2>5 DEF Popped
      <4>1. input.RegularType \in SingleStep
        BY <2>1 DEF Type
      <4>2. input.iDummyStepsNumber > 0
        BY <1>1, StepAssumption DEF DummySteps, InputType
      <4> QED
        BY <1>1, <4>1, <4>2 DEF NoSingleStepTwice
    <3>2. Len(qX) = iNumPreviousVectors
      BY <3>1 DEF QueueInv
    <3>3. iNumPreviousVectors >= 2
      <4>1. CASE IsDummy
        <5>1. step > 0
          BY <1>1, <2>1 DEF Phases, InStep
        <5>2. DummySteps > 0 /\ input.DummyType \in SingleStep
          BY <1>1, <2>1, <4>1, <5>1 DEF IsDummy, Type
        <5> QED
          BY <1>1, <5>2, NumbersOfInput
      <4>2. CASE ~IsDummy
        BY <1>1, <2>1, <4>2, NumbersOfInput DEF Type
      <4> QED
        BY <4>1, <4>2
    <3>4. qX' \in Seq(Vectors) /\ Len(qX') = Len(qX) - 1
      <4>1. qX # <<>>
        BY DEF QueueInv
      <4> QED
        BY <1>1, <2>1, <2>5, <4>1, Dropping
    <3>5. qX' # <<>>
      <4>1. Len(qX') # 0
        BY <1>1, <3>2, <3>3, <3>4
      <4> QED
        BY <3>4, <4>1, EmptySeq
    <3> QED
      BY <1>2, <1>3, <2>2, <2>3, <3>2, <3>4, <3>5 DEF QueueInv, Popped
  <2> QED
    BY <2>4, <2>5
<1> QED
  BY <1>6, <1>7, <1>8, <1>9 DEF Next, Prepare, Advance

LEMMA QueueInvariant ==
  ASSUME NoSingleStepTwice
  PROVE  Spec => []QueueInv
<1>1. Init => QueueInv
  <2> SUFFICES ASSUME Init PROVE QueueInv
    OBVIOUS
  <2>1. iNumPreviousVectors \in 1 .. 4
    BY NumbersOfInput DEF Init
  <2>2. InitialState # Nothing /\ XPrime.x = InitialState
    BY InitControl, NotNothing, SomeSolutions DEF ControlInv, Init, Still
  <2>3. qX # <<>> /\ Len(qX) = iNumPreviousVectors
    <3>1. qX = [n \in 1 .. iNumPreviousVectors |-> Still(Nothing)]
      BY DEF Init
    <3>2. DOMAIN qX = 1 .. iNumPreviousVectors /\ DOMAIN <<>> = {} /\ 1 \in DOMAIN qX
      BY <2>1, <3>1
    <3>3. Len(qX) = iNumPreviousVectors
      BY <2>1, <3>1
    <3> QED
      BY <3>2, <3>3
  <2> QED
    BY <2>2, <2>3 DEF QueueInv, Computed, Repeatable, Attempting, Init
<1> QED
  BY <1>1, NextQueue, ControlInvariant, TypeInvariant, PTL DEF Spec

(* The queues of previous states hold at least one, and never more than the *)
(* nodes have orientations for, if only one of the integrators is a         *)
(* single-step one.                                                         *)
THEOREM QueuesFit ==
  ASSUME NoSingleStepTwice
  PROVE  Spec => []QueueFitsNode
<1>1. ControlInv /\ QueueInv /\ TypeInv => QueueFitsNode
  <2> SUFFICES ASSUME ControlInv, QueueInv, TypeInv PROVE Len(qX) \in 1 .. NPREV + 1
    BY DEF QueueFitsNode
  <2>1. iNumPreviousVectors \in 1 .. 4
    BY NumbersOfInput DEF ControlInv, Ranges
  <2>2. Len(qX) \in Nat /\ Len(qX) > 0
    BY EmptySeq DEF TypeInv, Vectors_, QueueInv
  <2>3. Len(qX) = iNumPreviousVectors \/ Len(qX) = iNumPreviousVectors - 1
    BY DEF QueueInv
  <2>4. \A m, i \in Nat : m > 0 /\ i \in 1 .. 4 /\ (m = i \/ m = i - 1) => m \in 1 .. NPREV + 1
    BY DEF NPREV
  <2>5. iNumPreviousVectors \in Nat
    BY <2>1
  <2> QED
    BY <2>1, <2>2, <2>3, <2>4, <2>5, Zenon
<1> QED
  BY <1>1, ControlInvariant, QueueInvariant, TypeInvariant, PTL

-----------------------------------------------------------------------------
\* The previous solutions.

(* As many solutions are known as the integrators may ask for.              *)
Enough ==
  /\ pc \in InStep => step <= Len(accepted) \/ Len(accepted) = 4
  /\ pc = "Idle" => step < Len(accepted) \/ Len(accepted) = 4

LEMMA InitEnough == Init => Enough
  BY DEF Init, Enough, InStep

(* What is accepted moves the accepted solutions on by one.                 *)
LEMMA AcceptingMore ==
  ASSUME ControlInv, TypeInv, Enough, pc = "Solve", Accept
  PROVE  /\ step < Len(accepted') \/ Len(accepted') = 4
         /\ accepted'[2] = accepted[1]
         /\ \A k \in 1 .. 3 : k <= step => accepted'[k + 1] = accepted[k]
<1>1. Ranges /\ History /\ step \in Nat
  BY NumbersOfInput, StepAssumption DEF ControlInv, TypeInv, Ranges
<1>2. /\ Len(accepted') = IF Len(accepted) < 4 THEN Len(accepted) + 1 ELSE 4
      /\ \A n \in 1 .. Len(accepted') - 1 : accepted'[n + 1] = accepted[n]
  BY <1>1, Accepting
<1> DEFINE m == Len(accepted)
           n == Len(accepted')
<1>3. m \in Nat /\ m # 0 /\ m <= 4
  BY <1>1, EmptySeq DEF History
<1>4. n = IF m < 4 THEN m + 1 ELSE 4
  BY <1>2
<1>5. step <= m \/ m = 4
  BY DEF Enough, InStep
<1>6. \A k \in 1 .. n - 1 : accepted'[k + 1] = accepted[k]
  BY <1>2
<1> HIDE DEF m, n
<1>7. step < n \/ n = 4
  BY <1>1, <1>3, <1>4, <1>5
<1>8. accepted'[2] = accepted[1]
  <2>1. 1 \in 1 .. n - 1
    BY <1>3, <1>4
  <2> QED
    BY <1>6, <2>1
<1>9. ASSUME NEW k \in 1 .. 3, k <= step PROVE accepted'[k + 1] = accepted[k]
  <2>1. k \in 1 .. n - 1
    BY <1>1, <1>3, <1>4, <1>5, <1>9
  <2> QED
    BY <1>6, <2>1
<1> QED
  BY <1>7, <1>8, <1>9 DEF n

LEMMA NextEnough ==
  ASSUME ControlInv, TypeInv, Enough, [Next]_vars
  PROVE  Enough'
<1>1. step \in Nat /\ Len(accepted) \in Nat /\ Phases /\ History
  BY NumbersOfInput, StepAssumption, LenProperties DEF ControlInv, TypeInv, Ranges, History
<1>2. CASE SolveDerivatives \/ DerivativesConverge \/ RepeatDerivatives \/ DerivativesConvergeOnSolution
  <2>1. /\ step' = step /\ pc' \notin {"SetTime", "SetTimeAgain", "Advance", "Solve", "Stage"}
        /\ pc' # "Idle" \/ (pc = "Derived" /\ accepted' = <<Current>>)
    BY <1>2 DEF SolveDerivatives, DerivativesConverge, RepeatDerivatives,
      DerivativesConvergeOnSolution, solver
  <2>2. pc = "Derived" => step = 0
    BY <1>1 DEF Phases
  <2>3. Len(<<Current>>) = 1
    OBVIOUS
  <2>4. accepted' = <<Current>> => Len(accepted') = 1
    BY <2>3, Zenon
  <2> QED
    BY <2>1, <2>2, <2>4 DEF Enough, InStep
<1>3. CASE BeginStep
  <2>1. step' = step + 1 /\ accepted' = accepted /\ pc = "Idle" /\ pc' = "SetTime"
    BY <1>3 DEF BeginStep
  <2>2. \A m \in Nat : step < m \/ m = 4 => step + 1 <= m \/ m = 4
    BY <1>1
  <2>3. step + 1 <= Len(accepted) \/ Len(accepted) = 4
    BY <1>1, <2>1, <2>2, Zenon DEF Enough
  <2> QED
    BY <2>1, <2>3, Zenon DEF Enough, InStep
<1>4. CASE Accept /\ pc = "Solve" /\ step' = step
  <2>1. (step < Len(accepted') \/ Len(accepted') = 4) /\ pc' = "Idle"
    BY <1>4, AcceptingMore DEF Accept
  <2> QED
    BY <1>4, <2>1 DEF Enough, InStep
<1>5. CASE /\ UNCHANGED <<step, accepted>>
           /\ pc' \in InStep => pc \in InStep
           /\ pc' = "Idle" => pc = "Idle"
  BY <1>5 DEF Enough
<1>6. CASE StageConverges \/ ConvergesOnSolution
  <2>1. pc = "Solve" /\ step' = step /\ (Accept \/ (UNCHANGED accepted /\ pc' = "Stage"))
    BY <1>6 DEF StageConverges, ConvergesOnSolution, Accept, solver
  <2> QED
    BY <1>4, <1>5, <2>1 DEF InStep
<1>7. CASE SetTime \/ AdvanceStepN \/ AdvanceSingleStep \/ AdvanceStages \/ NextStage
           \/ RepeatStep \/ EndRun \/ UNCHANGED vars
  <2>1. /\ UNCHANGED <<step, accepted>>
        /\ pc' \in InStep => pc \in InStep
        /\ pc' = "Idle" => pc = "Idle"
    BY <1>7 DEF SetTime, AdvanceStepN, AdvanceSingleStep, AdvanceStages, NextStage, RepeatStep,
      EndRun, Predict, vars, solver, InStep
  <2> QED
    BY <1>5, <2>1
<1> QED
  BY <1>2, <1>3, <1>6, <1>7 DEF Next, Prepare, Advance

LEMMA EnoughInvariant == Spec => []Enough
  BY InitEnough, NextEnough, ControlInvariant, TypeInvariant, PTL DEF Spec

(* An implicit integrator finds the k-th solution before this one at the    *)
(* k-th place of its queues, k steps after it has begun, with rotations     *)
(* from the k-th previous orientation to the last one.  Between two steps   *)
(* they are a place behind.                                                 *)
LagInStep ==
  \A k \in 1 .. NPREV : k <= Place =>
    /\ qPrev[k] = accepted[k]
    /\ k <= Len(qX) => /\ qX[k] = Vector(accepted[k], accepted[k], accepted[1])
                       /\ qXPrime[k] = Vector(accepted[k], accepted[k], accepted[1])
LagBetween ==
  \A k \in 1 .. NPREV - 1 : k <= Place =>
    /\ qPrev[k] = accepted[k + 1]
    /\ k <= Len(qX) => /\ qX[k] = Vector(accepted[k + 1], accepted[k + 1], accepted[2])
                       /\ qXPrime[k] = Vector(accepted[k + 1], accepted[k + 1], accepted[2])

LagInv ==
  Type \in DOMAIN StepN /\ Unspoilt =>
    /\ Repeatable => LagInStep
    /\ pc = "Idle" => LagBetween

LEMMA InitLag == Init => LagInv
  BY DEF Init, LagInv, Repeatable, Attempting

LEMMA NextLag ==
  ASSUME ControlInv, TypeInv, TypeInv', PresentInv, PresentInv', Enough, LagInv, [Next]_vars
  PROVE  LagInv'
<1>1. /\ Ranges /\ Phases /\ input \in Inputs /\ step \in Nat
      /\ Place \in Nat /\ Place <= step
      /\ Type \in DOMAIN StepN => Type \notin DOMAIN StageN /\ Type \notin SingleStep /\ Stages = 1
      /\ Stages \in Nat
      /\ qX \in Seq(Vectors) /\ Len(qX) \in Nat /\ Len(qXPrime) \in Nat /\ Len(qX) <= Len(qXPrime)
      /\ stage \in 1 .. Stages
  <2>1. Ranges /\ Phases /\ input \in Inputs /\ step \in Nat /\ stage \in 1 .. Stages
    BY NumbersOfInput, StepAssumption DEF ControlInv, Ranges
  <2>2. qX \in Seq(Vectors) /\ Len(qX) \in Nat /\ Len(qXPrime) \in Nat /\ Len(qX) <= Len(qXPrime)
    BY LenProperties DEF TypeInv, Vectors_
  <2> QED
    BY <2>1, <2>2, NumbersOfStep, Kinds
<1>2. ASSUME UNCHANGED <<input, step>> PROVE Type' = Type /\ Place' = Place
  BY <1>2, SameStep
<1> USE DEF Unspoilt
<1>3. CASE /\ UNCHANGED <<input, step, qPrev, qX, qXPrime, accepted, thrown>>
           /\ Repeatable' => Repeatable
           /\ pc' = "Idle" => pc = "Idle"
  BY <1>2, <1>3 DEF LagInv, LagInStep, LagBetween
<1>4. CASE SolveDerivatives \/ DerivativesConverge \/ RepeatDerivatives \/ DerivativesConvergeOnSolution
  <2>1. /\ UNCHANGED <<input, step>> /\ pc \in {"Derivatives", "Derived"}
        /\ pc' \notin {"SetTime", "SetTimeAgain", "Advance", "Solve", "Stage"}
    BY <1>4 DEF SolveDerivatives, DerivativesConverge, RepeatDerivatives,
      DerivativesConvergeOnSolution, solver
  <2>2. step = 0 /\ Place' = 0
    BY <1>1, <1>2, <2>1 DEF Phases
  <2>3. LagBetween'
    BY <2>2 DEF LagBetween
  <2> QED
    BY <2>1, <2>3 DEF LagInv, Repeatable, Attempting
<1>5. CASE SetTime
  <2>1. /\ UNCHANGED <<input, step, qPrev, qX, qXPrime, accepted, thrown>>
        /\ pc \in Attempting /\ pc' \in Attempting
    BY <1>5 DEF SetTime, solver, vectors, Attempting
  <2> QED
    BY <1>3, <2>1 DEF Repeatable, Attempting
<1>6. CASE AdvanceStepN
  <2>1. /\ UNCHANGED <<input, step, qPrev, qX, qXPrime, accepted, thrown>>
        /\ pc \in Attempting /\ pc' = "Solve"
    BY <1>6 DEF AdvanceStepN, Predict, solver, Attempting
  <2> QED
    BY <1>3, <2>1 DEF Repeatable
<1>7. CASE AdvanceSingleStep \/ AdvanceStages \/ NextStage
  <2>1. UNCHANGED <<input, step>>
    BY <1>7 DEF AdvanceSingleStep, AdvanceStages, NextStage, solver
  <2>2. Type \notin DOMAIN StepN
    <3>1. CASE AdvanceSingleStep \/ AdvanceStages
      BY <1>1, <3>1 DEF AdvanceSingleStep, AdvanceStages
    <3>2. CASE NextStage
      <4>1. stage < Stages
        BY <1>1, <3>2 DEF NextStage, Phases
      <4>2. Stages # 1
        BY <1>1, <4>1
      <4> QED
        BY <1>1, <4>2
    <3> QED
      BY <1>7, <3>1, <3>2
  <2> QED
    BY <1>2, <2>1, <2>2 DEF LagInv
<1>8. CASE StageConverges \/ ConvergesOnSolution
  <2>1. /\ UNCHANGED <<input, step, qPrev, qX, qXPrime>> /\ pc = "Solve"
        /\ thrown \subseteq thrown'
        /\ stage < Stages \/ (Accept /\ pc' = "Idle")
        /\ pc' \in {"Stage", "Idle"}
    BY <1>8 DEF StageConverges, ConvergesOnSolution, Accept, solver, vectors, model
  <2> SUFFICES ASSUME Type \in DOMAIN StepN, thrown' \subseteq {"step"}
               PROVE  LagBetween'
    BY <1>2, <2>1 DEF LagInv, Repeatable, Attempting
  <2>2. Accept
    <3>1. ~(stage < Stages)
      BY <1>1
    <3> QED
      BY <2>1, <3>1
  <2>3. /\ accepted'[2] = accepted[1]
        /\ \A k \in 1 .. 3 : k <= step => accepted'[k + 1] = accepted[k]
    BY <2>1, <2>2, AcceptingMore
  <2>4. LagInStep
    <3>1. thrown \subseteq {"step"}
      BY <2>1
    <3> QED
      BY <2>1, <3>1 DEF LagInv, Repeatable
  <2>5. ASSUME NEW k \in 1 .. 3, k <= Place PROVE accepted'[k + 1] = accepted[k] /\ k \in 1 .. 4
    <3>1. k <= step
      BY <1>1, <2>5
    <3> QED
      BY <2>3, <2>5, <3>1
  <2> QED
    BY <1>2, <2>1, <2>3, <2>4, <2>5 DEF LagInStep, LagBetween, NPREV
<1>9. CASE RepeatStep
  <2>1. /\ UNCHANGED <<input, step, qPrev, qX, qXPrime, accepted, thrown>> /\ pc = "Solve"
        /\ pc' = "SetTime" /\ ~IsDummy /\ input.RegularType \in VariableStep
    BY <1>9 DEF RepeatStep, vectors, model
  <2>2. Type \in DOMAIN StepN
    BY <2>1, Kinds DEF Type
  <2> QED
    BY <1>3, <2>1, <2>2 DEF Repeatable
<1>10. CASE EndRun \/ UNCHANGED vars
  <2>1. /\ UNCHANGED <<input, step, qPrev, qX, qXPrime, accepted, thrown>>
        /\ pc' = "End" \/ pc' = pc
    BY <1>10 DEF EndRun, vars, solver, vectors, model
  <2> QED
    BY <1>2, <1>3, <2>1 DEF Repeatable, Attempting
<1>11. CASE BeginStep
  <2>1. /\ input' = input /\ step' = step + 1 /\ UNCHANGED <<accepted, thrown>>
        /\ pc = "Idle" /\ pc' = "SetTime"
    BY <1>11 DEF BeginStep
  <2> SUFFICES ASSUME Type' \in DOMAIN StepN, thrown \subseteq {"step"}
               PROVE  LagInStep'
    BY <2>1 DEF LagInv
  <2>2. /\ qPrev'[1] = accepted'[1]
        /\ qX'[1] = Still(accepted'[1]) /\ qXPrime'[1] = Still(accepted'[1])
    BY <2>1 DEF PresentInv, AtBeginning, Repeatable, Attempting
  <2>3. step = DummySteps => Place' = 1
    BY <1>1, <2>1, NextStep
  <2>4. ASSUME NEW k \in 1 .. NPREV, k <= Place', k # 1
        PROVE  /\ qPrev'[k] = accepted'[k]
               /\ k <= Len(qX') =>
                    /\ qX'[k] = Vector(accepted'[k], accepted'[k], accepted'[1])
                    /\ qXPrime'[k] = Vector(accepted'[k], accepted'[k], accepted'[1])
    <3>1. step # DummySteps
      BY <2>3, <2>4 DEF NPREV
    <3>2. Place' = Place + 1 /\ Type' = Type
      BY <1>1, <2>1, <3>1, NextStep
    <3>3. PICK j \in 1 .. NPREV - 1 : k = j + 1 /\ j <= Place
      <4>1. k - 1 \in 1 .. NPREV - 1 /\ k = (k - 1) + 1 /\ k - 1 <= Place
        BY <1>1, <2>4, <3>2 DEF NPREV
      <4> QED
        BY <4>1
    <3>4. LagBetween
      BY <2>1, <3>2 DEF LagInv
    <3>5. /\ qPrev[j] = accepted[k]
          /\ j <= Len(qX) => /\ qX[j] = Vector(accepted[k], accepted[k], accepted[2])
                             /\ qXPrime[j] = Vector(accepted[k], accepted[k], accepted[2])
      BY <3>3, <3>4 DEF LagBetween
    <3>6. qPrev'[k] = qPrev[j] /\ node = accepted[1]
      <4>1. \A n \in 1 .. NPREV - 1 : qPrev'[n + 1] = qPrev[n]
        BY <1>1, <1>11, Beginning
      <4> QED
        BY <2>1, <3>3, <4>1 DEF PresentInv, AtSolution
    <3>7. ASSUME k <= Len(qX')
          PROVE  /\ qX'[k] = Vector(accepted'[k], accepted'[k], accepted'[1])
                 /\ qXPrime'[k] = Vector(accepted'[k], accepted'[k], accepted'[1])
      <4>1. /\ Len(qX') = Len(qX)
            /\ \A n \in 1 .. Len(qX) - 1 : qX'[n + 1] = Vector(qX[n].x, qPrev[n], node)
            /\ \A n \in 1 .. Len(qXPrime) - 1 : qXPrime'[n + 1] = RelativeDerivatives[n]
        BY <1>1, <1>11, Beginning
      <4>2. /\ j \in 1 .. Len(qX) - 1 /\ j <= Len(qX) /\ j < Len(qX) /\ Len(qX) # 1
            /\ j \in 1 .. Len(qXPrime) - 1 /\ j \in 1 .. Len(qXPrime)
        <5> DEFINE m == Len(qX)
                   n == Len(qXPrime)
        <5>1. m \in Nat /\ n \in Nat /\ m <= n /\ k <= m
          BY <1>1, <3>7, <4>1
        <5> HIDE DEF m, n
        <5>2. /\ j \in 1 .. m - 1 /\ j <= m /\ j < m /\ m # 1
              /\ j \in 1 .. n - 1 /\ j \in 1 .. n
          BY <3>3, <5>1 DEF NPREV
        <5> QED
          BY <5>2 DEF m, n
      <4>3. qX'[k] = Vector(qX[j].x, qPrev[j], node) /\ qXPrime'[k] = RelativeDerivatives[j]
        BY <3>3, <4>1, <4>2
      <4>4. RelativeDerivatives[j] = Vector(qXPrime[j].x, qPrev[j], node)
        <5>1. RelativeDerivatives = Relative(qXPrime)
          BY <1>1, <4>2, RelatingDerivatives DEF TypeInv
        <5>2. Relative(qXPrime)[j] = Vector(qXPrime[j].x, qPrev[j], node)
          BY <1>1, <4>2, Relating DEF TypeInv, Vectors_
        <5> QED
          BY <5>1, <5>2
      <4>5. qX[j].x = accepted[k] /\ qXPrime[j].x = accepted[k]
        BY <3>5, <4>2, SomeSolutions
      <4> QED
        BY <2>1, <3>5, <3>6, <4>3, <4>4, <4>5
    <3> QED
      BY <2>1, <3>5, <3>6, <3>7
  <2> QED
    BY <2>2, <2>4 DEF LagInStep, Still
<1> QED
  BY <1>4, <1>5, <1>6, <1>7, <1>8, <1>9, <1>10, <1>11 DEF Next, Prepare, Advance

LEMMA LagInvariant == Spec => []LagInv
  BY InitLag, NextLag, ControlInvariant, TypeInvariant, PresentInvariant, EnoughInvariant, PTL
    DEF Spec

-----------------------------------------------------------------------------
\* The stages of a step.

OfStage(n) == Solution(step, try, n)

(* In the s-th stage the queue of stages names the s - 2 first ones, latest *)
(* first, then twice the previous state, the first of which is the place of *)
(* a stage to come; the nodes have their orientations in the same order.    *)
StageQueue == Len(mqX) = stage /\ \A n \in 1 .. stage : mqX[n] = IF n = stage THEN 0 ELSE stage - 1 - n
StageOrientations ==
  \A n \in 1 .. NPREV : /\ n < stage => qPrev[n] = OfStage(stage - n)
                        /\ n = stage => qPrev[n] = accepted[1]
StageVectors ==
  /\ \A n \in 1 .. stage - 1 : mX[n].x = OfStage(n) /\ mXP[n].x = OfStage(n)
  /\ qX[1].x = accepted[1] /\ qXPrime[1].x = accepted[1]

StageInv ==
  Type \in DOMAIN StageN /\ Unspoilt /\ pc \in {"Solve", "Stage"} =>
    StageQueue /\ StageOrientations /\ StageVectors

(* What the next stage makes of the vectors of the stages before it.        *)
LEMMA Staging ==
  ASSUME ControlInv, TypeInv, PresentInv, StageInv, Unspoilt, NextStage
  PROVE  /\ Type \in DOMAIN StageN /\ stage \in 1 .. 4 /\ stage < Stages
         /\ Len(mqX') = stage + 1
         /\ \A n \in 1 .. stage + 1 : mqX'[n] = IF n = stage + 1 THEN 0 ELSE stage - n
         /\ qPrev'[1] = OfStage(stage) /\ \A n \in 1 .. NPREV - 1 : qPrev'[n + 1] = qPrev[n]
         /\ Len(mX) = Stages - 1 /\ Len(mX') = Stages - 1 /\ Len(mXP') = Stages - 1
         /\ \A n \in 1 .. stage :
              /\ mX'[n] = Vector(OfStage(n), OfStage(n), OfStage(stage))
              /\ mXP'[n] = Vector(OfStage(n), OfStage(n), OfStage(stage))
         /\ qX'[1] = Vector(accepted[1], accepted[1], OfStage(stage))
         /\ qXPrime'[1] = Vector(accepted[1], accepted[1], OfStage(stage))
<1> DEFINE q == mqX'
<1>1. /\ pc = "Stage" /\ stage' = stage + 1
      /\ q = <<stage - 1>> \o mqX /\ qPrev' = <<node>> \o Front(qPrev)
      /\ qX' = [qX EXCEPT ![1] = Relate(q, 0, qX[1])]
      /\ qXPrime' = [qXPrime EXCEPT ![1] = Relate(q, 0, qXPrime[1])]
      /\ mX' = [k \in DOMAIN mX |-> IF k = stage THEN Vector(X.x, node, node)
                                                 ELSE Relate(q, k, mX[k])]
      /\ mXP' = [k \in DOMAIN mXP |-> IF k = stage THEN Vector(XPrime.x, node, node)
                                                   ELSE Relate(q, k, mXP[k])]
  BY DEF NextStage, Predict, Remember, solver
<1> HIDE DEF q
<1>2. /\ Ranges /\ Phases /\ Vectors_ /\ Model /\ Integrator
      /\ step \in Nat /\ input \in Inputs
  BY NumbersOfInput, StepAssumption DEF ControlInv, Ranges, TypeInv
<1>3. Type \in DOMAIN StageN /\ stage \in 1 .. 4 /\ stage < Stages /\ Stages \in 1 .. 5
      /\ Type \notin SingleStep
  <2>1. Stages \in 1 .. 5 /\ stage \in 1 .. Stages /\ stage < Stages
    BY <1>1, <1>2, NumbersOfStep DEF Ranges, Phases
  <2>2. Type \in DOMAIN StageN
    BY <1>2, <2>1, NumbersOfStep
  <2> QED
    BY <2>1, <2>2, Kinds
<1>4. StageQueue /\ StageOrientations /\ StageVectors
  BY <1>1, <1>3 DEF StageInv
<1>5. node = OfStage(stage) /\ X.x = OfStage(stage) /\ XPrime.x = OfStage(stage)
  BY <1>1 DEF PresentInv, AtSolution, OfStage, Current
<1>6. /\ Len(q) = stage + 1
      /\ \A n \in 1 .. stage + 1 : q[n] = IF n = stage + 1 THEN 0 ELSE stage - n
  <2>1. mqX \in Seq(0 .. 4) /\ stage - 1 \in 0 .. 4 /\ Len(mqX) = stage
    BY <1>2, <1>3, <1>4 DEF Integrator, StageQueue
  <2>2. <<stage - 1>> \in Seq(0 .. 4) /\ Len(<<stage - 1>>) = 1 /\ <<stage - 1>>[1] = stage - 1
    BY <2>1, OneIsSeq
  <2>3. /\ Len(q) = 1 + Len(mqX) /\ q[1] = stage - 1
        /\ \A n \in 1 .. Len(mqX) : q[1 + n] = mqX[n]
    <3>1. /\ Len(<<stage - 1>> \o mqX) = Len(<<stage - 1>>) + Len(mqX)
          /\ \A n \in 1 .. Len(<<stage - 1>>) : (<<stage - 1>> \o mqX)[n] = <<stage - 1>>[n]
          /\ \A n \in 1 .. Len(mqX) : (<<stage - 1>> \o mqX)[Len(<<stage - 1>>) + n] = mqX[n]
      BY <2>1, <2>2, Joining
    <3>2. 1 \in 1 .. 1
      OBVIOUS
    <3> QED
      BY <1>1, <2>2, <3>1, <3>2, Zenon
  <2>4. Len(q) = stage + 1
    BY <1>3, <2>1, <2>3
  <2>5. ASSUME NEW n \in 1 .. stage + 1 PROVE q[n] = IF n = stage + 1 THEN 0 ELSE stage - n
    <3>1. CASE n = 1
      BY <1>3, <2>3, <3>1
    <3>2. CASE n # 1
      <4>1. n - 1 \in 1 .. stage /\ 1 + (n - 1) = n
        BY <1>3, <3>2
      <4>2. q[1 + (n - 1)] = mqX[n - 1]
        BY <2>1, <2>3, <4>1
      <4>3. mqX[n - 1] = IF n - 1 = stage THEN 0 ELSE stage - 1 - (n - 1)
        BY <1>4, <4>1 DEF StageQueue
      <4> QED
        BY <1>3, <4>1, <4>2, <4>3
    <3> QED
      BY <3>1, <3>2
  <2> QED
    BY <2>4, <2>5
<1>7. qPrev'[1] = OfStage(stage) /\ \A n \in 1 .. NPREV - 1 : qPrev'[n + 1] = qPrev[n]
  <2>1. qPrev \in Seq(Solutions) /\ Len(qPrev) = NPREV /\ node \in Solutions
    BY <1>2 DEF Model
  <2>2. qPrev # <<>>
    <3>1. Len(qPrev) # 0
      BY <2>1 DEF NPREV
    <3> QED
      BY <2>1, <3>1, EmptySeq
  <2> DEFINE S == Solutions
             r == qPrev
             x == node
  <2>3. x \in S /\ r \in Seq(S) /\ r # <<>>
    BY <2>1, <2>2
  <2> HIDE DEF S, r, x
  <2>4. (<<x>> \o Front(r))[1] = x /\ \A n \in 1 .. Len(r) - 1 : (<<x>> \o Front(r))[n + 1] = r[n]
    BY <2>3, Flipping
  <2> QED
    BY <1>1, <1>5, <2>1, <2>4 DEF r, x
(* The place of a stage in the queue, and the orientation there.            *)
<1>8. ASSUME NEW k \in 0 .. stage - 1, NEW v \in Vectors
      PROVE  Relate(q, k, v) = Vector(v.x, IF k = 0 THEN accepted[1] ELSE OfStage(k), OfStage(stage))
  <2> DEFINE n == stage - k
  <2>1. n \in 1 .. stage /\ n \in 1 .. NPREV /\ n < stage + 1 /\ n # stage + 1 /\ stage - n = k
        /\ (k = 0 => n = stage) /\ (k # 0 => n < stage)
    BY <1>3, <1>8 DEF NPREV
  <2>2. n < Len(q) /\ q[n] = k
    BY <1>3, <1>6, <2>1
  <2>3. ASSUME NEW p \in 1 .. NPREV, p < Len(q), q[p] = k PROVE p = n
    <3>1. p \in 1 .. stage + 1 /\ p # stage + 1
      BY <1>3, <1>6, <2>3
    <3>2. stage - p = k
      BY <1>6, <2>3, <3>1
    <3> QED
      BY <1>3, <3>1, <3>2
  <2>4. qPrev[n] = IF k = 0 THEN accepted[1] ELSE OfStage(k)
    BY <1>4, <2>1 DEF StageOrientations
  <2> HIDE DEF n
  <2>5. Relate(q, k, v) = Vector(v.x, qPrev[n], node)
    BY <1>2, <2>1, <2>2, <2>3, RelatingStages
  <2> QED
    BY <1>5, <2>4, <2>5
<1>9. /\ qX'[1] = Vector(accepted[1], accepted[1], OfStage(stage))
      /\ qXPrime'[1] = Vector(accepted[1], accepted[1], OfStage(stage))
  <2>1. qX # <<>> /\ qX \in Seq(Vectors) /\ qXPrime \in Seq(Vectors)
        /\ Len(qXPrime) = iNumPreviousVectors /\ iNumPreviousVectors \in 1 .. 4
    BY <1>1, <1>2, <1>3, NumbersOfInput DEF Vectors_
  <2>2. 1 \in DOMAIN qX /\ 1 \in DOMAIN qXPrime /\ qX[1] \in Vectors /\ qXPrime[1] \in Vectors
    BY <2>1, EmptySeq, LenProperties
  <2>3. /\ Relate(q, 0, qX[1]) = Vector(qX[1].x, accepted[1], OfStage(stage))
        /\ Relate(q, 0, qXPrime[1]) = Vector(qXPrime[1].x, accepted[1], OfStage(stage))
    <3>1. 0 \in 0 .. stage - 1
      BY <1>3
    <3> QED
      BY <1>8, <2>2, <3>1
  <2>4. qX'[1] = Relate(q, 0, qX[1]) /\ qXPrime'[1] = Relate(q, 0, qXPrime[1])
    BY <1>1, <2>2
  <2> QED
    BY <1>4, <2>3, <2>4 DEF StageVectors
<1>10. /\ Len(mX) = Stages - 1 /\ Len(mX') = Stages - 1 /\ Len(mXP') = Stages - 1
       /\ \A n \in 1 .. stage :
            /\ mX'[n] = Vector(OfStage(n), OfStage(n), OfStage(stage))
            /\ mXP'[n] = Vector(OfStage(n), OfStage(n), OfStage(stage))
  <2>1. /\ mX \in Seq(Vectors) /\ mXP \in Seq(Vectors)
        /\ Len(mX) = Stages - 1 /\ Len(mXP) = Stages - 1
    BY <1>1, <1>2, <1>3 DEF Integrator
  <2> DEFINE m == Stages - 1
  <2>2. m \in Nat /\ stage <= m
    BY <1>3
  <2> HIDE DEF m
  <2>3. /\ DOMAIN mX = 1 .. m /\ DOMAIN mXP = 1 .. m
        /\ \A k \in 1 .. m : mX[k] \in Vectors /\ mXP[k] \in Vectors
    BY <2>1, LenProperties DEF m
  <2>4. DOMAIN mX' = 1 .. m /\ DOMAIN mXP' = 1 .. m
    BY <1>1, <2>3
  <2>5. Len(mX') = m /\ Len(mXP') = m
    BY <1>1, <2>2, <2>3
  <2>6. ASSUME NEW n \in 1 .. stage
        PROVE  /\ mX'[n] = Vector(OfStage(n), OfStage(n), OfStage(stage))
               /\ mXP'[n] = Vector(OfStage(n), OfStage(n), OfStage(stage))
    <3>1. n \in 1 .. m
      BY <1>3, <2>2
    <3>2. CASE n = stage
      BY <1>1, <1>5, <2>3, <3>1, <3>2
    <3>3. CASE n # stage
      <4>1. mX'[n] = Relate(q, n, mX[n]) /\ mXP'[n] = Relate(q, n, mXP[n])
        BY <1>1, <2>3, <3>1, <3>3
      <4>2. n \in 0 .. stage - 1 /\ n # 0 /\ n \in 1 .. stage - 1
        BY <1>3, <3>3
      <4>3. /\ Relate(q, n, mX[n]) = Vector(mX[n].x, OfStage(n), OfStage(stage))
            /\ Relate(q, n, mXP[n]) = Vector(mXP[n].x, OfStage(n), OfStage(stage))
        BY <1>8, <2>3, <3>1, <4>2
      <4> QED
        BY <1>4, <4>1, <4>2, <4>3 DEF StageVectors
    <3> QED
      BY <3>2, <3>3
  <2> QED
    BY <2>1, <2>5, <2>6 DEF m
<1> QED
  BY <1>3, <1>6, <1>7, <1>9, <1>10 DEF q

LEMMA NextStages ==
  ASSUME ControlInv, TypeInv, PresentInv, StageInv, [Next]_vars
  PROVE  StageInv'
<1>1. /\ Ranges /\ Phases /\ input \in Inputs /\ step \in Nat
      /\ Stages \in Nat /\ stage \in 1 .. Stages
      /\ Type \in DOMAIN StageN => Type \notin DOMAIN StepN /\ Type \notin SingleStep
  <2>1. Ranges /\ Phases /\ input \in Inputs /\ step \in Nat /\ stage \in 1 .. Stages
    BY NumbersOfInput, StepAssumption DEF ControlInv, Ranges
  <2> QED
    BY <2>1, NumbersOfStep, Kinds
<1>2. ASSUME UNCHANGED <<input, step>> PROVE Type' = Type
  BY <1>2, SameStep
<1>3. CASE pc' \notin {"Solve", "Stage"}
  BY <1>3 DEF StageInv
<1>4. CASE SolveDerivatives \/ DerivativesConverge \/ RepeatDerivatives
           \/ DerivativesConvergeOnSolution \/ BeginStep \/ SetTime \/ ConvergesOnSolution
           \/ RepeatStep \/ EndRun
  <2>1. pc' \notin {"Solve", "Stage"}
    BY <1>4 DEF SolveDerivatives, DerivativesConverge, RepeatDerivatives,
      DerivativesConvergeOnSolution, BeginStep, SetTime, ConvergesOnSolution, Accept, RepeatStep,
      EndRun
  <2> QED
    BY <1>3, <2>1
<1>5. CASE StageConverges \/ UNCHANGED vars
  <2>1. \/ pc' = "Idle"
        \/ /\ UNCHANGED <<input, step, try, stage, thrown, qPrev, accepted, mqX, mX, mXP, qX, qXPrime>>
           /\ pc' \in {"Solve", "Stage"} => pc \in {"Solve", "Stage"}
    BY <1>5 DEF StageConverges, Accept, vars, solver, vectors, model, integrator
  <2> QED
    BY <1>2, <1>3, <2>1 DEF StageInv, StageQueue, StageOrientations, StageVectors, OfStage, Unspoilt
<1>6. CASE AdvanceStepN \/ AdvanceSingleStep
  <2>1. UNCHANGED <<input, step>> /\ Type \notin DOMAIN StageN
    BY <1>1, <1>6 DEF AdvanceStepN, AdvanceSingleStep, solver
  <2> QED
    BY <1>2, <2>1 DEF StageInv
<1>7. CASE AdvanceStages
  <2>1. /\ UNCHANGED <<input, step, try, stage, thrown, qPrev, accepted, qX, qXPrime>>
        /\ mqX' = <<0>> \o mqX /\ pc = "Advance"
    BY <1>7 DEF AdvanceStages, Predict, solver
  <2>2. stage = 1
    BY <1>1, <2>1 DEF Phases, Attempting
  <2> SUFFICES ASSUME Unspoilt PROVE (StageQueue /\ StageOrientations /\ StageVectors)'
    BY <2>1 DEF StageInv, Unspoilt
  <2>3. /\ mqX = <<>> /\ qPrev[1] = accepted[1]
        /\ qX[1] = Still(accepted[1]) /\ qXPrime[1] = Still(accepted[1])
    BY <2>1 DEF PresentInv, AtBeginning, NoStages, Repeatable, Attempting
  <2>4. mqX' = <<0>>
    BY <2>1, <2>3
  <2>5. StageQueue'
    BY <2>1, <2>2, <2>4 DEF StageQueue
  <2>6. StageOrientations'
    BY <2>1, <2>2, <2>3 DEF StageOrientations, NPREV
  <2>7. StageVectors'
    BY <2>1, <2>2, <2>3, SomeSolutions DEF StageVectors, Still
  <2> QED
    BY <2>5, <2>6, <2>7
<1>8. CASE NextStage
  <2>1. /\ UNCHANGED <<input, step, try, thrown, accepted>> /\ stage' = stage + 1
    BY <1>8 DEF NextStage, solver
  <2> SUFFICES ASSUME Unspoilt PROVE (StageQueue /\ StageOrientations /\ StageVectors)'
    BY <2>1 DEF StageInv, Unspoilt
  <2>2. pc = "Stage" /\ stage \in 1 .. 4
    BY <1>8, Staging DEF NextStage
  <2>3. StageOrientations
    <3>1. Type \in DOMAIN StageN
      BY <1>8, Staging
    <3> QED
      BY <2>2, <3>1 DEF StageInv
  <2>4. StageQueue'
    BY <1>8, <2>1, <2>2, Staging DEF StageQueue
  <2>5. StageOrientations'
    <3>1. qPrev'[1] = OfStage(stage) /\ \A n \in 1 .. NPREV - 1 : qPrev'[n + 1] = qPrev[n]
      BY <1>8, Staging
    <3>2. \A n : OfStage(n)' = OfStage(n)
      BY <2>1 DEF OfStage
    <3>3. ASSUME NEW n \in 1 .. NPREV
          PROVE  /\ n < stage' => qPrev'[n] = OfStage(stage' - n)
                 /\ n = stage' => qPrev'[n] = accepted'[1]
      <4>1. CASE n = 1
        <5>1. stage' - n = stage /\ n # stage'
          BY <2>1, <2>2, <4>1
        <5> QED
          BY <3>1, <4>1, <5>1
      <4>2. CASE n # 1
        <5>1. n - 1 \in 1 .. NPREV - 1 /\ n - 1 \in 1 .. NPREV /\ (n - 1) + 1 = n
              /\ stage' - n = stage - (n - 1)
          BY <2>1, <2>2, <3>3, <4>2 DEF NPREV
        <5>2. qPrev'[n] = qPrev[n - 1]
          BY <3>1, <5>1
        <5>3. /\ n - 1 < stage => qPrev[n - 1] = OfStage(stage - (n - 1))
              /\ n - 1 = stage => qPrev[n - 1] = accepted[1]
          BY <2>3, <5>1 DEF StageOrientations
        <5> QED
          BY <2>1, <2>2, <5>1, <5>2, <5>3
      <4> QED
        BY <4>1, <4>2
    <3> QED
      BY <3>2, <3>3, <2>1 DEF StageOrientations, OfStage
  <2>6. StageVectors'
    <3>1. /\ \A n \in 1 .. stage : mX'[n].x = OfStage(n) /\ mXP'[n].x = OfStage(n)
          /\ qX'[1].x = accepted[1] /\ qXPrime'[1].x = accepted[1]
      BY <1>8, Staging, SomeSolutions
    <3>2. stage' - 1 = stage
      BY <2>1, <2>2
    <3> QED
      BY <2>1, <3>1, <3>2 DEF StageVectors, OfStage
  <2> QED
    BY <2>4, <2>5, <2>6
<1> QED
  BY <1>4, <1>5, <1>6, <1>7, <1>8 DEF Next, Prepare, Advance

LEMMA StageInvariant == Spec => []StageInv
<1>1. Init => StageInv
  BY DEF Init, StageInv
<1> QED
  BY <1>1, NextStages, ControlInvariant, TypeInvariant, PresentInvariant, PTL DEF Spec

-----------------------------------------------------------------------------
\* Predictions.

(* A prediction of the first stage, from n solutions, and of a later one.   *)
FirstReads(n) ==
  /\ stage = 1 /\ n > 0 /\ n <= Len(accepted) /\ Len(read) = 2 * n
  /\ qPrev[1] = accepted[1]
  /\ \A k \in 1 .. n : /\ read[k] = Vector(accepted[k], accepted[k], accepted[1])
                       /\ read[k + n] = Vector(accepted[k], accepted[k], accepted[1])
Before(k) == IF k = stage THEN accepted[1] ELSE OfStage(stage - k)
LaterReads ==
  /\ stage > 1 /\ Len(read) = 2 * stage
  /\ qPrev[1] = OfStage(stage - 1)
  /\ \A k \in 1 .. stage : /\ read[k] = Vector(Before(k), Before(k), OfStage(stage - 1))
                           /\ read[k + stage] = Vector(Before(k), Before(k), OfStage(stage - 1))

LEMMA FirstPredicting ==
  History /\ (\E n \in 1 .. 4 : FirstReads(n)) => PredictsFromHistory
<1> SUFFICES ASSUME History, NEW n \in 1 .. 4, FirstReads(n) PROVE PredictsFromHistory
  OBVIOUS
<1>1. Len(read) \div 2 = n
  BY DEF FirstReads
<1>2. accepted \in Seq(Solutions) /\ n \in Nat /\ n <= Len(accepted) /\ stage = 1
  BY DEF History, FirstReads
<1> DEFINE e == SubSeq(accepted, 1, n)
<1>3. Expected(n) = e
  BY <1>2 DEF Expected
<1>4. \A k \in 1 .. n : e[k] = accepted[k]
  BY <1>2, Beginnings
<1> HIDE DEF e
<1>5. e[1] = accepted[1]
  BY <1>4
<1> QED
  BY <1>1, <1>2, <1>3, <1>4, <1>5 DEF PredictsFromHistory, FirstReads

LEMMA LaterPredicting ==
  stage \in 1 .. 5 /\ LaterReads => PredictsFromHistory
<1> SUFFICES ASSUME stage \in 1 .. 5, LaterReads PROVE PredictsFromHistory
  OBVIOUS
<1>1. Len(read) \div 2 = stage
  BY DEF LaterReads
<1> DEFINE e == [k \in 1 .. stage |-> IF k = stage THEN accepted[1] ELSE Solution(step, try, stage - k)]
<1>2. Expected(stage) = e
  BY DEF Expected, LaterReads
<1>3. \A k \in 1 .. stage : e[k] = Before(k)
  BY DEF Before, OfStage
<1> HIDE DEF e
<1>4. e[1] = OfStage(stage - 1)
  BY <1>3 DEF LaterReads, Before
<1> QED
  BY <1>1, <1>2, <1>3, <1>4 DEF PredictsFromHistory, LaterReads

(* A sequence made of two of the same length.                               *)
LEMMA Halves ==
  ASSUME NEW S, NEW n \in Nat, NEW a \in Seq(S), NEW b \in Seq(S), Len(a) = n, Len(b) = n
  PROVE  /\ Len(a \o b) = 2 * n
         /\ \A k \in 1 .. n : (a \o b)[k] = a[k] /\ (a \o b)[k + n] = b[k]
<1>1. /\ Len(a \o b) = Len(a) + Len(b)
      /\ \A k \in 1 .. Len(a) : (a \o b)[k] = a[k]
      /\ \A k \in 1 .. Len(b) : (a \o b)[Len(a) + k] = b[k]
  BY Joining
<1>2. n + n = 2 * n /\ \A k \in 1 .. n : n + k = k + n
  OBVIOUS
<1> QED
  BY <1>1, <1>2, Zenon

LEMMA NextPredicts ==
  ASSUME NoSingleStepTwice, ControlInv, ControlInv', TypeInv, TypeInv', PresentInv, QueueInv,
         Enough, LagInv, StageInv, PredictsFromHistory, [Next]_vars
  PROVE  PredictsFromHistory'
<1>1. /\ Ranges /\ Phases /\ Phases' /\ History /\ History' /\ Vectors_ /\ input \in Inputs
      /\ step \in Nat /\ Place \in Nat /\ Place <= step
      /\ accepted \in Seq(Solutions) /\ Len(accepted) \in Nat /\ Len(accepted) > 0
      /\ qX \in Seq(Vectors) /\ Len(qX) \in Nat /\ Len(qX) > 0
      /\ qXPrime \in Seq(Vectors) /\ Len(qXPrime) = iNumPreviousVectors
      /\ iNumPreviousVectors \in 1 .. 4 /\ Len(qX) <= Len(qXPrime)
  <2>1. Ranges /\ Phases /\ Phases' /\ History /\ History' /\ Vectors_
        /\ input \in Inputs /\ step \in Nat
    BY NumbersOfInput, StepAssumption DEF ControlInv, Ranges, TypeInv
  <2>2. accepted \in Seq(Solutions) /\ accepted # <<>> /\ qX \in Seq(Vectors) /\ qX # <<>>
        /\ qXPrime \in Seq(Vectors) /\ Len(qXPrime) = iNumPreviousVectors
        /\ Len(qX) <= Len(qXPrime)
    BY <2>1 DEF History, Vectors_, QueueInv
  <2>3. Len(accepted) \in Nat /\ Len(accepted) > 0 /\ Len(qX) \in Nat /\ Len(qX) > 0
    BY <2>2, EmptySeq
  <2> QED
    BY <2>1, <2>2, <2>3, NumbersOfStep, NumbersOfInput
<1>2. qX[1] \in Vectors /\ qXPrime[1] \in Vectors
  BY <1>1, LenProperties
<1>3. CASE pc' # "Solve"
  BY <1>3 DEF PredictsFromHistory
<1>4. CASE UNCHANGED vars
  <2>1. UNCHANGED <<step, try, stage, pc, thrown, read, accepted, qPrev>>
    BY <1>4 DEF vars, solver, model
  <2>2. \A n : Expected(n)' = Expected(n)
    BY <2>1 DEF Expected
  <2>3. PredictsFromHistory' = PredictsFromHistory
    BY <2>1 DEF PredictsFromHistory, Expected
  <2> QED
    BY <2>3
<1>5. CASE SolveDerivatives \/ DerivativesConverge \/ RepeatDerivatives
           \/ DerivativesConvergeOnSolution \/ BeginStep \/ SetTime \/ StageConverges
           \/ ConvergesOnSolution \/ RepeatStep \/ EndRun
  <2>1. pc' # "Solve"
    BY <1>5 DEF SolveDerivatives, DerivativesConverge, RepeatDerivatives,
      DerivativesConvergeOnSolution, BeginStep, SetTime, StageConverges, ConvergesOnSolution,
      Accept, RepeatStep, EndRun
  <2> QED
    BY <1>3, <2>1
<1>6. ASSUME \E n \in 1 .. 4 : FirstReads(n)' PROVE PredictsFromHistory'
  <2>1. (History /\ (\E n \in 1 .. 4 : FirstReads(n)) => PredictsFromHistory)'
    BY FirstPredicting, PTL
  <2> QED
    BY <1>1, <1>6, <2>1
<1>7. ASSUME pc = "Advance" PROVE stage = 1
  BY <1>1, <1>7 DEF Phases, Attempting
<1>8. ASSUME ~(thrown' \subseteq {"step"}) PROVE PredictsFromHistory'
  BY <1>8 DEF PredictsFromHistory
<1>9. CASE AdvanceStepN
  <2>0. pc = "Advance" /\ Type \in DOMAIN StepN
    BY <1>9 DEF AdvanceStepN
  <2>2. PICK n \in 1 .. 4 : n <= Place /\ n = IF IsStartUp THEN Place ELSE StepN[Type]
    <3>1. step > 0
      BY <1>1, <2>0 DEF Phases, InStep
    <3>2. Place > 0
      BY <1>1, <3>1, NumbersOfStep
    <3>3. /\ StepN[Type] \in 1 .. 4
          /\ IsStartUp => Place < StepN[Type]
          /\ ~IsStartUp => Place >= StepN[Type]
      BY <1>1, <2>0, NumbersOfStep, StepTable
    <3>4. (IF IsStartUp THEN Place ELSE StepN[Type]) \in 1 .. 4
      BY <1>1, <3>2, <3>3
    <3>5. (IF IsStartUp THEN Place ELSE StepN[Type]) <= Place
      BY <1>1, <3>2, <3>3
    <3> QED
      BY <3>4, <3>5
  <2>1. /\ UNCHANGED <<input, step, try, stage, qPrev, accepted, thrown>>
        /\ pc = "Advance" /\ Type \in DOMAIN StepN
        /\ Len(qX) >= n /\ read' = SubSeq(qX, 1, n) \o SubSeq(qXPrime, 1, n)
    BY <1>9, <2>2 DEF AdvanceStepN, Predict, solver
  <2> SUFFICES ASSUME Unspoilt PROVE PredictsFromHistory'
    BY <1>8, <2>1 DEF Unspoilt
  <2>3. LagInStep
    BY <2>1 DEF LagInv, Repeatable, Attempting
  <2>4. n <= Len(qX) /\ n <= Len(qXPrime) /\ n <= Len(accepted) /\ n \in Nat
    <3>1. step <= Len(accepted) \/ Len(accepted) = 4
      BY <2>1 DEF Enough, InStep
    <3> DEFINE i == Len(qX)
               j == Len(qXPrime)
               m == Len(accepted)
    <3>2. i \in Nat /\ j \in Nat /\ m \in Nat /\ i <= j /\ n <= i /\ (step <= m \/ m = 4)
      BY <1>1, <2>1, <2>2, <3>1
    <3> HIDE DEF i, j, m
    <3>3. n <= i /\ n <= j /\ n <= m
      BY <1>1, <2>2, <3>2
    <3> QED
      BY <2>2, <3>3 DEF i, j, m
  <2> DEFINE V == Vectors
             a == SubSeq(qX, 1, n)
             b == SubSeq(qXPrime, 1, n)
  <2>5. /\ a \in Seq(V) /\ Len(a) = n /\ \A k \in 1 .. n : a[k] = qX[k]
        /\ b \in Seq(V) /\ Len(b) = n /\ \A k \in 1 .. n : b[k] = qXPrime[k]
    BY <1>1, <2>4, Beginnings
  <2>6. read' = a \o b
    BY <2>1
  <2> HIDE DEF V, a, b
  <2>7. Len(read') = 2 * n /\ \A k \in 1 .. n : read'[k] = a[k] /\ read'[k + n] = b[k]
    BY <2>4, <2>5, <2>6, Halves
  <2>8. ASSUME NEW k \in 1 .. n
        PROVE  /\ read'[k] = Vector(accepted[k], accepted[k], accepted[1])
               /\ read'[k + n] = Vector(accepted[k], accepted[k], accepted[1])
    <3>1. k \in 1 .. NPREV /\ k <= Place /\ k <= n
      BY <1>1, <2>2 DEF NPREV
    <3>2. k <= Len(qX)
      <4> DEFINE i == Len(qX)
      <4>1. i \in Nat /\ n <= i
        BY <1>1, <2>4
      <4> HIDE DEF i
      <4>2. k <= i
        BY <2>2, <3>1, <4>1
      <4> QED
        BY <4>2 DEF i
    <3> QED
      BY <2>3, <2>5, <2>7, <3>1, <3>2 DEF LagInStep
  <2>9. qPrev[1] = accepted[1]
    BY <2>1 DEF PresentInv, AtBeginning, Repeatable, Attempting
  <2>10. stage' = 1 /\ n > 0 /\ n <= Len(accepted')
    BY <1>7, <2>1, <2>2, <2>4
  <2>11. FirstReads(n)'
    BY <2>1, <2>7, <2>8, <2>9, <2>10 DEF FirstReads
  <2> QED
    BY <1>6, <2>2, <2>11
(* The first prediction of the other integrators is made from one solution. *)
<1>10. ASSUME pc = "Advance", Unspoilt, read' = <<qX[1], qXPrime[1]>>,
              UNCHANGED <<step, try, stage, qPrev, accepted>>
       PROVE  PredictsFromHistory'
  <2>1. /\ qX[1] = Still(accepted[1]) /\ qXPrime[1] = Still(accepted[1])
        /\ qPrev[1] = accepted[1]
    BY <1>10 DEF PresentInv, AtBeginning, Repeatable, Attempting
  <2> DEFINE v == Still(accepted[1])
  <2>2. read' = <<v, v>>
    BY <1>10, <2>1
  <2> HIDE DEF v
  <2>3. Len(read') = 2 /\ read'[1] = v /\ read'[2] = v
    BY <2>2
  <2>4. v = Vector(accepted[1], accepted[1], accepted[1])
    BY DEF v, Still
  <2>5. 1 <= Len(accepted') /\ stage' = 1
    BY <1>1, <1>7, <1>10
  <2>6. FirstReads(1)'
    BY <1>10, <2>1, <2>3, <2>4, <2>5 DEF FirstReads
  <2> QED
    BY <1>6, <2>6
<1>11. CASE AdvanceSingleStep
  <2>1. /\ UNCHANGED <<input, step, try, stage, qPrev, accepted, thrown>>
        /\ pc = "Advance" /\ Type \in SingleStep
        /\ inte = Nothing =>
             read' = <<IF Len(qX) = 1 THEN Still(Nothing) ELSE qX[1], qXPrime[1]>>
        /\ inte # Nothing => read' = <<qX[1], qXPrime[1]>>
    BY <1>11 DEF AdvanceSingleStep, Predict, solver
  <2> SUFFICES ASSUME Unspoilt PROVE PredictsFromHistory'
    BY <1>8, <2>1 DEF Unspoilt
  <2>2. inte = Nothing => Len(qX) # 1
    <3> SUFFICES ASSUME inte = Nothing PROVE Len(qX) # 1
      OBVIOUS
    <3>1. ~Popped
      <4> SUFFICES ASSUME ~IsDummy, DummySteps > 0, input.DummyType \in SingleStep PROVE FALSE
        BY DEF Popped
      <4>1. input.RegularType \in SingleStep
        BY <2>1 DEF Type
      <4>2. input.iDummyStepsNumber > 0
        BY <1>1, StepAssumption DEF DummySteps, InputType
      <4> QED
        BY <1>1, <4>1, <4>2 DEF NoSingleStepTwice
    <3>2. Len(qX) = iNumPreviousVectors
      BY <3>1 DEF QueueInv
    <3>3. iNumPreviousVectors >= 2
      <4>1. CASE IsDummy
        <5>1. step > 0
          BY <1>1, <2>1 DEF Phases, InStep
        <5>2. DummySteps > 0 /\ input.DummyType \in SingleStep
          BY <1>1, <2>1, <4>1, <5>1, NumbersOfInput DEF IsDummy, Type
        <5> QED
          BY <1>1, <5>2, NumbersOfInput
      <4>2. CASE ~IsDummy
        BY <1>1, <2>1, <4>2, NumbersOfInput DEF Type
      <4> QED
        BY <4>1, <4>2
    <3> QED
      BY <1>1, <3>2, <3>3
  <2>3. read' = <<qX[1], qXPrime[1]>>
    BY <2>1, <2>2
  <2> QED
    BY <1>10, <2>1, <2>3
<1>12. CASE AdvanceStages
  <2>1. /\ UNCHANGED <<step, try, stage, qPrev, accepted, thrown>>
        /\ pc = "Advance" /\ read' = <<qX[1], qXPrime[1]>>
    BY <1>12 DEF AdvanceStages, Predict, solver
  <2> QED
    BY <1>8, <1>10, <2>1 DEF Unspoilt
<1>13. CASE NextStage
  <2> DEFINE m == mX'
             p == mXP'
             a == qX'[1]
             b == qXPrime'[1]
  <2>1. /\ UNCHANGED <<input, step, try, accepted, thrown>> /\ stage' = stage + 1
        /\ read' = (Reverse(SubSeq(m, 1, stage)) \o <<a>>) \o Reverse(SubSeq(p, 1, stage)) \o <<b>>
    BY <1>13 DEF NextStage, Predict, solver
  <2> SUFFICES ASSUME Unspoilt PROVE PredictsFromHistory'
    BY <1>8, <2>1 DEF Unspoilt
  <2> DEFINE s == OfStage(stage)
  <2>2. /\ stage \in 1 .. 4 /\ stage < Stages /\ Stages \in 1 .. 5
        /\ Len(m) = Stages - 1 /\ Len(p) = Stages - 1
        /\ qPrev'[1] = s
        /\ \A n \in 1 .. stage : /\ m[n] = Vector(OfStage(n), OfStage(n), s)
                                 /\ p[n] = Vector(OfStage(n), OfStage(n), s)
        /\ a = Vector(accepted[1], accepted[1], s) /\ b = Vector(accepted[1], accepted[1], s)
    BY <1>1, <1>13, Staging, NumbersOfStep
  <2>3. /\ m \in Seq(Vectors') /\ p \in Seq(Vectors') /\ a \in Vectors' /\ b \in Vectors'
    <3>1. /\ m \in Seq(Vectors') /\ p \in Seq(Vectors')
          /\ qX' \in Seq(Vectors') /\ qXPrime' \in Seq(Vectors')
      BY DEF TypeInv, Vectors_, Integrator
    <3>2. /\ \A x, from, to \in Solutions : Vector(x, from, to) \in Vectors
          /\ accepted[1] \in Solutions
      BY <1>1, SomeSolutions
    <3>3. s \in Solutions
      BY <1>1, SomeSolutions DEF OfStage, Current
    <3>4. Vectors' = Vectors
      BY SameInput
    <3> QED
      BY <2>2, <3>1, <3>2, <3>3, <3>4
  <2>4. stage <= Len(m) /\ stage <= Len(p) /\ stage \in Nat
    BY <2>2
  <2> DEFINE V == Vectors'
  <2> HIDE DEF m, p, a, b, s, V
  <2> DEFINE f == SubSeq(m, 1, stage)
             g == SubSeq(p, 1, stage)
  <2>5. /\ f \in Seq(V) /\ Len(f) = stage /\ \A k \in 1 .. stage : f[k] = m[k]
        /\ g \in Seq(V) /\ Len(g) = stage /\ \A k \in 1 .. stage : g[k] = p[k]
    BY <2>3, <2>4, Beginnings DEF V
  <2> DEFINE fr == Reverse(f)
             gr == Reverse(g)
  <2>6. /\ fr \in Seq(V) /\ Len(fr) = stage
        /\ gr \in Seq(V) /\ Len(gr) = stage
        /\ \A k \in 1 .. stage : fr[k] = f[stage - k + 1] /\ gr[k] = g[stage - k + 1]
    <3> HIDE DEF f, g
    <3>1. /\ Reverse(f) \in Seq(V) /\ Len(Reverse(f)) = Len(f)
          /\ \A n \in 1 .. Len(f) : Reverse(f)[n] = f[Len(f) - n + 1]
      BY <2>5, Reversing
    <3>2. /\ Reverse(g) \in Seq(V) /\ Len(Reverse(g)) = Len(g)
          /\ \A n \in 1 .. Len(g) : Reverse(g)[n] = g[Len(g) - n + 1]
      BY <2>5, Reversing
    <3> QED
      BY <2>5, <3>1, <3>2, Zenon
  <2>7. read' = (fr \o <<a>>) \o gr \o <<b>>
    BY <2>1
  <2> HIDE DEF f, g, fr, gr
  <2>8. ASSUME NEW k \in 1 .. stage
        PROVE  fr[k] = Vector(OfStage(stage - k + 1), OfStage(stage - k + 1), s)
               /\ gr[k] = Vector(OfStage(stage - k + 1), OfStage(stage - k + 1), s)
    <3>1. stage - k + 1 \in 1 .. stage
      BY <2>2
    <3> QED
      BY <2>2, <2>5, <2>6, <3>1
  <2>9. <<a>> \in Seq(V) /\ Len(<<a>>) = 1 /\ <<a>>[1] = a
        /\ <<b>> \in Seq(V) /\ Len(<<b>>) = 1 /\ <<b>>[1] = b
    BY <2>3, OneIsSeq DEF V
  <2> DEFINE c == fr \o <<a>>
             d == gr \o <<b>>
  <2>10. /\ c \in Seq(V) /\ Len(c) = stage + 1
         /\ \A k \in 1 .. stage : c[k] = fr[k]
         /\ c[stage + 1] = a
         /\ d \in Seq(V) /\ Len(d) = stage + 1
         /\ \A k \in 1 .. stage : d[k] = gr[k]
         /\ d[stage + 1] = b
    <3>1. 1 \in 1 .. 1
      OBVIOUS
    <3>2. /\ c \in Seq(V) /\ Len(c) = Len(fr) + Len(<<a>>)
          /\ \A n \in 1 .. Len(fr) : c[n] = fr[n]
          /\ \A n \in 1 .. Len(<<a>>) : c[Len(fr) + n] = <<a>>[n]
      BY <2>6, <2>9, Joining
    <3>3. /\ d \in Seq(V) /\ Len(d) = Len(gr) + Len(<<b>>)
          /\ \A n \in 1 .. Len(gr) : d[n] = gr[n]
          /\ \A n \in 1 .. Len(<<b>>) : d[Len(gr) + n] = <<b>>[n]
      BY <2>6, <2>9, Joining
    <3> HIDE DEF c, d
    <3> QED
      BY <2>6, <2>9, <3>1, <3>2, <3>3, Zenon
  <2> HIDE DEF c, d
  <2>11. read' = c \o d
    BY <2>6, <2>7, <2>9, <2>10 DEF c, d
  <2>12. stage + 1 \in Nat /\ stage' \in 1 .. 5 /\ stage' > 1
    BY <2>1, <2>2
  <2>13. /\ Len(read') = 2 * (stage + 1)
         /\ \A k \in 1 .. stage + 1 : read'[k] = c[k] /\ read'[k + (stage + 1)] = d[k]
    BY <2>10, <2>11, <2>12, Halves
  <2>14. ASSUME NEW k \in 1 .. stage'
         PROVE  /\ read'[k] = Vector(Before(k)', Before(k)', s)
                /\ read'[k + stage'] = Vector(Before(k)', Before(k)', s)
    <3>1. CASE k = stage'
      <4>1. Before(k)' = accepted[1]
        BY <2>1, <3>1 DEF Before
      <4> QED
        BY <2>1, <2>2, <2>10, <2>13, <3>1, <4>1
    <3>2. CASE k # stage'
      <4>1. k \in 1 .. stage /\ stage' - k = stage - k + 1
        BY <2>1, <2>2, <3>2
      <4>2. Before(k)' = OfStage(stage - k + 1)
        BY <2>1, <3>2, <4>1 DEF Before, OfStage
      <4> QED
        BY <2>1, <2>8, <2>10, <2>13, <4>1, <4>2
    <3> QED
      BY <3>1, <3>2
  <2>15. OfStage(stage - 1)' = s
    <3>1. stage' - 1 = stage
      BY <2>1, <2>2
    <3> QED
      BY <2>1, <3>1 DEF OfStage, s
  <2>16. LaterReads'
    <3>1. qPrev'[1] = s
      BY <2>2
    <3> QED
      BY <2>1, <2>12, <2>13, <2>14, <2>15, <3>1 DEF LaterReads
  <2>17. (stage \in 1 .. 5 /\ LaterReads => PredictsFromHistory)'
    BY LaterPredicting, PTL
  <2> QED
    BY <2>12, <2>16, <2>17
<1> QED
  BY <1>4, <1>5, <1>9, <1>11, <1>12, <1>13 DEF Next, Prepare, Advance

(* Every prediction, of a step of any integrator, of its stages and of the  *)
(* attempts at it, is made from the last accepted solutions and the stages  *)
(* before it, in their order, with rotations from each of them to the last. *)
THEOREM PredictionsAreFromHistory ==
  ASSUME NoSingleStepTwice
  PROVE  Spec => []PredictsFromHistory
<1>1. Init => PredictsFromHistory
  BY DEF Init, PredictsFromHistory
<1>2. /\ ControlInv /\ ControlInv' /\ TypeInv /\ TypeInv' /\ PresentInv /\ QueueInv
      /\ Enough /\ LagInv /\ StageInv /\ PredictsFromHistory /\ [Next]_vars
      => PredictsFromHistory'
  BY NextPredicts
<1> QED
  BY <1>1, <1>2, ControlInvariant, TypeInvariant, PresentInvariant, QueueInvariant,
    EnoughInvariant, LagInvariant, StageInvariant, PTL DEF Spec

-----------------------------------------------------------------------------
\* The intermediate variables of the single-step integrators.

(* A single-step integrator shares the queues only with an integrator that  *)
(* asks for no more states than it does, so that it leaves one.             *)
SingleStepOfTwo ==
  \A i \in Inputs :
    \/ i.RegularType \in SingleStep
    \/ i.iDummyStepsNumber > 0 /\ i.DummyType \in SingleStep
    => /\ NumPreviousStates(i.RegularType) <= 2
       /\ i.iDummyStepsNumber > 0 => NumPreviousStates(i.DummyType) <= 2

InteInv ==
  Unspoilt =>
    /\ pc = "Solve" /\ Type \in SingleStep =>
         inte = accepted[1] /\ qXPrime[1].x = accepted[1] /\ qPrev[1] = accepted[1]
    /\ pc = "Idle" /\ inte # Nothing =>
         inte = accepted[2] /\ qXPrime[1].x = accepted[2] /\ qPrev[1] = accepted[2]
    /\ pc \in Attempting /\ inte # Nothing =>
         inte = accepted[2] /\ qXPrime[2] = Still(accepted[2])

LEMMA TwoVectors ==
  ASSUME SingleStepOfTwo, input \in Inputs, step \in Nat, step > 0, Type \in SingleStep
  PROVE  iNumPreviousVectors = 2
<1>1. /\ input.DummyType \in RegularTypes /\ input.RegularType \in RegularTypes
      /\ input.iDummyStepsNumber \in Nat /\ DummySteps \in Nat
  BY NumbersOfInput, StepAssumption DEF InputType
<1>2. input.iDummyStepsNumber = 0 => DummySteps = 0
  BY DEF DummySteps
<1>3. \/ input.RegularType \in SingleStep
      \/ input.iDummyStepsNumber > 0 /\ input.DummyType \in SingleStep
  <2>1. CASE IsDummy
    BY <1>1, <1>2, <2>1 DEF IsDummy, Type
  <2>2. CASE ~IsDummy
    BY <2>2 DEF Type
  <2> QED
    BY <2>1, <2>2
<1>4. /\ NumPreviousStates(input.RegularType) <= 2
      /\ input.iDummyStepsNumber > 0 => NumPreviousStates(input.DummyType) <= 2
  BY <1>3 DEF SingleStepOfTwo
<1>5. /\ NumPreviousStates(input.RegularType) \in 1 .. 4
      /\ NumPreviousStates(input.DummyType) \in 1 .. 4
      /\ input.RegularType \in SingleStep => NumPreviousStates(input.RegularType) = 2
      /\ input.DummyType \in SingleStep => NumPreviousStates(input.DummyType) = 2
  BY <1>1, NumbersOfTypes
<1>6. iNumPreviousVectors =
        IF NumPreviousStates(input.RegularType)
             < (IF input.iDummyStepsNumber = 0 THEN 0 ELSE NumPreviousStates(input.DummyType))
        THEN IF input.iDummyStepsNumber = 0 THEN 0 ELSE NumPreviousStates(input.DummyType)
        ELSE NumPreviousStates(input.RegularType)
  BY DEF iNumPreviousVectors
<1> QED
  BY <1>1, <1>3, <1>4, <1>5, <1>6

LEMMA NextInte ==
  ASSUME SingleStepOfTwo, ControlInv, TypeInv, PresentInv, QueueInv, Enough, InteInv, [Next]_vars
  PROVE  InteInv'
<1>1. /\ Ranges /\ Phases /\ input \in Inputs /\ step \in Nat
      /\ Stages \in Nat /\ stage \in 1 .. Stages
      /\ Type \in SingleStep => Type \notin DOMAIN StepN /\ Type \notin DOMAIN StageN /\ Stages = 1
      /\ inte # Nothing => Type \in SingleStep /\ step > 0 /\ Len(qX) = iNumPreviousVectors - 1
      /\ Type \in DOMAIN StepN => Type \notin SingleStep
  <2>1. Ranges /\ Phases /\ input \in Inputs /\ step \in Nat /\ stage \in 1 .. Stages
    BY NumbersOfInput, StepAssumption DEF ControlInv, Ranges
  <2> QED
    BY <2>1, NumbersOfStep, Kinds DEF QueueInv
<1>2. ASSUME UNCHANGED <<input, step>> PROVE Type' = Type
  BY <1>2, SameStep
<1> USE DEF Unspoilt
<1>3. CASE pc' \notin {"Solve", "Idle", "SetTime", "SetTimeAgain", "Advance"}
  BY <1>3 DEF InteInv, Attempting
<1>4. CASE inte' = Nothing /\ UNCHANGED <<input, step>> /\ Type \notin SingleStep
  BY <1>2, <1>4 DEF InteInv
<1>5. CASE SolveDerivatives \/ DerivativesConverge \/ RepeatDerivatives \/ DerivativesConvergeOnSolution
  <2>1. UNCHANGED <<input, step, inte>> /\ pc \in {"Derivatives", "Derived"} /\ pc' # "Solve"
    BY <1>5 DEF SolveDerivatives, DerivativesConverge, RepeatDerivatives,
      DerivativesConvergeOnSolution, solver, integrator
  <2>2. inte' = Nothing
    BY <1>1, <2>1 DEF Phases
  <2> QED
    BY <2>1, <2>2 DEF InteInv
<1>6. CASE SetTime
  <2>1. /\ UNCHANGED <<input, step, inte, thrown, accepted, qXPrime, qPrev>>
        /\ pc \in Attempting /\ pc' \in Attempting
    BY <1>6 DEF SetTime, solver, vectors, integrator, Attempting
  <2> QED
    BY <2>1 DEF InteInv, Attempting
<1>7. CASE AdvanceStepN \/ AdvanceStages \/ NextStage
  <2>1. UNCHANGED <<input, step, inte>>
    BY <1>7 DEF AdvanceStepN, AdvanceStages, NextStage, solver
  <2>2. Type \notin SingleStep
    <3>1. CASE AdvanceStepN \/ AdvanceStages
      BY <1>1, <3>1 DEF AdvanceStepN, AdvanceStages
    <3>2. CASE NextStage
      <4>1. stage < Stages
        BY <1>1, <3>2 DEF NextStage, Phases
      <4>2. Stages # 1
        BY <1>1, <4>1
      <4> QED
        BY <1>1, <4>2
    <3> QED
      BY <1>7, <3>1, <3>2
  <2>3. inte' = Nothing
    BY <1>1, <2>1, <2>2
  <2> QED
    BY <1>4, <2>1, <2>2, <2>3
<1>8. CASE AdvanceSingleStep
  <2>1. /\ UNCHANGED <<input, step, thrown, accepted, qXPrime, qPrev>>
        /\ pc = "Advance" /\ pc' = "Solve"
        /\ inte' = IF inte = Nothing THEN qXPrime[1].x ELSE UpdateInte
    BY <1>8 DEF AdvanceSingleStep, Predict, solver
  <2> SUFFICES ASSUME Unspoilt
               PROVE  inte' = accepted[1] /\ qXPrime[1].x = accepted[1] /\ qPrev[1] = accepted[1]
    BY <2>1 DEF InteInv, Attempting
  <2>2. qXPrime[1] = Still(accepted[1]) /\ qPrev[1] = accepted[1]
    BY <2>1 DEF PresentInv, AtBeginning, Repeatable, Attempting
  <2>3. qXPrime[1].x = accepted[1]
    BY <2>2, SomeSolutions DEF Still
  <2>4. inte # Nothing => qXPrime[2] = Still(inte)
    BY <2>1 DEF InteInv, Attempting
  <2> QED
    BY <2>1, <2>2, <2>3, <2>4 DEF UpdateInte
<1>9. CASE StageConverges \/ ConvergesOnSolution
  <2>1. /\ UNCHANGED <<input, step, inte, qXPrime, qPrev>> /\ pc = "Solve"
        /\ thrown \subseteq thrown' /\ (stage < Stages \/ Accept)
        /\ pc' \in {"Stage", "Idle"}
    BY <1>9 DEF StageConverges, ConvergesOnSolution, solver, vectors, model, integrator, Accept
  <2> SUFFICES ASSUME thrown' \subseteq {"step"}, inte # Nothing
               PROVE  inte = accepted'[2] /\ qXPrime[1].x = accepted'[2] /\ qPrev[1] = accepted'[2]
    BY <2>1 DEF InteInv, Attempting
  <2>2. Type \in SingleStep /\ thrown \subseteq {"step"}
    BY <1>1, <2>1
  <2>3. ~(stage < Stages)
    BY <1>1, <2>2
  <2>4. accepted'[2] = accepted[1]
    BY <2>1, <2>3, AcceptingMore
  <2> QED
    BY <2>1, <2>2, <2>4 DEF InteInv
<1>10. CASE RepeatStep
  <2>1. UNCHANGED <<input, step, inte>> /\ ~IsDummy /\ input.RegularType \in VariableStep
    BY <1>10 DEF RepeatStep, integrator
  <2>2. Type \in DOMAIN StepN
    BY <2>1, Kinds DEF Type
  <2> QED
    BY <1>1, <1>4, <2>1, <2>2
<1>11. CASE EndRun
  BY <1>3, <1>11 DEF EndRun
<1>12. CASE UNCHANGED vars
  BY <1>2, <1>12 DEF InteInv, vars, solver, vectors, model, integrator
<1>13. CASE BeginStep
  <2>1. /\ input' = input /\ step' = step + 1 /\ UNCHANGED <<accepted, thrown>>
        /\ pc = "Idle" /\ pc' = "SetTime"
        /\ inte' = IF step = DummySteps THEN Nothing ELSE inte
    BY <1>13 DEF BeginStep, integrator
  <2> SUFFICES ASSUME Unspoilt, inte' # Nothing
               PROVE  inte' = accepted[2] /\ qXPrime'[2] = Still(accepted[2])
    BY <2>1 DEF InteInv, Attempting
  <2>2. inte' = inte /\ inte = accepted[2] /\ qXPrime[1].x = accepted[2] /\ qPrev[1] = accepted[2]
    BY <2>1 DEF InteInv
  <2>3. iNumPreviousVectors = 2
    BY <1>1, <2>2, TwoVectors
  <2>4. Len(qX) = 1 /\ Len(qXPrime) = 2
    <3>1. Len(qX) = iNumPreviousVectors - 1 /\ Len(qXPrime) = iNumPreviousVectors
      BY <1>1, <2>2 DEF TypeInv, Vectors_
    <3>2. 2 - 1 = 1
      OBVIOUS
    <3> QED
      BY <2>3, <3>1, <3>2, Zenon
  <2>5. RelativeDerivatives[1] = Vector(qXPrime[1].x, qPrev[1], qPrev[1])
    BY <1>1, <2>4, RelatingDerivatives DEF TypeInv
  <2>6. qXPrime'[2] = RelativeDerivatives[1]
    <3>1. \A n \in 1 .. Len(qXPrime) - 1 : qXPrime'[n + 1] = RelativeDerivatives[n]
      BY <1>1, <1>13, Beginning
    <3>2. 1 \in 1 .. 2 - 1 /\ 1 + 1 = 2
      OBVIOUS
    <3> QED
      BY <2>4, <3>1, <3>2, Zenon
  <2> QED
    BY <2>2, <2>5, <2>6 DEF Still
<1> QED
  BY <1>5, <1>6, <1>7, <1>8, <1>9, <1>10, <1>11, <1>12, <1>13 DEF Next, Prepare, Advance

(* The intermediate variables of a single-step integrator are those of the  *)
(* last accepted step when the nonlinear solver is called.                  *)
THEOREM IntermediatesAreOfLast ==
  ASSUME NoSingleStepTwice, SingleStepOfTwo
  PROVE  Spec => []IntermediatesAreOfLastStep
<1>1. Init => InteInv
  BY DEF Init, InteInv, Attempting
<1>2. /\ ControlInv /\ TypeInv /\ PresentInv /\ QueueInv /\ Enough /\ InteInv /\ [Next]_vars
      => InteInv'
  BY NextInte
<1>3. InteInv => IntermediatesAreOfLastStep
  BY DEF InteInv, IntermediatesAreOfLastStep, Unspoilt
<1> QED
  BY <1>1, <1>2, <1>3, ControlInvariant, TypeInvariant, PresentInvariant, QueueInvariant,
    EnoughInvariant, PTL DEF Spec
=============================================================================
