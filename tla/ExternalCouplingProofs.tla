----------------------- MODULE ExternalCouplingProofs -----------------------
(***************************************************************************)
(* Proofs about ExternalCoupling, for every number of steps, iterations    *)
(* and repetitions, every coupling and every peer that fits.               *)
(***************************************************************************)
EXTENDS ExternalCoupling, SequenceTheorems, TLAPS

-----------------------------------------------------------------------------
(* Types.                                                                  *)

Places ==
  {"SetValue", "Residual", "Update", "Failed", "Converged", "Eig", "EigResidual",
   "EigAgain", "EigLastResidual", "Between", "Interrupted", "Done"}
PeerPlaces == {"Request", "Response", "Begin", "Get", "Put", "Left"}
ToPeer(n) == [cmd : Motions \cup {"OK", "ABORT"}, of : 0 .. n]
ToMBDyn(n) == [cmd : Forces \cup {"NEGOTIATION", "ABORT"}, of : 0 .. n]

SolverTypes ==
  /\ input \in Inputs
  /\ at \in Places
  /\ phase \in {"Derivatives", "Step"}
  /\ step \in 0 .. MaxSteps
  /\ retries \in 0 .. input.retries
  /\ iIterCnt \in 0 .. MaxIter
  /\ bResConverged \in BOOLEAN
  /\ bSolConverged \in BOOLEAN

ForceTypes ==
  /\ iCouplingCounter \in Nat
  /\ bFirstSend \in BOOLEAN
  /\ bFirstRecv \in BOOLEAN
  /\ bReadForces \in BOOLEAN
  /\ bOK \in BOOLEAN
  /\ IsConverged \in BOOLEAN
  /\ keepGoing \in {"run", "step", "iteration"}

ChannelTypes ==
  /\ sent \in Nat
  /\ answered \in 0 .. sent
  /\ seen \in 0 .. sent
  /\ toPeer \in Seq(ToPeer(sent))
  /\ toMBDyn \in Seq(ToMBDyn(sent))

PeerTypes ==
  /\ peer \in PeerPlaces
  /\ niters \in Nat \ {0}
  /\ iter \in 0 .. niters
  /\ peer \in {"Get", "Put"} => iter < niters

(* How often the force can have been updated since it counted last.        *)
Counted(n) == (MaxIter + 1) * n
Extra ==
  IF at \in {"EigResidual", "EigAgain"} THEN 1
  ELSE IF at \in {"EigLastResidual", "Between", "Done"} THEN 2 ELSE 0

Base == IF phase = "Derivatives" THEN Counted(retries) ELSE 1

CounterIsBounded ==
  /\ iCouplingCounter <= iIterCnt + Extra + Base
  /\ at = "SetValue" => iIterCnt = 0
  /\ at = "Update" => iIterCnt < MaxIter

TypeInv == SolverTypes /\ ForceTypes /\ ChannelTypes /\ PeerTypes /\ CounterIsBounded

LEMMA InputIsTyped ==
  ASSUME NEW i \in Inputs
  PROVE  /\ i \in InputType
         /\ i.coupling \in Int /\ i.sendAfterPredict \in BOOLEAN
         /\ i.solTest \in BOOLEAN /\ i.retries \in Nat /\ i.dataAndNext \in BOOLEAN
         /\ i.iters \subseteq Nat \ {0}
         /\ i.coupling < COUPLING_LOOSE => ~i.sendAfterPredict
BY CouplingAssumption DEF ReadExtForce, InputType, COUPLING_STAGGERED, COUPLING_LOOSE

LEMMA CountedGrows ==
  /\ Counted(0) = 0
  /\ \A n \in Nat : Counted(n) \in Nat /\ Counted(n + 1) = Counted(n) + MaxIter + 1
  /\ \A m, n \in Nat : m <= n => Counted(m) <= Counted(n)
BY CouplingAssumption DEF Counted

(* What was said of fewer motions can be said of more.                     *)
LEMMA ChannelsGrow ==
  ASSUME NEW n \in Nat, NEW m \in Nat, n <= m
  PROVE  /\ 0 .. n \subseteq 0 .. m
         /\ ToPeer(n) \subseteq ToPeer(m)
         /\ ToMBDyn(n) \subseteq ToMBDyn(m)
         /\ Seq(ToPeer(n)) \subseteq Seq(ToPeer(m))
         /\ Seq(ToMBDyn(n)) \subseteq Seq(ToMBDyn(m))
<1>1. 0 .. n \subseteq 0 .. m
  OBVIOUS
<1>2. ToPeer(n) \subseteq ToPeer(m) /\ ToMBDyn(n) \subseteq ToMBDyn(m)
  BY <1>1 DEF ToPeer, ToMBDyn
<1> QED
  BY <1>1, <1>2, SeqMonotonic

-----------------------------------------------------------------------------
(* What the force does to the exchange: it publishes a motion or keeps it, *)
(* and it reads a message or leaves the channel.                           *)

Published(cmd, readForces, done) ==
  /\ readForces /\ bOK
  /\ sent' = sent + 1
  /\ toPeer' = Append(done, ES(cmd, sent + 1))
  /\ bFirstSend' = FALSE
  /\ UNCHANGED <<bOK, keepGoing>>

Kept(firstSend, done) ==
  /\ sent' = sent
  /\ toPeer' = done
  /\ bFirstSend' = firstSend
  /\ UNCHANGED <<bOK, keepGoing>> \/ (bOK' = FALSE /\ keepGoing' = "iteration")

LEMMA SendPublishes ==
  ASSUME NEW cmd \in Motions, NEW f, NEW r, NEW done \in Seq(ToPeer(sent)), sent \in Nat,
         Send(cmd, f, r, done)
  PROVE  Published(cmd, r, done) \/ Kept(f, done)
<1>1. done \o <<ES(cmd, sent + 1)>> = Append(done, ES(cmd, sent + 1))
  <2>1. done \in Seq(ToPeer(sent + 1))
    BY ChannelsGrow
  <2>2. ES(cmd, sent + 1) \in ToPeer(sent + 1)
    BY DEF ES, ToPeer
  <2> QED
    BY <2>1, <2>2, AppendIsConcat
<1> QED
  BY <1>1 DEF Send, Published, Kept

LEMMA UpdatePublishes ==
  ASSUME NEW c \in Nat, NEW f, NEW r, toPeer \in Seq(ToPeer(sent)), sent \in Nat,
         UpdateForce(c, f, r)
  PROVE  /\ iCouplingCounter' = IF Tight THEN c + 1 ELSE c
         /\ \/ \E cmd \in Motions : SendIsDue(c) /\ Published(cmd, r, toPeer)
            \/ Kept(f, toPeer)
<1>1. CASE SendIsDue(c)
  <2>1. PICK cmd \in Motions : Send(cmd, f, r, toPeer)
    BY <1>1 DEF UpdateForce, Motions
  <2> QED
    BY <1>1, <2>1, SendPublishes DEF UpdateForce
<1>2. CASE ~SendIsDue(c)
  BY <1>2 DEF UpdateForce, Kept
<1> QED
  BY <1>1, <1>2

(* Publishing and keeping preserve the types of the channels.              *)
LEMMA PublishingIsTyped ==
  ASSUME ForceTypes, ChannelTypes, NEW f \in BOOLEAN, NEW r,
         NEW done \in Seq(ToPeer(sent)),
         Kept(f, done) \/ \E cmd \in Motions : Published(cmd, r, done),
         UNCHANGED <<answered, seen>>, toMBDyn' \in Seq(ToMBDyn(sent))
  PROVE  /\ ChannelTypes'
         /\ bFirstSend' \in BOOLEAN /\ bOK' \in BOOLEAN
         /\ keepGoing' \in {"run", "step", "iteration"}
<1>1. CASE Kept(f, done)
  BY <1>1 DEF Kept, ForceTypes, ChannelTypes
<1>2. ASSUME NEW cmd \in Motions, Published(cmd, r, done)
      PROVE  /\ ChannelTypes'
             /\ bFirstSend' \in BOOLEAN /\ bOK' \in BOOLEAN
             /\ keepGoing' \in {"run", "step", "iteration"}
  <2>1. sent \in Nat /\ sent' = sent + 1 /\ sent + 1 \in Nat /\ sent <= sent + 1
    BY <1>2 DEF Published, ChannelTypes
  <2>2. done \in Seq(ToPeer(sent + 1)) /\ toMBDyn' \in Seq(ToMBDyn(sent + 1))
    BY <2>1, ChannelsGrow
  <2>3. ES(cmd, sent + 1) \in ToPeer(sent + 1)
    BY <2>1 DEF ES, ToPeer
  <2>4. toPeer' \in Seq(ToPeer(sent + 1))
    BY <1>2, <2>2, <2>3, AppendProperties DEF Published
  <2>5. answered \in 0 .. sent + 1 /\ seen \in 0 .. sent + 1
    BY <2>1 DEF ChannelTypes
  <2>6. ChannelTypes'
    BY <2>1, <2>2, <2>4, <2>5 DEF ChannelTypes
  <2> QED
    BY <1>2, <2>6 DEF Published, ForceTypes
<1> QED
  BY <1>1, <1>2

LEMMA ReadingIsTyped ==
  ASSUME ForceTypes, ChannelTypes, Recv, UNCHANGED seen
  PROVE  ForceTypes' /\ ChannelTypes'
<1>1. CASE toMBDyn # <<>> /\ ActOnCmd
  <2>1. Head(toMBDyn) \in ToMBDyn(sent) /\ Tail(toMBDyn) \in Seq(ToMBDyn(sent))
    BY <1>1, HeadTailProperties DEF ChannelTypes
  <2>2. Head(toMBDyn).of \in 0 .. sent /\ sent \in 0 .. sent
    BY <2>1 DEF ToMBDyn, ChannelTypes
  <2>3. UNCHANGED <<iCouplingCounter, bFirstSend, sent, toPeer>>
    BY DEF Recv
  <2>4. ChannelTypes'
    BY <1>1, <2>1, <2>2, <2>3 DEF ActOnCmd, ChannelTypes
  <2> QED
    BY <1>1, <2>3, <2>4 DEF ActOnCmd, ForceTypes
<1>2. CASE RecvFails
  BY <1>2 DEF Recv, RecvFails, ForceTypes, ChannelTypes
<1>3. CASE /\ IsConverged' \in {IsConverged, TRUE}
           /\ UNCHANGED <<answered, bFirstRecv, bReadForces, bOK, keepGoing, toMBDyn>>
  BY <1>3 DEF Recv, ForceTypes, ChannelTypes
<1> QED
  BY <1>1, <1>2, <1>3 DEF Recv

(* Every attempt starts a solve, every prediction counts anew.             *)
LEMMA PredictionIsTyped ==
  ASSUME SolverTypes, ForceTypes, ChannelTypes, AfterPredict, UNCHANGED seen
  PROVE  ForceTypes' /\ ChannelTypes' /\ iCouplingCounter' \in 0 .. 1
<1>1. UNCHANGED <<answered, toMBDyn>> /\ bFirstRecv' /\ bReadForces' /\ IsConverged' \in BOOLEAN
  BY InputIsTyped DEF AfterPredict, SolverTypes
<1>2. /\ iCouplingCounter' \in 0 .. 1
      /\ Kept(TRUE, toPeer) \/ \E cmd \in Motions : Published(cmd, TRUE, toPeer)
  <2>1. CASE UpdateForce(0, TRUE, TRUE)
    <3>1. sent \in Nat /\ toPeer \in Seq(ToPeer(sent)) /\ 0 \in Nat
      BY DEF ChannelTypes
    <3>2. /\ iCouplingCounter' = IF Tight THEN 0 + 1 ELSE 0
          /\ Kept(TRUE, toPeer) \/ \E cmd \in Motions : Published(cmd, TRUE, toPeer)
      BY <2>1, <3>1, UpdatePublishes
    <3>3. iCouplingCounter' \in 0 .. 1
      BY <3>2
    <3> QED
      BY <3>2, <3>3
  <2>2. CASE /\ iCouplingCounter' = 0
             /\ bFirstSend' = TRUE
             /\ UNCHANGED <<bOK, keepGoing, sent, toPeer>>
    BY <2>2 DEF Kept
  <2> QED
    BY <2>1, <2>2 DEF AfterPredict
<1>3. ChannelTypes' /\ bFirstSend' \in BOOLEAN /\ bOK' \in BOOLEAN
      /\ keepGoing' \in {"run", "step", "iteration"}
  BY <1>1, <1>2, PublishingIsTyped DEF ChannelTypes
<1> QED
  BY <1>1, <1>2, <1>3 DEF ForceTypes

LEMMA UpdateIsTyped ==
  ASSUME ForceTypes, ChannelTypes, UpdateForce(iCouplingCounter, bFirstSend, bReadForces),
         UNCHANGED <<bFirstRecv, bReadForces, IsConverged, answered, toMBDyn, seen>>
  PROVE  ForceTypes' /\ ChannelTypes' /\ iCouplingCounter' <= iCouplingCounter + 1
<1>1. /\ iCouplingCounter' = IF Tight THEN iCouplingCounter + 1 ELSE iCouplingCounter
      /\ \/ Kept(bFirstSend, toPeer)
         \/ \E cmd \in Motions : Published(cmd, bReadForces, toPeer)
  BY UpdatePublishes DEF ForceTypes, ChannelTypes
<1>2. ChannelTypes' /\ bFirstSend' \in BOOLEAN /\ bOK' \in BOOLEAN
      /\ keepGoing' \in {"run", "step", "iteration"}
  BY <1>1, PublishingIsTyped DEF ForceTypes, ChannelTypes
<1> QED
  BY <1>1, <1>2 DEF ForceTypes

LEMMA TypesInitially == Init => TypeInv
<1> SUFFICES ASSUME Init PROVE TypeInv
  OBVIOUS
<1>1. SolverTypes
  <2>1. input \in Inputs /\ input.retries \in Nat /\ input.solTest \in BOOLEAN
    BY InputIsTyped DEF Init
  <2>2. 0 \in 0 .. input.retries /\ 0 \in 0 .. MaxSteps /\ 0 \in 0 .. MaxIter
    BY <2>1, CouplingAssumption
  <2> QED
    BY <2>1, <2>2 DEF Init, SolverTypes, Places
<1>2. ForceTypes /\ PeerTypes
  BY DEF Init, ForceTypes, PeerTypes, PeerPlaces
<1>3. ChannelTypes
  BY EmptySeq DEF Init, ChannelTypes
<1>4. CounterIsBounded
  BY CountedGrows DEF Init, CounterIsBounded, Extra, Base
<1> QED
  BY <1>1, <1>2, <1>3, <1>4 DEF TypeInv

LEMMA TypesOfMBDyn ==
  ASSUME TypeInv, MBDyn
  PROVE  TypeInv'
<1> USE DEF TypeInv
<1>a. /\ input \in Inputs /\ input.retries \in Nat /\ input.solTest \in BOOLEAN
      /\ MaxIter \in Nat \ {0} /\ MaxSteps \in Nat
      /\ retries \in Nat /\ iIterCnt \in Nat /\ iCouplingCounter \in Nat
  BY CouplingAssumption, InputIsTyped DEF SolverTypes, ForceTypes
<1>b. Base \in Nat /\ Counted(retries) \in Nat
      /\ Counted(retries + 1) = Counted(retries) + MaxIter + 1
  <2>1. \A n \in Nat : Counted(n) \in Nat /\ Counted(n + 1) = Counted(n) + MaxIter + 1
    BY CountedGrows
  <2>2. Counted(retries) \in Nat /\ Counted(retries + 1) = Counted(retries) + MaxIter + 1
    BY <2>1, <1>a
  <2> QED
    BY <2>2 DEF Base
<1>c. (~input.solTest) \in BOOLEAN
  BY Zenon
<1>d. PeerTypes' /\ UNCHANGED <<input, peer, niters, iter, seen>>
  BY DEF MBDyn, SetValue, Residual, Update, AfterConvergence, EigUpdate, EigResidual,
         BeginStep, RetryStep, RetryDerivatives, EndRun, PeerTypes, peerVars
<1>1. CASE SetValue
  <2>1. /\ UNCHANGED <<phase, step, retries, iCouplingCounter, bFirstRecv,
                       bReadForces, IsConverged, answered>>
        /\ at = "SetValue" /\ at' \in {"Residual", "Interrupted"}
        /\ toMBDyn # <<>> /\ toMBDyn' = Tail(toMBDyn)
    BY <1>1 DEF SetValue, StartSolve
  <2>2. iIterCnt' = 0 /\ bResConverged' \in BOOLEAN /\ bSolConverged' \in BOOLEAN
    BY <1>1, <1>a, <1>c DEF SetValue, StartSolve, testVars, SolverTypes, CounterIsBounded
  <2>3. SolverTypes'
    BY <2>1, <2>2, <1>a, <1>d DEF SolverTypes, Places
  <2>4. CounterIsBounded'
    <3>1. iCouplingCounter <= Base
      BY <2>1, <1>a, <1>b DEF CounterIsBounded, Extra
    <3>2. Base' = Base /\ Extra' = 0
      BY <2>1 DEF Base, Extra
    <3> QED
      BY <2>1, <2>2, <3>1, <3>2, <1>a, <1>b DEF CounterIsBounded
  <2>5. ForceTypes' /\ ChannelTypes'
    <3> DEFINE verdict == IF at' = "Residual" THEN "OK" ELSE "ABORT"
               done == Append(toPeer, ES(verdict, 0))
    <3>1. ES(verdict, 0) \in ToPeer(sent) /\ sent \in Nat
      BY DEF ES, ToPeer, ChannelTypes
    <3>2. done \in Seq(ToPeer(sent))
      BY <3>1, AppendProperties DEF ChannelTypes
    <3>3. Tail(toMBDyn) \in Seq(ToMBDyn(sent))
      BY <2>1, HeadTailProperties DEF ChannelTypes
    <3>4. Kept(bFirstSend, done) \/ Kept(TRUE, done)
            \/ \E cmd \in Motions : Published(cmd, bReadForces, done)
      <4>1. CASE Send("REGULAR_DATA_AND_GOTO_NEXT_STEP", TRUE, bReadForces,
                      Append(toPeer, ES("OK", 0))) /\ at' = "Residual"
        <5>1. Send("REGULAR_DATA_AND_GOTO_NEXT_STEP", TRUE, bReadForces, done)
          BY <4>1
        <5>2. "REGULAR_DATA_AND_GOTO_NEXT_STEP" \in Motions
          BY DEF Motions
        <5> HIDE DEF done
        <5> QED
          BY <3>1, <3>2, <5>1, <5>2, SendPublishes
      <4>2. CASE toPeer' = done /\ UNCHANGED <<bOK, keepGoing, bFirstSend, sent>>
        BY <4>2 DEF Kept
      <4> QED
        BY <1>1, <4>1, <4>2 DEF SetValue, StartSolve
    <3>5. ChannelTypes' /\ bFirstSend' \in BOOLEAN /\ bOK' \in BOOLEAN
          /\ keepGoing' \in {"run", "step", "iteration"}
      <4> HIDE DEF done
      <4>1. UNCHANGED <<answered, seen>> /\ toMBDyn' \in Seq(ToMBDyn(sent))
        BY <1>d, <2>1, <3>3
      <4>2. CASE Kept(bFirstSend, done)
        BY <4>1, <4>2, <3>2, PublishingIsTyped DEF ForceTypes
      <4>3. CASE Kept(TRUE, done) \/ \E cmd \in Motions : Published(cmd, bReadForces, done)
        BY <4>1, <4>3, <3>2, PublishingIsTyped
      <4> QED
        BY <3>4, <4>2, <4>3
    <3> QED
      BY <2>1, <3>5 DEF ForceTypes
  <2> QED
    BY <1>d, <2>3, <2>4, <2>5
<1>2. CASE Residual
  <2>1. /\ UNCHANGED <<phase, step, retries, iIterCnt, bSolConverged>>
        /\ at = "Residual" /\ at' \in {"Converged", "Failed", "Update"}
        /\ at' = "Update" => iIterCnt < MaxIter
        /\ Recv /\ bResConverged' \in BOOLEAN /\ iCouplingCounter' = iCouplingCounter
    BY <1>2, <1>a DEF Residual, solverVars, SolverTypes, Recv
  <2>2. ForceTypes' /\ ChannelTypes'
    BY <2>1, <1>d, ReadingIsTyped
  <2>3. CounterIsBounded'
    BY <2>1, <1>a, <1>b DEF CounterIsBounded, Extra, Base
  <2> QED
    BY <2>1, <2>2, <2>3, <1>d DEF SolverTypes, Places
<1>3. CASE Update
  <2>1. /\ UNCHANGED <<phase, step, retries, bResConverged, bFirstRecv, bReadForces,
                       IsConverged, answered, toMBDyn>>
        /\ at = "Update" /\ at' \in {"Converged", "Interrupted", "Residual", "Failed"}
    BY <1>3 DEF Update
  <2>2. CASE at' = "Failed" /\ UNCHANGED <<iCouplingCounter, bFirstSend, bOK, keepGoing,
                                          sent, toPeer, bSolConverged, iIterCnt>>
    BY <2>1, <2>2, <1>a, <1>b, <1>d
       DEF SolverTypes, ForceTypes, ChannelTypes, Places, CounterIsBounded, Extra, Base
  <2>3. CASE /\ UpdateForce(iCouplingCounter, bFirstSend, bReadForces)
             /\ bSolConverged' \in BOOLEAN /\ iIterCnt' = iIterCnt + 1 /\ at' # "Failed"
    <3>1. ForceTypes' /\ ChannelTypes' /\ iCouplingCounter' <= iCouplingCounter + 1
      BY <2>1, <2>3, <1>d, UpdateIsTyped
    <3>2. iIterCnt' \in 0 .. MaxIter
      BY <2>1, <2>3, <1>a DEF CounterIsBounded
    <3>3. iCouplingCounter' \in Nat
      BY <3>1 DEF ForceTypes
    <3>4. CounterIsBounded'
      BY <2>1, <2>3, <3>1, <3>3, <1>a, <1>b DEF CounterIsBounded, Extra, Base
    <3> QED
      BY <2>1, <2>3, <3>1, <3>2, <3>4, <1>d DEF SolverTypes, Places
  <2> QED
    BY <1>3, <2>2, <2>3 DEF Update, SolverTypes, ForceTypes
<1>4. CASE AfterConvergence
  <2>1. /\ UNCHANGED <<phase, step, retries, iIterCnt, bResConverged, bSolConverged,
                       iCouplingCounter, bFirstRecv, bReadForces, IsConverged, answered,
                       toMBDyn>>
        /\ at = "Converged" /\ at' \in {"Between", "Eig"}
    BY <1>4 DEF AfterConvergence, solverVars, testVars
  <2>2. Kept(bFirstSend, toPeer) \/ \E cmd \in Motions : Published(cmd, bReadForces, toPeer)
    <3>1. "REGULAR_DATA_AND_GOTO_NEXT_STEP" \in Motions
      BY DEF Motions
    <3>2. CASE Send("REGULAR_DATA_AND_GOTO_NEXT_STEP", bFirstSend, bReadForces, toPeer)
      BY <3>1, <3>2, SendPublishes DEF ChannelTypes
    <3>3. CASE UNCHANGED <<bFirstSend, bOK, keepGoing, sent, toPeer>>
      BY <3>3 DEF Kept
    <3> QED
      BY <1>4, <3>2, <3>3 DEF AfterConvergence
  <2>3. ChannelTypes' /\ bFirstSend' \in BOOLEAN /\ bOK' \in BOOLEAN
        /\ keepGoing' \in {"run", "step", "iteration"}
    BY <1>d, <2>1, <2>2, PublishingIsTyped DEF ForceTypes, ChannelTypes
  <2>4. CounterIsBounded'
    BY <2>1, <1>a, <1>b DEF CounterIsBounded, Extra, Base
  <2> QED
    BY <2>1, <2>3, <2>4, <1>d DEF SolverTypes, ForceTypes, Places
<1>5. CASE EigUpdate
  <2>1. /\ UNCHANGED <<phase, step, retries, iIterCnt, bResConverged, bSolConverged,
                       bFirstRecv, bReadForces, IsConverged, answered, toMBDyn>>
        /\ \/ at = "Eig" /\ at' = "EigResidual"
           \/ at = "EigAgain" /\ at' = "EigLastResidual"
        /\ UpdateForce(iCouplingCounter, bFirstSend, bReadForces)
    BY <1>5 DEF EigUpdate, solverVars, testVars
  <2>2. ForceTypes' /\ ChannelTypes' /\ iCouplingCounter' <= iCouplingCounter + 1
    BY <2>1, <1>d, UpdateIsTyped
  <2>3. CounterIsBounded'
    BY <2>1, <2>2, <1>a, <1>b DEF CounterIsBounded, Extra, Base, ForceTypes
  <2> QED
    BY <2>1, <2>2, <2>3, <1>d DEF SolverTypes, Places
<1>6. CASE EigResidual
  <2>1. /\ UNCHANGED <<phase, step, retries, iIterCnt, bResConverged, bSolConverged>>
        /\ \/ at = "EigResidual" /\ at' = "EigAgain"
           \/ at = "EigLastResidual" /\ at' = "Between"
        /\ Recv /\ iCouplingCounter' = iCouplingCounter
    BY <1>6 DEF EigResidual, solverVars, testVars, Recv
  <2>2. ForceTypes' /\ ChannelTypes'
    BY <2>1, <1>d, ReadingIsTyped
  <2>3. CounterIsBounded'
    BY <2>1, <1>a, <1>b DEF CounterIsBounded, Extra, Base
  <2> QED
    BY <2>1, <2>2, <2>3, <1>d DEF SolverTypes, Places
<1>7. CASE BeginStep \/ RetryStep
  <2>1. /\ at' = "Residual" /\ iIterCnt' = 0 /\ bResConverged' \in BOOLEAN
        /\ bSolConverged' \in BOOLEAN /\ phase' = "Step"
        /\ AfterPredict
    BY <1>7, <1>c DEF BeginStep, RetryStep, StartSolve
  <2>2. step' \in 0 .. MaxSteps /\ retries' \in 0 .. input.retries
    BY <1>7, <1>a DEF BeginStep, RetryStep, SolverTypes
  <2>3. ForceTypes' /\ ChannelTypes' /\ iCouplingCounter' \in 0 .. 1
    BY <2>1, <1>d, PredictionIsTyped
  <2>4. CounterIsBounded'
    BY <2>1, <2>3 DEF CounterIsBounded, Extra, Base
  <2> QED
    BY <2>1, <2>2, <2>3, <2>4, <1>a, <1>d DEF SolverTypes, Places
<1>8. CASE RetryDerivatives
  <2>1. /\ at = "Failed" /\ at' = "Residual" /\ iIterCnt' = 0 /\ bResConverged' \in BOOLEAN
        /\ bSolConverged' \in BOOLEAN /\ phase = "Derivatives"
        /\ retries' = retries + 1 /\ retries < input.retries
        /\ UpdateForce(iCouplingCounter, bFirstSend, bReadForces)
        /\ UNCHANGED <<phase, step, bFirstRecv, bReadForces, IsConverged, answered, toMBDyn>>
    BY <1>8, <1>c DEF RetryDerivatives, StartSolve
  <2>2. ForceTypes' /\ ChannelTypes' /\ iCouplingCounter' <= iCouplingCounter + 1
    BY <2>1, <1>d, UpdateIsTyped
  <2>3. iIterCnt \in 0 .. MaxIter /\ iCouplingCounter <= iIterCnt + Counted(retries)
    BY <2>1, <1>a, <1>b DEF SolverTypes, CounterIsBounded, Extra, Base
  <2>4. Base' = Counted(retries) + MaxIter + 1 /\ Extra' = 0
    BY <2>1, <1>b DEF Base, Extra
  <2>5. iCouplingCounter' <= iIterCnt' + Extra' + Base'
    BY <2>1, <2>2, <2>3, <2>4, <1>a, <1>b DEF ForceTypes
  <2> QED
    BY <2>1, <2>2, <2>5, <1>a, <1>d DEF SolverTypes, CounterIsBounded, Places
<1>9. CASE EndRun
  <2>1. /\ at' = "Done" /\ Extra <= 2
        /\ UNCHANGED <<phase, step, retries, iIterCnt, bResConverged, bSolConverged>>
    BY <1>9 DEF EndRun, solverVars, testVars, Extra
  <2>2. /\ UNCHANGED <<iCouplingCounter, bFirstSend, bFirstRecv, bReadForces, bOK,
                       IsConverged, keepGoing, sent, answered, toMBDyn>>
        /\ toPeer' = Append(toPeer, ES("ABORT", 0))
    BY <1>9 DEF EndRun, forceVars
  <2>3. ES("ABORT", 0) \in ToPeer(sent)
    BY DEF ES, ToPeer, ChannelTypes
  <2>4. ForceTypes' /\ ChannelTypes'
    BY <2>2, <2>3, <1>d, AppendProperties DEF ForceTypes, ChannelTypes
  <2>5. CounterIsBounded'
    BY <2>1, <2>2, <1>a, <1>b DEF CounterIsBounded, Extra, Base
  <2> QED
    BY <2>1, <2>4, <2>5, <1>a, <1>d DEF SolverTypes, Places
<1> QED
  BY <1>1, <1>2, <1>3, <1>4, <1>5, <1>6, <1>7, <1>8, <1>9 DEF MBDyn

(* The peer counts and answers; MBDyn and its force stay as they are.      *)
LEMMA TypesOfPeer ==
  ASSUME TypeInv, Peer
  PROVE  TypeInv'
<1> USE DEF TypeInv
<1>a. UNCHANGED <<input, mbdynVars>>
  BY DEF Peer, NegotiateRequest, NegotiateResponse, PeerBegin, PeerLeaves, GetMotion,
         PutForces
<1>b. SolverTypes' /\ ForceTypes' /\ CounterIsBounded' /\ UNCHANGED <<sent, answered>>
  BY <1>a DEF mbdynVars, solverVars, testVars, forceVars, SolverTypes, ForceTypes,
              CounterIsBounded, Extra, Base
<1>c. sent \in Nat /\ 0 \in 0 .. sent /\ seen \in 0 .. sent
  BY DEF ChannelTypes
<1>d. ASSUME NEW cmd \in Forces \cup {"NEGOTIATION", "ABORT"}, Answers(cmd)
      PROVE  toMBDyn' \in Seq(ToMBDyn(sent))
  <2>1. ES(cmd, seen) \in ToMBDyn(sent)
    BY <1>c, <1>d DEF ES, ToMBDyn
  <2> QED
    BY <1>d, <2>1, AppendProperties DEF Answers, ChannelTypes
<1>e. ASSUME toPeer # <<>>
      PROVE  Head(toPeer) \in ToPeer(sent) /\ Head(toPeer).of \in 0 .. sent
             /\ Tail(toPeer) \in Seq(ToPeer(sent))
  <2>1. Head(toPeer) \in ToPeer(sent) /\ Tail(toPeer) \in Seq(ToPeer(sent))
    BY <1>e, HeadTailProperties DEF ChannelTypes
  <2> QED
    BY <2>1 DEF ToPeer
<1>1. CASE NegotiateRequest
  <2>1. toMBDyn' \in Seq(ToMBDyn(sent))
    BY <1>1, <1>d DEF NegotiateRequest
  <2> QED
    BY <1>1, <1>b, <2>1 DEF NegotiateRequest, ChannelTypes, PeerTypes, PeerPlaces
<1>2. CASE NegotiateResponse
  <2>1. toPeer' \in Seq(ToPeer(sent)) /\ peer' \in {"Begin", "Left"}
    BY <1>2, <1>e DEF NegotiateResponse
  <2> QED
    BY <1>2, <1>b, <2>1 DEF NegotiateResponse, ChannelTypes, PeerTypes, PeerPlaces
<1>3. CASE PeerBegin
  <2>1. niters' \in Nat \ {0} /\ iter' = 0 /\ peer' = "Get"
    BY <1>3, InputIsTyped DEF PeerBegin, SolverTypes
  <2> QED
    BY <1>3, <1>b, <2>1 DEF PeerBegin, ChannelTypes, PeerTypes, PeerPlaces
<1>4. CASE PeerLeaves
  <2>1. toMBDyn' \in Seq(ToMBDyn(sent))
    BY <1>4, <1>d DEF PeerLeaves, ChannelTypes
  <2> QED
    BY <1>4, <1>b, <2>1 DEF PeerLeaves, ChannelTypes, PeerTypes, PeerPlaces
<1>5. CASE GetMotion
  <2>1. toPeer' \in Seq(ToPeer(sent)) /\ seen' \in 0 .. sent /\ peer' \in {"Put", "Left"}
    BY <1>5, <1>c, <1>e DEF GetMotion
  <2> QED
    BY <1>5, <1>b, <2>1 DEF GetMotion, ChannelTypes, PeerTypes, PeerPlaces
<1>6. CASE PutForces
  <2>1. PICK cmd \in Forces \cup {"NEGOTIATION", "ABORT"} : Answers(cmd)
    BY <1>6 DEF PutForces, Forces, Motions
  <2>2. toMBDyn' \in Seq(ToMBDyn(sent))
    BY <2>1, <1>d
  <2>3. iter' \in 0 .. niters /\ (peer' \in {"Get", "Put"} => iter' < niters)
        /\ peer' \in {"Get", "Begin"}
    BY <1>6 DEF PutForces, PeerTypes
  <2> QED
    BY <1>6, <1>b, <2>2, <2>3 DEF PutForces, ChannelTypes, PeerTypes, PeerPlaces
<1> QED
  BY <1>1, <1>2, <1>3, <1>4, <1>5, <1>6 DEF Peer

LEMMA TypesStutter == TypeInv /\ UNCHANGED vars => TypeInv'
BY DEF TypeInv, vars, mbdynVars, solverVars, testVars, forceVars, peerVars, SolverTypes,
       ForceTypes, ChannelTypes, PeerTypes, CounterIsBounded, Extra, Base

LEMMA TypesAlways == Spec => []TypeInv
<1>1. TypeInv /\ [Next]_vars => TypeInv'
  BY TypesOfMBDyn, TypesOfPeer, TypesStutter DEF Next
<1> QED
  BY TypesInitially, <1>1, PTL DEF Spec

(* Every attempt of the derivatives may count all its iterations, a step   *)
(* counts only those of its last attempt: the bound of TypeOK is the       *)
(* coarser of the two.                                                     *)
LEMMA TypesImplyTypeOK == TypeInv => TypeOK
<1> SUFFICES ASSUME TypeInv PROVE TypeOK
  OBVIOUS
<1> USE DEF TypeInv
<1>1. /\ input.retries \in Nat /\ MaxIter \in Nat \ {0}
      /\ retries \in Nat /\ retries <= input.retries /\ iIterCnt \in 0 .. MaxIter
  BY CouplingAssumption, InputIsTyped DEF SolverTypes
<1>2. /\ Counted(retries) \in Nat /\ Counted(input.retries) \in Nat
      /\ Counted(retries) <= Counted(input.retries)
      /\ Counted(input.retries + 1) = Counted(input.retries) + MaxIter + 1
  <2>1. \A m, n \in Nat : m <= n => Counted(m) <= Counted(n)
    BY CountedGrows
  <2>2. \A n \in Nat : Counted(n) \in Nat /\ Counted(n + 1) = Counted(n) + MaxIter + 1
    BY CountedGrows
  <2> QED
    BY <2>1, <2>2, <1>1
<1>3. iCouplingCounter <= MaxIter + 2 + Base /\ Base <= Counted(input.retries) + 1
  BY <1>1, <1>2 DEF CounterIsBounded, Extra, Base, ForceTypes
<1>4. Base \in Nat
  BY <1>2 DEF Base
<1>5. iCouplingCounter <= Counted(input.retries + 1) + 2
  BY <1>1, <1>2, <1>3, <1>4 DEF ForceTypes
<1>6. iCouplingCounter \in 0 .. (MaxIter + 1) * (input.retries + 1) + 2
  BY <1>1, <1>5 DEF Counted, ForceTypes
<1> QED
  BY <1>6 DEF TypeOK, SolverTypes, ForceTypes, ChannelTypes, PeerTypes, Places, PeerPlaces,
              ToPeer, ToMBDyn

(* Type correctness, with the bound on the iterations counted.             *)
THEOREM TypeCorrect == Spec => []TypeOK
BY TypesAlways, TypesImplyTypeOK, PTL

-----------------------------------------------------------------------------
(* The exchange, for the patterns in which MBDyn and its peer stay in turn *)
(* (the findings are about others).                                        *)

Staggered == ~Tight /\ ~input.sendAfterPredict
Loose == ~Tight /\ input.sendAfterPredict

InTurn(i) ==
  \/ i.coupling < COUPLING_TIGHT /\ ~i.sendAfterPredict
  \/ i.coupling < COUPLING_TIGHT /\ i.iters = {1}
  \/ /\ i.coupling >= COUPLING_TIGHT /\ ~i.solTest
     /\ i.coupling = COUPLING_TIGHT \/ i.sendAfterPredict

NoMotion(channel) == \A n \in DOMAIN channel : channel[n].cmd \notin Motions

OnlyMotion(channel, latest) ==
  \A n \in DOMAIN channel : channel[n].cmd \in Motions =>
    /\ channel[n].of = latest
    /\ \A m \in DOMAIN channel : channel[m].cmd \in Motions => m = n

(* What an unread channel holds after something is appended or read.       *)
LEMMA OnlyWhenNone ==
  ASSUME NEW c, NEW n, NoMotion(c)
  PROVE  OnlyMotion(c, n)
BY DEF NoMotion, OnlyMotion

LEMMA AppendKeepsMotions ==
  ASSUME NEW S, NEW c \in Seq(S), NEW e \in S, NEW n, e.cmd \notin Motions
  PROVE  /\ NoMotion(c) => NoMotion(Append(c, e))
         /\ OnlyMotion(c, n) => OnlyMotion(Append(c, e), n)
<1>1. /\ DOMAIN c = 1 .. Len(c) /\ Len(c) \in Nat
      /\ DOMAIN Append(c, e) = 1 .. Len(c) + 1
      /\ \A i \in 1 .. Len(c) : Append(c, e)[i] = c[i]
      /\ Append(c, e)[Len(c) + 1] = e
  BY AppendProperties, LenProperties
<1>2. \A i \in DOMAIN Append(c, e) :
        Append(c, e)[i].cmd \in Motions => i \in DOMAIN c /\ Append(c, e)[i] = c[i]
  BY <1>1
<1> QED
  BY <1>2 DEF NoMotion, OnlyMotion

LEMMA AppendMotion ==
  ASSUME NEW S, NEW c \in Seq(S), NEW e \in S, NoMotion(c)
  PROVE  OnlyMotion(Append(c, e), e.of)
<1>1. /\ DOMAIN c = 1 .. Len(c) /\ Len(c) \in Nat
      /\ DOMAIN Append(c, e) = 1 .. Len(c) + 1
      /\ \A i \in 1 .. Len(c) : Append(c, e)[i] = c[i]
      /\ Append(c, e)[Len(c) + 1] = e
  BY AppendProperties, LenProperties
<1>2. \A i \in DOMAIN Append(c, e) : Append(c, e)[i].cmd \in Motions => i = Len(c) + 1
  BY <1>1 DEF NoMotion
<1> QED
  BY <1>1, <1>2 DEF OnlyMotion

LEMMA TailKeepsMotions ==
  ASSUME NEW S, NEW c \in Seq(S), NEW n, c # <<>>
  PROVE  /\ NoMotion(c) => NoMotion(Tail(c))
         /\ OnlyMotion(c, n) => OnlyMotion(Tail(c), n)
         /\ NoMotion(c) => Head(c).cmd \notin Motions
         /\ OnlyMotion(c, n) /\ Head(c).cmd \in Motions => Head(c).of = n /\ NoMotion(Tail(c))
<1>1. /\ DOMAIN c = 1 .. Len(c) /\ Len(c) \in Nat \ {0}
      /\ DOMAIN Tail(c) = 1 .. Len(c) - 1
      /\ \A i \in DOMAIN Tail(c) : i + 1 \in DOMAIN c /\ i + 1 # 1 /\ Tail(c)[i] = c[i + 1]
      /\ Head(c) = c[1] /\ 1 \in DOMAIN c
  BY HeadTailProperties, LenProperties, EmptySeq
<1>2. \A i, j \in DOMAIN Tail(c) : i + 1 = j + 1 => i = j
  BY <1>1
<1> QED
  BY <1>1, <1>2 DEF NoMotion, OnlyMotion

LEMMA ShortSequences ==
  ASSUME NEW x, NEW y
  PROVE  /\ <<x>> # <<>> /\ Head(<<x>>) = x /\ Tail(<<x>>) = <<>>
         /\ <<x, y>> # <<>> /\ Head(<<x, y>>) = x /\ Tail(<<x, y>>) = <<y>>
         /\ Append(<<>>, x) = <<x>> /\ Append(<<x>>, y) = <<x, y>>
<1>1. <<x>> # <<>> /\ Head(<<x>>) = x /\ <<x, y>> # <<>> /\ Head(<<x, y>>) = x
  OBVIOUS
<1>2. Tail(<<x>>) = <<>>
  OBVIOUS
<1>3. Tail(<<x, y>>) = <<y>>
  <2>1. <<x, y>> \in Seq({x, y}) /\ Len(<<x, y>>) = 2
    OBVIOUS
  <2>2. /\ Tail(<<x, y>>) \in Seq({x, y}) /\ Len(Tail(<<x, y>>)) = 1
        /\ Tail(<<x, y>>)[1] = y
    BY <2>1, HeadTailProperties
  <2>3. <<y>> \in Seq({x, y}) /\ Len(<<y>>) = 1 /\ <<y>>[1] = y
    OBVIOUS
  <2> QED
    BY <2>2, <2>3, SeqEqual
<1>4. Append(<<>>, x) = <<x>>
  OBVIOUS
<1>5. Append(<<x>>, y) = <<x, y>>
  <2>1. <<x>> \in Seq({x, y}) /\ Len(<<x>>) = 1 /\ <<x>>[1] = x /\ y \in {x, y}
    OBVIOUS
  <2>2. /\ Append(<<x>>, y) \in Seq({x, y}) /\ Len(Append(<<x>>, y)) = 2
        /\ Append(<<x>>, y)[1] = x /\ Append(<<x>>, y)[2] = y
    BY <2>1, AppendProperties
  <2>3. <<x, y>> \in Seq({x, y}) /\ Len(<<x, y>>) = 2 /\ <<x, y>>[1] = x /\ <<x, y>>[2] = y
    OBVIOUS
  <2>4. \A i \in 1 .. 2 : Append(<<x>>, y)[i] = <<x, y>>[i]
    BY <2>2, <2>3
  <2> QED
    BY <2>2, <2>3, <2>4, SeqEqual
<1> QED
  BY <1>1, <1>2, <1>3, <1>4, <1>5

-----------------------------------------------------------------------------
(* The invariant of the exchange.  MBDyn waits for at most one answer; the *)
(* motion it is the answer to is on its way, or in the hands of the peer,  *)
(* or the answer is on its way back.                                       *)

AnswerUnread ==
  \E cmd \in Forces :
    /\ answered # sent
    /\ cmd # "REGULAR_DATA" => PeerBetweenSteps
    /\ cmd = "REGULAR_DATA" => input.iters # {1}
    /\ \/ toMBDyn = <<ES(cmd, sent)>>
       \/ toMBDyn = <<ES(cmd, sent), ES("ABORT", seen)>> /\ peer = "Left"
    /\ peer # "Left" => peer # "Put" /\ NoMotion(toPeer)

Unread ==
  \/ toMBDyn = <<>>
  \/ toMBDyn = <<ES("NEGOTIATION", seen)>> /\ at = "SetValue" /\ peer = "Response"
  \/ toMBDyn = <<ES("ABORT", seen)>> /\ peer = "Left"
  \/ AnswerUnread

Undelivered ==
  /\ peer # "Left" => OnlyMotion(toPeer, sent)
  /\ peer # "Left" /\ answered = sent => NoMotion(toPeer) /\ peer # "Put"
  /\ peer = "Put" => NoMotion(toPeer) /\ seen = sent /\ toMBDyn = <<>>
  /\ peer \in {"Get", "Put"} /\ input.iters = {1} => niters = 1 /\ iter = 0

(* Nothing has been exchanged before the negotiation.                      *)
AtSetValue ==
  /\ at = "SetValue" =>
       /\ sent = 0 /\ answered = 0 /\ bOK /\ bReadForces /\ bFirstRecv
       /\ toPeer = <<>> /\ peer \in {"Request", "Response"}
       /\ phase = "Derivatives" /\ keepGoing = "run"
  /\ peer = "Request" => at = "SetValue" /\ toMBDyn = <<>>

ExchangeInv == Unread /\ Undelivered /\ AtSetValue

PeerStays == UNCHANGED <<input, peer, niters, iter, seen>>

LEMMA KeepingInTurn ==
  ASSUME TypeInv, ExchangeInv, at # "SetValue", at' # "SetValue", PeerStays,
         UNCHANGED <<sent, answered, toMBDyn>>,
         toPeer' \in {toPeer, Append(toPeer, ES("ABORT", 0))}
  PROVE  ExchangeInv'
<1>1. /\ NoMotion(toPeer) => NoMotion(toPeer')
      /\ OnlyMotion(toPeer, sent) => OnlyMotion(toPeer', sent)
  <2>1. ES("ABORT", 0) \in ToPeer(sent) /\ ES("ABORT", 0).cmd \notin Motions
    BY DEF TypeInv, ChannelTypes, ES, ToPeer, Motions
  <2> QED
    BY <2>1, AppendKeepsMotions DEF TypeInv, ChannelTypes
<1>2. Unread'
  BY <1>1 DEF ExchangeInv, Unread, AnswerUnread, PeerBetweenSteps, PeerStays
<1>3. Undelivered' /\ AtSetValue'
  BY <1>1 DEF ExchangeInv, Undelivered, AtSetValue, PeerStays
<1> QED
  BY <1>2, <1>3 DEF ExchangeInv

LEMMA PublishingInTurn ==
  ASSUME TypeInv, ExchangeInv, at # "SetValue", at' # "SetValue", PeerStays,
         UNCHANGED <<answered, toMBDyn>>, answered = sent,
         NEW cmd \in Motions, NEW r, Published(cmd, r, toPeer)
  PROVE  ExchangeInv' /\ answered' # sent'
<1>1. sent \in Nat /\ sent' = sent + 1 /\ answered' # sent'
  BY DEF TypeInv, ChannelTypes, Published
<1>2. NoMotion(toPeer) => OnlyMotion(toPeer', sent')
  <2>1. ES(cmd, sent + 1) \in ToPeer(sent + 1) /\ ES(cmd, sent + 1).of = sent + 1
    BY <1>1 DEF ES, ToPeer
  <2>2. toPeer \in Seq(ToPeer(sent + 1))
    BY <1>1, ChannelsGrow DEF TypeInv, ChannelTypes
  <2> QED
    BY <1>1, <2>1, <2>2, AppendMotion DEF Published
<1>3. toMBDyn = <<>> \/ (toMBDyn = <<ES("ABORT", seen)>> /\ peer = "Left")
  BY DEF ExchangeInv, Unread, AnswerUnread
<1>4. Unread'
  BY <1>3 DEF Unread, PeerStays
<1>5. Undelivered' /\ AtSetValue'
  BY <1>1, <1>2 DEF ExchangeInv, Undelivered, AtSetValue, PeerStays
<1> QED
  BY <1>1, <1>4, <1>5 DEF ExchangeInv

LEMMA ReadingInTurn ==
  ASSUME TypeInv, ExchangeInv, at # "SetValue", at' # "SetValue", PeerStays,
         UNCHANGED <<sent, toPeer>>, toMBDyn # <<>>, ActOnCmd
  PROVE  /\ ExchangeInv' /\ answered' = sent'
         /\ ~bReadForces' => PeerBetweenSteps'
         /\ input.iters = {1} => ~bReadForces'
<1>1. CASE toMBDyn = <<ES("ABORT", seen)>> /\ peer = "Left"
  <2>a. Head(toMBDyn) = ES("ABORT", seen) /\ Tail(toMBDyn) = <<>>
    BY <1>1, ShortSequences
  <2>b. Head(toMBDyn).cmd = "ABORT" /\ "ABORT" # "REGULAR_DATA"
    BY <2>a DEF ES
  <2>1. toMBDyn' = <<>> /\ answered' = sent' /\ ~bReadForces'
    <3>1. toMBDyn' = <<>> /\ answered' = sent'
      BY <2>a, <2>b DEF ActOnCmd
    <3>2. ~bReadForces'
      BY <2>b DEF ActOnCmd
    <3> QED
      BY <3>1, <3>2
  <2>2. Undelivered' /\ AtSetValue' /\ PeerBetweenSteps'
    BY <1>1, <2>1 DEF ExchangeInv, Undelivered, AtSetValue, PeerStays, PeerBetweenSteps
  <2> QED
    BY <2>1, <2>2 DEF ExchangeInv, Unread
<1>2. ASSUME NEW cmd \in Forces,
             cmd # "REGULAR_DATA" => PeerBetweenSteps,
             cmd = "REGULAR_DATA" => input.iters # {1},
             \/ toMBDyn = <<ES(cmd, sent)>>
             \/ toMBDyn = <<ES(cmd, sent), ES("ABORT", seen)>> /\ peer = "Left",
             peer # "Left" => peer # "Put" /\ NoMotion(toPeer)
      PROVE  /\ ExchangeInv' /\ answered' = sent'
             /\ ~bReadForces' => PeerBetweenSteps'
             /\ input.iters = {1} => ~bReadForces'
  <2>a. /\ Head(toMBDyn) = ES(cmd, sent)
        /\ \/ Tail(toMBDyn) = <<>>
           \/ Tail(toMBDyn) = <<ES("ABORT", seen)>> /\ peer = "Left"
    <3>1. CASE toMBDyn = <<ES(cmd, sent)>>
      BY <3>1, ShortSequences
    <3>2. CASE toMBDyn = <<ES(cmd, sent), ES("ABORT", seen)>> /\ peer = "Left"
      BY <3>2, ShortSequences
    <3> QED
      BY <1>2, <3>1, <3>2
  <2>1. /\ Head(toMBDyn).cmd = cmd /\ Head(toMBDyn).of = sent
        /\ \/ Tail(toMBDyn) = <<>>
           \/ Tail(toMBDyn) = <<ES("ABORT", seen)>> /\ peer = "Left"
    BY <2>a DEF ES
  <2>2. answered' = sent' /\ (bReadForces' <=> cmd = "REGULAR_DATA")
    <3>1. answered' = sent'
      BY <1>2, <2>1 DEF ActOnCmd, Forces, Motions
    <3>2. bReadForces' <=> cmd = "REGULAR_DATA"
      BY <2>1 DEF ActOnCmd
    <3> QED
      BY <3>1, <3>2
  <2>3. Unread'
    BY <2>1 DEF ActOnCmd, Unread, PeerStays
  <2>4. Undelivered' /\ AtSetValue'
    BY <1>2, <2>1, <2>2 DEF ExchangeInv, Undelivered, AtSetValue, PeerStays
  <2>5. ~bReadForces' => PeerBetweenSteps'
    BY <1>2, <2>2 DEF PeerBetweenSteps, PeerStays
  <2> QED
    BY <1>2, <2>2, <2>3, <2>4, <2>5 DEF ExchangeInv
<1> QED
  BY <1>1, <1>2 DEF ExchangeInv, Unread, AnswerUnread

(* The peer answers the motion it got, once.                               *)
LEMMA PeerInTurn ==
  ASSUME TypeInv, ExchangeInv, Peer
  PROVE  /\ ExchangeInv'
         /\ UNCHANGED <<input, mbdynVars>>
         /\ answered = sent /\ PeerBetweenSteps => PeerBetweenSteps'
<1>a. UNCHANGED <<input, at, phase, bOK, bReadForces, bFirstRecv, keepGoing, sent, answered>>
      /\ UNCHANGED <<input, mbdynVars>>
  BY DEF Peer, NegotiateRequest, NegotiateResponse, PeerBegin, PeerLeaves, GetMotion,
         PutForces, mbdynVars, solverVars, forceVars
<1>b. ASSUME toPeer # <<>>
      PROVE  /\ NoMotion(toPeer) => NoMotion(Tail(toPeer)) /\ Head(toPeer).cmd \notin Motions
             /\ OnlyMotion(toPeer, sent) => OnlyMotion(Tail(toPeer), sent)
             /\ OnlyMotion(toPeer, sent) /\ Head(toPeer).cmd \in Motions
                  => Head(toPeer).of = sent /\ NoMotion(Tail(toPeer))
  BY <1>b, TailKeepsMotions DEF TypeInv, ChannelTypes
<1>1. CASE NegotiateRequest
  <2>1. toMBDyn = <<>> /\ at = "SetValue" /\ peer = "Request" /\ peer' = "Response"
        /\ seen' = seen /\ toPeer' = toPeer
    BY <1>1 DEF NegotiateRequest, ExchangeInv, AtSetValue
  <2>2. toMBDyn' = <<ES("NEGOTIATION", seen)>>
    BY <1>1, <2>1, ShortSequences DEF NegotiateRequest, Answers
  <2>3. Unread'
    BY <1>a, <2>1, <2>2 DEF Unread
  <2>4. Undelivered' /\ AtSetValue' /\ ~PeerBetweenSteps
    BY <1>a, <2>1 DEF ExchangeInv, Undelivered, AtSetValue, PeerBetweenSteps
  <2> QED
    BY <1>a, <2>3, <2>4 DEF ExchangeInv
<1>2. CASE NegotiateResponse
  <2>1. /\ at # "SetValue" /\ peer = "Response" /\ peer' \in {"Begin", "Left"}
        /\ toPeer # <<>> /\ toPeer' = Tail(toPeer) /\ UNCHANGED <<toMBDyn, niters, iter, seen>>
    BY <1>2 DEF NegotiateResponse, ExchangeInv, AtSetValue
  <2>2. Unread'
    BY <1>a, <1>b, <2>1 DEF ExchangeInv, Unread, AnswerUnread, PeerBetweenSteps
  <2>3. Undelivered' /\ AtSetValue' /\ ~PeerBetweenSteps
    BY <1>a, <1>b, <2>1 DEF ExchangeInv, Undelivered, AtSetValue, PeerBetweenSteps
  <2> QED
    BY <1>a, <2>2, <2>3 DEF ExchangeInv
<1>3. CASE PeerBegin
  <2>1. /\ peer = "Begin" /\ peer' = "Get" /\ niters' \in input.iters /\ iter' = 0
        /\ UNCHANGED <<toPeer, toMBDyn, seen>>
    BY <1>3 DEF PeerBegin
  <2>2. Unread' /\ PeerBetweenSteps'
    BY <1>a, <2>1 DEF ExchangeInv, Unread, AnswerUnread, PeerBetweenSteps
  <2>3. Undelivered' /\ AtSetValue'
    BY <1>a, <2>1 DEF ExchangeInv, Undelivered, AtSetValue
  <2> QED
    BY <1>a, <2>2, <2>3 DEF ExchangeInv
<1>4. CASE PeerLeaves
  <2>1. /\ peer = "Begin" /\ peer' = "Left"
        /\ UNCHANGED <<toPeer, niters, iter, seen>>
        /\ toMBDyn' = Append(toMBDyn, ES("ABORT", seen)) \/ toMBDyn' = toMBDyn
    BY <1>4 DEF PeerLeaves, Answers
  <2>2. CASE toMBDyn = <<>>
    <3>1. toMBDyn' = <<>> \/ toMBDyn' = <<ES("ABORT", seen)>>
      BY <2>1, <2>2, ShortSequences
    <3> QED
      BY <1>a, <2>1, <3>1 DEF Unread, ExchangeInv, Undelivered, AtSetValue, PeerBetweenSteps
  <2>3. ASSUME NEW cmd \in Forces, answered # sent,
               cmd = "REGULAR_DATA" => input.iters # {1},
               toMBDyn = <<ES(cmd, sent)>>
        PROVE  ExchangeInv' /\ PeerBetweenSteps'
    <3>1. toMBDyn' = toMBDyn \/ toMBDyn' = <<ES(cmd, sent), ES("ABORT", seen)>>
      BY <2>1, <2>3, ShortSequences
    <3>2. AnswerUnread' /\ PeerBetweenSteps'
      BY <1>a, <2>1, <2>3, <3>1 DEF AnswerUnread, PeerBetweenSteps
    <3> QED
      BY <1>a, <2>1, <3>2 DEF Unread, ExchangeInv, Undelivered, AtSetValue
  <2> QED
    BY <1>a, <2>1, <2>2, <2>3 DEF ExchangeInv, Unread, AnswerUnread
<1>5. CASE GetMotion
  <2>1. /\ peer = "Get" /\ toPeer # <<>> /\ toPeer' = Tail(toPeer) /\ at # "SetValue"
        /\ UNCHANGED <<toMBDyn, niters, iter>>
    BY <1>5 DEF GetMotion, ExchangeInv, AtSetValue
  <2>2. CASE peer' = "Left" /\ seen' = seen
    <3>1. Unread' /\ PeerBetweenSteps'
      BY <1>a, <2>1, <2>2 DEF ExchangeInv, Unread, AnswerUnread, PeerBetweenSteps
    <3> QED
      BY <1>a, <2>1, <2>2, <3>1 DEF ExchangeInv, Undelivered, AtSetValue
  <2>3. CASE peer' = "Put" /\ Head(toPeer).cmd \in Motions /\ seen' = Head(toPeer).of
    <3>1. answered # sent /\ seen' = sent /\ NoMotion(toPeer')
      BY <1>b, <2>1, <2>3 DEF ExchangeInv, Undelivered
    <3>2. toMBDyn = <<>>
      BY <1>b, <2>1, <2>3 DEF ExchangeInv, Unread, AnswerUnread
    <3>3. Undelivered'
      BY <1>a, <2>1, <2>3, <3>1, <3>2, OnlyWhenNone DEF ExchangeInv, Undelivered
    <3>4. Unread' /\ AtSetValue'
      BY <1>a, <2>1, <2>3, <3>2 DEF ExchangeInv, Unread, AtSetValue
    <3> QED
      BY <1>a, <3>1, <3>3, <3>4 DEF ExchangeInv
  <2> QED
    BY <1>5, <1>a, <2>2, <2>3 DEF GetMotion
<1>6. CASE PutForces
  <2>1. /\ peer = "Put" /\ UNCHANGED <<toPeer, niters, seen>> /\ iter' = iter + 1
        /\ toMBDyn = <<>> /\ NoMotion(toPeer) /\ seen = sent /\ answered # sent
        /\ at # "SetValue"
        /\ input.iters = {1} => niters = 1 /\ iter = 0
    BY <1>6 DEF PutForces, ExchangeInv, Undelivered, AtSetValue
  <2>2. PICK cmd \in Forces : Answers(cmd) /\ peer' \in {"Get", "Begin"}
               /\ (cmd = "REGULAR_DATA" => peer' = "Get" /\ iter < niters - 1)
               /\ (cmd # "REGULAR_DATA" => peer' = "Begin")
    BY <1>6 DEF PutForces, Forces, Motions
  <2>3. toMBDyn' = <<ES(cmd, sent)>>
    BY <2>1, <2>2, ShortSequences DEF Answers
  <2>4. input.iters = {1} => cmd # "REGULAR_DATA" /\ peer' = "Begin"
    BY <2>1, <2>2
  <2>5. AnswerUnread'
    BY <1>a, <2>1, <2>2, <2>3, <2>4 DEF AnswerUnread, PeerBetweenSteps
  <2>6. Undelivered' /\ AtSetValue'
    BY <1>a, <2>1, <2>2, <2>4 DEF ExchangeInv, Undelivered, AtSetValue
  <2> QED
    BY <1>a, <2>1, <2>5, <2>6 DEF ExchangeInv, Unread, PeerBetweenSteps
<1> QED
  BY <1>1, <1>2, <1>3, <1>4, <1>5, <1>6 DEF Peer

-----------------------------------------------------------------------------
(* Where MBDyn may be while it waits, and what its convergence means.      *)

Residuals == {"Residual", "EigResidual", "EigLastResidual"}

(* While an answer is awaited, the next residual reads it before anything  *)
(* is sent.  In staggered coupling residuals that read nothing may come    *)
(* first, those of an eigenanalysis.                                       *)
Waiting ==
  /\ bOK /\ answered # sent => bReadForces
  /\ bOK /\ answered # sent /\ ~Staggered => at \in Residuals /\ RecvIsDue
  /\ bOK /\ Staggered /\ (\/ at \in {"Update", "Converged", "Failed"}
                          \/ at = "Residual" /\ ~bFirstRecv) => answered = sent
  /\ bOK /\ Loose /\ bReadForces => \/ at \in {"SetValue", "Interrupted", "Done"}
                                    \/ at = "Residual" /\ bFirstRecv
  /\ keepGoing = "iteration" => ~bOK

(* In tight coupling the external convergence of a step is the peer's      *)
(* declaration, and no forces are read after it.                           *)
Convergence ==
  /\ at = "Converged" => IsConverged
  /\ Tight /\ ~bReadForces => PeerBetweenSteps /\ answered = sent
  /\ Tight /\ phase = "Step" /\ IsConverged => ~bReadForces
  /\ at = "Update" => ~(bResConverged /\ bSolConverged)
  /\ at = "Update" /\ bResConverged => IsConverged
  /\ ~input.solTest /\ Tight /\ at \in {"Residual", "Update"} /\ ~bSolConverged /\ IsConverged
       => ~bReadForces

TurnInv == TypeInv /\ ExchangeInv /\ Waiting /\ Convergence /\ InTurn(input)

(* A step of the exchange, as Exchange has it.                             *)
TurnStep ==
  \/ UNCHANGED <<sent, answered>>
  \/ answered = sent /\ sent' = sent + 1 /\ answered' = answered
  \/ answered' = sent /\ sent' = sent

LEMMA Patterns ==
  ASSUME TypeInv, InTurn(input)
  PROVE  /\ Tight => ~input.solTest /\ ~Staggered /\ ~Loose
                      /\ (input.coupling = COUPLING_TIGHT \/ input.sendAfterPredict)
         /\ Loose => input.iters = {1} /\ input.sendAfterPredict /\ ~Tight /\ ~Staggered
         /\ Staggered => ~input.sendAfterPredict /\ ~Tight /\ ~Loose
         /\ Tight \/ Loose \/ Staggered
         /\ input.coupling <= COUPLING_LOOSE <=> ~Tight
         /\ input.coupling = COUPLING_TIGHT => Tight
<1>1. input.coupling \in Int /\ input.sendAfterPredict \in BOOLEAN
  BY InputIsTyped DEF TypeInv, SolverTypes
<1> QED
  BY <1>1 DEF InTurn, Tight, Loose, Staggered, COUPLING_TIGHT, COUPLING_LOOSE

LEMMA PatternsStay ==
  ASSUME input' = input
  PROVE  /\ Tight' <=> Tight
         /\ Loose' <=> Loose
         /\ Staggered' <=> Staggered
         /\ InTurn(input)' <=> InTurn(input)
BY DEF Tight, Loose, Staggered, InTurn

(* What is sent makes the next residual read.                              *)
LEMMA SendingIsDue ==
  /\ \A c : Staggered => ~SendIsDue(c)
  /\ \A c : SendIsDue(c) /\ Tight /\ input' = input /\ iCouplingCounter' = c + 1
             /\ bFirstSend' = FALSE => RecvIsDue'
  /\ ~Tight /\ bFirstRecv => RecvIsDue
  /\ ~Tight /\ ~bFirstRecv => ~RecvIsDue
<1>1. ASSUME NEW c, Staggered
      PROVE  ~SendIsDue(c)
  BY <1>1 DEF SendIsDue, Staggered
<1>2. ASSUME NEW c, SendIsDue(c), Tight, input' = input, iCouplingCounter' = c + 1,
             bFirstSend' = FALSE
      PROVE  RecvIsDue'
  <2>1. Tight' /\ (c + 1) % input.coupling = 0
    BY <1>2 DEF SendIsDue, Tight, COUPLING_TIGHT, COUPLING_LOOSE
  <2> QED
    BY <1>2, <2>1 DEF RecvIsDue
<1>3. (~Tight /\ bFirstRecv => RecvIsDue) /\ (~Tight /\ ~bFirstRecv => ~RecvIsDue)
  BY DEF RecvIsDue
<1> QED
  BY <1>1, <1>2, <1>3

LEMMA DueAgainAfter ==
  ASSUME ~Tight', bFirstRecv'
  PROVE  RecvIsDue'
BY DEF RecvIsDue

LEMMA OnlyInTurn ==
  ASSUME Waiting, bOK, at \notin Residuals,
         ~Staggered \/ at \in {"Update", "Converged", "Failed"}
  PROVE  answered = sent
BY DEF Waiting

-----------------------------------------------------------------------------
(* One lemma for every action of MBDyn.                                    *)

LEMMA TurnOfEndRun ==
  ASSUME TurnInv, EndRun
  PROVE  TurnInv' /\ TurnStep
<1>1. /\ at \in {"Interrupted", "Failed", "Between"} /\ at' = "Done" /\ PeerStays
      /\ toPeer' = Append(toPeer, ES("ABORT", 0))
      /\ UNCHANGED <<sent, answered, toMBDyn, phase, bResConverged, bSolConverged, bOK,
                     bReadForces, bFirstRecv, bFirstSend, iCouplingCounter, IsConverged,
                     keepGoing>>
  BY DEF EndRun, PeerStays, solverVars, testVars, forceVars, peerVars
<1>2. TypeInv'
  BY TypesOfMBDyn DEF TurnInv, MBDyn
<1>3. ExchangeInv'
  BY <1>1, KeepingInTurn DEF TurnInv
<1>4. Tight' = Tight /\ Loose' = Loose /\ Staggered' = Staggered /\ InTurn(input)'
  BY <1>1, PatternsStay DEF TurnInv, PeerStays, Tight, Loose, Staggered
<1>5. Waiting'
  BY <1>1, <1>4 DEF TurnInv, Waiting, Residuals
<1>6. Convergence'
  BY <1>1, <1>4 DEF TurnInv, Convergence, PeerBetweenSteps, PeerStays
<1> QED
  BY <1>1, <1>2, <1>3, <1>4, <1>5, <1>6 DEF TurnInv, TurnStep

(* What a residual leaves behind, whether it reads or not.                 *)
AfterRecv ==
  /\ bOK' /\ answered' # sent' => bReadForces' /\ Staggered /\ at # "Residual"
  /\ bOK' /\ Loose => ~bReadForces'
  /\ keepGoing' = "iteration" => ~bOK'
  /\ Tight /\ ~bReadForces' => PeerBetweenSteps' /\ answered' = sent'
  /\ Tight /\ phase = "Step" /\ IsConverged' => ~bReadForces'
  /\ Tight /\ at = "Residual" /\ ~bSolConverged /\ IsConverged' => ~bReadForces'

LEMMA RecvInTurn ==
  ASSUME TurnInv, Recv, PeerStays, at \in Residuals, at' # "SetValue"
  PROVE  ExchangeInv' /\ TurnStep /\ AfterRecv
<1>a. at # "SetValue" /\ UNCHANGED <<sent, toPeer>>
  BY DEF Residuals, Recv
<1>b. /\ Tight => ~input.solTest /\ ~Staggered /\ ~Loose
      /\ Loose => input.iters = {1} /\ ~Tight /\ ~Staggered
      /\ Tight \/ Loose \/ (Staggered /\ ~Tight)
  BY Patterns DEF TurnInv
<1>1. CASE RecvIsDue /\ bReadForces /\ toMBDyn # <<>> /\ ActOnCmd
  <2>1. /\ ExchangeInv' /\ answered' = sent'
        /\ ~bReadForces' => PeerBetweenSteps'
        /\ input.iters = {1} => ~bReadForces'
    BY <1>1, <1>a, ReadingInTurn DEF TurnInv
  <2>2. bOK' = bOK /\ (keepGoing' = keepGoing \/ keepGoing' = "step")
    BY <1>1 DEF ActOnCmd
  <2>3. ~IsConverged /\ IsConverged' => ~bReadForces'
    BY <1>1 DEF ActOnCmd
  <2>4. TurnStep
    BY <1>a, <2>1 DEF TurnStep
  <2>5. AfterRecv
    BY <1>1, <1>b, <2>1, <2>2, <2>3 DEF AfterRecv, TurnInv, Waiting, Convergence
  <2> QED
    BY <2>1, <2>4, <2>5
<1>2. CASE UNCHANGED <<answered, bReadForces, toMBDyn>>
  <2>1. ExchangeInv' /\ TurnStep
    BY <1>2, <1>a, KeepingInTurn DEF TurnInv, TurnStep
  <2>2. PeerBetweenSteps' <=> PeerBetweenSteps
    BY DEF PeerBetweenSteps, PeerStays
  <2>3. CASE RecvFails
    BY <1>2, <1>a, <1>b, <2>1, <2>2, <2>3 DEF RecvFails, AfterRecv, TurnInv, Convergence
  <2>4. CASE RecvIsDue /\ ~bReadForces /\ UNCHANGED <<bOK, keepGoing>>
    BY <1>2, <1>a, <1>b, <2>1, <2>2, <2>4 DEF AfterRecv, TurnInv, Waiting, Convergence
  <2>5. CASE ~RecvIsDue /\ UNCHANGED <<bOK, keepGoing, IsConverged>>
    <3>1. ~Tight => ~bFirstRecv
      BY <2>5, SendingIsDue
    <3> QED
      BY <1>2, <1>a, <1>b, <2>1, <2>2, <2>5, <3>1
         DEF AfterRecv, TurnInv, Waiting, Convergence, Residuals
  <2> QED
    BY <1>2, <2>3, <2>4, <2>5, <1>1 DEF Recv
<1> QED
  BY <1>1, <1>2 DEF Recv, RecvFails

LEMMA TurnOfResidual ==
  ASSUME TurnInv, Residual
  PROVE  TurnInv' /\ TurnStep
<1>1. /\ at = "Residual" /\ at' \in {"Converged", "Failed", "Update"} /\ PeerStays /\ Recv
      /\ UNCHANGED <<phase, bSolConverged>>
      /\ at' = "Converged" => bResConverged'
      /\ at' = "Update" => ~(bResConverged' /\ bSolConverged)
      /\ bResConverged' => IsConverged'
  BY DEF Residual, PeerStays, solverVars, peerVars
<1>2. TypeInv'
  BY TypesOfMBDyn DEF TurnInv, MBDyn
<1>3. ExchangeInv' /\ TurnStep /\ AfterRecv
  BY <1>1, RecvInTurn DEF Residuals
<1>4. Tight' = Tight /\ Loose' = Loose /\ Staggered' = Staggered /\ InTurn(input)'
  BY <1>1, PatternsStay DEF TurnInv, PeerStays, Tight, Loose, Staggered
<1>5. Waiting'
  BY <1>1, <1>3, <1>4 DEF AfterRecv, Waiting
<1>6. Convergence'
  BY <1>1, <1>3, <1>4 DEF AfterRecv, Convergence
<1> QED
  BY <1>2, <1>3, <1>4, <1>5, <1>6 DEF TurnInv

LEMMA TurnOfEigResidual ==
  ASSUME TurnInv, EigResidual
  PROVE  TurnInv' /\ TurnStep
<1>1. /\ at \in {"EigResidual", "EigLastResidual"} /\ at' \in {"EigAgain", "Between"}
      /\ PeerStays /\ Recv /\ UNCHANGED <<phase, bSolConverged>>
  BY DEF EigResidual, PeerStays, solverVars, testVars, peerVars
<1>2. TypeInv'
  BY TypesOfMBDyn DEF TurnInv, MBDyn
<1>3. ExchangeInv' /\ TurnStep /\ AfterRecv
  BY <1>1, RecvInTurn DEF Residuals
<1>4. Tight' = Tight /\ Loose' = Loose /\ Staggered' = Staggered /\ InTurn(input)'
  BY <1>1, PatternsStay DEF TurnInv, PeerStays, Tight, Loose, Staggered
<1>5. Waiting'
  BY <1>1, <1>3, <1>4 DEF AfterRecv, Waiting
<1>6. Convergence'
  BY <1>1, <1>3, <1>4 DEF AfterRecv, Convergence
<1> QED
  BY <1>2, <1>3, <1>4, <1>5, <1>6 DEF TurnInv

(* What a force that may send leaves behind.                               *)
Sends(r, f) == (\E cmd \in Motions : Published(cmd, r, toPeer)) \/ Kept(f, toPeer)

LEMMA SendingInTurn ==
  ASSUME TurnInv, NEW r, NEW f, Sends(r, f), at \notin Residuals, at # "SetValue",
         at' # "SetValue", PeerStays, UNCHANGED <<answered, toMBDyn>>,
         ~Staggered \/ at \in {"Update", "Converged", "Failed"} \/ Kept(f, toPeer)
  PROVE  /\ ExchangeInv' /\ TurnStep
         /\ bOK' => bOK
         /\ keepGoing' = "iteration" => ~bOK'
         /\ \/ sent' = sent
            \/ answered = sent /\ r /\ bFirstSend' = FALSE
<1>1. CASE Kept(f, toPeer)
  BY <1>1, KeepingInTurn DEF Kept, TurnInv, Waiting, TurnStep
<1>2. ASSUME NEW cmd \in Motions, Published(cmd, r, toPeer),
             ~Staggered \/ at \in {"Update", "Converged", "Failed"}
      PROVE  /\ ExchangeInv' /\ TurnStep
             /\ bOK' => bOK
             /\ keepGoing' = "iteration" => ~bOK'
             /\ answered = sent /\ r /\ bFirstSend' = FALSE
  <2>1. answered = sent
    BY <1>2, OnlyInTurn DEF Published, TurnInv
  <2>2. ExchangeInv'
    BY <1>2, <2>1, PublishingInTurn DEF TurnInv
  <2> QED
    BY <1>2, <2>1, <2>2 DEF Published, TurnInv, Waiting, TurnStep
<1> QED
  BY <1>1, <1>2 DEF Sends

(* ExtForce::Update, where nothing is awaited.                             *)
LEMMA UpdatingInTurn ==
  ASSUME TurnInv, NEW c \in Nat, NEW r, NEW f, UpdateForce(c, f, r), at \notin Residuals,
         at # "SetValue", at' # "SetValue", PeerStays, UNCHANGED <<answered, toMBDyn>>
  PROVE  /\ ExchangeInv' /\ TurnStep
         /\ bOK' => bOK
         /\ keepGoing' = "iteration" => ~bOK'
         /\ \/ sent' = sent
            \/ answered = sent /\ r /\ ~Staggered /\ (Tight => RecvIsDue')
<1>1. /\ iCouplingCounter' = IF Tight THEN c + 1 ELSE c
      /\ \/ \E cmd \in Motions : SendIsDue(c) /\ Published(cmd, r, toPeer)
         \/ Kept(f, toPeer)
  BY UpdatePublishes DEF TurnInv, TypeInv, ChannelTypes
<1>2. CASE Kept(f, toPeer)
  BY <1>2, SendingInTurn DEF Sends, Kept
<1>3. ASSUME NEW cmd \in Motions, SendIsDue(c), Published(cmd, r, toPeer)
      PROVE  /\ ExchangeInv' /\ TurnStep
             /\ bOK' => bOK
             /\ keepGoing' = "iteration" => ~bOK'
             /\ answered = sent /\ r /\ ~Staggered /\ (Tight => RecvIsDue')
  <2>1. ~Staggered
    BY <1>3, SendingIsDue
  <2>2. /\ ExchangeInv' /\ TurnStep
        /\ bOK' => bOK
        /\ keepGoing' = "iteration" => ~bOK'
        /\ sent' = sent \/ (answered = sent /\ r /\ bFirstSend' = FALSE)
    BY <1>3, <2>1, SendingInTurn DEF Sends
  <2>3. sent' # sent
    BY <1>3 DEF Published, TurnInv, TypeInv, ChannelTypes
  <2>4. Tight => RecvIsDue'
    BY <1>1, <1>3, <2>2, <2>3, SendingIsDue DEF PeerStays
  <2> QED
    BY <2>1, <2>2, <2>3, <2>4
<1> QED
  BY <1>1, <1>2, <1>3

LEMMA TurnOfUpdate ==
  ASSUME TurnInv, Update
  PROVE  TurnInv' /\ TurnStep
<1>1. /\ at = "Update" /\ at' \in {"Converged", "Interrupted", "Residual", "Failed"}
      /\ PeerStays
      /\ UNCHANGED <<phase, bResConverged, bFirstRecv, bReadForces, IsConverged, answered,
                     toMBDyn>>
  BY DEF Update, PeerStays, peerVars
<1>2. TypeInv'
  BY TypesOfMBDyn DEF TurnInv, MBDyn
<1>3. Tight' = Tight /\ Loose' = Loose /\ Staggered' = Staggered /\ InTurn(input)'
  BY <1>1, PatternsStay DEF TurnInv, PeerStays, Tight, Loose, Staggered
<1>4. /\ Tight => ~input.solTest /\ ~Staggered /\ ~Loose
      /\ Tight \/ Loose \/ Staggered
  BY Patterns DEF TurnInv
<1>5. PeerBetweenSteps' <=> PeerBetweenSteps
  BY <1>1 DEF PeerBetweenSteps, PeerStays
<1>6. bOK => answered = sent
  BY <1>1, OnlyInTurn DEF Residuals, TurnInv
<1>7. CASE at' = "Failed" /\ UNCHANGED <<iCouplingCounter, bFirstSend, bOK, keepGoing, sent,
                                        toPeer, bSolConverged, iIterCnt>>
  <2>1. ExchangeInv' /\ TurnStep
    BY <1>1, <1>7, KeepingInTurn DEF TurnInv, TurnStep
  <2>2. Waiting'
    BY <1>1, <1>3, <1>6, <1>7 DEF TurnInv, Waiting, Residuals
  <2>3. Convergence'
    BY <1>1, <1>3, <1>5, <1>7 DEF TurnInv, Convergence, PeerStays
  <2> QED
    BY <1>2, <1>3, <2>1, <2>2, <2>3 DEF TurnInv
<1>8. CASE /\ UpdateForce(iCouplingCounter, bFirstSend, bReadForces)
           /\ \E small \in BOOLEAN :
                /\ ~input.solTest => small
                /\ bSolConverged' = (small /\ IsConverged)
           /\ at' = IF bResConverged /\ bSolConverged' THEN "Converged"
                    ELSE IF keepGoing' = "iteration" THEN "Interrupted" ELSE "Residual"
  <2>1. /\ bSolConverged' => IsConverged
        /\ ~input.solTest => (bSolConverged' <=> IsConverged)
    BY <1>8
  <2>2. /\ at' = "Converged" => bResConverged /\ bSolConverged'
        /\ at' = "Interrupted" => keepGoing' = "iteration"
        /\ at' \in {"Converged", "Interrupted", "Residual"}
    BY <1>8
  <2>3. /\ ExchangeInv' /\ TurnStep
        /\ bOK' => bOK
        /\ keepGoing' = "iteration" => ~bOK'
        /\ \/ sent' = sent
           \/ answered = sent /\ bReadForces /\ ~Staggered /\ (Tight => RecvIsDue')
    BY <1>1, <1>8, UpdatingInTurn DEF Residuals, TurnInv, TypeInv, ForceTypes
  <2>4. Loose /\ bOK => ~bReadForces
    BY <1>1 DEF TurnInv, Waiting
  <2>5. Tight /\ bReadForces => at' # "Converged"
    BY <1>1, <1>4, <2>1, <2>2 DEF TurnInv, Convergence
  <2>6. Waiting'
    BY <1>1, <1>3, <1>4, <1>6, <2>2, <2>3, <2>4, <2>5 DEF Waiting, Residuals
  <2>7. Tight /\ ~bReadForces => sent' = sent
    BY <2>3
  <2>8. Convergence'
    BY <1>1, <1>3, <1>5, <2>1, <2>2, <2>7 DEF TurnInv, Convergence, PeerStays
  <2> QED
    BY <1>2, <1>3, <2>3, <2>6, <2>8 DEF TurnInv
<1> QED
  BY <1>7, <1>8 DEF Update

LEMMA TurnOfAfterConvergence ==
  ASSUME TurnInv, AfterConvergence
  PROVE  TurnInv' /\ TurnStep
<1>1. /\ at = "Converged" /\ at' \in {"Between", "Eig"} /\ PeerStays
      /\ UNCHANGED <<phase, bResConverged, bSolConverged, bFirstRecv, bReadForces, IsConverged,
                     iCouplingCounter, answered, toMBDyn>>
  BY DEF AfterConvergence, PeerStays, solverVars, testVars, peerVars
<1>2. TypeInv'
  BY TypesOfMBDyn DEF TurnInv, MBDyn
<1>3. Tight' = Tight /\ Loose' = Loose /\ Staggered' = Staggered /\ InTurn(input)'
  BY <1>1, PatternsStay DEF TurnInv, PeerStays, Tight, Loose, Staggered
<1>4. /\ Tight => input.coupling = COUPLING_TIGHT \/ input.sendAfterPredict
      /\ Loose => input.sendAfterPredict
      /\ Tight \/ Loose \/ Staggered
      /\ Staggered => ~Tight /\ ~Loose
  BY Patterns DEF TurnInv
<1>5. bOK => answered = sent
  BY <1>1, OnlyInTurn DEF Residuals, TurnInv
<1>6. /\ Sends(bReadForces, bFirstSend)
      /\ Staggered \/ UNCHANGED <<bFirstSend, bOK, keepGoing, sent, toPeer>>
  <2>1. "REGULAR_DATA_AND_GOTO_NEXT_STEP" \in Motions
    BY DEF Motions
  <2>2. CASE Send("REGULAR_DATA_AND_GOTO_NEXT_STEP", bFirstSend, bReadForces, toPeer)
             /\ Staggered
    BY <2>1, <2>2, SendPublishes DEF Sends, TurnInv, TypeInv, ChannelTypes
  <2>3. CASE UNCHANGED <<bFirstSend, bOK, keepGoing, sent, toPeer>>
    BY <2>3 DEF Sends, Kept
  <2> QED
    BY <1>4, <2>2, <2>3 DEF AfterConvergence
<1>7. /\ ExchangeInv' /\ TurnStep
      /\ bOK' => bOK
      /\ keepGoing' = "iteration" => ~bOK'
      /\ sent' = sent \/ (answered = sent /\ bReadForces)
  <2>1. at \notin Residuals /\ at # "SetValue" /\ at' # "SetValue"
        /\ at \in {"Update", "Converged", "Failed"}
    BY <1>1 DEF Residuals
  <2>2. PeerStays /\ UNCHANGED <<answered, toMBDyn>> /\ Sends(bReadForces, bFirstSend)
    BY <1>1, <1>6
  <2> QED
    BY <2>1, <2>2, SendingInTurn DEF Sends, Kept, Published
<1>8. Waiting'
  BY <1>1, <1>3, <1>4, <1>5, <1>6, <1>7 DEF TurnInv, Waiting, Residuals
<1>9. Convergence'
  <2>1. PeerBetweenSteps' <=> PeerBetweenSteps
    BY <1>1 DEF PeerBetweenSteps, PeerStays
  <2>2. Tight => sent' = sent
    BY <1>4, <1>6
  <2> QED
    BY <1>1, <1>3, <2>1, <2>2 DEF TurnInv, Convergence, PeerStays
<1> QED
  BY <1>2, <1>3, <1>7, <1>8, <1>9 DEF TurnInv

LEMMA TurnOfEigUpdate ==
  ASSUME TurnInv, EigUpdate
  PROVE  TurnInv' /\ TurnStep
<1>1. /\ at \in {"Eig", "EigAgain"} /\ at' \in {"EigResidual", "EigLastResidual"} /\ PeerStays
      /\ UpdateForce(iCouplingCounter, bFirstSend, bReadForces)
      /\ UNCHANGED <<phase, bSolConverged, bFirstRecv, bReadForces, IsConverged, answered,
                     toMBDyn>>
  BY DEF EigUpdate, PeerStays, solverVars, testVars, peerVars
<1>2. TypeInv'
  BY TypesOfMBDyn DEF TurnInv, MBDyn
<1>3. Tight' = Tight /\ Loose' = Loose /\ Staggered' = Staggered /\ InTurn(input)'
  BY <1>1, PatternsStay DEF TurnInv, PeerStays, Tight, Loose, Staggered
<1>4. Tight \/ Loose \/ Staggered
  BY Patterns DEF TurnInv
<1>5. bOK /\ ~Staggered => answered = sent
  BY <1>1, OnlyInTurn DEF Residuals, TurnInv
<1>6. /\ ExchangeInv' /\ TurnStep
      /\ bOK' => bOK
      /\ keepGoing' = "iteration" => ~bOK'
      /\ \/ sent' = sent
         \/ answered = sent /\ bReadForces /\ ~Staggered /\ (Tight => RecvIsDue')
  BY <1>1, UpdatingInTurn DEF Residuals, TurnInv, TypeInv, ForceTypes
<1>7. Loose /\ bOK => ~bReadForces
  BY <1>1 DEF TurnInv, Waiting
<1>8. Waiting'
  BY <1>1, <1>3, <1>4, <1>5, <1>6, <1>7 DEF TurnInv, Waiting, Residuals
<1>9. Convergence'
  <2>1. PeerBetweenSteps' <=> PeerBetweenSteps
    BY <1>1 DEF PeerBetweenSteps, PeerStays
  <2>2. ~bReadForces => sent' = sent
    BY <1>6
  <2> QED
    BY <1>1, <1>3, <2>1, <2>2 DEF TurnInv, Convergence, PeerStays
<1> QED
  BY <1>2, <1>3, <1>6, <1>8, <1>9 DEF TurnInv

LEMMA TurnOfRetryDerivatives ==
  ASSUME TurnInv, RetryDerivatives
  PROVE  TurnInv' /\ TurnStep
<1>1. /\ at = "Failed" /\ at' = "Residual" /\ PeerStays /\ phase = "Derivatives"
      /\ UpdateForce(iCouplingCounter, bFirstSend, bReadForces)
      /\ bSolConverged' = ~input.solTest
      /\ UNCHANGED <<phase, bFirstRecv, bReadForces, IsConverged, answered, toMBDyn>>
  BY DEF RetryDerivatives, StartSolve, PeerStays, peerVars
<1>2. TypeInv'
  BY TypesOfMBDyn DEF TurnInv, MBDyn
<1>3. Tight' = Tight /\ Loose' = Loose /\ Staggered' = Staggered /\ InTurn(input)'
  BY <1>1, PatternsStay DEF TurnInv, PeerStays, Tight, Loose, Staggered
<1>4. Tight \/ Loose \/ Staggered
  BY Patterns DEF TurnInv
<1>5. bOK => answered = sent
  BY <1>1, OnlyInTurn DEF Residuals, TurnInv
<1>6. /\ ExchangeInv' /\ TurnStep
      /\ bOK' => bOK
      /\ keepGoing' = "iteration" => ~bOK'
      /\ \/ sent' = sent
         \/ answered = sent /\ bReadForces /\ ~Staggered /\ (Tight => RecvIsDue')
  BY <1>1, UpdatingInTurn DEF Residuals, TurnInv, TypeInv, ForceTypes
<1>7. Loose /\ bOK => ~bReadForces
  BY <1>1 DEF TurnInv, Waiting
<1>8. Waiting'
  BY <1>1, <1>3, <1>4, <1>5, <1>6, <1>7 DEF TurnInv, Waiting, Residuals
<1>9. Convergence'
  <2>1. PeerBetweenSteps' <=> PeerBetweenSteps
    BY <1>1 DEF PeerBetweenSteps, PeerStays
  <2>2. ~bReadForces => sent' = sent
    BY <1>6
  <2>3. ~input'.solTest => bSolConverged'
    BY <1>1 DEF PeerStays
  <2> QED
    BY <1>1, <1>3, <2>1, <2>2, <2>3 DEF TurnInv, Convergence, PeerStays
<1> QED
  BY <1>2, <1>3, <1>6, <1>8, <1>9 DEF TurnInv

(* Every attempt at a step reads anew, and is not converged yet.           *)
LEMMA TurnOfPrediction ==
  ASSUME TurnInv, BeginStep \/ RetryStep
  PROVE  TurnInv' /\ TurnStep
<1>1. /\ at \in {"Between", "Failed"} /\ at' = "Residual" /\ PeerStays /\ AfterPredict
      /\ bSolConverged' = ~input.solTest
      /\ bFirstRecv' /\ bReadForces' /\ IsConverged' = (input.coupling <= COUPLING_LOOSE)
      /\ UNCHANGED <<answered, toMBDyn>>
  BY DEF BeginStep, RetryStep, StartSolve, AfterPredict, PeerStays, peerVars
<1>2. TypeInv'
  BY TypesOfMBDyn DEF TurnInv, MBDyn
<1>3. Tight' = Tight /\ Loose' = Loose /\ Staggered' = Staggered /\ InTurn(input)'
  BY <1>1, PatternsStay DEF TurnInv, PeerStays, Tight, Loose, Staggered
<1>4. /\ Tight \/ Loose \/ Staggered
      /\ Loose => ~Tight
      /\ Tight => ~(input.coupling <= COUPLING_LOOSE)
  BY Patterns DEF TurnInv
<1>5. bOK /\ ~Staggered => answered = sent
  BY <1>1, OnlyInTurn DEF Residuals, TurnInv
<1>6. /\ ExchangeInv' /\ TurnStep
      /\ bOK' => bOK
      /\ keepGoing' = "iteration" => ~bOK'
      /\ sent' = sent \/ (Tight => RecvIsDue')
  <2>1. at \notin Residuals /\ at # "SetValue" /\ at' # "SetValue" /\ 0 \in Nat
    BY <1>1 DEF Residuals
  <2>2. CASE UpdateForce(0, TRUE, TRUE)
    BY <1>1, <2>1, <2>2, UpdatingInTurn
  <2>3. CASE bFirstSend' = TRUE /\ UNCHANGED <<bOK, keepGoing, sent, toPeer>>
    <3>1. Kept(TRUE, toPeer) /\ Sends(TRUE, TRUE)
      BY <2>3 DEF Kept, Sends
    <3> QED
      BY <1>1, <2>1, <2>3, <3>1, SendingInTurn
  <2> QED
    BY <1>1, <2>2, <2>3 DEF AfterPredict
<1>7. ~Tight => RecvIsDue'
  BY <1>1, <1>3, DueAgainAfter
<1>8. Waiting'
  BY <1>1, <1>3, <1>4, <1>5, <1>6, <1>7 DEF TurnInv, Waiting, Residuals
<1>9. Convergence'
  <2>1. ~input'.solTest => bSolConverged'
    BY <1>1 DEF PeerStays
  <2> QED
    BY <1>1, <1>3, <1>4, <2>1 DEF Convergence
<1> QED
  BY <1>2, <1>3, <1>6, <1>8, <1>9 DEF TurnInv

(* The negotiation: the answer, then the initial motion unless tight.      *)
LEMMA TurnOfSetValue ==
  ASSUME TurnInv, SetValue
  PROVE  TurnInv' /\ TurnStep
<1> DEFINE verdict == IF at' = "Residual" THEN "OK" ELSE "ABORT"
           done == Append(toPeer, ES(verdict, 0))
<1>1. /\ at = "SetValue" /\ at' \in {"Residual", "Interrupted"} /\ PeerStays
      /\ phase = "Derivatives" /\ bReadForces /\ bFirstRecv /\ bOK /\ keepGoing = "run"
      /\ sent = 0 /\ answered = 0 /\ toPeer = <<>> /\ peer = "Response"
      /\ toMBDyn # <<>> /\ toMBDyn' = Tail(toMBDyn)
      /\ UNCHANGED <<phase, bFirstRecv, bReadForces, IsConverged, answered>>
      /\ at' = "Residual" => bSolConverged' = ~input.solTest
  BY DEF SetValue, StartSolve, PeerStays, peerVars, TurnInv, ExchangeInv, AtSetValue
<1>2. TypeInv'
  BY TypesOfMBDyn DEF TurnInv, MBDyn
<1>3. Tight' = Tight /\ Loose' = Loose /\ Staggered' = Staggered /\ InTurn(input)'
  BY <1>1, PatternsStay DEF TurnInv, PeerStays, Tight, Loose, Staggered
<1>4. toMBDyn' = <<>>
  <2>1. toMBDyn = <<ES("NEGOTIATION", seen)>>
    BY <1>1 DEF TurnInv, ExchangeInv, Unread, AnswerUnread
  <2> QED
    BY <1>1, <2>1, ShortSequences
<1>5. /\ done \in Seq(ToPeer(sent)) /\ NoMotion(done)
  <2>1. ES(verdict, 0) \in ToPeer(sent) /\ ES(verdict, 0).cmd \notin Motions
    BY <1>1 DEF ES, ToPeer, Motions
  <2>2. toPeer \in Seq(ToPeer(sent)) /\ NoMotion(toPeer)
    BY <1>1, EmptySeq DEF NoMotion
  <2> QED
    BY <2>1, <2>2, AppendKeepsMotions, AppendProperties
<1>6. \/ Kept(bFirstSend, done) /\ bOK' = bOK /\ keepGoing' = keepGoing
      \/ \E cmd \in Motions : Published(cmd, bReadForces, done) /\ ~Tight /\ at' = "Residual"
  <2>1. CASE Send("REGULAR_DATA_AND_GOTO_NEXT_STEP", TRUE, bReadForces,
                  Append(toPeer, ES("OK", 0))) /\ at' = "Residual" /\ ~Tight
    <3>1. Append(toPeer, ES("OK", 0)) \in Seq(ToPeer(sent)) /\ sent \in Nat
          /\ "REGULAR_DATA_AND_GOTO_NEXT_STEP" \in Motions
      BY <1>1, <1>5, <2>1 DEF Motions
    <3>2. Published("REGULAR_DATA_AND_GOTO_NEXT_STEP", bReadForces, Append(toPeer, ES("OK", 0)))
      BY <1>1, <2>1, <3>1 DEF Send, Published
    <3> QED
      BY <2>1, <3>1, <3>2
  <2>2. CASE toPeer' = done /\ UNCHANGED <<bOK, keepGoing, bFirstSend, sent>>
    BY <2>2 DEF Kept
  <2> QED
    BY <1>1, <2>1, <2>2 DEF SetValue, StartSolve
<1> HIDE DEF done
<1>7. CASE Kept(bFirstSend, done) /\ bOK' = bOK /\ keepGoing' = keepGoing
  <2>1. sent' = 0 /\ answered' = 0 /\ toPeer' = done
    BY <1>1, <1>7 DEF Kept
  <2>2. ExchangeInv' /\ TurnStep
    BY <1>1, <1>4, <1>5, <2>1, OnlyWhenNone
       DEF ExchangeInv, Unread, Undelivered, AtSetValue, PeerStays, TurnStep
  <2>3. Waiting'
    BY <1>1, <1>3, <1>7, <2>1 DEF Waiting
  <2>4. Convergence'
    BY <1>1, <1>3 DEF Convergence, PeerStays
  <2> QED
    BY <1>2, <1>3, <2>2, <2>3, <2>4 DEF TurnInv
<1>8. ASSUME NEW cmd \in Motions, Published(cmd, bReadForces, done), ~Tight, at' = "Residual"
      PROVE  TurnInv' /\ TurnStep
  <2>1. sent' = 1 /\ answered' = 0 /\ bOK' = bOK /\ keepGoing' = keepGoing
    BY <1>1, <1>8 DEF Published
  <2>2. OnlyMotion(toPeer', 1)
    <3>1. ES(cmd, 1) \in ToPeer(1) /\ ES(cmd, 1).of = 1 /\ done \in Seq(ToPeer(1))
      BY <1>1, <1>5, ChannelsGrow DEF ES, ToPeer
    <3>2. toPeer' = Append(done, ES(cmd, 1))
      BY <1>1, <1>8 DEF Published
    <3> QED
      BY <1>5, <3>1, <3>2, AppendMotion
  <2>3. ExchangeInv' /\ TurnStep
    BY <1>1, <1>4, <2>1, <2>2
       DEF ExchangeInv, Unread, Undelivered, AtSetValue, PeerStays, TurnStep
  <2>4. RecvIsDue'
    BY <1>1, <1>3, <1>8, DueAgainAfter
  <2>5. Waiting'
    BY <1>1, <1>3, <1>8, <2>1, <2>4 DEF Waiting, Residuals
  <2>6. Convergence'
    BY <1>1, <1>3, <1>8 DEF Convergence
  <2> QED
    BY <1>2, <1>3, <2>3, <2>5, <2>6 DEF TurnInv
<1> QED
  BY <1>6, <1>7, <1>8

-----------------------------------------------------------------------------
(* The invariant holds throughout, if every input is one of the patterns.  *)

EveryInputInTurn == \A i \in Inputs : InTurn(i)

LEMMA TurnInitially == EveryInputInTurn /\ Init => TurnInv
<1> SUFFICES ASSUME EveryInputInTurn, Init PROVE TurnInv
  OBVIOUS
<1>1. TypeInv /\ InTurn(input)
  BY TypesInitially DEF EveryInputInTurn, Init
<1>2. NoMotion(<<>>) /\ OnlyMotion(<<>>, 0)
  BY DEF NoMotion, OnlyMotion
<1>3. ExchangeInv
  BY <1>2 DEF Init, ExchangeInv, Unread, Undelivered, AtSetValue
<1>4. Waiting /\ Convergence
  BY DEF Init, Waiting, Convergence
<1> QED
  BY <1>1, <1>3, <1>4 DEF TurnInv

LEMMA TurnNext == TurnInv /\ [Next]_vars => TurnInv' /\ TurnStep
<1> SUFFICES ASSUME TurnInv, [Next]_vars PROVE TurnInv' /\ TurnStep
  OBVIOUS
<1>1. CASE MBDyn
  BY <1>1, TurnOfSetValue, TurnOfResidual, TurnOfUpdate, TurnOfAfterConvergence,
     TurnOfEigUpdate, TurnOfEigResidual, TurnOfPrediction, TurnOfRetryDerivatives,
     TurnOfEndRun DEF MBDyn
<1>2. CASE Peer
  <2>1. /\ TypeInv' /\ ExchangeInv' /\ UNCHANGED <<input, mbdynVars>>
        /\ answered = sent /\ PeerBetweenSteps => PeerBetweenSteps'
    BY <1>2, TypesOfPeer, PeerInTurn DEF TurnInv
  <2>2. UNCHANGED <<input, at, phase, bResConverged, bSolConverged, iCouplingCounter, bFirstSend,
                    bFirstRecv, bReadForces, bOK, IsConverged, keepGoing, sent, answered>>
    BY <2>1 DEF mbdynVars, solverVars, testVars, forceVars
  <2>3. Tight' = Tight /\ Loose' = Loose /\ Staggered' = Staggered /\ RecvIsDue' = RecvIsDue
        /\ InTurn(input)'
    BY <2>2 DEF TurnInv, Tight, Loose, Staggered, RecvIsDue, InTurn
  <2>4. Waiting'
    BY <2>2, <2>3 DEF TurnInv, Waiting
  <2>5. Convergence'
    BY <2>1, <2>2, <2>3 DEF TurnInv, Convergence
  <2> QED
    BY <2>1, <2>2, <2>3, <2>4, <2>5 DEF TurnInv, TurnStep
<1>3. CASE UNCHANGED vars
  <2>1. TypeInv' /\ TurnStep
    BY <1>3, TypesStutter DEF TurnInv, TurnStep, vars, mbdynVars, forceVars
  <2>2. /\ UNCHANGED <<input, at, phase, bResConverged, bSolConverged, iCouplingCounter,
                       bFirstSend, bFirstRecv, bReadForces, bOK, IsConverged, keepGoing, sent,
                       answered>>
        /\ UNCHANGED <<toPeer, toMBDyn, peer, niters, iter, seen>>
    BY <1>3 DEF vars, mbdynVars, solverVars, testVars, forceVars, peerVars
  <2>3. Tight' = Tight /\ Loose' = Loose /\ Staggered' = Staggered /\ RecvIsDue' = RecvIsDue
        /\ InTurn(input)' /\ PeerBetweenSteps' = PeerBetweenSteps
    BY <2>2 DEF TurnInv, Tight, Loose, Staggered, RecvIsDue, InTurn, PeerBetweenSteps
  <2>4. Unread'
    BY <2>2, <2>3 DEF TurnInv, ExchangeInv, Unread, AnswerUnread
  <2>5. Undelivered' /\ AtSetValue'
    BY <2>2 DEF TurnInv, ExchangeInv, Undelivered, AtSetValue
  <2>6. Waiting' /\ Convergence'
    BY <2>2, <2>3 DEF TurnInv, Waiting, Convergence
  <2> QED
    BY <2>1, <2>3, <2>4, <2>5, <2>6 DEF TurnInv, ExchangeInv
<1> QED
  BY <1>1, <1>2, <1>3 DEF Next

LEMMA TurnAlways == EveryInputInTurn /\ Spec => []TurnInv
<1>1. TurnInv /\ [Next]_vars => TurnInv'
  BY TurnNext
<1> QED
  BY TurnInitially, <1>1, PTL DEF Spec

-----------------------------------------------------------------------------
(* What the invariant is for.                                              *)

LEMMA AnswersOfLatest == TurnInv => ForceIsOfLatestMotion
<1> SUFFICES ASSUME TurnInv, at # "SetValue",
                    NEW n \in 1 .. Len(toMBDyn), toMBDyn[n].cmd \in Forces
             PROVE  n = 1 /\ toMBDyn[n].of = sent
  BY DEF ForceIsOfLatestMotion
<1>a. "ABORT" \notin Forces
  BY DEF Forces, Motions
<1>1. CASE toMBDyn = <<>>
  BY <1>1
<1>2. CASE toMBDyn = <<ES("ABORT", seen)>>
  <2>1. n = 1 /\ toMBDyn[n] = ES("ABORT", seen)
    BY <1>2
  <2> QED
    BY <2>1, <1>a DEF ES
<1>3. ASSUME NEW cmd, toMBDyn = <<ES(cmd, sent)>>
      PROVE  n = 1 /\ toMBDyn[n].of = sent
  <2>1. n = 1 /\ toMBDyn[n] = ES(cmd, sent)
    BY <1>3
  <2> QED
    BY <2>1 DEF ES
<1>4. ASSUME NEW cmd, toMBDyn = <<ES(cmd, sent), ES("ABORT", seen)>>
      PROVE  n = 1 /\ toMBDyn[n].of = sent
  <2>1. \/ n = 1 /\ toMBDyn[n] = ES(cmd, sent)
        \/ n = 2 /\ toMBDyn[n] = ES("ABORT", seen)
    BY <1>4
  <2> QED
    BY <2>1, <1>a DEF ES
<1> QED
  BY <1>1, <1>2, <1>3, <1>4 DEF TurnInv, ExchangeInv, Unread, AnswerUnread

(* Recv: the forces about to be used answer the last motion sent, for      *)
(* every pattern in turn.                                                  *)
THEOREM ForcesAreOfLatestMotion == EveryInputInTurn /\ Spec => []ForceIsOfLatestMotion
BY TurnAlways, AnswersOfLatest, PTL

(* Recv_post, MakeResTest: no step of a tight coupling is accepted before  *)
(* the peer has declared the end of its own.                               *)
THEOREM StepsWaitForPeer == EveryInputInTurn /\ Spec => TightWaitsForPeer
<1>1. TurnInv /\ [Next]_vars
        => [(at = "Converged" /\ at' # at /\ phase = "Step" /\ Tight)
              => PeerBetweenSteps /\ answered = sent]_vars
  BY DEF TurnInv, Convergence
<1> QED
  BY TurnAlways, <1>1, PTL DEF Spec, TightWaitsForPeer

(* The exchange is one of a motion for its answer: the safety part of      *)
(* KeepsPromise.                                                           *)
THEOREM ExchangeIsInTurn ==
  EveryInputInTurn /\ Spec => Abstract!Init /\ [][Abstract!Next]_Abstract!vars
<1>1. Init => Abstract!Init
  BY DEF Init, Abstract!Init
<1>2. TurnInv /\ [Next]_vars => [Abstract!Next]_Abstract!vars
  <2> SUFFICES ASSUME TurnInv, [Next]_vars PROVE [Abstract!Next]_Abstract!vars
    OBVIOUS
  <2>1. TurnStep
    BY TurnNext
  <2>2. \/ UNCHANGED <<at, sent, answered>>
        \/ at # "Done" /\ at' = "Done" /\ UNCHANGED <<sent, answered>>
        \/ at # "Done" /\ at' # "Done"
    <3>1. CASE MBDyn
      <4>1. CASE EndRun
        BY <4>1 DEF EndRun, forceVars
      <4>2. CASE ~EndRun
        BY <3>1, <4>2 DEF MBDyn, SetValue, StartSolve, Residual, Update, AfterConvergence,
                          EigUpdate, EigResidual, BeginStep, RetryStep, RetryDerivatives
      <4> QED
        BY <4>1, <4>2
    <3>2. CASE Peer
      BY <3>2 DEF Peer, NegotiateRequest, NegotiateResponse, PeerBegin, PeerLeaves, GetMotion,
                  PutForces, mbdynVars, forceVars
    <3>3. CASE UNCHANGED vars
      BY <3>3 DEF vars, mbdynVars, forceVars
    <3> QED
      BY <3>1, <3>2, <3>3 DEF Next
  <2>3. sent \in Nat
    BY DEF TurnInv, TypeInv, ChannelTypes
  <2> QED
    BY <2>1, <2>2, <2>3 DEF TurnStep, Abstract!Next, Abstract!vars, Abstract!Publish,
                            Abstract!Answer, Abstract!End
<1> QED
  BY TurnAlways, <1>1, <1>2, PTL DEF Spec
=============================================================================
