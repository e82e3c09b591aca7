-------------------------- MODULE ExternalCoupling --------------------------
(***************************************************************************)
(* An external structural force (ExtForce, extforce.cc) over a socket      *)
(* (ExtSocketHandler, extsocket.cc) and its peer, a program on libmbc that *)
(* runs the loop of utils/test_strext_socket_lib.c.  MBDyn's side is       *)
(* driven by the derivatives solve and the steps of the solver, Newton     *)
(* iteration by Newton iteration.                                          *)
(*                                                                         *)
(* A message is a command with the number of the motion it carries or      *)
(* answers; command and data travel as one.  A channel is the sequence of  *)
(* what was sent and not yet read.                                         *)
(***************************************************************************)
EXTENDS Integers, Sequences

CONSTANTS
  Inputs,      \* what the input files of the two programs may ask for
  MaxSteps,    \* time steps of the run
  MaxIter      \* max iterations of the nonlinear solver

COUPLING_STAGGERED == -1
COUPLING_LOOSE == 0
COUPLING_TIGHT == 1

InputType ==
  [ coupling : {COUPLING_STAGGERED, COUPLING_LOOSE} \cup (Nat \ {0}),
    sendAfterPredict : BOOLEAN,
    solTest : BOOLEAN,       \* there is a test on the solution
    retries : Nat,           \* attempts that may be repeated
    iters : SUBSET (Nat \ {0}),  \* iterations the peer makes in a step
    dataAndNext : BOOLEAN ]  \* the peer's data_and_next

(* ReadExtForce: nothing is sent after predict in staggered coupling.      *)
ReadExtForce ==
  {i \in InputType : i.coupling < COUPLING_LOOSE => ~i.sendAfterPredict}

ASSUME CouplingAssumption ==
  /\ Inputs \subseteq ReadExtForce
  /\ \A i \in Inputs : i.iters # {}
  /\ MaxSteps \in Nat
  /\ MaxIter \in Nat \ {0}

VARIABLES
  input,
  at,                \* where MBDyn is
  phase,             \* "Derivatives" or "Step"
  step,              \* steps begun
  retries,           \* attempts repeated in this solve
  iIterCnt,          \* iterations of this attempt
  bResConverged,
  bSolConverged,
  iCouplingCounter,
  bFirstSend,
  bFirstRecv,
  bReadForces,
  bOK,
  IsConverged,       \* DataManager::IsConverged(): ExtForce::c, if registered
  keepGoing,         \* mbdyn_keep_going: "run", "step" or "iteration"
  sent,              \* motions sent
  answered,          \* the motion the last answer read by MBDyn answers
  toPeer,
  toMBDyn,
  peer,              \* where the peer is
  niters,            \* iterations of the peer's step
  iter,              \* those it has done
  seen               \* the motion the peer read last

solverVars == <<phase, step, retries, iIterCnt>>
testVars == <<bResConverged, bSolConverged>>
forceVars == <<iCouplingCounter, bFirstSend, bFirstRecv, bReadForces, bOK,
               IsConverged, keepGoing, sent, answered>>
mbdynVars == <<at, solverVars, testVars, forceVars>>
peerVars == <<peer, niters, iter, seen>>
vars == <<input, mbdynVars, toPeer, toMBDyn, peerVars>>

-----------------------------------------------------------------------------

Tight == input.coupling >= COUPLING_TIGHT

ES(cmd, of) == [cmd |-> cmd, of |-> of]

Motions == {"REGULAR_DATA", "REGULAR_DATA_AND_GOTO_NEXT_STEP"}
Forces == Motions \cup {"GOTO_NEXT_STEP"}

Init ==
  /\ input \in Inputs
  /\ at = "SetValue"
  /\ phase = "Derivatives"
  /\ step = 0
  /\ retries = 0
  /\ iIterCnt = 0
  /\ bResConverged = FALSE
  /\ bSolConverged = ~input.solTest
  /\ iCouplingCounter = 0
  /\ bFirstSend = TRUE
  /\ bFirstRecv = TRUE
  /\ bReadForces = TRUE
  /\ bOK = TRUE
  /\ IsConverged = TRUE
  /\ keepGoing = "run"
  /\ sent = 0
  /\ answered = 0
  /\ toPeer = <<>>
  /\ toMBDyn = <<>>
  /\ peer = "Request"
  /\ niters = 1
  /\ iter = 0
  /\ seen = 0

-----------------------------------------------------------------------------
(* The force element.                                                      *)

\* Mutant of Send: the motion goes out even if the peer has gone on.
SendAnyway(cmd, firstSend, readForces, done) ==
  /\ sent' = sent + 1
  /\ toPeer' = done \o <<ES(cmd, sent + 1)>>
  /\ bFirstSend' = FALSE
  /\ UNCHANGED <<bOK, keepGoing>>

(* ExtForce::Send with Send_pre: done is the channel so far, firstSend and *)
(* readForces the flags as the caller leaves them.  A peer that is gone    *)
(* may or may not be noticed.                                              *)
Send(cmd, firstSend, readForces, done) ==
  \/ /\ ~readForces \/ ~bOK
     /\ toPeer' = done
     /\ bFirstSend' = firstSend
     /\ UNCHANGED <<bOK, keepGoing, sent>>
  \/ /\ readForces /\ bOK
     /\ sent' = sent + 1
     /\ toPeer' = done \o <<ES(cmd, sent + 1)>>
     /\ bFirstSend' = FALSE
     /\ UNCHANGED <<bOK, keepGoing>>
  \/ /\ readForces /\ bOK /\ peer = "Left"
     /\ bOK' = FALSE
     /\ keepGoing' = "iteration"
     /\ toPeer' = done
     /\ bFirstSend' = firstSend
     /\ UNCHANGED sent

\* Mutant of SendIsDue: the counter is compared before it is incremented.
SendIsDueBefore(counter) ==
  \/ Tight /\ counter % input.coupling = 0
  \/ input.coupling = COUPLING_LOOSE /\ input.sendAfterPredict

(* Whether ExtForce::Update sends, given the iterations counted so far.    *)
SendIsDue(counter) ==
  \/ Tight /\ (counter + 1) % input.coupling = 0
  \/ input.coupling = COUPLING_LOOSE /\ input.sendAfterPredict

(* ExtForce::Update.                                                       *)
UpdateForce(counter, firstSend, readForces) ==
  /\ iCouplingCounter' = IF Tight THEN counter + 1 ELSE counter
  /\ \/ /\ SendIsDue(counter)
        /\ Send(IF Tight THEN "REGULAR_DATA"
                         ELSE "REGULAR_DATA_AND_GOTO_NEXT_STEP",
                firstSend, readForces, toPeer)
     \/ /\ ~SendIsDue(counter)
        /\ bFirstSend' = firstSend
        /\ UNCHANGED <<bOK, keepGoing, sent, toPeer>>

\* Mutant of AfterPredict: the external convergence is not reset.
AfterPredictStillConverged ==
  /\ bFirstRecv' = TRUE
  /\ bReadForces' = TRUE
  /\ UNCHANGED IsConverged
  /\ \/ input.sendAfterPredict /\ UpdateForce(0, TRUE, TRUE)
     \/ /\ ~input.sendAfterPredict
        /\ iCouplingCounter' = 0
        /\ bFirstSend' = TRUE
        /\ UNCHANGED <<bOK, keepGoing, sent, toPeer>>
  /\ UNCHANGED <<answered, toMBDyn>>

\* Mutant of AfterPredict: the iterations are not counted anew.
AfterPredictKeepsCounter ==
  /\ bFirstRecv' = TRUE
  /\ bReadForces' = TRUE
  /\ IsConverged' = (input.coupling <= COUPLING_LOOSE)
  /\ \/ /\ input.sendAfterPredict
        /\ UpdateForce(iCouplingCounter, TRUE, TRUE)
     \/ /\ ~input.sendAfterPredict
        /\ bFirstSend' = TRUE
        /\ UNCHANGED <<iCouplingCounter, bOK, keepGoing, sent, toPeer>>
  /\ UNCHANGED <<answered, toMBDyn>>

(* DataManager::AfterPredict: the external convergence is reset, if the    *)
(* force is registered; then ExtForce::AfterPredict.                       *)
AfterPredict ==
  /\ bFirstRecv' = TRUE
  /\ bReadForces' = TRUE
  /\ IsConverged' = (input.coupling <= COUPLING_LOOSE)
  /\ \/ input.sendAfterPredict /\ UpdateForce(0, TRUE, TRUE)
     \/ /\ ~input.sendAfterPredict
        /\ iCouplingCounter' = 0
        /\ bFirstSend' = TRUE
        /\ UNCHANGED <<bOK, keepGoing, sent, toPeer>>
  /\ UNCHANGED <<answered, toMBDyn>>

\* Mutant of RecvIsDue: forces are read before any motion was sent.
RecvIsDueAtOnce ==
  \/ Tight /\ iCouplingCounter % input.coupling = 0
  \/ ~Tight /\ bFirstRecv

(* Whether ExtForce::Recv turns to the peer in this residual.              *)
RecvIsDue ==
  \/ Tight /\ ~bFirstSend /\ iCouplingCounter % input.coupling = 0
  \/ ~Tight /\ bFirstRecv

(* ExtRemoteHandler::ActOnCmd, the reading of the data and Recv_post, for  *)
(* the command at the head of the channel.                                 *)
ActOnCmd ==
  LET u == Head(toMBDyn)
  IN /\ toMBDyn' = Tail(toMBDyn)
     /\ answered' = IF u.cmd = "ABORT" THEN sent ELSE u.of
     /\ bFirstRecv' = (bFirstRecv /\ u.cmd \notin Motions)
     /\ bReadForces' = (u.cmd = "REGULAR_DATA")
     /\ IsConverged' = (IsConverged \/ u.cmd # "REGULAR_DATA")
     /\ keepGoing' = IF u.cmd = "ABORT" THEN "step" ELSE keepGoing
     /\ UNCHANGED bOK

(* Recv_pre on a connection the peer has closed.                           *)
RecvFails ==
  /\ toMBDyn = <<>>
  /\ peer = "Left"
  /\ bOK' = FALSE
  /\ keepGoing' = "iteration"
  /\ UNCHANGED <<answered, bFirstRecv, bReadForces, IsConverged, toMBDyn>>

(* ExtForce::Recv, called by the residual: waits for the peer if it is due *)
(* and the peer has not gone on to the next step.                          *)
Recv ==
  /\ \/ RecvIsDue /\ bReadForces /\ toMBDyn # <<>> /\ ActOnCmd
     \/ RecvIsDue /\ bReadForces /\ RecvFails
     \/ /\ RecvIsDue /\ ~bReadForces
        /\ IsConverged' = TRUE
        /\ UNCHANGED <<answered, bFirstRecv, bReadForces, bOK, keepGoing, toMBDyn>>
     \/ /\ ~RecvIsDue
        /\ UNCHANGED <<answered, bFirstRecv, bReadForces, bOK, IsConverged,
                       keepGoing, toMBDyn>>
  /\ UNCHANGED <<iCouplingCounter, bFirstSend, sent, toPeer>>

-----------------------------------------------------------------------------
(* The solver.                                                             *)

(* Derivatives, and every attempt at a step, start a nonlinear solve.      *)
StartSolve ==
  /\ at' = "Residual"
  /\ iIterCnt' = 0
  /\ bResConverged' = FALSE
  /\ bSolConverged' = ~input.solTest

(* ExtForce::SetValue: Prepare_pre reads the request, Prepare decides      *)
(* whether it fits, Prepare_post answers; unless coupling is tight, the    *)
(* initial motion follows.                                                 *)
SetValue ==
  /\ at = "SetValue"
  /\ toMBDyn # <<>>
  /\ Head(toMBDyn).cmd = "NEGOTIATION"
  /\ toMBDyn' = Tail(toMBDyn)
  /\ \/ /\ StartSolve
        /\ IF Tight
           THEN /\ toPeer' = Append(toPeer, ES("OK", 0))
                /\ UNCHANGED <<bOK, keepGoing, bFirstSend, sent>>
           ELSE Send("REGULAR_DATA_AND_GOTO_NEXT_STEP", TRUE, bReadForces,
                     Append(toPeer, ES("OK", 0)))
     \/ /\ at' = "Interrupted"
        /\ toPeer' = Append(toPeer, ES("ABORT", 0))
        /\ UNCHANGED <<iIterCnt, testVars, bOK, keepGoing, bFirstSend, sent>>
  /\ UNCHANGED <<input, phase, step, retries, iCouplingCounter, bFirstRecv,
                 bReadForces, IsConverged, answered, peerVars>>

(* NewtonRaphsonSolver::Solve up to the test on the residual: the forces   *)
(* are read, the test needs the external convergence too.  The time step   *)
(* limit may end the attempt as well.                                      *)
Residual ==
  /\ at = "Residual"
  /\ Recv
  /\ \E small \in BOOLEAN : bResConverged' = (small /\ IsConverged')
  /\ \/ at' = IF bResConverged' /\ bSolConverged THEN "Converged"
              ELSE IF iIterCnt >= MaxIter THEN "Failed" ELSE "Update"
     \/ at' = "Failed"
  /\ UNCHANGED <<input, solverVars, bSolConverged, peerVars>>

(* The rest of an iteration: the matrix may be singular; the solution is   *)
(* handed to the elements and tested; a stop is obeyed last.               *)
Update ==
  /\ at = "Update"
  /\ \/ /\ UpdateForce(iCouplingCounter, bFirstSend, bReadForces)
        /\ \E small \in BOOLEAN :
             /\ ~input.solTest => small
             /\ bSolConverged' = (small /\ IsConverged)
        /\ iIterCnt' = iIterCnt + 1
        /\ at' = IF bResConverged /\ bSolConverged' THEN "Converged"
                 ELSE IF keepGoing' = "iteration" THEN "Interrupted" ELSE "Residual"
     \/ /\ at' = "Failed"
        /\ UNCHANGED <<iCouplingCounter, bFirstSend, bOK, keepGoing, sent, toPeer,
                       bSolConverged, iIterCnt>>
  /\ UNCHANGED <<input, phase, step, retries, bResConverged, bFirstRecv, bReadForces,
                 IsConverged, answered, toMBDyn, peerVars>>

(* ExtForce::AfterConvergence, the end of StepIntegrator::Advance.  An     *)
(* eigenanalysis may be due next, unless the derivatives were interrupted. *)
AfterConvergence ==
  /\ at = "Converged"
  /\ \/ at' = "Between"
     \/ at' = "Eig" /\ (phase = "Derivatives" => keepGoing' = "run")
  /\ IF input.coupling # COUPLING_TIGHT /\ ~input.sendAfterPredict
     THEN Send("REGULAR_DATA_AND_GOTO_NEXT_STEP", bFirstSend, bReadForces, toPeer)
     ELSE UNCHANGED <<bFirstSend, bOK, keepGoing, sent, toPeer>>
  /\ UNCHANGED <<input, solverVars, testVars, iCouplingCounter, bFirstRecv, bReadForces,
                 IsConverged, answered, toMBDyn, peerVars>>

(* Solver::Eig updates all elements and assembles their residual before    *)
(* each of its two matrices, as an iteration would.                        *)
EigUpdate ==
  /\ at \in {"Eig", "EigAgain"}
  /\ at' = IF at = "Eig" THEN "EigResidual" ELSE "EigLastResidual"
  /\ UpdateForce(iCouplingCounter, bFirstSend, bReadForces)
  /\ UNCHANGED <<input, solverVars, testVars, bFirstRecv, bReadForces, IsConverged,
                 answered, toMBDyn, peerVars>>

EigResidual ==
  /\ at \in {"EigResidual", "EigLastResidual"}
  /\ at' = IF at = "EigResidual" THEN "EigAgain" ELSE "Between"
  /\ Recv
  /\ UNCHANGED <<input, solverVars, testVars, peerVars>>

(* Solver::Advance begins a step, unless a stop was requested or the final *)
(* time is reached.                                                        *)
BeginStep ==
  /\ at = "Between"
  /\ keepGoing = "run"
  /\ step < MaxSteps
  /\ phase' = "Step"
  /\ step' = step + 1
  /\ retries' = 0
  /\ StartSolve
  /\ AfterPredict
  /\ UNCHANGED <<input, peerVars>>

(* bReduceTimeStep: the step is predicted and attempted again.             *)
RetryStep ==
  /\ at = "Failed"
  /\ phase = "Step"
  /\ retries < input.retries
  /\ retries' = retries + 1
  /\ StartSolve
  /\ AfterPredict
  /\ UNCHANGED <<input, phase, step, peerVars>>

(* DerivativeSolver::Advance with another coefficient: the elements are    *)
(* updated with the state restored; nothing is predicted, nothing reset.   *)
RetryDerivatives ==
  /\ at = "Failed"
  /\ phase = "Derivatives"
  /\ retries < input.retries
  /\ retries' = retries + 1
  /\ StartSolve
  /\ UpdateForce(iCouplingCounter, bFirstSend, bReadForces)
  /\ UNCHANGED <<input, phase, step, bFirstRecv, bReadForces, IsConverged, answered,
                 toMBDyn, peerVars>>

(* The run is over: the handler is destroyed and tells the peer.           *)
EndRun ==
  /\ \/ at = "Interrupted"
     \/ at = "Failed" /\ retries = input.retries
     \/ at = "Between" /\ (keepGoing # "run" \/ step = MaxSteps)
  /\ at' = "Done"
  /\ toPeer' = Append(toPeer, ES("ABORT", 0))
  /\ UNCHANGED <<input, solverVars, testVars, forceVars, toMBDyn, peerVars>>

MBDyn ==
  \/ SetValue \/ Residual \/ Update \/ AfterConvergence
  \/ EigUpdate \/ EigResidual \/ BeginStep \/ RetryStep \/ RetryDerivatives \/ EndRun

-----------------------------------------------------------------------------
(* The peer.                                                               *)

Answers(cmd) == toMBDyn' = Append(toMBDyn, ES(cmd, seen))

(* mbc_nodal_negotiate_request.                                            *)
NegotiateRequest ==
  /\ peer = "Request"
  /\ peer' = "Response"
  /\ Answers("NEGOTIATION")
  /\ UNCHANGED <<input, mbdynVars, toPeer, niters, iter, seen>>

NegotiateResponse ==
  /\ peer = "Response"
  /\ toPeer # <<>>
  /\ peer' = IF Head(toPeer).cmd = "OK" THEN "Begin" ELSE "Left"
  /\ toPeer' = Tail(toPeer)
  /\ UNCHANGED <<input, mbdynVars, toMBDyn, niters, iter, seen>>

(* A step of test_run.                                                     *)
PeerBegin ==
  /\ peer = "Begin"
  /\ peer' = "Get"
  /\ niters' \in input.iters
  /\ iter' = 0
  /\ UNCHANGED <<input, mbdynVars, toPeer, toMBDyn, seen>>

(* keep_going is 0: the peer goes, with or without asking MBDyn to end.    *)
PeerLeaves ==
  /\ peer = "Begin"
  /\ peer' = "Left"
  /\ Answers("ABORT") \/ UNCHANGED toMBDyn
  /\ UNCHANGED <<input, mbdynVars, toPeer, niters, iter, seen>>

(* mbc_nodal_get_motion; an ABORT or a closed connection end the peer.     *)
GetMotion ==
  /\ peer = "Get"
  /\ \/ /\ toPeer # <<>>
        /\ Head(toPeer).cmd \in Motions
        /\ peer' = "Put"
        /\ seen' = Head(toPeer).of
        /\ toPeer' = Tail(toPeer)
     \/ /\ toPeer # <<>>
        /\ Head(toPeer).cmd \notin Motions
        /\ peer' = "Left"
        /\ toPeer' = Tail(toPeer)
        /\ UNCHANGED seen
  /\ UNCHANGED <<input, mbdynVars, toMBDyn, niters, iter>>

(* mbc_nodal_put_forces(mbc, iter == niters - 1).                          *)
PutForces ==
  /\ peer = "Put"
  /\ iter' = iter + 1
  /\ \/ /\ iter < niters - 1
        /\ Answers("REGULAR_DATA")
        /\ peer' = "Get"
     \/ /\ iter = niters - 1
        /\ Answers(IF input.dataAndNext THEN "REGULAR_DATA_AND_GOTO_NEXT_STEP"
                                        ELSE "GOTO_NEXT_STEP")
        /\ peer' = "Begin"
  /\ UNCHANGED <<input, mbdynVars, toPeer, niters, seen>>

Peer ==
  \/ NegotiateRequest \/ NegotiateResponse \/ PeerBegin \/ PeerLeaves
  \/ GetMotion \/ PutForces

Ended == at = "Done" /\ peer = "Left"

Next ==
  \/ MBDyn
  \/ Peer
  \/ Ended /\ UNCHANGED vars

Spec == Init /\ [][Next]_vars

(* Both are programs that run until they wait for the other.               *)
FairSpec == Spec /\ WF_vars(MBDyn) /\ WF_vars(Peer)

-----------------------------------------------------------------------------
(* Types.                                                                  *)
TypeOK ==
  /\ input \in Inputs
  /\ at \in {"SetValue", "Residual", "Update", "Failed", "Converged", "Eig",
             "EigResidual", "EigAgain", "EigLastResidual", "Between", "Interrupted",
             "Done"}
  /\ phase \in {"Derivatives", "Step"}
  /\ step \in 0 .. MaxSteps
  /\ retries \in 0 .. input.retries
  /\ iIterCnt \in 0 .. MaxIter
  /\ bResConverged \in BOOLEAN
  /\ bSolConverged \in BOOLEAN
  /\ iCouplingCounter \in 0 .. (MaxIter + 1) * (input.retries + 1) + 2
  /\ bFirstSend \in BOOLEAN
  /\ bFirstRecv \in BOOLEAN
  /\ bReadForces \in BOOLEAN
  /\ bOK \in BOOLEAN
  /\ IsConverged \in BOOLEAN
  /\ keepGoing \in {"run", "step", "iteration"}
  /\ sent \in Nat
  /\ answered \in 0 .. sent
  /\ toPeer \in Seq([cmd : Motions \cup {"OK", "ABORT"}, of : 0 .. sent])
  /\ toMBDyn \in Seq([cmd : Forces \cup {"NEGOTIATION", "ABORT"}, of : 0 .. sent])
  /\ peer \in {"Request", "Response", "Begin", "Get", "Put", "Left"}
  /\ niters \in Nat \ {0}
  /\ iter \in 0 .. niters
  /\ seen \in 0 .. sent

(* Recv: the forces MBDyn is about to use are the peer's answer to the     *)
(* last motion it was sent, never to an earlier one.                       *)
ForceIsOfLatestMotion ==
  at \in {"Residual", "EigResidual", "EigLastResidual"} /\ RecvIsDue /\ bReadForces =>
    \A n \in 1 .. Len(toMBDyn) :
      toMBDyn[n].cmd \in Forces => n = 1 /\ toMBDyn[n].of = sent

PeerBetweenSteps == peer \in {"Begin", "Left"} \/ (peer = "Get" /\ iter = 0)

(* Recv_post, MakeResTest, MakeSolTest: a step of a tight coupling is      *)
(* accepted only when the peer has declared the end of its own step, and   *)
(* then every motion has been answered and every answer read.  An ES_ABORT *)
(* counts as the answer to all that was sent (ActOnCmd).                   *)
TightWaitsForPeer ==
  [][(at = "Converged" /\ at' # at /\ phase = "Step" /\ Tight)
       => PeerBetweenSteps /\ answered = sent]_vars

(* ExtForce, staggered: "send kinematics at end of step, use forces at     *)
(* next step" (extforce.h): a step that is accepted leaves a motion for    *)
(* the peer to answer, unless the run is about to stop.                    *)
StaggeredSendsAtEndOfStep ==
  [][(at = "Converged" /\ at' # at /\ input.coupling = COUPLING_STAGGERED)
       => sent' = sent + 1 \/ keepGoing' # "run"]_vars

(* Whatever the peer does, neither waits for the other forever.            *)
CoupledRunEnds == <>Ended

(* The coupling is an exchange of one motion for one answer (Exchange).    *)
Abstract == INSTANCE Exchange WITH motion <- sent, over <- at = "Done"

KeepsPromise == Abstract!Spec
=============================================================================
