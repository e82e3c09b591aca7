------------------------------- MODULE Streams -------------------------------
(* A stream drive (mbdyn/base/socketstreamdrive.cc) and a stream output     *)
(* element (socketstream_out_elem.cc) of one model, connected over stream   *)
(* sockets to one peer, composed with the steps that drive them: the drive  *)
(* is served by every SetTime, the element sends after every prediction or  *)
(* after every convergence (StepIntegration).  The peer is the loop of      *)
(* tests/stream/spring.py over its stream sockets, which spring.py has      *)
(* commented out in favour of datagrams, or one with a pace of its own.     *)
EXTENDS StepIntegration

CONSTANTS
  Configurations,   \* what the input file chooses for drive, element and peer
  MaxAhead          \* packets on their way to MBDyn, a bound of the model

(* bWhole says that a packet always arrives at once.                        *)
ConfigurationType ==
  [InputEvery : Nat \ {0}, bReceiveFirst : BOOLEAN, bNonBlocking : BOOLEAN,
   bTimeout : BOOLEAN, OutputEvery : Nat \ {0}, bSendFirst : BOOLEAN,
   bSendAfterPredict : BOOLEAN, bAbortIfBroken : BOOLEAN,
   peer : {"spring", "source"}, mayLeave : BOOLEAN, bWhole : BOOLEAN]

ASSUME StreamAssumption ==
  /\ Configurations \subseteq InputType \X ConfigurationType
  /\ {c[1] : c \in Configurations} = Inputs
  /\ MaxAhead \in Nat \ {0}

(* A packet is known by its number and comes in two parts.                  *)
Part(n, half) == [of |-> n, half |-> half]
Packet(n) == <<Part(n, 1), Part(n, 2)>>
InitialValues == Packet(0)

VARIABLES
  stream,                        \* the configuration of drive, element and peer
  start,                         \* what comes before the derivatives
  InputCounter, buf, values,     \* the drive: pdVal are values
  inAbandoned, reads,            \* reads counts the packets read (history)
  OutputCounter, outAbandoned,   \* the element
  sent,                          \* packets sent (history)
  toMBDyn, toPeer,               \* sent and not read
  at, put, seen                  \* the peer, its last packet and the last it read

drive == <<InputCounter, buf, values, inAbandoned, reads, toMBDyn>>
element == <<OutputCounter, outAbandoned, sent, toPeer>>
peer == <<at, put, seen>>
streamVars == <<stream, start, drive, element, peer>>
allVars == <<vars, streamVars>>

(* With receive first the next call of ServePending reads; without it the   *)
(* counter, which is unsigned, wraps and needs InputEvery calls more.       *)
StreamInit ==
  /\ Init
  /\ \E c \in Configurations : input = c[1] /\ stream = c[2]
  /\ start = "SetTime"
  /\ InputCounter = IF stream.bReceiveFirst THEN stream.InputEvery - 1 ELSE -1
  /\ buf = InitialValues /\ values = InitialValues
  /\ inAbandoned = FALSE /\ reads = 0
  /\ OutputCounter = 0 /\ outAbandoned = FALSE /\ sent = 0
  /\ toMBDyn = <<>> /\ toPeer = <<>>
  /\ at = "Put" /\ put = 0 /\ seen = 0

Left == at = "Left"

-----------------------------------------------------------------------------
(* A mutation of RecvAll that takes what has arrived for a packet.          *)
RecvAllOrPart ==
  /\ toMBDyn # <<>>
  /\ buf' = IF Len(toMBDyn) = 1 THEN <<toMBDyn[1], buf[2]>> ELSE SubSeq(toMBDyn, 1, 2)
  /\ values' = buf'
  /\ toMBDyn' = IF Len(toMBDyn) = 1 THEN <<>> ELSE SubSeq(toMBDyn, 3, Len(toMBDyn))
  /\ reads' = reads + 1
  /\ UNCHANGED inAbandoned

(* recvn: all of a packet; at the end of the stream what is left of it, or  *)
(* nothing, and the drive is abandoned; without blocking, what is there is  *)
(* read, but it counts as a packet only when it is all of one.              *)
RecvAll ==
  /\ Len(toMBDyn) >= 2
  /\ buf' = SubSeq(toMBDyn, 1, 2) /\ values' = buf'
  /\ toMBDyn' = SubSeq(toMBDyn, 3, Len(toMBDyn))
  /\ reads' = reads + 1
  /\ UNCHANGED inAbandoned

RecvRest ==
  /\ Len(toMBDyn) = 1 /\ (Left \/ stream.bNonBlocking)
  /\ buf' = <<toMBDyn[1], buf[2]>> /\ toMBDyn' = <<>>
  /\ values' = IF Left THEN buf' ELSE values
  /\ UNCHANGED <<inAbandoned, reads>>

(* A mutation of RecvNothing that waits for a peer that has left.           *)
RecvNothingWaits ==
  /\ toMBDyn = <<>> /\ stream.bNonBlocking
  /\ inAbandoned' = Left
  /\ UNCHANGED <<buf, values, toMBDyn, reads>>

RecvNothing ==
  /\ toMBDyn = <<>> /\ (Left \/ stream.bNonBlocking)
  /\ inAbandoned' = Left
  /\ UNCHANGED <<buf, values, toMBDyn, reads>>

ServeIsDue == ~inAbandoned /\ InputCounter + 1 = stream.InputEvery

(* A mutation of ServePending that does not start to count again.           *)
ServePendingCountsOn ==
  IF ServeIsDue THEN /\ InputCounter' = InputCounter + 1
                     /\ RecvAll \/ RecvRest \/ RecvNothing
                ELSE /\ InputCounter' = IF inAbandoned THEN InputCounter ELSE InputCounter + 1
                     /\ UNCHANGED <<buf, values, inAbandoned, reads, toMBDyn>>

(* Without a packet to read, a drive that blocks makes SetTime wait.        *)
ServePending ==
  IF ServeIsDue THEN /\ InputCounter' = 0
                     /\ RecvAll \/ RecvRest \/ RecvNothing
                ELSE /\ InputCounter' = IF inAbandoned THEN InputCounter ELSE InputCounter + 1
                     /\ UNCHANGED <<buf, values, inAbandoned, reads, toMBDyn>>

-----------------------------------------------------------------------------
(* A peer that has left may still seem to receive; when it does not, the    *)
(* run goes on without the element (see also SendBreaks).                   *)
Transmit ==
  IF Left THEN /\ outAbandoned' \in {FALSE, ~stream.bAbortIfBroken}
               /\ UNCHANGED <<sent, toPeer>>
          ELSE /\ sent' = sent + 1
               /\ toPeer' = Append(toPeer, sent + 1)
               /\ UNCHANGED outAbandoned

SendIsDue == ~outAbandoned /\ OutputCounter + 1 = stream.OutputEvery

Send_ ==
  IF SendIsDue THEN OutputCounter' = 0 /\ Transmit
               ELSE /\ OutputCounter' = IF outAbandoned THEN OutputCounter
                                                        ELSE OutputCounter + 1
                    /\ UNCHANGED <<outAbandoned, sent, toPeer>>

ElementAfterPredict == IF stream.bSendAfterPredict THEN Send_ ELSE UNCHANGED element

ElementAfterConvergence ==
  IF ~stream.bSendAfterPredict THEN Send_ ELSE UNCHANGED element

(* SetTime at the initial time, before the values of the model are set, and *)
(* SetValue of the element, after which the derivatives are not to be sent. *)
InitialSetTime ==
  /\ start = "SetTime"
  /\ ServePending
  /\ start' = "SetValue"
  /\ UNCHANGED <<vars, stream, element, peer>>

(* A mutation of SetValue that lets the derivatives count.                  *)
SetValueCountsDerivatives ==
  /\ start = "SetValue"
  /\ IF stream.bSendFirst /\ ~stream.bSendAfterPredict THEN Transmit
                                                       ELSE UNCHANGED <<outAbandoned, sent, toPeer>>
  /\ OutputCounter' = 0
  /\ start' = "Run"
  /\ UNCHANGED <<vars, stream, drive, peer>>

SetValue ==
  /\ start = "SetValue"
  /\ IF stream.bSendFirst /\ ~stream.bSendAfterPredict THEN Transmit
                                                       ELSE UNCHANGED <<outAbandoned, sent, toPeer>>
  /\ OutputCounter' = -1
  /\ start' = "Run"
  /\ UNCHANGED <<vars, stream, drive, peer>>

(* The steps, with what they call of the drive and of the element.          *)
Serving == SetTime /\ ServePending /\ UNCHANGED element
ServingAndPredicting ==
  (AdvanceStages \/ NextStage) /\ ServePending /\ ElementAfterPredict
Predicting == (AdvanceStepN \/ AdvanceSingleStep) /\ UNCHANGED drive /\ ElementAfterPredict
Converging ==
  (DerivativesConverge \/ StageConverges) /\ UNCHANGED drive /\ ElementAfterConvergence
OtherSteps ==
  /\ \/ SolveDerivatives \/ RepeatDerivatives \/ DerivativesConvergeOnSolution
     \/ BeginStep \/ ConvergesOnSolution \/ RepeatStep \/ EndRun
  /\ UNCHANGED <<drive, element>>

(* select times out, or send fails and the element aborts: an exception     *)
(* that nobody catches.                                                     *)
DriveTimesOut ==
  /\ start = "SetTime" \/ pc \in {"SetTime", "SetTimeAgain", "Stage"}
     \/ (pc = "Advance" /\ Type \in DOMAIN StageN)
  /\ stream.bTimeout /\ ServeIsDue /\ toMBDyn = <<>> /\ ~Left
  /\ pc' = "End" /\ start' = "Run"
  /\ UNCHANGED <<solver, stage, vectors, model, integrator, read, accepted, thrown,
                 stream, drive, element, peer>>

SendBreaks ==
  /\ \/ start = "SetValue" /\ stream.bSendFirst /\ ~stream.bSendAfterPredict
     \/ pc = "Solve" /\ ~stream.bSendAfterPredict /\ SendIsDue
     \/ pc = "Advance" /\ stream.bSendAfterPredict /\ SendIsDue
  /\ Left /\ stream.bAbortIfBroken
  /\ pc' = "End" /\ start' = "Run"
  /\ UNCHANGED <<solver, stage, vectors, model, integrator, read, accepted, thrown,
                 stream, drive, element, peer>>

Steps ==
  /\ start = "Run"
  /\ Serving \/ ServingAndPredicting \/ Predicting \/ Converging \/ OtherSteps
  /\ UNCHANGED <<stream, start, peer>>

MBDyn == InitialSetTime \/ SetValue \/ Steps \/ DriveTimesOut \/ SendBreaks

-----------------------------------------------------------------------------
(* The peer sends a packet, at once or in two parts; the number is that of  *)
(* the last output it has read, or, of a source, only another one.          *)
PutFirst ==
  /\ at = "Put" /\ pc # "End" /\ Len(toMBDyn) + 2 <= 2 * MaxAhead
  /\ put' = IF stream.peer = "spring" THEN seen ELSE 1 - put
  /\ toMBDyn' = IF stream.bWhole THEN toMBDyn \o Packet(put') ELSE Append(toMBDyn, Part(put', 1))
  /\ at' = IF stream.bWhole THEN "Get" ELSE "PutRest"
  /\ UNCHANGED seen

PutRest ==
  /\ at = "PutRest" /\ pc # "End"
  /\ toMBDyn' = Append(toMBDyn, Part(put, 2))
  /\ at' = "Get"
  /\ UNCHANGED <<put, seen>>

(* spring.py waits for an output before it sends again.                     *)
Get ==
  /\ at = "Get"
  /\ toPeer # <<>>
  /\ seen' = toPeer[1] /\ toPeer' = Tail(toPeer)
  /\ at' = "Put"
  /\ UNCHANGED put

GetNothing ==
  /\ at = "Get" /\ stream.peer = "source"
  /\ at' = "Put"
  /\ UNCHANGED <<put, seen, toPeer>>

(* A source may leave in the middle of a packet; spring.py, which hands a   *)
(* packet over in one call, leaves after it.                                *)
Leave ==
  /\ \/ at \in {"Put", "Get"} /\ stream.mayLeave
     \/ at = "PutRest" /\ stream.mayLeave /\ stream.peer = "source"
     \/ at \in {"Put", "PutRest"} /\ pc = "End"
     \/ at = "Get" /\ toPeer = <<>> /\ pc = "End"
  /\ at' = "Left"
  /\ UNCHANGED <<put, seen, toPeer>>

Reading == (Get \/ GetNothing) /\ UNCHANGED toMBDyn
Writing == (PutFirst \/ PutRest) /\ UNCHANGED toPeer
Leaving == Leave /\ UNCHANGED toMBDyn

Peer ==
  /\ Reading \/ Writing \/ Leaving
  /\ UNCHANGED <<vars, stream, start, InputCounter, buf, values, inAbandoned, reads,
                 OutputCounter, outAbandoned, sent>>

StreamNext == MBDyn \/ Peer

StreamSpec == StreamInit /\ [][StreamNext]_allVars

(* Each is a process that runs until it has to wait.                        *)
StreamFairSpec == StreamSpec /\ WF_allVars(MBDyn) /\ WF_allVars(Peer)

-----------------------------------------------------------------------------
Parts == [of : Nat, half : {1, 2}]

StreamTypeOK ==
  /\ <<input, stream>> \in Configurations
  /\ start \in {"SetTime", "SetValue", "Run"}
  /\ InputCounter \in -1 .. stream.InputEvery - 1
  /\ buf \in Parts \X Parts /\ values \in Parts \X Parts
  /\ inAbandoned \in BOOLEAN /\ reads \in Nat
  /\ OutputCounter \in -1 .. stream.OutputEvery - 1
  /\ outAbandoned \in BOOLEAN /\ sent \in Nat
  /\ toMBDyn \in Seq(Parts) /\ Len(toMBDyn) <= 2 * MaxAhead
  /\ toPeer \in Seq(1 .. sent)
  /\ at \in {"Put", "PutRest", "Get", "Left"}
  /\ put \in Nat /\ seen \in 0 .. sent

(* No integrator in use has more than one stage.  AfterConvergence is       *)
(* called at the end of each stage, so a multistage integrator makes the    *)
(* element count stages, whatever "output every" says of steps.             *)
OneStageSteps ==
  /\ DummySteps > 0 => input.DummyType \notin DOMAIN StageN
  /\ input.RegularType \notin DOMAIN StageN

(* "Output only every OutputEvery steps" (Send_): sent after convergence,   *)
(* outputs are counted by accepted steps; neither the derivatives ("do not  *)
(* send derivatives", SetValue), however often they are repeated, nor the   *)
(* attempts that fail send or count.  With stages: see OneStageSteps.       *)
OutputsFollowSteps ==
  pc = "Idle" /\ thrown = {} /\ OneStageSteps /\ ~stream.bSendAfterPredict /\ ~Left =>
    sent = (IF stream.bSendFirst THEN 1 ELSE 0) + step \div stream.OutputEvery

(* What MBDyn and spring.py are to each other, when they fit: one output,   *)
(* one input computed from it, in turn, each input whole, and none missing  *)
(* (spring.py, "compute force for next step"); Exchange.                    *)
IsExchange == stream.peer = "spring"
Motion == IF IsExchange THEN sent ELSE 0
Answered ==
  IF ~IsExchange THEN 0 ELSE IF values = Packet(values[1].of) THEN values[1].of ELSE -1

Abstract ==
  INSTANCE Exchange WITH motion <- Motion, answered <- Answered, over <- pc = "End"

KeepsPromise == Abstract!Spec

(* Neither program waits for the other forever, whoever leaves or fails     *)
(* (ServePending, Send_).                                                   *)
StreamedRunEnds == <>(pc = "End" /\ Left)

(* The comment of SocketStreamDrive: input is expected at the initial time  *)
(* and then every InputEvery steps (drivers.tex, "input every", alike).     *)
ReadsOncePerStep ==
  pc = "Idle" /\ ~inAbandoned /\ stream.InputEvery = 1 =>
    reads = (IF stream.bReceiveFirst THEN 1 ELSE 0) + step
=============================================================================
