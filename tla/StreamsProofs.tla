---------------------------- MODULE StreamsProofs ----------------------------
(* Theorems about Streams, for every configuration, number of steps and of  *)
(* attempts, and however many packets may be on their way.                  *)
EXTENDS Streams, StepIntegrationProofs

-----------------------------------------------------------------------------
\* The steps of MBDyn are those of StepIntegration, or break off.

BreaksOff ==
  /\ pc' = "End"
  /\ UNCHANGED <<solver, stage, vectors, model, integrator, read, accepted, thrown>>

LEMMA StepOfMBDyn ==
  ASSUME [StreamNext]_allVars
  PROVE  [Next]_vars \/ BreaksOff
<1>1. ASSUME UNCHANGED allVars PROVE UNCHANGED vars
  BY <1>1 DEF allVars
<1>2. ASSUME Peer PROVE UNCHANGED vars
  BY <1>2 DEF Peer
<1>3. ASSUME InitialSetTime \/ SetValue PROVE UNCHANGED vars
  BY <1>3 DEF InitialSetTime, SetValue
<1>4. ASSUME DriveTimesOut \/ SendBreaks PROVE BreaksOff
  BY <1>4 DEF DriveTimesOut, SendBreaks, BreaksOff
<1>5. ASSUME Steps PROVE Next
  BY <1>5 DEF Steps, Serving, ServingAndPredicting, Predicting, Converging, OtherSteps,
       Next, Prepare, Advance
<1> QED
  BY <1>1, <1>2, <1>3, <1>4, <1>5 DEF StreamNext, MBDyn

(* What drive and element have to do with the steps.                        *)
LEMMA StreamControlInit == StreamInit => ControlInv
  BY InitControl DEF StreamInit

LEMMA StreamControlNext ==
  ASSUME ControlInv, [StreamNext]_allVars
  PROVE  ControlInv'
<1>1. CASE [Next]_vars
  BY <1>1, NextControl
<1>2. CASE BreaksOff
  <2>1. UNCHANGED <<input, step, try, stage, CurrStep, time, thrown>> /\ pc' = "End"
    BY <1>2 DEF BreaksOff, solver, model
  <2>2. /\ DummySteps' = DummySteps /\ Type' = Type /\ Stages' = Stages
    BY <2>1, SameStep
  <2>3. Ranges'
    BY <2>1, <2>2 DEF Ranges, ControlInv
  <2>4. Phases'
    BY <2>1, <2>2 DEF Phases, ControlInv, InStep, Attempting
  <2> QED
    BY <2>3, <2>4 DEF ControlInv
<1> QED
  BY <1>1, <1>2, StepOfMBDyn

LEMMA StreamControl == StreamSpec => []ControlInv
<1>1. StreamInit => ControlInv
  BY StreamControlInit
<1>2. ControlInv /\ [StreamNext]_allVars => ControlInv'
  BY StreamControlNext
<1> QED
  BY <1>1, <1>2, PTL DEF StreamSpec

-----------------------------------------------------------------------------
\* Types.

ConfigurationInv ==
  /\ <<input, stream>> \in Configurations
  /\ start \in {"SetTime", "SetValue", "Run"}

DriveInv ==
  /\ InputCounter \in -1 .. stream.InputEvery - 1
  /\ buf \in Parts \X Parts /\ values \in Parts \X Parts
  /\ inAbandoned \in BOOLEAN /\ reads \in Nat

ElementInv ==
  /\ OutputCounter \in -1 .. stream.OutputEvery - 1
  /\ outAbandoned \in BOOLEAN /\ sent \in Nat

(* A peer that is about to send the rest of a packet has left room for it;  *)
(* a source numbers its packets alternately.                                *)
PeerInv ==
  /\ at \in {"Put", "PutRest", "Get", "Left"}
  /\ put \in Nat
  /\ stream.peer # "spring" => put \in 0 .. 1

ChannelInv ==
  /\ toMBDyn \in Seq(Parts) /\ Len(toMBDyn) <= 2 * MaxAhead
  /\ at = "PutRest" => Len(toMBDyn) + 1 <= 2 * MaxAhead
  /\ toPeer \in Seq(1 .. sent)
  /\ seen \in 0 .. sent

StreamTypeInv == ConfigurationInv /\ DriveInv /\ ElementInv /\ PeerInv /\ ChannelInv

LEMMA StreamTypeIsOK == StreamTypeInv => StreamTypeOK
  BY DEF StreamTypeInv, ConfigurationInv, DriveInv, ElementInv, PeerInv, ChannelInv,
         StreamTypeOK

LEMMA ConfigurationFacts ==
  ASSUME ConfigurationInv
  PROVE  /\ stream \in ConfigurationType /\ input \in InputType /\ input \in Inputs
         /\ stream.InputEvery \in Nat /\ stream.InputEvery > 0
         /\ stream.OutputEvery \in Nat /\ stream.OutputEvery > 0
         /\ stream.peer \in {"spring", "source"}
         /\ MaxAhead \in Nat /\ MaxAhead > 0
<1>1. PICK c \in Configurations : c = <<input, stream>>
  BY DEF ConfigurationInv
<1>2. c[1] = input /\ c[2] = stream
  BY <1>1
<1>3. stream \in ConfigurationType /\ input \in InputType
  BY <1>1, <1>2, StreamAssumption
<1>4. input \in Inputs
  BY <1>1, <1>2, StreamAssumption
<1> QED
  BY <1>3, <1>4, StreamAssumption DEF ConfigurationType

LEMMA PacketsAreParts ==
  /\ \A n \in Nat : Part(n, 1) \in Parts /\ Part(n, 2) \in Parts
  /\ \A n \in Nat : /\ Packet(n) \in Parts \X Parts /\ Packet(n) \in Seq(Parts)
                    /\ Len(Packet(n)) = 2
                    /\ Packet(n)[1] = Part(n, 1) /\ Packet(n)[2] = Part(n, 2)
  BY DEF Part, Packet, Parts

(* The first packet of a stream, and what is left of it.                    *)
LEMMA FirstPacket ==
  ASSUME NEW q \in Seq(Parts), Len(q) >= 2
  PROVE  /\ SubSeq(q, 1, 2) \in Parts \X Parts
         /\ SubSeq(q, 1, 2) = <<q[1], q[2]>>
         /\ SubSeq(q, 3, Len(q)) \in Seq(Parts)
         /\ Len(SubSeq(q, 3, Len(q))) = Len(q) - 2
<1>1. q[1] \in Parts /\ q[2] \in Parts
  OBVIOUS
<1>2. SubSeq(q, 1, 2) = <<q[1], q[2]>>
  <2>1. /\ SubSeq(q, 1, 2) \in Seq(Parts)
        /\ Len(SubSeq(q, 1, 2)) = IF 1 <= 2 THEN 2 - 1 + 1 ELSE 0
        /\ \A k \in 1 .. 2 - 1 + 1 : SubSeq(q, 1, 2)[k] = q[1 + k - 1]
    BY SubSeqProperties
  <2> DEFINE u == SubSeq(q, 1, 2)
  <2>2. u \in Seq(Parts) /\ Len(u) = 2 /\ u[1] = q[1] /\ u[2] = q[2]
    BY <2>1
  <2> HIDE DEF u
  <2>3. u = <<q[1], q[2]>>
    BY <2>2, <1>1
  <2> QED
    BY <2>3 DEF u
<1>3. SubSeq(q, 3, Len(q)) \in Seq(Parts) /\ Len(SubSeq(q, 3, Len(q))) = Len(q) - 2
  <2> DEFINE j == Len(q)
  <2>1. j \in Int /\ j >= 2 /\ \A k \in 3 .. j : q[k] \in Parts
    OBVIOUS
  <2> HIDE DEF j
  <2>2. SubSeq(q, 3, j) \in Seq(Parts) /\ Len(SubSeq(q, 3, j)) = IF 3 <= j THEN j - 3 + 1 ELSE 0
    BY <2>1, SubSeqProperties
  <2>3. (IF 3 <= j THEN j - 3 + 1 ELSE 0) = j - 2
    BY <2>1
  <2> QED
    BY <2>2, <2>3 DEF j
<1> QED
  BY <1>1, <1>2, <1>3

LEMMA StreamTypeInit == StreamInit => StreamTypeInv
<1> SUFFICES ASSUME StreamInit PROVE StreamTypeInv
  OBVIOUS
<1>1. ConfigurationInv
  <2>1. PICK c \in Configurations : input = c[1] /\ stream = c[2]
    BY DEF StreamInit
  <2>2. c = <<c[1], c[2]>>
    BY StreamAssumption
  <2> QED
    BY <2>1, <2>2 DEF ConfigurationInv, StreamInit
<1>2. stream.InputEvery \in Nat \ {0} /\ stream.OutputEvery \in Nat \ {0}
  BY <1>1, ConfigurationFacts
<1>3. DriveInv
  <2>1. InitialValues \in Parts \X Parts
    BY PacketsAreParts DEF InitialValues
  <2>2. /\ InputCounter = IF stream.bReceiveFirst THEN stream.InputEvery - 1 ELSE -1
        /\ buf = InitialValues /\ values = InitialValues
        /\ inAbandoned = FALSE /\ reads = 0
    BY DEF StreamInit
  <2>3. InputCounter \in -1 .. stream.InputEvery - 1
    BY <1>2, <2>2
  <2> QED
    BY <2>1, <2>2, <2>3 DEF DriveInv
<1>6. ElementInv
  <2>1. OutputCounter = 0 /\ outAbandoned = FALSE /\ sent = 0
    BY DEF StreamInit
  <2>2. OutputCounter \in -1 .. stream.OutputEvery - 1 /\ sent \in Nat
    BY <1>2, <2>1
  <2> QED
    BY <2>1, <2>2 DEF ElementInv
<1>4. PeerInv
  BY DEF StreamInit, PeerInv
<1>5. ChannelInv
  BY <1>1, ConfigurationFacts DEF StreamInit, ChannelInv
<1> QED
  BY <1>1, <1>3, <1>4, <1>5, <1>6 DEF StreamTypeInv

(* What one call of ServePending does.                                      *)
LEMMA ServeCases ==
  ASSUME ServePending
  PROVE  \/ ServeIsDue /\ InputCounter' = 0 /\ RecvAll
         \/ ServeIsDue /\ InputCounter' = 0 /\ RecvRest
         \/ ServeIsDue /\ InputCounter' = 0 /\ RecvNothing
         \/ /\ ~ServeIsDue
            /\ InputCounter' = IF inAbandoned THEN InputCounter ELSE InputCounter + 1
            /\ UNCHANGED <<buf, values, inAbandoned, reads, toMBDyn>>
<1>1. CASE ServeIsDue
  <2>1. InputCounter' = 0 /\ (RecvAll \/ RecvRest \/ RecvNothing)
    BY <1>1 DEF ServePending
  <2> QED
    BY <1>1, <2>1
<1>2. CASE ~ServeIsDue
  BY <1>2 DEF ServePending
<1> QED
  BY <1>1, <1>2

LEMMA ServeTypes ==
  ASSUME StreamTypeInv, ServePending \/ UNCHANGED drive, UNCHANGED stream
  PROVE  DriveInv' /\ toMBDyn' \in Seq(Parts) /\ Len(toMBDyn') <= Len(toMBDyn)
<1> DEFINE j == Len(toMBDyn)
<1>1. /\ stream.InputEvery \in Nat \ {0} /\ InputCounter \in -1 .. stream.InputEvery - 1
      /\ buf \in Parts \X Parts /\ values \in Parts \X Parts
      /\ inAbandoned \in BOOLEAN /\ reads \in Nat
      /\ toMBDyn \in Seq(Parts) /\ j \in Nat
  BY ConfigurationFacts DEF StreamTypeInv, DriveInv, ChannelInv
<1>2. stream.InputEvery' = stream.InputEvery
  OBVIOUS
<1>3. 0 \in -1 .. stream.InputEvery - 1
  BY <1>1
<1>4. CASE UNCHANGED drive
  <2>1. UNCHANGED <<InputCounter, buf, values, inAbandoned, reads, toMBDyn>>
    BY <1>4 DEF drive
  <2> QED
    BY <1>1, <1>2, <2>1 DEF DriveInv
<1>5. CASE InputCounter' = 0 /\ RecvAll
  <2>1. /\ j >= 2 /\ buf' = SubSeq(toMBDyn, 1, 2) /\ values' = buf'
        /\ toMBDyn' = SubSeq(toMBDyn, 3, j) /\ reads' = reads + 1
        /\ UNCHANGED inAbandoned
    BY <1>5 DEF RecvAll
  <2>2. /\ SubSeq(toMBDyn, 1, 2) \in Parts \X Parts
        /\ SubSeq(toMBDyn, 3, j) \in Seq(Parts) /\ Len(SubSeq(toMBDyn, 3, j)) = j - 2
    BY <1>1, <2>1, FirstPacket
  <2>3. buf' \in Parts \X Parts /\ values' \in Parts \X Parts
    BY <2>1, <2>2
  <2>4. toMBDyn' \in Seq(Parts) /\ Len(toMBDyn') = j - 2
    BY <2>1, <2>2
  <2>5. Len(toMBDyn') <= Len(toMBDyn)
    <3> HIDE DEF j
    <3>1. Len(toMBDyn') <= j
      BY <1>1, <2>4
    <3> QED
      BY <3>1 DEF j
  <2>6. reads' \in Nat
    BY <1>1, <2>1
  <2> QED
    BY <1>1, <1>2, <1>3, <1>5, <2>1, <2>3, <2>4, <2>5, <2>6 DEF DriveInv
<1>6. CASE InputCounter' = 0 /\ RecvRest
  <2>1. /\ j = 1 /\ buf' = <<toMBDyn[1], buf[2]>> /\ toMBDyn' = <<>>
        /\ values' \in {buf', values} /\ UNCHANGED <<inAbandoned, reads>>
    BY <1>6, Zenon DEF RecvRest
  <2>6. buf[2] \in Parts
    BY <1>1
  <2>7. 1 \in 1 .. Len(toMBDyn)
    BY <2>1
  <2>8. toMBDyn[1] \in Parts
    BY <1>1, <2>7, ElementOfSeq
  <2>5. toMBDyn[1] \in Parts /\ buf[2] \in Parts
    BY <2>6, <2>8
  <2>2. buf' \in Parts \X Parts
    BY <2>1, <2>5
  <2>3. values' \in Parts \X Parts
    BY <1>1, <2>1, <2>2
  <2>4. toMBDyn' \in Seq(Parts) /\ Len(toMBDyn') <= Len(toMBDyn)
    BY <2>1
  <2> QED
    BY <1>1, <1>2, <1>3, <1>6, <2>1, <2>2, <2>3, <2>4 DEF DriveInv
<1>7. CASE InputCounter' = 0 /\ RecvNothing
  <2>1. inAbandoned' \in BOOLEAN /\ UNCHANGED <<buf, values, toMBDyn, reads>>
    BY <1>7 DEF RecvNothing, Left
  <2> QED
    BY <1>1, <1>2, <1>3, <1>7, <2>1 DEF DriveInv
<1>8. CASE /\ ~ServeIsDue
           /\ InputCounter' = IF inAbandoned THEN InputCounter ELSE InputCounter + 1
           /\ UNCHANGED <<buf, values, inAbandoned, reads, toMBDyn>>
  <2>1. InputCounter' \in -1 .. stream.InputEvery - 1
    BY <1>1, <1>8 DEF ServeIsDue
  <2> QED
    BY <1>1, <1>2, <1>8, <2>1 DEF DriveInv
<1> QED
  BY <1>4, <1>5, <1>6, <1>7, <1>8, ServeCases

LEMMA TransmitTypes ==
  ASSUME StreamTypeInv, Transmit \/ UNCHANGED <<outAbandoned, sent, toPeer>>
  PROVE  /\ outAbandoned' \in BOOLEAN /\ sent' \in Nat /\ sent' >= sent
         /\ toPeer' \in Seq(1 .. sent')
<1>1. /\ outAbandoned \in BOOLEAN /\ sent \in Nat /\ toPeer \in Seq(1 .. sent)
      /\ stream.bAbortIfBroken \in BOOLEAN
  BY ConfigurationFacts DEF StreamTypeInv, ElementInv, ChannelInv, ConfigurationType
<1>2. CASE UNCHANGED <<outAbandoned, sent, toPeer>>
  BY <1>1, <1>2
<1>3. CASE Transmit /\ Left
  <2>1. outAbandoned' \in {FALSE, ~stream.bAbortIfBroken} /\ UNCHANGED <<sent, toPeer>>
    BY <1>3 DEF Transmit
  <2>2. outAbandoned' \in BOOLEAN
    BY <1>1, <2>1
  <2> QED
    BY <1>1, <2>1, <2>2
<1>4. CASE Transmit /\ ~Left
  <2>1. sent' = sent + 1 /\ toPeer' = Append(toPeer, sent + 1) /\ UNCHANGED outAbandoned
    BY <1>4 DEF Transmit
  <2>2. toPeer \in Seq(1 .. sent + 1) /\ sent + 1 \in 1 .. sent + 1
    BY <1>1
  <2>3. Append(toPeer, sent + 1) \in Seq(1 .. sent + 1)
    BY <2>2, AppendProperties
  <2> QED
    BY <1>1, <2>1, <2>3
<1> QED
  BY <1>2, <1>3, <1>4

LEMMA SendTypes ==
  ASSUME StreamTypeInv, Send_ \/ UNCHANGED element, UNCHANGED stream
  PROVE  ElementInv' /\ sent' >= sent /\ toPeer' \in Seq(1 .. sent')
<1>1. /\ stream.OutputEvery \in Nat \ {0} /\ OutputCounter \in -1 .. stream.OutputEvery - 1
      /\ sent \in Nat /\ outAbandoned \in BOOLEAN
  BY ConfigurationFacts DEF StreamTypeInv, ElementInv
<1>2. stream.OutputEvery' = stream.OutputEvery
  OBVIOUS
<1>3. Transmit \/ UNCHANGED <<outAbandoned, sent, toPeer>>
  BY DEF Send_, element
<1>4. OutputCounter' \in -1 .. stream.OutputEvery - 1
  <2>1. CASE UNCHANGED element
    BY <1>1, <2>1 DEF element
  <2>2. CASE Send_
    <3>1. \/ OutputCounter' = 0
          \/ OutputCounter' = OutputCounter
          \/ OutputCounter' = OutputCounter + 1 /\ OutputCounter + 1 # stream.OutputEvery
      BY <2>2 DEF Send_, SendIsDue
    <3> QED
      BY <1>1, <3>1
  <2> QED
    BY <2>1, <2>2
<1> QED
  BY <1>2, <1>3, <1>4, TransmitTypes DEF ElementInv

LEMMA StreamTypeNext ==
  ASSUME StreamTypeInv, [StreamNext]_allVars
  PROVE  StreamTypeInv'
<1>1. /\ stream.peer \in {"spring", "source"} /\ MaxAhead \in Nat /\ MaxAhead > 0
      /\ stream.OutputEvery \in Nat \ {0}
  BY ConfigurationFacts DEF StreamTypeInv
<1>2. /\ toMBDyn \in Seq(Parts) /\ Len(toMBDyn) \in Nat /\ Len(toMBDyn) <= 2 * MaxAhead
      /\ at = "PutRest" => Len(toMBDyn) + 1 <= 2 * MaxAhead
      /\ toPeer \in Seq(1 .. sent) /\ seen \in 0 .. sent /\ sent \in Nat
      /\ put \in Nat /\ at \in {"Put", "PutRest", "Get", "Left"}
  BY DEF StreamTypeInv, ChannelInv, PeerInv, ElementInv
(* A step of MBDyn that serves the drive or not and sends or not.           *)
<1>3. ASSUME ServePending \/ UNCHANGED drive, Send_ \/ UNCHANGED element,
             UNCHANGED <<input, stream, peer>>, start' \in {"SetTime", "SetValue", "Run"}
      PROVE  StreamTypeInv'
  <2>1. UNCHANGED stream /\ UNCHANGED <<at, put, seen>>
    BY <1>3 DEF peer
  <2>2. DriveInv' /\ toMBDyn' \in Seq(Parts) /\ Len(toMBDyn') <= Len(toMBDyn)
    BY <1>3, <2>1, ServeTypes
  <2>3. ElementInv' /\ sent' >= sent /\ toPeer' \in Seq(1 .. sent')
    BY <1>3, <2>1, SendTypes
  <2>4. ConfigurationInv'
    BY <1>3 DEF StreamTypeInv, ConfigurationInv
  <2>5. PeerInv'
    BY <2>1 DEF StreamTypeInv, PeerInv
  <2>6. ChannelInv'
    <3>1. Len(toMBDyn') \in Nat /\ sent' \in Nat
      BY <2>2, <2>3 DEF ElementInv
    <3> DEFINE n == Len(toMBDyn)
               m == Len(toMBDyn')
    <3>2. m <= n /\ m \in Nat /\ n \in Nat /\ n <= 2 * MaxAhead
          /\ (at = "PutRest" => n + 1 <= 2 * MaxAhead)
      BY <1>2, <2>2, <3>1
    <3> HIDE DEF n, m
    <3>3. m <= 2 * MaxAhead /\ (at = "PutRest" => m + 1 <= 2 * MaxAhead)
      BY <1>1, <3>2
    <3>4. seen' \in 0 .. sent'
      BY <1>2, <2>1, <2>3, <3>1
    <3> QED
      BY <2>1, <2>2, <2>3, <3>3, <3>4 DEF ChannelInv, m
  <2> QED
    BY <2>2, <2>3, <2>4, <2>5, <2>6 DEF StreamTypeInv
<1>4. ASSUME UNCHANGED allVars PROVE StreamTypeInv'
  <2>1. UNCHANGED <<drive, element, input, stream, peer, start>>
    BY <1>4 DEF allVars, streamVars, vars, solver
  <2> QED
    BY <1>3, <2>1 DEF StreamTypeInv, ConfigurationInv
<1>5. ASSUME InitialSetTime PROVE StreamTypeInv'
  BY <1>3, <1>5 DEF InitialSetTime, vars, solver
<1>6. ASSUME SetValue PROVE StreamTypeInv'
  <2>1. /\ UNCHANGED <<input, stream, drive, peer>> /\ start' = "Run" /\ OutputCounter' = -1
        /\ Transmit \/ UNCHANGED <<outAbandoned, sent, toPeer>>
    BY <1>6 DEF SetValue, vars, solver
  <2>2. /\ outAbandoned' \in BOOLEAN /\ sent' \in Nat /\ sent' >= sent
        /\ toPeer' \in Seq(1 .. sent')
    BY <2>1, TransmitTypes
  <2>3. OutputCounter' \in -1 .. stream'.OutputEvery - 1
    BY <1>1, <2>1
  <2>4. DriveInv' /\ ConfigurationInv' /\ PeerInv' /\ ElementInv'
    BY <2>1, <2>2, <2>3 DEF StreamTypeInv, DriveInv, ConfigurationInv, PeerInv, ElementInv,
         drive, peer
  <2>5. UNCHANGED <<toMBDyn, at, seen>>
    BY <2>1 DEF drive, peer
  <2>6. seen' \in 0 .. sent'
    BY <1>2, <2>2, <2>5
  <2>7. ChannelInv'
    BY <2>2, <2>5, <2>6 DEF StreamTypeInv, ChannelInv
  <2> QED
    BY <2>4, <2>7 DEF StreamTypeInv
<1>7. ASSUME Steps PROVE StreamTypeInv'
  <2>1. UNCHANGED <<stream, start, peer>> /\ UNCHANGED input
    BY <1>7 DEF Steps, Serving, ServingAndPredicting, Predicting, Converging, OtherSteps,
         SetTime, AdvanceStages, NextStage, AdvanceStepN, AdvanceSingleStep,
         DerivativesConverge, StageConverges, SolveDerivatives, RepeatDerivatives,
         DerivativesConvergeOnSolution, BeginStep, ConvergesOnSolution, RepeatStep, EndRun,
         solver
  <2>2. /\ ServePending \/ UNCHANGED drive
        /\ Send_ \/ UNCHANGED element
    BY <1>7 DEF Steps, Serving, ServingAndPredicting, Predicting, Converging, OtherSteps,
         ElementAfterPredict, ElementAfterConvergence
  <2>3. start' \in {"SetTime", "SetValue", "Run"}
    BY <2>1 DEF StreamTypeInv, ConfigurationInv
  <2> QED
    BY <1>3, <2>1, <2>2, <2>3
<1>8. ASSUME DriveTimesOut \/ SendBreaks PROVE StreamTypeInv'
  BY <1>3, <1>8 DEF DriveTimesOut, SendBreaks, solver
(* The peer: only its own variables and the channels change.                *)
<1>9. ASSUME Peer, PeerInv', ChannelInv' PROVE StreamTypeInv'
  <2>1. UNCHANGED <<input, stream, start, InputCounter, buf, values, inAbandoned, reads,
                    OutputCounter, outAbandoned, sent>>
    BY <1>9 DEF Peer, vars, solver
  <2>2. ConfigurationInv' /\ DriveInv' /\ ElementInv'
    BY <2>1 DEF StreamTypeInv, ConfigurationInv, DriveInv, ElementInv
  <2> QED
    BY <1>9, <2>2 DEF StreamTypeInv
<1>10. ASSUME Peer PROVE PeerInv' /\ ChannelInv'
  <2>0. UNCHANGED <<stream, sent>>
    BY <1>10 DEF Peer
  <2>1. CASE PutFirst /\ UNCHANGED toPeer
    <3>1. /\ at = "Put" /\ Len(toMBDyn) + 2 <= 2 * MaxAhead
          /\ put' = IF stream.peer = "spring" THEN seen ELSE 1 - put
          /\ toMBDyn' = IF stream.bWhole THEN toMBDyn \o Packet(put')
                                         ELSE Append(toMBDyn, Part(put', 1))
          /\ at' = IF stream.bWhole THEN "Get" ELSE "PutRest"
          /\ UNCHANGED <<seen, toPeer>>
      BY <2>1 DEF PutFirst
    <3>2. stream.peer # "spring" => put \in 0 .. 1
      BY DEF StreamTypeInv, PeerInv
    <3>3. put' \in Nat /\ (stream.peer # "spring" => put' \in 0 .. 1)
      BY <1>2, <3>1, <3>2
    <3>4. PeerInv'
      BY <2>0, <3>1, <3>3 DEF PeerInv
    <3> DEFINE n == Len(toMBDyn)
    <3>5. n \in Nat /\ n + 2 <= 2 * MaxAhead
      BY <1>2, <3>1
    <3>6. toMBDyn \o Packet(put') \in Seq(Parts) /\ Len(toMBDyn \o Packet(put')) = n + 2
      <4>1. Packet(put') \in Seq(Parts) /\ Len(Packet(put')) = 2
        BY <3>3, PacketsAreParts
      <4>2. /\ toMBDyn \o Packet(put') \in Seq(Parts)
            /\ Len(toMBDyn \o Packet(put')) = Len(toMBDyn) + Len(Packet(put'))
        BY <4>1, <1>2, ConcatProperties
      <4> QED
        BY <4>1, <4>2
    <3>7. Append(toMBDyn, Part(put', 1)) \in Seq(Parts)
          /\ Len(Append(toMBDyn, Part(put', 1))) = n + 1
      <4>1. Part(put', 1) \in Parts
        BY <3>3, PacketsAreParts
      <4> QED
        BY <4>1, <1>2, AppendProperties
    <3>8. toMBDyn' \in Seq(Parts) /\ Len(toMBDyn') \in {n + 1, n + 2}
          /\ (at' = "PutRest" => Len(toMBDyn') = n + 1)
      BY <3>1, <3>6, <3>7
    <3> DEFINE m == Len(toMBDyn')
    <3>9. m \in {n + 1, n + 2} /\ (at' = "PutRest" => m = n + 1)
      BY <3>8
    <3> HIDE DEF n, m
    <3>10. m <= 2 * MaxAhead /\ (at' = "PutRest" => m + 1 <= 2 * MaxAhead)
      BY <1>1, <3>5, <3>9
    <3>11. ChannelInv'
      BY <1>2, <2>0, <3>1, <3>8, <3>10 DEF ChannelInv, m
    <3> QED
      BY <3>4, <3>11
  <2>2. CASE PutRest /\ UNCHANGED toPeer
    <3>1. /\ at = "PutRest" /\ toMBDyn' = Append(toMBDyn, Part(put, 2)) /\ at' = "Get"
          /\ UNCHANGED <<put, seen, toPeer>>
      BY <2>2 DEF PutRest
    <3>2. PeerInv'
      BY <2>0, <3>1 DEF StreamTypeInv, PeerInv
    <3>3. Part(put, 2) \in Parts
      BY <1>2, PacketsAreParts
    <3>4. toMBDyn' \in Seq(Parts) /\ Len(toMBDyn') = Len(toMBDyn) + 1
      BY <1>2, <3>1, <3>3, AppendProperties
    <3>5. ChannelInv'
      BY <1>2, <2>0, <3>1, <3>4 DEF ChannelInv
    <3> QED
      BY <3>2, <3>5
  <2>3. CASE Get /\ UNCHANGED toMBDyn
    <3>1. /\ toPeer # <<>> /\ seen' = toPeer[1] /\ toPeer' = Tail(toPeer) /\ at' = "Put"
          /\ UNCHANGED <<put, toMBDyn>>
      BY <2>3 DEF Get
    <3>2. PeerInv'
      BY <2>0, <3>1 DEF StreamTypeInv, PeerInv
    <3>3. toPeer[1] \in 1 .. sent /\ toPeer' \in Seq(1 .. sent)
      BY <1>2, <3>1, HeadTailProperties
    <3>4. ChannelInv'
      BY <1>2, <2>0, <3>1, <3>3 DEF ChannelInv
    <3> QED
      BY <3>2, <3>4
  <2>4. CASE (GetNothing \/ Leave) /\ UNCHANGED toMBDyn
    <3>1. at' \in {"Put", "Left"} /\ UNCHANGED <<put, seen, toPeer, toMBDyn>>
      BY <2>4 DEF GetNothing, Leave
    <3>2. PeerInv'
      BY <2>0, <3>1 DEF StreamTypeInv, PeerInv
    <3>3. ChannelInv'
      BY <1>2, <2>0, <3>1 DEF ChannelInv
    <3> QED
      BY <3>2, <3>3
  <2> QED
    BY <1>10, <2>1, <2>2, <2>3, <2>4 DEF Peer, Reading, Writing, Leaving
<1> QED
  BY <1>4, <1>5, <1>6, <1>7, <1>8, <1>9, <1>10 DEF StreamNext, MBDyn

(* Drive, element and peer hold values of their types in every reachable    *)
(* state: the counters of "input every" and "output every", which are       *)
(* unsigned, stay below their periods and start from one below zero; what a *)
(* peer reads was sent (ServePending, Send_).                               *)
THEOREM StreamTypeCorrect == StreamSpec => []StreamTypeOK
<1>1. StreamInit => StreamTypeInv
  BY StreamTypeInit
<1>2. StreamTypeInv /\ [StreamNext]_allVars => StreamTypeInv'
  BY StreamTypeNext
<1>3. StreamTypeInv => StreamTypeOK
  BY StreamTypeIsOK
<1> QED
  BY <1>1, <1>2, <1>3, PTL DEF StreamSpec

-----------------------------------------------------------------------------
\* Outputs are counted by what is accepted.

(* Counting by "output every": what has been sent and what is counted since *)
(* are the quotient and the rest.                                           *)
LEMMA QuotientAndRest ==
  ASSUME NEW e \in Nat, e > 0, NEW n \in Nat
  PROVE  /\ n % e \in 0 .. e - 1
         /\ n = (e * (n \div e)) + (n % e)
         /\ n \div e \in Int
  OBVIOUS

LEMMA NextQuotient ==
  ASSUME NEW e \in Nat, e > 0, NEW n \in Nat
  PROVE  (n + 1) \div e = IF (n % e) + 1 = e THEN n \div e + 1 ELSE n \div e
  OBVIOUS

LEMMA NextRest ==
  ASSUME NEW e \in Nat, e > 0, NEW n \in Nat
  PROVE  (n + 1) % e = IF (n % e) + 1 = e THEN 0 ELSE (n % e) + 1
<1>1. PICK q \in Int, r \in Int : q = n \div e /\ r = n % e /\ n = e * q + r /\ r \in 0 .. e - 1
  BY QuotientAndRest
<1>2. PICK u \in Int, v \in Int :
        u = (n + 1) \div e /\ v = (n + 1) % e /\ n + 1 = e * u + v /\ v \in 0 .. e - 1
  <2>1. n + 1 \in Nat
    OBVIOUS
  <2> QED
    BY <2>1, QuotientAndRest
<1>3. u = IF r + 1 = e THEN q + 1 ELSE q
  BY <1>1, <1>2, NextQuotient
<1>4. e * (q + 1) = e * q + e
  BY <1>1
<1>5. v = IF r + 1 = e THEN 0 ELSE r + 1
  BY <1>1, <1>2, <1>3, <1>4
<1> QED
  BY <1>1, <1>2, <1>5

(* Convergences up to now, one per stage of every accepted step.            *)
StagesOf(type) == IF type \in DOMAIN StageN THEN StageN[type] ELSE 1
Convergences ==
  IF IsDummy THEN step * StagesOf(input.DummyType)
  ELSE DummySteps * StagesOf(input.DummyType) + (step - DummySteps) * StagesOf(input.RegularType)

(* The convergences of the first n steps.                                   *)
Done(n) ==
  IF n <= DummySteps THEN n * StagesOf(input.DummyType)
  ELSE DummySteps * StagesOf(input.DummyType) + (n - DummySteps) * StagesOf(input.RegularType)

LEMMA DoneByStep ==
  ASSUME input \in Inputs, step \in Nat
  PROVE  /\ Convergences = Done(step)
         /\ Done(step) \in Nat
         /\ step = 0 => Done(step) = 0
         /\ step > 0 => Done(step - 1) \in Nat /\ Done(step) = Done(step - 1) + Stages
<1> DEFINE a == StagesOf(input.DummyType)
           b == StagesOf(input.RegularType)
           d == DummySteps
<1>1. d \in Nat
  BY NumbersOfInput
<1>2. a \in Nat /\ b \in Nat
  BY StageTable DEF StagesOf
<1>3. Convergences = Done(step)
  BY DEF Convergences, Done, IsDummy
<1>4. Stages = IF step <= d THEN a ELSE b
  BY DEF Stages, Type, StagesOf, IsDummy
<1>5. \A n \in Int : Done(n) = IF n <= d THEN n * a ELSE d * a + (n - d) * b
  BY DEF Done
<1> HIDE DEF a, b, d
<1>6. \A n \in Nat : n * a \in Nat /\ n * b \in Nat /\ (n > 0 => n * a = (n - 1) * a + a)
                     /\ (n > 0 => n * b = (n - 1) * b + b) /\ (n > 0 => n - 1 \in Nat)
  BY <1>2
<1>7. \A n \in Nat : Done(n) \in Nat
  <2> SUFFICES ASSUME NEW n \in Nat PROVE Done(n) \in Nat
    OBVIOUS
  <2>1. CASE n <= d
    BY <1>5, <1>6, <2>1
  <2>2. CASE n > d
    <3>1. n - d \in Nat
      BY <1>1, <2>2
    <3>2. (n - d) * b \in Nat /\ d * a \in Nat
      BY <1>1, <1>6, <3>1
    <3> QED
      BY <1>1, <1>5, <2>2, <3>2
  <2> QED
    BY <1>1, <2>1, <2>2
<1>8. 0 * a = 0
  BY <1>2
<1>9. ASSUME step > 0 PROVE Done(step) = Done(step - 1) + Stages /\ Done(step - 1) \in Nat
  <2>1. step - 1 \in Nat
    BY <1>9
  <2>2. CASE step <= d
    BY <1>1, <1>4, <1>5, <1>6, <1>7, <1>9, <2>1, <2>2
  <2>3. CASE step > d
    <3>1. step - d \in Nat /\ step - d > 0 /\ (step - d) - 1 = (step - 1) - d
      BY <1>1, <2>3
    <3>2. (step - d) * b = ((step - 1) - d) * b + b
      BY <1>6, <3>1
    <3>3. Done(step) = d * a + (step - d) * b /\ Stages = b
      BY <1>1, <1>4, <1>5, <2>3
    <3>4. CASE step - 1 > d
      <4>1. Done(step - 1) = d * a + ((step - 1) - d) * b
        BY <1>1, <1>5, <2>1, <3>4
      <4>2. d * a \in Nat /\ ((step - 1) - d) * b \in Nat
        BY <1>1, <1>6, <2>1, <3>4
      <4> QED
        BY <1>2, <3>2, <3>3, <4>1, <4>2
    <3>5. CASE step - 1 = d
      <4>1. Done(step - 1) = d * a /\ d * a \in Nat
        BY <1>1, <1>5, <1>6, <3>5
      <4>2. ((step - 1) - d) * b = 0
        BY <1>2, <3>5, <1>1
      <4> QED
        BY <1>2, <3>2, <3>3, <4>1, <4>2
    <3> QED
      BY <1>1, <2>3, <3>4, <3>5
  <2> QED
    BY <1>1, <2>2, <2>3
<1> QED
  BY <1>1, <1>3, <1>5, <1>7, <1>8, <1>9

(* The convergences so far that count.                                      *)
Counted ==
  CASE pc = "Idle" -> Done(step)
    [] pc \in Attempting -> Done(step - 1)
    [] pc = "Solve" -> Done(step - 1) + (stage - 1)
    [] pc = "Stage" -> Done(step - 1) + stage

First == IF stream.bSendFirst THEN 1 ELSE 0

(* The derivatives leave the counter at nothing, and from there it and the  *)
(* number of outputs are rest and quotient of what counts.                  *)
Outputs ==
  /\ start # "Run" => sent = 0
  /\ start = "Run" /\ pc \in {"Derivatives", "Derived"} => sent = First /\ OutputCounter = -1
  /\ pc = "Idle" \/ pc \in InStep =>
       sent = First + Counted \div stream.OutputEvery /\ OutputCounter = Counted % stream.OutputEvery

(* An element is abandoned only when its peer has left.                     *)
OutputInv ==
  /\ start # "Run" => pc = "Derivatives"
  /\ outAbandoned => Left
  /\ ~stream.bSendAfterPredict /\ thrown = {} /\ ~Left => Outputs

LEMMA OutputInit ==
  ASSUME StreamInit
  PROVE  OutputInv
<1>1. start = "SetTime" /\ outAbandoned = FALSE /\ sent = 0
  BY DEF StreamInit
<1>2. pc = "Derivatives"
  BY DEF StreamInit, Init
<1> QED
  BY <1>1, <1>2 DEF OutputInv, Outputs, InStep

(* What has been sent and counted is kept while nothing is sent, and while  *)
(* what counts stays the same.                                              *)
LEMMA OutputsKept ==
  ASSUME Outputs, UNCHANGED <<stream, start, sent, OutputCounter>>,
         pc' \in {"Derivatives", "Derived"} => pc \in {"Derivatives", "Derived"},
         pc' = "Idle" \/ pc' \in InStep => (pc = "Idle" \/ pc \in InStep) /\ Counted' = Counted
  PROVE  Outputs'
<1> DEFINE c == Counted
<1>1. (pc' = "Idle" \/ pc' \in InStep) => (pc = "Idle" \/ pc \in InStep) /\ c' = c
  OBVIOUS
<1>2. /\ start # "Run" => sent = 0
      /\ start = "Run" /\ pc \in {"Derivatives", "Derived"} => sent = First /\ OutputCounter = -1
      /\ pc = "Idle" \/ pc \in InStep =>
           sent = First + c \div stream.OutputEvery /\ OutputCounter = c % stream.OutputEvery
  BY DEF Outputs
<1>3. First' = First
  BY DEF First
<1> HIDE DEF c
<1>4. /\ start' # "Run" => sent' = 0
      /\ start' = "Run" /\ pc' \in {"Derivatives", "Derived"} =>
           sent' = First' /\ OutputCounter' = -1
      /\ pc' = "Idle" \/ pc' \in InStep =>
           /\ sent' = First' + c' \div stream'.OutputEvery
           /\ OutputCounter' = c' % stream'.OutputEvery
  BY <1>1, <1>2, <1>3
<1> QED
  BY <1>4 DEF Outputs, c

(* A convergence counts for one.                                            *)
LEMMA OutputsConverge ==
  ASSUME StreamTypeInv, Outputs, ~Left, ~outAbandoned, Send_, UNCHANGED stream,
         pc \in InStep, pc' = "Idle" \/ pc' \in InStep, start = "Run", start' = "Run",
         Counted \in Nat, Counted' = Counted + 1
  PROVE  Outputs'
<1> DEFINE c == Counted
           e == stream.OutputEvery
<1>1. e \in Nat /\ e > 0 /\ c \in Nat /\ c' = c + 1 /\ e' = e
  BY ConfigurationFacts DEF StreamTypeInv
<1>2. sent = First + c \div e /\ OutputCounter = c % e
  BY DEF Outputs
<1>3. First' = First /\ First \in Nat
  BY DEF First
<1>4. IF OutputCounter + 1 = e THEN OutputCounter' = 0 /\ sent' = sent + 1
                               ELSE OutputCounter' = OutputCounter + 1 /\ sent' = sent
  BY DEF Send_, SendIsDue, Transmit
<1> HIDE DEF c, e
<1>5. /\ (c + 1) \div e = IF (c % e) + 1 = e THEN c \div e + 1 ELSE c \div e
      /\ (c + 1) % e = IF (c % e) + 1 = e THEN 0 ELSE (c % e) + 1
      /\ c \div e \in Int
  BY <1>1, NextQuotient, NextRest, QuotientAndRest
<1>6. sent' = First' + (c + 1) \div e /\ OutputCounter' = (c + 1) % e
  BY <1>2, <1>3, <1>4, <1>5
<1>7. sent' = First' + c' \div e' /\ OutputCounter' = c' % e'
  BY <1>1, <1>6
<1>8. pc' \notin {"Derivatives", "Derived"}
  BY DEF InStep
<1> QED
  BY <1>7, <1>8 DEF Outputs, c, e

(* What counts, and what the steps make of it.                              *)
LEMMA CountedCases ==
  /\ pc = "Idle" => Counted = Done(step)
  /\ pc \in Attempting => Counted = Done(step - 1)
  /\ pc = "Solve" => Counted = Done(step - 1) + (stage - 1)
  /\ pc = "Stage" => Counted = Done(step - 1) + stage
<1>1. CASE pc = "Idle"
  BY <1>1 DEF Counted, Attempting
<1>2. CASE pc \in Attempting
  BY <1>2 DEF Counted, Attempting
<1>3. CASE pc = "Solve"
  BY <1>3 DEF Counted, Attempting
<1>4. CASE pc = "Stage"
  BY <1>4 DEF Counted, Attempting
<1> QED
  BY <1>1, <1>2, <1>3, <1>4

LEMMA CountedIsNatural ==
  ASSUME ControlInv, pc = "Idle" \/ pc \in InStep
  PROVE  Counted \in Nat
<1>1. input \in Inputs /\ step \in Nat /\ stage \in Nat /\ stage >= 1
  BY NumbersOfInput, NumbersOfStep, StepAssumption DEF ControlInv, Ranges
<1>2. pc \in InStep => step > 0
  BY DEF ControlInv, Phases
<1>3. Done(step) \in Nat /\ (step > 0 => Done(step - 1) \in Nat)
  BY <1>1, DoneByStep
<1>4. pc \in {"Idle", "Solve", "Stage"} \/ pc \in Attempting
  BY DEF InStep, Attempting
<1>5. pc # "Idle" => Done(step - 1) \in Nat
  BY <1>2, <1>3
<1> QED
  BY <1>1, <1>3, <1>4, <1>5, CountedCases

LEMMA DoneKept ==
  ASSUME UNCHANGED <<input, step>>
  PROVE  Done(step)' = Done(step) /\ Done(step - 1)' = Done(step - 1)
  BY SameStep DEF Done

(* A step of the run that keeps the element as it is keeps the outputs.     *)
LEMMA SilentSteps ==
  ASSUME ControlInv, OutputInv, start = "Run", thrown = {}, thrown' = {}, Outputs,
         UNCHANGED <<stream, start, sent, OutputCounter>>,
         \/ SolveDerivatives \/ RepeatDerivatives \/ DerivativesConvergeOnSolution
         \/ BeginStep \/ SetTime \/ AdvanceStepN \/ AdvanceSingleStep \/ AdvanceStages
         \/ NextStage \/ ConvergesOnSolution \/ RepeatStep \/ EndRun
  PROVE  Outputs'
<1>1. input \in Inputs /\ step \in Nat /\ stage \in Nat /\ stage >= 1
  BY NumbersOfInput, NumbersOfStep, StepAssumption DEF ControlInv, Ranges
<1>2. /\ pc' = "Idle" => Counted' = Done(step)'
      /\ pc' \in Attempting => Counted' = Done(step - 1)'
      /\ pc' = "Solve" => Counted' = Done(step - 1)' + (stage' - 1)
      /\ pc' = "Stage" => Counted' = Done(step - 1)' + stage'
  <2>1. (/\ pc = "Idle" => Counted = Done(step)
         /\ pc \in Attempting => Counted = Done(step - 1)
         /\ pc = "Solve" => Counted = Done(step - 1) + (stage - 1)
         /\ pc = "Stage" => Counted = Done(step - 1) + stage)'
    BY CountedCases, PTL
  <2> QED
    BY <2>1
<1>3. pc \in InStep => Done(step - 1) \in Nat /\ step > 0
  BY <1>1, DoneByStep DEF ControlInv, Phases
<1>4. CASE SolveDerivatives \/ RepeatDerivatives \/ EndRun
  <2>1. pc' \in {"Derivatives", "Derived"} => pc \in {"Derivatives", "Derived"}
    BY <1>4 DEF SolveDerivatives, RepeatDerivatives, EndRun
  <2>2. pc' \notin InStep \cup {"Idle"}
    BY <1>4 DEF SolveDerivatives, RepeatDerivatives, EndRun, InStep
  <2> QED
    BY <2>1, <2>2, OutputsKept
<1>5. CASE DerivativesConvergeOnSolution \/ ConvergesOnSolution
  BY <1>5 DEF DerivativesConvergeOnSolution, ConvergesOnSolution
<1>6. CASE BeginStep
  <2>1. pc = "Idle" /\ pc' = "SetTime" /\ UNCHANGED input /\ step' = step + 1
    BY <1>6 DEF BeginStep
  <2>2. step' - 1 = step
    BY <1>1, <2>1
  <2>3. Done(step - 1)' = Done(step)
    BY <2>1, <2>2 DEF Done, DummySteps
  <2>4. Counted = Done(step) /\ Counted' = Done(step - 1)'
    BY <1>2, <2>1, CountedCases DEF Attempting
  <2> QED
    BY <2>1, <2>3, <2>4, OutputsKept
<1>7. CASE SetTime
  <2>1. /\ UNCHANGED <<input, step>> /\ pc \in Attempting /\ pc' \in {"SetTimeAgain", "Advance"}
    BY <1>7 DEF SetTime, solver, Attempting
  <2>2. Counted = Done(step - 1) /\ Counted' = Done(step - 1)'
    BY <1>2, <2>1, CountedCases DEF Attempting
  <2> QED
    BY <2>1, <2>2, DoneKept, OutputsKept DEF Attempting, InStep
<1>8. CASE AdvanceStepN \/ AdvanceSingleStep \/ AdvanceStages
  <2>1. pc = "Advance" /\ pc' = "Solve" /\ UNCHANGED <<input, step, stage>>
    BY <1>8 DEF AdvanceStepN, AdvanceSingleStep, AdvanceStages, Predict, solver
  <2>2. stage = 1
    BY <2>1 DEF ControlInv, Phases, Attempting
  <2>3. Counted = Done(step - 1) /\ Counted' = Done(step - 1)' + (stage' - 1)
    BY <1>2, <2>1, CountedCases DEF Attempting
  <2>4. Done(step - 1)' = Done(step - 1) /\ Done(step - 1) \in Nat
    BY <1>3, <2>1, DoneKept DEF InStep
  <2>5. Counted' = Counted
    BY <2>1, <2>2, <2>3, <2>4
  <2> QED
    BY <2>1, <2>5, OutputsKept DEF InStep
<1>9. CASE NextStage
  <2>1. pc = "Stage" /\ pc' = "Solve" /\ UNCHANGED <<input, step>> /\ stage' = stage + 1
    BY <1>9 DEF NextStage, Predict, solver
  <2>2. Counted = Done(step - 1) + stage /\ Counted' = Done(step - 1)' + (stage' - 1)
    BY <1>2, <2>1, CountedCases
  <2>3. Done(step - 1)' = Done(step - 1) /\ Done(step - 1) \in Nat
    BY <1>3, <2>1, DoneKept DEF InStep
  <2>4. Counted' = Counted
    BY <1>1, <2>1, <2>2, <2>3
  <2> QED
    BY <2>1, <2>4, OutputsKept DEF InStep
(* Only steps of one stage are repeated.                                    *)
<1>10. CASE RepeatStep
  <2>1. /\ pc = "Solve" /\ pc' = "SetTime" /\ UNCHANGED <<input, step>> /\ stage' = 1
        /\ ~IsDummy /\ input.RegularType \in VariableStep
    BY <1>10 DEF RepeatStep
  <2>2. Stages = 1
    BY <1>1, <2>1, NumbersOfStep, Kinds DEF Type
  <2>3. stage = 1
    BY <1>1, <2>2 DEF ControlInv, Ranges
  <2>4. Counted = Done(step - 1) + (stage - 1) /\ Counted' = Done(step - 1)'
    BY <1>2, <2>1, CountedCases DEF Attempting
  <2>5. Done(step - 1)' = Done(step - 1) /\ Done(step - 1) \in Nat
    BY <1>3, <2>1, DoneKept DEF InStep
  <2>6. Counted' = Counted
    BY <2>3, <2>4, <2>5
  <2> QED
    BY <2>1, <2>6, OutputsKept DEF InStep
<1> QED
  BY <1>4, <1>5, <1>6, <1>7, <1>8, <1>9, <1>10

(* The convergences that send or count.                                     *)
LEMMA SendingSteps ==
  ASSUME ControlInv, StreamTypeInv, ~outAbandoned, ~Left, Outputs,
         start = "Run", start' = "Run", UNCHANGED stream, Send_,
         DerivativesConverge \/ StageConverges
  PROVE  Outputs'
<1>1. input \in Inputs /\ step \in Nat /\ stage \in Nat /\ stage >= 1 /\ Stages \in Nat
  BY NumbersOfInput, NumbersOfStep, StepAssumption DEF ControlInv, Ranges
<1>2. /\ pc' = "Idle" => Counted' = Done(step)'
      /\ pc' = "Stage" => Counted' = Done(step - 1)' + stage'
  <2>1. (/\ pc = "Idle" => Counted = Done(step)
         /\ pc \in Attempting => Counted = Done(step - 1)
         /\ pc = "Solve" => Counted = Done(step - 1) + (stage - 1)
         /\ pc = "Stage" => Counted = Done(step - 1) + stage)'
    BY CountedCases, PTL
  <2> QED
    BY <2>1
<1>3. CASE DerivativesConverge
  <2>1. pc = "Derived" /\ pc' = "Idle" /\ UNCHANGED <<input, step>>
    BY <1>3 DEF DerivativesConverge, solver
  <2>2. step = 0 /\ Done(step) = 0
    BY <1>1, <2>1, DoneByStep DEF ControlInv, Phases
  <2>3. Counted' = 0
    BY <1>2, <2>1, <2>2, DoneKept
  <2>4. sent = First /\ OutputCounter = -1
    BY <2>1 DEF Outputs
  <2> DEFINE e == stream.OutputEvery
  <2>5. e \in Nat /\ e > 0
    BY ConfigurationFacts DEF StreamTypeInv
  <2>6. sent' = sent /\ OutputCounter' = 0
    <3>1. ~SendIsDue
      BY <2>4, <2>5 DEF SendIsDue
    <3> QED
      BY <2>4, <3>1 DEF Send_
  <2> HIDE DEF e
  <2>7. 0 \div e = 0 /\ 0 % e = 0
    BY <2>5
  <2>8. First' = First /\ First \in Nat
    BY DEF First
  <2>9. sent' = First' + 0 \div e /\ OutputCounter' = 0 % e
    BY <2>4, <2>6, <2>7, <2>8
  <2>10. stream.OutputEvery' = stream.OutputEvery
    OBVIOUS
  <2> QED
    BY <2>1, <2>3, <2>9, <2>10 DEF Outputs, InStep, e
<1>4. CASE StageConverges
  <2>1. /\ pc = "Solve" /\ UNCHANGED <<input, step, stage>>
        /\ IF stage < Stages THEN pc' = "Stage" ELSE pc' = "Idle"
    BY <1>4 DEF StageConverges, solver, Accept
  <2>2. Counted = Done(step - 1) + (stage - 1)
    BY <2>1, CountedCases
  <2>3. step > 0 /\ Done(step - 1) \in Nat /\ Done(step) = Done(step - 1) + Stages
    BY <1>1, <2>1, DoneByStep DEF ControlInv, Phases, InStep
  <2>4. Done(step)' = Done(step) /\ Done(step - 1)' = Done(step - 1)
    BY <2>1, DoneKept
  <2>5. ~(stage < Stages) => stage = Stages
    BY <1>1 DEF ControlInv, Ranges
  <2>6. Counted' = Counted + 1 /\ Counted \in Nat
    BY <1>1, <1>2, <2>1, <2>2, <2>3, <2>4, <2>5
  <2>7. pc \in InStep /\ (pc' = "Idle" \/ pc' \in InStep)
    BY <2>1 DEF InStep
  <2> QED
    BY <2>6, <2>7, OutputsConverge
<1> QED
  BY <1>3, <1>4

LEMMA OutputNext ==
  ASSUME ControlInv, StreamTypeInv, OutputInv, [StreamNext]_allVars
  PROVE  OutputInv'
<1>1. thrown \subseteq thrown'
  <2>1. ASSUME Next PROVE thrown \subseteq thrown'
    BY <2>1 DEF Next, Prepare, Advance, SolveDerivatives, DerivativesConverge,
         RepeatDerivatives, DerivativesConvergeOnSolution, BeginStep, SetTime, AdvanceStepN,
         AdvanceSingleStep, AdvanceStages, NextStage, StageConverges, ConvergesOnSolution,
         RepeatStep, EndRun
  <2>2. ASSUME UNCHANGED vars \/ BreaksOff PROVE thrown \subseteq thrown'
    BY <2>2 DEF vars, BreaksOff
  <2> QED
    BY <2>1, <2>2, StepOfMBDyn
(* Who has left does not come back.                                         *)
<1>2. Left => Left' /\ UNCHANGED peer
  <2>1. ASSUME MBDyn PROVE UNCHANGED peer
    BY <2>1 DEF MBDyn, InitialSetTime, SetValue, Steps, DriveTimesOut, SendBreaks
  <2>2. ASSUME Peer, Left PROVE FALSE
    BY <2>2 DEF Peer, Reading, Writing, Leaving, Get, GetNothing, PutFirst, PutRest, Leave, Left
  <2>3. ASSUME UNCHANGED allVars PROVE UNCHANGED peer
    BY <2>3 DEF allVars, streamVars
  <2> QED
    BY <2>1, <2>2, <2>3 DEF StreamNext, peer, Left
<1>3. UNCHANGED stream
  BY DEF StreamNext, MBDyn, InitialSetTime, SetValue, Steps, DriveTimesOut, SendBreaks, Peer,
       allVars, streamVars
(* Nothing begins before the start is over.                                 *)
<1>4. start' # "Run" => pc' = "Derivatives"
  <2>1. ASSUME InitialSetTime \/ Peer \/ UNCHANGED allVars PROVE start' # "Run" => pc' = "Derivatives"
    <3>1. UNCHANGED pc /\ (start' # "Run" => start # "Run")
      BY <2>1 DEF InitialSetTime, Peer, allVars, streamVars, vars
    <3> QED
      BY <3>1 DEF OutputInv
  <2>2. ASSUME SetValue \/ DriveTimesOut \/ SendBreaks \/ Steps PROVE start' = "Run"
    BY <2>2 DEF SetValue, DriveTimesOut, SendBreaks, Steps
  <2> QED
    BY <2>1, <2>2 DEF StreamNext, MBDyn
<1>5. outAbandoned' => Left'
  <2>1. ASSUME Send_ \/ Transmit PROVE outAbandoned' => outAbandoned \/ Left
    BY <2>1 DEF Send_, Transmit
  <2>2. ASSUME UNCHANGED outAbandoned PROVE outAbandoned' => outAbandoned \/ Left
    BY <2>2
  <2>3. Send_ \/ Transmit \/ UNCHANGED outAbandoned
    <3>1. ASSUME Steps PROVE Send_ \/ UNCHANGED outAbandoned
      BY <3>1 DEF Steps, Serving, ServingAndPredicting, Predicting, Converging, OtherSteps,
           ElementAfterPredict, ElementAfterConvergence, element
    <3>2. ASSUME SetValue PROVE Transmit \/ UNCHANGED outAbandoned
      BY <3>2 DEF SetValue
    <3>3. ASSUME InitialSetTime \/ DriveTimesOut \/ SendBreaks PROVE UNCHANGED outAbandoned
      BY <3>3 DEF InitialSetTime, DriveTimesOut, SendBreaks, element
    <3>4. ASSUME Peer \/ UNCHANGED allVars PROVE UNCHANGED outAbandoned
      BY <3>4 DEF Peer, allVars, streamVars, element
    <3> QED
      BY <3>1, <3>2, <3>3, <3>4 DEF StreamNext, MBDyn
  <2>4. outAbandoned' => outAbandoned \/ Left
    BY <2>1, <2>2, <2>3
  <2> QED
    BY <1>2, <2>4 DEF OutputInv
<1>6. ASSUME ~stream.bSendAfterPredict', thrown' = {}, ~Left'
      PROVE  Outputs'
  <2>1. ~stream.bSendAfterPredict /\ thrown = {} /\ ~Left /\ ~outAbandoned /\ Outputs
    BY <1>1, <1>2, <1>3, <1>6 DEF OutputInv
  <2>2. ASSUME UNCHANGED <<input, step, stage, pc, start, sent, OutputCounter>> PROVE Outputs'
    <3>1. Stages' = Stages /\ Done(step)' = Done(step) /\ Done(step - 1)' = Done(step - 1)
      BY <2>2, SameStep, DoneKept
    <3>2. pc' = "Idle" \/ pc' \in InStep => Counted' = Counted
      BY <2>2, <3>1 DEF Counted, InStep
    <3> QED
      BY <1>3, <2>1, <2>2, <3>2, OutputsKept
  <2>3. CASE Peer \/ UNCHANGED allVars
    <3>1. UNCHANGED <<input, step, stage, pc, start, sent, OutputCounter>>
      BY <2>3 DEF Peer, allVars, streamVars, vars, solver, element
    <3> QED
      BY <2>2, <3>1
  <2>4. CASE InitialSetTime
    <3>1. start = "SetTime" /\ start' = "SetValue" /\ UNCHANGED <<pc, sent>>
      BY <2>4 DEF InitialSetTime, vars, element
    <3>2. pc' = "Derivatives" /\ sent' = 0
      BY <2>1, <3>1 DEF OutputInv, Outputs
    <3> QED
      BY <3>1, <3>2 DEF Outputs, InStep
  <2>5. CASE SetValue
    <3>1. start = "SetValue" /\ start' = "Run" /\ OutputCounter' = -1 /\ UNCHANGED pc
      BY <2>5 DEF SetValue, vars
    <3>2. pc' = "Derivatives" /\ sent = 0
      BY <2>1, <3>1 DEF OutputInv, Outputs
    <3>3. IF stream.bSendFirst THEN sent' = sent + 1 ELSE sent' = sent
      BY <2>1, <2>5 DEF SetValue, Transmit
    <3>4. sent' = First'
      BY <1>3, <3>2, <3>3 DEF First
    <3> QED
      BY <3>1, <3>2, <3>4 DEF Outputs, InStep
  <2>6. CASE DriveTimesOut \/ SendBreaks
    <3>1. pc' = "End" /\ start' = "Run"
      BY <2>6 DEF DriveTimesOut, SendBreaks
    <3> QED
      BY <3>1 DEF Outputs, InStep
  <2>7. CASE Steps
    <3>1. start = "Run" /\ start' = "Run" /\ UNCHANGED stream
      BY <2>7 DEF Steps
    <3>2. CASE Converging
      <4>1. Send_ /\ (DerivativesConverge \/ StageConverges)
        BY <2>1, <3>2 DEF Converging, ElementAfterConvergence
      <4> QED
        BY <2>1, <3>1, <4>1, SendingSteps
    <3>3. CASE Serving \/ ServingAndPredicting \/ Predicting \/ OtherSteps
      <4>1. UNCHANGED <<sent, OutputCounter>>
        BY <2>1, <3>3 DEF Serving, ServingAndPredicting, Predicting, OtherSteps,
             ElementAfterPredict, element
      <4>2. \/ SolveDerivatives \/ RepeatDerivatives \/ DerivativesConvergeOnSolution
            \/ BeginStep \/ SetTime \/ AdvanceStepN \/ AdvanceSingleStep \/ AdvanceStages
            \/ NextStage \/ ConvergesOnSolution \/ RepeatStep \/ EndRun
        BY <3>3 DEF Serving, ServingAndPredicting, Predicting, OtherSteps
      <4> QED
        BY <1>6, <2>1, <3>1, <4>1, <4>2, SilentSteps
    <3> QED
      BY <2>7, <3>2, <3>3 DEF Steps
  <2> QED
    BY <2>3, <2>4, <2>5, <2>6, <2>7 DEF StreamNext, MBDyn
<1> QED
  BY <1>4, <1>5, <1>6 DEF OutputInv

(* With integrators of one stage, the convergences are the accepted steps.  *)
LEMMA ConvergencesAreSteps ==
  ASSUME input \in Inputs, step \in Nat, OneStageSteps
  PROVE  Convergences = step
<1>1. DummySteps \in Nat
  BY NumbersOfInput
<1>2. StagesOf(input.RegularType) = 1
  BY DEF OneStageSteps, StagesOf
<1>3. CASE DummySteps = 0
  <2>1. StagesOf(input.DummyType) \in Nat
    BY StageTable DEF StagesOf
  <2>2. step * StagesOf(input.DummyType) = 0 \/ step > 0
    BY <2>1
  <2> QED
    BY <1>1, <1>2, <1>3, <2>1, <2>2 DEF Convergences, IsDummy
<1>4. CASE DummySteps > 0
  <2>1. StagesOf(input.DummyType) = 1
    BY <1>4 DEF OneStageSteps, StagesOf
  <2> QED
    BY <1>1, <1>2, <2>1 DEF Convergences, IsDummy
<1> QED
  BY <1>1, <1>3, <1>4

(* Outputs sent after convergence by integrators of one stage are one per   *)
(* OutputEvery accepted steps, after the first one if that is asked for:    *)
(* however often derivatives and steps are repeated, neither they nor the   *)
(* derivatives that converge send or count (SetValue, Send_).               *)
THEOREM OutputsFollow == StreamSpec => []OutputsFollowSteps
<1>1. StreamInit => StreamTypeInv /\ ControlInv /\ OutputInv
  BY StreamTypeInit, StreamControlInit, OutputInit
<1>2. StreamTypeInv /\ ControlInv /\ OutputInv /\ [StreamNext]_allVars
        => StreamTypeInv' /\ ControlInv' /\ OutputInv'
  BY StreamTypeNext, StreamControlNext, OutputNext
<1>3. ControlInv /\ OutputInv => OutputsFollowSteps
  <2> SUFFICES ASSUME ControlInv, OutputInv, pc = "Idle", thrown = {},
                      OneStageSteps, ~stream.bSendAfterPredict, ~Left
               PROVE  sent = First + step \div stream.OutputEvery
    BY DEF OutputsFollowSteps, First
  <2>1. sent = First + Counted \div stream.OutputEvery
    BY DEF OutputInv, Outputs
  <2>2. input \in Inputs /\ step \in Nat
    BY NumbersOfInput, StepAssumption DEF ControlInv, Ranges
  <2>3. Counted = step
    BY <2>2, CountedCases, DoneByStep, ConvergencesAreSteps
  <2> QED
    BY <2>1, <2>3
<1> QED
  BY <1>1, <1>2, <1>3, PTL DEF StreamSpec

-----------------------------------------------------------------------------
\* MBDyn and spring.py are an exchange.

(* Drive and element are in turn when the drive is served, and the element  *)
(* counts, as often between two packets: one input for one output.  Steps   *)
(* that are repeated, and dummy steps of which SetTime is called twice,     *)
(* serve more often.                                                        *)
InTurn(i, c) ==
  /\ ~c.bNonBlocking /\ ~i.bSolConvThrows
  /\ i.RegularType \notin VariableStep
  /\ i.iDummyStepsNumber <= StartUpSteps(i.DummyType)
  /\ IF i.RegularType \in DOMAIN StageN
     THEN /\ i.iDummyStepsNumber = 0 /\ ~c.bSendAfterPredict
          /\ c.InputEvery = StageN[i.RegularType] + 1
          /\ c.OutputEvery = StageN[i.RegularType]
     ELSE c.InputEvery = c.OutputEvery
  /\ IF c.bSendAfterPredict THEN c.OutputEvery > 1 ELSE c.bSendFirst => c.bReceiveFirst

ExchangesAreInTurn ==
  \A c \in Configurations : c[2].peer = "spring" => InTurn(c[1], c[2])

HasStages == input.RegularType \in DOMAIN StageN

(* One packet, or what it stands for, is somewhere: with MBDyn, which has   *)
(* read the answer to its last output; on its way to the peer; with the     *)
(* peer; half sent; on its way to MBDyn.                                    *)
Holds ==
  /\ at \in {"Get", "Left"} /\ values = Packet(sent)
  /\ toPeer = <<>> /\ toMBDyn = <<>>

Token ==
  \/ Holds
  \/ at \in {"Get", "Left"} /\ toPeer = <<sent>> /\ toMBDyn = <<>>
  \/ at \in {"Put", "Left"} /\ seen = sent /\ toPeer = <<>> /\ toMBDyn = <<>>
  \/ at = "PutRest" /\ put = sent /\ toPeer = <<>> /\ toMBDyn = <<Part(sent, 1)>>
  \/ at \in {"Get", "Left"} /\ toPeer = <<>> /\ toMBDyn = Packet(sent)

(* The counters of drive and element, from the initial time on.             *)
Following(n) == IF n + 1 = stream.InputEvery THEN 0 ELSE n + 1

StartInTurn ==
  /\ start = "SetTime" =>
       InputCounter = IF stream.bReceiveFirst THEN stream.InputEvery - 1 ELSE -1
  /\ start = "SetValue" => InputCounter = 0 /\ (stream.bReceiveFirst => Holds)
  /\ start = "Run" /\ pc \in {"Derivatives", "Derived"} => InputCounter = 0 /\ OutputCounter = -1

StagesInTurn ==
  /\ pc \in {"Idle", "SetTime"} => InputCounter = 0 /\ OutputCounter = 0
  /\ pc = "Advance" => InputCounter = 1 /\ OutputCounter = 0
  /\ pc = "Solve" => /\ OutputCounter = stage - 1
                     /\ stage < Stages => InputCounter = stage + 1
                     /\ stage = Stages => InputCounter = 0 /\ Holds
  /\ pc = "Stage" => OutputCounter = stage /\ InputCounter = stage + 1

StepsInTurn ==
  /\ pc \in {"Idle", "SetTime"} => InputCounter = OutputCounter /\ OutputCounter >= 0
  /\ pc \in {"Advance", "Solve"} =>
       /\ OutputCounter >= 0 /\ InputCounter = Following(OutputCounter)
       /\ OutputCounter + 1 = stream.OutputEvery => Holds

PredictionsInTurn ==
  /\ pc \in {"Idle", "SetTime", "Solve"} => InputCounter = Following(OutputCounter)
  /\ pc = "Advance" => /\ InputCounter = Following(Following(OutputCounter))
                       /\ InputCounter = 0 => Holds
  /\ pc \in {"Idle", "SetTime", "Advance", "Solve"} /\ OutputCounter + 1 = stream.OutputEvery
       => Holds

CountersInTurn ==
  /\ StartInTurn
  /\ HasStages => StagesInTurn
  /\ ~HasStages /\ ~stream.bSendAfterPredict => StepsInTurn
  /\ stream.bSendAfterPredict => PredictionsInTurn

ExchangeInv ==
  IsExchange =>
    /\ InTurn(input, stream)
    /\ start # "Run" => pc = "Derivatives"
    /\ inAbandoned \/ outAbandoned => Left
    /\ pc # "SetTimeAgain"
    /\ pc # "End" => Token
    /\ pc # "End" /\ ~Left => CountersInTurn

-----------------------------------------------------------------------------
\* The steps of a run that is in turn.

LEMMA InTurnFacts ==
  ASSUME ControlInv, ConfigurationInv, InTurn(input, stream)
  PROVE  /\ stream.InputEvery \in Nat /\ stream.InputEvery > 0
         /\ stream.OutputEvery \in Nat /\ stream.OutputEvery > 0
         /\ HasStages => /\ ~stream.bSendAfterPredict
                         /\ stream.OutputEvery > 1 /\ stream.InputEvery = stream.OutputEvery + 1
         /\ ~HasStages => stream.InputEvery = stream.OutputEvery
         /\ step > 0 /\ HasStages => Stages = stream.OutputEvery /\ Type \in DOMAIN StageN
         /\ step > 0 /\ ~HasStages => Stages = 1 /\ Type \notin DOMAIN StageN
         /\ step > 0 => ~(IsDummy /\ ~IsStartUp)
         /\ step \in Nat /\ stage \in 1 .. Stages /\ Stages \in Nat
<1>1. /\ input \in Inputs /\ step \in Nat /\ stage \in 1 .. Stages /\ Stages \in Nat
  BY NumbersOfInput, NumbersOfStep, StepAssumption DEF ControlInv, Ranges
<1>2. /\ stream.InputEvery \in Nat /\ stream.InputEvery > 0
      /\ stream.OutputEvery \in Nat /\ stream.OutputEvery > 0
      /\ input.iDummyStepsNumber \in Nat
      /\ input.DummyType \in RegularTypes
  BY ConfigurationFacts, NumbersOfInput, <1>1 DEF InputType
<1>3. /\ HasStages => /\ ~stream.bSendAfterPredict /\ input.iDummyStepsNumber = 0
                      /\ stream.OutputEvery = StageN[input.RegularType]
                      /\ stream.InputEvery = stream.OutputEvery + 1
      /\ ~HasStages => stream.InputEvery = stream.OutputEvery
      /\ input.iDummyStepsNumber <= StartUpSteps(input.DummyType)
  BY DEF InTurn, HasStages
<1>4. HasStages => StageN[input.RegularType] \in 2 .. 5
  BY StageTable DEF HasStages
<1>5. /\ StartUpSteps(input.DummyType) \in 0 .. 3
      /\ input.DummyType \notin DOMAIN StepN => StartUpSteps(input.DummyType) = 0
  BY <1>2, NumbersOfTypes
<1>6. /\ DummySteps <= StartUpSteps(input.DummyType) /\ DummySteps \in Nat
      /\ input.iDummyStepsNumber = 0 => DummySteps = 0
      /\ DummySteps > 0 => input.DummyType \in DOMAIN StepN
  BY <1>2, <1>3, <1>5 DEF DummySteps
<1>7. ASSUME step > 0, HasStages PROVE Stages = stream.OutputEvery /\ Type \in DOMAIN StageN
  <2>1. ~IsDummy
    BY <1>1, <1>3, <1>6, <1>7 DEF IsDummy
  <2> QED
    BY <1>3, <1>7, <2>1 DEF Stages, Type, HasStages
<1>8. ASSUME step > 0, ~HasStages PROVE Stages = 1 /\ Type \notin DOMAIN StageN
  <2>1. CASE IsDummy
    <3>1. input.DummyType \in DOMAIN StepN
      BY <1>1, <1>6, <1>8, <2>1 DEF IsDummy
    <3> QED
      BY <2>1, <3>1, Kinds DEF Stages, Type
  <2>2. CASE ~IsDummy
    BY <1>8, <2>2 DEF Stages, Type, HasStages
  <2> QED
    BY <2>1, <2>2
<1>9. ASSUME step > 0, IsDummy PROVE IsStartUp
  <2>1. step <= DummySteps /\ Place = step /\ Type = input.DummyType
    BY <1>9 DEF IsDummy, Place, Type
  <2> QED
    BY <1>1, <1>5, <1>6, <2>1 DEF IsStartUp
<1> QED
  BY <1>1, <1>2, <1>3, <1>4, <1>7, <1>8, <1>9

LEMMA PacketFacts ==
  ASSUME NEW n \in Nat
  PROVE  /\ Packet(n) = <<Part(n, 1), Part(n, 2)>>
         /\ Len(Packet(n)) = 2 /\ Packet(n) # <<>>
         /\ SubSeq(Packet(n), 1, 2) = Packet(n) /\ SubSeq(Packet(n), 3, Len(Packet(n))) = <<>>
         /\ <<>> \o Packet(n) = Packet(n)
         /\ Append(<<>>, Part(n, 1)) = <<Part(n, 1)>>
         /\ Append(<<Part(n, 1)>>, Part(n, 2)) = Packet(n)
         /\ Packet(n)[1].of = n
<1> DEFINE a == Part(n, 1)
           b == Part(n, 2)
<1>1. a \in Parts /\ b \in Parts /\ a.of = n
  BY PacketsAreParts DEF Part
<1>2. Packet(n) = <<a, b>>
  BY DEF Packet
<1> HIDE DEF a, b
<1>3. <<a, b>> \in Seq(Parts) /\ Len(<<a, b>>) = 2
  BY <1>1
<1>4. SubSeq(<<a, b>>, 1, 2) = <<a, b>>
  <2> DEFINE q == <<a, b>>
  <2>1. q \in Seq(Parts) /\ Len(q) >= 2 /\ q[1] = a /\ q[2] = b /\ q = <<a, b>>
    BY <1>1, <1>3
  <2> HIDE DEF q
  <2>2. SubSeq(q, 1, 2) = <<q[1], q[2]>>
    BY <2>1, FirstPacket
  <2> QED
    BY <2>1, <2>2
<1>5. SubSeq(<<a, b>>, 3, 2) = <<>>
  BY SubSeqEmpty
<1>6. <<>> \o <<a, b>> = <<a, b>> /\ Append(<<>>, a) = <<a>> /\ Append(<<a>>, b) = <<a, b>>
  <2>1. <<>> \o <<a, b>> = <<a, b>>
    BY <1>3, ConcatEmptySeq
  <2>2. Append(<<>>, a) = <<a>>
    BY <1>1
  <2>3. Append(<<a>>, b) = <<a, b>>
    <3> DEFINE q == Append(<<a>>, b)
    <3>1. <<a>> \in Seq(Parts) /\ Len(<<a>>) = 1 /\ <<a>>[1] = a
      BY <1>1
    <3>2. q \in Seq(Parts) /\ Len(q) = 2 /\ q[1] = a /\ q[2] = b
      BY <1>1, <3>1, AppendProperties
    <3> HIDE DEF q
    <3>3. q = <<a, b>>
      BY <1>1, <3>2
    <3> QED
      BY <3>3 DEF q
  <2> QED
    BY <2>1, <2>2, <2>3
<1>7. <<a, b>>[1] = a /\ <<a, b>> # <<>>
  BY <1>3
<1> QED
  BY <1>1, <1>2, <1>3, <1>4, <1>5, <1>6, <1>7 DEF a, b

(* Serving the drive moves the token only to MBDyn.                         *)
LEMMA TokenServed ==
  ASSUME StreamTypeInv, Token, ServePending, ~stream.bNonBlocking,
         UNCHANGED <<element, peer>>
  PROVE  /\ Token'
         /\ Holds => Holds'
         /\ ServeIsDue /\ ~Left => Holds'
         /\ inAbandoned' => inAbandoned \/ Left
         /\ UNCHANGED values \/ values' = Packet(sent)
<1>1. UNCHANGED <<sent, toPeer, at, put, seen>> /\ sent \in Nat
  BY DEF element, peer, StreamTypeInv, ElementInv
<1>2. CASE UNCHANGED <<values, toMBDyn>> /\ (inAbandoned' => inAbandoned \/ Left) /\ (~ServeIsDue \/ Left)
  <2>1. Token' /\ (Holds => Holds')
    BY <1>1, <1>2 DEF Token, Holds
  <2> QED
    BY <1>2, <2>1
<1>3. CASE RecvAll
  <2>1. /\ Len(toMBDyn) >= 2 /\ values' = SubSeq(toMBDyn, 1, 2) /\ UNCHANGED inAbandoned
        /\ toMBDyn' = SubSeq(toMBDyn, 3, Len(toMBDyn))
    BY <1>3 DEF RecvAll
  <2>2. toMBDyn # <<>> /\ toMBDyn # <<Part(sent, 1)>>
    BY <2>1
  <2>3. at \in {"Get", "Left"} /\ toPeer = <<>> /\ toMBDyn = Packet(sent) /\ ~Holds
    BY <2>2 DEF Token, Holds
  <2>4. values' = Packet(sent) /\ toMBDyn' = <<>>
    BY <1>1, <2>1, <2>3, PacketFacts
  <2>5. Holds'
    BY <1>1, <2>3, <2>4 DEF Holds
  <2> QED
    BY <2>1, <2>4, <2>5 DEF Token
<1>4. CASE RecvRest
  <2>1. Len(toMBDyn) = 1 /\ at = "Left"
    BY <1>4 DEF RecvRest, Left
  <2>2. toMBDyn # <<>>
    BY <2>1
  <2>3. toMBDyn # Packet(sent)
    <3> SUFFICES ASSUME toMBDyn = Packet(sent) PROVE FALSE
      OBVIOUS
    <3>1. Len(toMBDyn) = 2
      BY <1>1, PacketFacts
    <3> QED
      BY <2>1, <3>1
  <2> QED
    BY <2>1, <2>2, <2>3 DEF Token, Holds
<1>5. CASE RecvNothing
  <2>1. Left /\ UNCHANGED <<values, toMBDyn>>
    BY <1>5 DEF RecvNothing
  <2> QED
    BY <1>2, <2>1
<1> QED
  BY <1>2, <1>3, <1>4, <1>5, ServeCases

(* Sending moves it to the peer, or nobody is there.                        *)
LEMMA TokenSent ==
  ASSUME StreamTypeInv, Token, Transmit, ~Left => Holds, UNCHANGED <<drive, peer>>
  PROVE  /\ Token'
         /\ outAbandoned' => outAbandoned \/ Left
         /\ UNCHANGED sent \/ (sent' = sent + 1 /\ values = Packet(sent))
<1>1. UNCHANGED <<values, toMBDyn, at, put, seen>> /\ sent \in Nat
  BY DEF drive, peer, StreamTypeInv, ElementInv
<1>2. CASE Left
  <2>1. UNCHANGED <<sent, toPeer>>
    BY <1>2 DEF Transmit
  <2>2. Token'
    BY <1>1, <2>1 DEF Token, Holds
  <2> QED
    BY <1>2, <2>1, <2>2
<1>3. CASE ~Left
  <2>1. sent' = sent + 1 /\ toPeer' = Append(toPeer, sent + 1) /\ UNCHANGED outAbandoned
    BY <1>3 DEF Transmit
  <2>2. values = Packet(sent) /\ at \in {"Get", "Left"} /\ toPeer = <<>> /\ toMBDyn = <<>>
    BY <1>3 DEF Holds
  <2>3. toPeer' = <<sent'>>
    BY <1>1, <2>1, <2>2
  <2>4. Token'
    BY <1>1, <2>2, <2>3 DEF Token
  <2> QED
    BY <2>1, <2>2, <2>4
<1> QED
  BY <1>2, <1>3

(* The peer passes the token on, and does not take it from MBDyn.           *)
LEMMA TokenOfPeer ==
  ASSUME StreamTypeInv, Token, Peer, IsExchange, pc # "End"
  PROVE  /\ Token'
         /\ Holds => Holds'
<1>1. UNCHANGED <<values, sent, stream>> /\ sent \in Nat /\ seen \in Nat
  BY DEF Peer, StreamTypeInv, ElementInv, ChannelInv
<1>2. CASE PutFirst /\ UNCHANGED toPeer
  <2>1. /\ at = "Put" /\ put' = seen /\ UNCHANGED <<seen, toPeer>>
        /\ toMBDyn' = IF stream.bWhole THEN toMBDyn \o Packet(put') ELSE Append(toMBDyn, Part(put', 1))
        /\ at' = IF stream.bWhole THEN "Get" ELSE "PutRest"
    BY <1>2 DEF PutFirst, IsExchange
  <2>2. seen = sent /\ toPeer = <<>> /\ toMBDyn = <<>> /\ ~Holds
    BY <2>1 DEF Token, Holds
  <2>3. /\ put' = sent
        /\ toMBDyn' = IF stream.bWhole THEN Packet(sent) ELSE <<Part(sent, 1)>>
    BY <1>1, <2>1, <2>2, PacketFacts
  <2>4. Token'
    BY <1>1, <2>1, <2>2, <2>3 DEF Token
  <2> QED
    BY <2>2, <2>4
<1>3. CASE PutRest /\ UNCHANGED toPeer
  <2>1. /\ at = "PutRest" /\ at' = "Get" /\ toMBDyn' = Append(toMBDyn, Part(put, 2))
        /\ UNCHANGED <<put, seen, toPeer>>
    BY <1>3 DEF PutRest
  <2>2. put = sent /\ toPeer = <<>> /\ toMBDyn = <<Part(sent, 1)>> /\ ~Holds
    BY <2>1 DEF Token, Holds
  <2>3. toMBDyn' = Packet(sent)
    BY <1>1, <2>1, <2>2, PacketFacts
  <2>4. Token'
    BY <1>1, <2>1, <2>2, <2>3 DEF Token
  <2> QED
    BY <2>2, <2>4
<1>4. CASE Get /\ UNCHANGED toMBDyn
  <2>1. /\ at = "Get" /\ at' = "Put" /\ toPeer # <<>> /\ seen' = toPeer[1]
        /\ toPeer' = Tail(toPeer) /\ UNCHANGED <<put, toMBDyn>>
    BY <1>4 DEF Get
  <2>2. toPeer = <<sent>> /\ toMBDyn = <<>> /\ ~Holds
    BY <2>1 DEF Token, Holds
  <2>3. seen' = sent /\ toPeer' = <<>>
    BY <2>1, <2>2
  <2>4. Token'
    BY <1>1, <2>1, <2>2, <2>3 DEF Token
  <2> QED
    BY <2>2, <2>4
<1>5. CASE GetNothing
  BY <1>5 DEF GetNothing, IsExchange
<1>6. CASE Leave /\ UNCHANGED toMBDyn
  <2>2. at' = "Left" /\ UNCHANGED <<put, seen, toPeer, toMBDyn>> /\ at \in {"Put", "Get"}
    BY <1>6 DEF Leave, IsExchange
  <2> QED
    BY <1>1, <2>2 DEF Token, Holds
<1> QED
  BY <1>2, <1>3, <1>4, <1>5, <1>6 DEF Peer, Reading, Writing, Leaving

-----------------------------------------------------------------------------
\* The counters along the steps of MBDyn.

LEMMA FollowingFacts ==
  ASSUME StreamTypeInv, NEW n \in Int
  PROVE  /\ Following(n) \in Int
         /\ n + 1 = stream.InputEvery => Following(n) = 0
         /\ n + 1 # stream.InputEvery => Following(n) = n + 1
         /\ Following(-1) = 0
         /\ UNCHANGED stream => \A m \in Int : Following(m)' = Following(m)
<1>1. stream.InputEvery \in Nat /\ stream.InputEvery > 0
  BY ConfigurationFacts DEF StreamTypeInv
<1> QED
  BY <1>1 DEF Following

LEMMA ServeCounts ==
  ASSUME StreamTypeInv, ServePending, ~inAbandoned
  PROVE  InputCounter' = Following(InputCounter) /\ (ServeIsDue <=> InputCounter + 1 = stream.InputEvery)
  BY DEF ServePending, ServeIsDue, Following

LEMMA SendCounts ==
  ASSUME StreamTypeInv, Send_, ~outAbandoned
  PROVE  /\ SendIsDue <=> OutputCounter + 1 = stream.OutputEvery
         /\ SendIsDue => OutputCounter' = 0 /\ Transmit
         /\ ~SendIsDue => OutputCounter' = OutputCounter + 1 /\ UNCHANGED <<outAbandoned, sent, toPeer>>
  BY DEF Send_, SendIsDue

(* What a step of MBDyn does to the exchange.                               *)
Moves ==
  \/ UNCHANGED <<values, sent>>
  \/ UNCHANGED sent /\ values' = Packet(sent)
  \/ UNCHANGED values /\ sent' = sent + 1 /\ values = Packet(sent)

Passed ==
  /\ pc' # "SetTimeAgain"
  /\ inAbandoned' \/ outAbandoned' => Left
  /\ pc' # "End" => Token' /\ (~Left => CountersInTurn')
  /\ Moves

Going ==
  /\ ControlInv /\ StreamTypeInv /\ ExchangeInv
  /\ IsExchange /\ pc # "End"

LEMMA GoingFacts ==
  ASSUME Going
  PROVE  /\ InTurn(input, stream) /\ Token /\ (inAbandoned \/ outAbandoned => Left)
         /\ ~stream.bNonBlocking /\ ~input.bSolConvThrows
         /\ input.RegularType \notin VariableStep
         /\ pc # "SetTimeAgain" /\ (start # "Run" => pc = "Derivatives")
         /\ ~Left => CountersInTurn
         /\ InputCounter \in Int /\ OutputCounter \in Int /\ sent \in Nat
         /\ stream.InputEvery \in Nat /\ stream.InputEvery > 0
         /\ stream.OutputEvery \in Nat /\ stream.OutputEvery > 0
         /\ pc \in {"Derivatives", "Derived"} => step = 0
         /\ pc \in InStep => step > 0
         /\ pc \in {"SetTime", "Advance"} => stage = 1
<1>1. /\ InTurn(input, stream) /\ Token /\ (inAbandoned \/ outAbandoned => Left)
      /\ pc # "SetTimeAgain" /\ (start # "Run" => pc = "Derivatives")
      /\ ~Left => CountersInTurn
  BY DEF Going, ExchangeInv
<1>2. /\ ~stream.bNonBlocking /\ ~input.bSolConvThrows
      /\ input.RegularType \notin VariableStep
  BY <1>1 DEF InTurn
<1>3. ConfigurationInv
  BY DEF Going, StreamTypeInv
<1>4. /\ stream.InputEvery \in Nat /\ stream.InputEvery > 0
      /\ stream.OutputEvery \in Nat /\ stream.OutputEvery > 0
  BY <1>3, ConfigurationFacts
<1>5. InputCounter \in Int /\ OutputCounter \in Int /\ sent \in Nat
  BY <1>4 DEF Going, StreamTypeInv, DriveInv, ElementInv
<1>6. /\ pc \in {"Derivatives", "Derived"} => step = 0
      /\ pc \in InStep => step > 0
      /\ pc \in {"SetTime", "Advance"} => stage = 1
  BY DEF Going, ControlInv, Phases, Attempting
<1> QED
  BY <1>1, <1>2, <1>4, <1>5, <1>6

(* A step that serves nothing and sends nothing, once the counters are      *)
(* right.                                                                   *)
LEMMA QuietSteps ==
  ASSUME Going, UNCHANGED <<stream, drive, element, peer>>, pc' # "SetTimeAgain",
         pc' # "End" /\ ~Left => CountersInTurn'
  PROVE  Passed
<1>1. /\ UNCHANGED <<values, sent, toPeer, toMBDyn, inAbandoned, outAbandoned>>
      /\ UNCHANGED <<at, put, seen>>
  BY DEF drive, element, peer
<1>2. Token'
  BY <1>1, GoingFacts DEF Token, Holds
<1> QED
  BY <1>1, <1>2, GoingFacts DEF Passed, Moves

LEMMA HoldsKept ==
  ASSUME UNCHANGED <<drive, element, peer>>
  PROVE  Holds' = Holds
  BY DEF Holds, drive, element, peer

(* The initial time.                                                        *)
LEMMA PassedInitially ==
  ASSUME Going, InitialSetTime
  PROVE  Passed
<1>1. /\ start = "SetTime" /\ start' = "SetValue" /\ ServePending
      /\ UNCHANGED <<stream, element, peer, pc>>
  BY DEF InitialSetTime, vars
<1>2. pc = "Derivatives"
  BY <1>1, GoingFacts
<1>3. /\ Token' /\ (ServeIsDue /\ ~Left => Holds') /\ (inAbandoned' => inAbandoned \/ Left)
      /\ UNCHANGED values \/ values' = Packet(sent)
  BY <1>1, GoingFacts, TokenServed DEF Going
<1>4. UNCHANGED <<outAbandoned, sent>>
  BY <1>1 DEF element
<1>5. ASSUME ~Left PROVE CountersInTurn'
  <2>1. InputCounter = IF stream.bReceiveFirst THEN stream.InputEvery - 1 ELSE -1
    BY <1>1, <1>5, GoingFacts DEF CountersInTurn, StartInTurn
  <2>2. /\ InputCounter' = Following(InputCounter)
        /\ ServeIsDue <=> InputCounter + 1 = stream.InputEvery
    BY <1>1, <1>5, GoingFacts, ServeCounts DEF Going
  <2>3. InputCounter' = 0 /\ (stream.bReceiveFirst => ServeIsDue)
    <3>1. StreamTypeInv
      BY DEF Going
    <3>2. CASE stream.bReceiveFirst
      <4>1. InputCounter \in Int /\ InputCounter + 1 = stream.InputEvery
        BY <2>1, <3>2, GoingFacts
      <4> QED
        BY <2>2, <3>1, <4>1, FollowingFacts
    <3>3. CASE ~stream.bReceiveFirst
      BY <2>1, <2>2, <3>1, <3>3, FollowingFacts
    <3> QED
      BY <3>2, <3>3
  <2>4. StartInTurn'
    BY <1>1, <1>3, <1>5, <2>3 DEF StartInTurn
  <2> QED
    BY <1>1, <1>2, <2>4 DEF CountersInTurn, StagesInTurn, StepsInTurn, PredictionsInTurn
<1> QED
  BY <1>1, <1>2, <1>3, <1>4, <1>5, GoingFacts DEF Passed, Moves

LEMMA PassedFirst ==
  ASSUME Going, SetValue
  PROVE  Passed
<1>1. /\ start = "SetValue" /\ start' = "Run" /\ OutputCounter' = -1
      /\ UNCHANGED <<stream, drive, peer, pc>>
      /\ IF stream.bSendFirst /\ ~stream.bSendAfterPredict THEN Transmit
                                                           ELSE UNCHANGED <<outAbandoned, sent, toPeer>>
  BY DEF SetValue, vars
<1>2. pc = "Derivatives"
  BY <1>1, GoingFacts
<1>3. ~Left => InputCounter = 0 /\ (stream.bReceiveFirst => Holds)
  BY <1>1, GoingFacts DEF CountersInTurn, StartInTurn
<1>4. UNCHANGED <<InputCounter, values, inAbandoned, toMBDyn, at, put, seen>>
  BY <1>1 DEF drive, peer
<1>5. /\ Token' /\ (outAbandoned' => outAbandoned \/ Left)
      /\ UNCHANGED sent \/ (sent' = sent + 1 /\ values = Packet(sent))
  <2>1. CASE stream.bSendFirst /\ ~stream.bSendAfterPredict
    <3>1. stream.bReceiveFirst
      BY <2>1, GoingFacts DEF InTurn
    <3> QED
      BY <1>1, <1>3, <2>1, <3>1, GoingFacts, TokenSent DEF Going
  <2>2. CASE ~(stream.bSendFirst /\ ~stream.bSendAfterPredict)
    <3>1. UNCHANGED <<outAbandoned, sent, toPeer>>
      BY <1>1, <2>2
    <3>2. Token'
      BY <1>4, <3>1, GoingFacts DEF Token, Holds
    <3> QED
      BY <3>1, <3>2
  <2> QED
    BY <2>1, <2>2
<1>6. ~Left => CountersInTurn'
  BY <1>1, <1>2, <1>3, <1>4 DEF CountersInTurn, StartInTurn, StagesInTurn, StepsInTurn,
                                PredictionsInTurn
<1> QED
  BY <1>1, <1>2, <1>4, <1>5, <1>6, GoingFacts DEF Passed, Moves

(* The drive is served at the end time of the step.                         *)
LEMMA PassedServing ==
  ASSUME Going, start = "Run", UNCHANGED <<stream, start, peer>>, Serving
  PROVE  Passed
<1>1. SetTime /\ ServePending /\ UNCHANGED element
  BY DEF Serving
<1>2. /\ pc = "SetTime" /\ UNCHANGED <<input, step, stage>>
      /\ pc' = IF IsDummy /\ ~IsStartUp THEN "SetTimeAgain" ELSE "Advance"
  <2>1. pc \in {"SetTime", "SetTimeAgain"} /\ pc # "SetTimeAgain"
    BY <1>1, GoingFacts DEF SetTime
  <2> QED
    BY <1>1, <2>1 DEF SetTime, solver
<1>3. step > 0
  BY <1>2, GoingFacts DEF InStep
<1>4. ControlInv /\ ConfigurationInv /\ StreamTypeInv
  BY DEF Going, StreamTypeInv
<1>5. pc' = "Advance"
  BY <1>2, <1>3, <1>4, GoingFacts, InTurnFacts
<1>6. /\ Token' /\ (ServeIsDue /\ ~Left => Holds') /\ (inAbandoned' => inAbandoned \/ Left)
      /\ (Holds => Holds') /\ (UNCHANGED values \/ values' = Packet(sent))
  BY <1>1, GoingFacts, TokenServed DEF Going
<1>7. UNCHANGED <<OutputCounter, outAbandoned, sent>>
  BY <1>1 DEF element
<1>8. ASSUME ~Left PROVE CountersInTurn'
  <2>1. /\ InputCounter' = Following(InputCounter)
        /\ ServeIsDue <=> InputCounter + 1 = stream.InputEvery
    BY <1>1, <1>4, <1>8, GoingFacts, ServeCounts
  <2>2. /\ InputCounter \in Int /\ OutputCounter \in Int
        /\ stream.InputEvery \in Nat /\ stream.OutputEvery \in Nat
    BY GoingFacts
  <2>3. CountersInTurn
    BY <1>8, GoingFacts
  <2>4. HasStages' = HasStages
    BY <1>2 DEF HasStages
  <2>5. ASSUME HasStages PROVE StagesInTurn'
    <3>1. InputCounter = 0 /\ OutputCounter = 0
      BY <1>2, <2>3, <2>5 DEF CountersInTurn, StagesInTurn
    <3>2. stream.InputEvery > 1
      BY <1>4, <2>5, GoingFacts, InTurnFacts
    <3>3. InputCounter' = 1 /\ OutputCounter' = 0
      BY <1>7, <2>1, <2>2, <3>1, <3>2 DEF Following
    <3> QED
      BY <1>5, <3>3 DEF StagesInTurn
  <2>6. ASSUME ~HasStages, ~stream.bSendAfterPredict PROVE StepsInTurn'
    <3>1. InputCounter = OutputCounter /\ OutputCounter >= 0
      BY <1>2, <2>3, <2>6 DEF CountersInTurn, StepsInTurn
    <3>2. stream.InputEvery = stream.OutputEvery
      BY <1>4, <2>6, GoingFacts, InTurnFacts
    <3>3. InputCounter' = Following(OutputCounter)' /\ OutputCounter' >= 0
      BY <1>7, <2>1, <3>1 DEF Following
    <3>4. (OutputCounter + 1 = stream.OutputEvery)' => Holds'
      BY <1>6, <1>7, <1>8, <2>1, <3>1, <3>2
    <3> QED
      BY <1>5, <3>3, <3>4 DEF StepsInTurn
  <2>7. ASSUME stream.bSendAfterPredict PROVE PredictionsInTurn'
    <3>1. /\ InputCounter = Following(OutputCounter)
          /\ OutputCounter + 1 = stream.OutputEvery => Holds
      BY <1>2, <2>3, <2>7 DEF CountersInTurn, PredictionsInTurn
    <3>2. InputCounter' = Following(Following(OutputCounter))'
      BY <1>7, <2>1, <3>1 DEF Following
    <3>3. InputCounter >= 0
      <4>1. OutputCounter >= -1
        BY <2>2 DEF Going, StreamTypeInv, ElementInv
      <4> QED
        BY <2>2, <3>1, <4>1 DEF Following
    <3>4. InputCounter' = 0 => InputCounter + 1 = stream.InputEvery
      BY <2>1, <2>2, <3>3 DEF Following
    <3>5. InputCounter' = 0 => Holds'
      BY <1>6, <1>8, <2>1, <3>4
    <3>6. (OutputCounter + 1 = stream.OutputEvery)' => Holds'
      BY <1>6, <1>7, <3>1
    <3> QED
      BY <1>5, <3>2, <3>5, <3>6 DEF PredictionsInTurn
  <2>8. StartInTurn'
    BY <1>5 DEF StartInTurn
  <2> QED
    BY <2>4, <2>5, <2>6, <2>7, <2>8 DEF CountersInTurn
<1> QED
  BY <1>5, <1>6, <1>7, <1>8, GoingFacts DEF Passed, Moves

(* A prediction without stages sends, or leaves things as they are.         *)
LEMMA PassedPredicting ==
  ASSUME Going, start = "Run", UNCHANGED <<stream, start, peer>>, Predicting
  PROVE  Passed
<1>1. (AdvanceStepN \/ AdvanceSingleStep) /\ UNCHANGED drive /\ ElementAfterPredict
  BY DEF Predicting
<1>2. /\ pc = "Advance" /\ pc' = "Solve" /\ UNCHANGED <<input, step, stage>>
      /\ Type \in DOMAIN StepN \/ Type \in SingleStep
  BY <1>1 DEF AdvanceStepN, AdvanceSingleStep, Predict, solver
<1>3. step > 0
  BY <1>2, GoingFacts DEF InStep
<1>4. ControlInv /\ ConfigurationInv /\ StreamTypeInv
  BY DEF Going, StreamTypeInv
<1>5. ~HasStages /\ stream.InputEvery = stream.OutputEvery
  BY <1>2, <1>3, <1>4, GoingFacts, InTurnFacts, Kinds
<1>6. HasStages' = HasStages
  BY <1>2 DEF HasStages
<1>7. UNCHANGED <<InputCounter, values, inAbandoned, toMBDyn, at, put, seen>>
  BY <1>1 DEF drive, peer
<1>8. CASE ~stream.bSendAfterPredict
  <2>1. UNCHANGED element
    BY <1>1, <1>8 DEF ElementAfterPredict
  <2>2. ASSUME ~Left PROVE CountersInTurn'
    <3>1. StepsInTurn
      BY <1>5, <1>8, <2>2, GoingFacts DEF CountersInTurn
    <3>2. Holds' = Holds /\ UNCHANGED OutputCounter
      BY <1>1, <2>1, HoldsKept DEF element
    <3>3. StepsInTurn'
      BY <1>2, <1>7, <3>1, <3>2 DEF StepsInTurn, Following
    <3> QED
      BY <1>2, <1>5, <1>6, <1>8, <3>3 DEF CountersInTurn, StartInTurn
  <2> QED
    BY <1>1, <1>2, <2>1, <2>2, QuietSteps
<1>9. CASE stream.bSendAfterPredict
  <2>1. Send_
    BY <1>1, <1>9 DEF ElementAfterPredict
  <2>2. CASE Left
    <3>1. CASE Transmit
      BY <1>1, <1>2, <2>2, <3>1, <1>7, GoingFacts, TokenSent DEF Going, Passed, Moves
    <3>2. CASE UNCHANGED <<outAbandoned, sent, toPeer>>
      <4>1. Token'
        BY <1>7, <3>2, GoingFacts DEF Token, Holds
      <4> QED
        BY <1>2, <1>7, <2>2, <3>2, <4>1 DEF Passed, Moves
    <3> QED
      BY <2>1, <3>1, <3>2 DEF Send_
  <2>3. CASE ~Left
    <3>1. /\ InputCounter = Following(Following(OutputCounter))
          /\ InputCounter = 0 => Holds
          /\ OutputCounter + 1 = stream.OutputEvery => Holds
      BY <1>2, <1>9, <2>3, GoingFacts DEF CountersInTurn, PredictionsInTurn
    <3>2. /\ OutputCounter \in Int /\ stream.OutputEvery \in Nat /\ stream.OutputEvery > 1
          /\ InputCounter \in Int
      BY <1>9, GoingFacts DEF InTurn
    <3>3. /\ SendIsDue <=> OutputCounter + 1 = stream.OutputEvery
          /\ SendIsDue => OutputCounter' = 0 /\ Transmit
          /\ ~SendIsDue => OutputCounter' = OutputCounter + 1 /\ UNCHANGED <<outAbandoned, sent, toPeer>>
      BY <1>4, <2>1, <2>3, GoingFacts, SendCounts
    <3>4. OutputCounter' = Following(OutputCounter)
      BY <1>5, <3>2, <3>3 DEF Following
    <3>5. InputCounter' = Following(OutputCounter)'
      BY <1>7, <3>1, <3>4 DEF Following
    <3>6. CASE SendIsDue
      <4>1. /\ Token' /\ (outAbandoned' => outAbandoned \/ Left)
            /\ UNCHANGED sent \/ (sent' = sent + 1 /\ values = Packet(sent))
        BY <1>1, <3>1, <3>3, <3>6, GoingFacts, TokenSent DEF Going
      <4>2. ~(OutputCounter' + 1 = stream.OutputEvery')
        BY <3>2, <3>3, <3>6
      <4>3. PredictionsInTurn'
        BY <1>2, <3>5, <4>2 DEF PredictionsInTurn
      <4>4. CountersInTurn'
        BY <1>2, <1>5, <1>6, <1>9, <4>3 DEF CountersInTurn, StartInTurn
      <4> QED
        BY <1>2, <1>7, <2>3, <4>1, <4>4, GoingFacts DEF Passed, Moves
    <3>7. CASE ~SendIsDue
      <4>1. UNCHANGED <<outAbandoned, sent, toPeer>>
        BY <3>3, <3>7
      <4>2. Token' /\ Holds' = Holds
        BY <1>7, <4>1, GoingFacts DEF Token, Holds
      <4>3. OutputCounter' + 1 = stream.OutputEvery' => InputCounter = 0
        <5> SUFFICES ASSUME OutputCounter' + 1 = stream.OutputEvery PROVE InputCounter = 0
          OBVIOUS
        <5>1. Following(OutputCounter) + 1 = stream.InputEvery
          BY <1>5, <3>4
        <5> QED
          BY <3>1, <5>1 DEF Following
      <4>4. PredictionsInTurn'
        BY <1>2, <3>1, <3>5, <4>2, <4>3 DEF PredictionsInTurn
      <4>5. CountersInTurn'
        BY <1>2, <1>5, <1>6, <1>9, <4>4 DEF CountersInTurn, StartInTurn
      <4> QED
        BY <1>2, <1>7, <2>3, <4>1, <4>2, <4>5, GoingFacts DEF Passed, Moves
    <3> QED
      BY <3>6, <3>7
  <2> QED
    BY <2>2, <2>3
<1> QED
  BY <1>8, <1>9

(* The stages serve the drive once each, the last one at the end of the     *)
(* step.                                                                    *)
LEMMA PassedStage ==
  ASSUME Going, start = "Run", UNCHANGED <<stream, start, peer>>, ServingAndPredicting
  PROVE  Passed
<1>1. (AdvanceStages \/ NextStage) /\ ServePending /\ ElementAfterPredict
  BY DEF ServingAndPredicting
<1>2. /\ UNCHANGED <<input, step>> /\ pc' = "Solve"
      /\ \/ pc = "Advance" /\ UNCHANGED stage /\ Type \in DOMAIN StageN
         \/ pc = "Stage" /\ stage' = stage + 1
  BY <1>1 DEF AdvanceStages, NextStage, Predict, solver
<1>3. step > 0
  BY <1>2, GoingFacts DEF InStep
<1>4. ControlInv /\ ConfigurationInv /\ StreamTypeInv
  BY DEF Going, StreamTypeInv
<1>5. /\ pc = "Stage" => stage < Stages
      /\ stage \in 1 .. Stages /\ Stages \in Nat
  BY <1>4, GoingFacts, InTurnFacts DEF ControlInv, Phases
<1>6. HasStages
  <2>1. ~HasStages => Stages = 1 /\ Type \notin DOMAIN StageN
    BY <1>3, <1>4, GoingFacts, InTurnFacts
  <2> QED
    BY <1>2, <1>5, <2>1
<1>7. /\ Stages = stream.OutputEvery /\ stream.OutputEvery > 1
      /\ stream.InputEvery = stream.OutputEvery + 1 /\ ~stream.bSendAfterPredict
  BY <1>3, <1>4, <1>6, GoingFacts, InTurnFacts
<1>8. UNCHANGED element
  BY <1>1, <1>7 DEF ElementAfterPredict
<1>9. /\ Token' /\ (ServeIsDue /\ ~Left => Holds') /\ (inAbandoned' => inAbandoned \/ Left)
      /\ UNCHANGED values \/ values' = Packet(sent)
  BY <1>1, <1>8, GoingFacts, TokenServed DEF Going
<1>10. UNCHANGED <<OutputCounter, outAbandoned, sent>>
  BY <1>8 DEF element
<1>11. HasStages' = HasStages /\ Stages' = Stages
  BY <1>2, SameStep DEF HasStages
<1>12. ASSUME ~Left PROVE CountersInTurn'
  <2>1. /\ InputCounter' = Following(InputCounter)
        /\ ServeIsDue <=> InputCounter + 1 = stream.InputEvery
    BY <1>1, <1>4, <1>12, GoingFacts, ServeCounts
  <2>2. StagesInTurn
    BY <1>6, <1>12, GoingFacts DEF CountersInTurn
  <2>3. OutputCounter = stage' - 1 /\ InputCounter = stage' /\ stage' \in 1 .. Stages
    <3>1. CASE pc = "Advance"
      <4>1. stage = 1 /\ InputCounter = 1 /\ OutputCounter = 0
        BY <2>2, <3>1, GoingFacts DEF StagesInTurn
      <4> QED
        BY <1>2, <1>5, <3>1, <4>1
    <3>2. CASE pc = "Stage"
      <4>1. InputCounter = stage + 1 /\ OutputCounter = stage
        BY <2>2, <3>2 DEF StagesInTurn
      <4> QED
        BY <1>2, <1>5, <3>2, <4>1
    <3> QED
      BY <1>2, <3>1, <3>2
  <2>4. /\ stage' < Stages => InputCounter' = stage' + 1
        /\ stage' = Stages => InputCounter' = 0 /\ Holds'
    <3>1. InputCounter + 1 = stream.InputEvery <=> stage' = Stages
      BY <1>5, <1>7, <2>3
    <3>2. stage' = Stages => Holds'
      BY <1>9, <1>12, <2>1, <3>1
    <3>3. InputCounter' = IF stage' = Stages THEN 0 ELSE InputCounter + 1
      BY <2>1, <3>1 DEF Following
    <3>4. stage' < Stages => stage' # Stages
      BY <1>5, <2>3
    <3> QED
      BY <2>3, <3>2, <3>3, <3>4
  <2>5. StagesInTurn'
    BY <1>2, <1>10, <1>11, <2>3, <2>4 DEF StagesInTurn
  <2> QED
    BY <1>2, <1>6, <1>7, <1>11, <2>5 DEF CountersInTurn, StartInTurn
<1> QED
  BY <1>2, <1>9, <1>10, <1>12, GoingFacts DEF Passed, Moves

(* A convergence that sends finds the answer to the last output.            *)
LEMMA PassedSending ==
  ASSUME Going, UNCHANGED <<stream, drive, peer>>, Send_,
         pc' \notin {"SetTimeAgain", "End"},
         ~Left /\ SendIsDue => Holds,
         ~Left => CountersInTurn'
  PROVE  Passed
<1>1. UNCHANGED <<values, inAbandoned, toMBDyn, at, put, seen>>
  BY DEF drive, peer
<1>2. CASE SendIsDue
  <2>1. /\ Token' /\ (outAbandoned' => outAbandoned \/ Left)
        /\ UNCHANGED sent \/ (sent' = sent + 1 /\ values = Packet(sent))
    BY <1>2, GoingFacts, TokenSent DEF Going, Send_
  <2> QED
    BY <1>1, <2>1, GoingFacts DEF Passed, Moves
<1>3. CASE ~SendIsDue
  <2>1. UNCHANGED <<outAbandoned, sent, toPeer>>
    BY <1>3 DEF Send_
  <2>2. Token'
    BY <1>1, <2>1, GoingFacts DEF Token, Holds
  <2> QED
    BY <1>1, <2>1, <2>2, GoingFacts DEF Passed, Moves
<1> QED
  BY <1>2, <1>3

LEMMA PassedDerivatives ==
  ASSUME Going, start = "Run", UNCHANGED <<stream, start, drive, peer>>,
         DerivativesConverge, ElementAfterConvergence
  PROVE  Passed
<1>1. pc = "Derived" /\ pc' = "Idle" /\ UNCHANGED input
  BY DEF DerivativesConverge, solver
<1>2. ~Left => InputCounter = 0 /\ OutputCounter = -1
  BY <1>1, GoingFacts DEF CountersInTurn, StartInTurn
<1>3. UNCHANGED InputCounter /\ HasStages' = HasStages
  BY <1>1 DEF drive, HasStages
<1>4. StreamTypeInv
  BY DEF Going
<1>5. CASE stream.bSendAfterPredict
  <2>1. UNCHANGED element
    BY <1>5 DEF ElementAfterConvergence
  <2>2. UNCHANGED OutputCounter
    BY <2>1 DEF element
  <2>3. ~HasStages
    BY <1>5, GoingFacts DEF InTurn, HasStages
  <2>4. ASSUME ~Left PROVE CountersInTurn'
    <3>1. InputCounter' = Following(OutputCounter)'
      BY <1>2, <1>3, <1>4, <2>2, <2>4, FollowingFacts
    <3>2. ~(OutputCounter' + 1 = stream.OutputEvery')
      BY <1>2, <2>2, <2>4, GoingFacts
    <3>3. PredictionsInTurn'
      BY <1>1, <3>1, <3>2 DEF PredictionsInTurn
    <3> QED
      BY <1>1, <1>3, <1>5, <2>3, <3>3 DEF CountersInTurn, StartInTurn
  <2> QED
    BY <1>1, <2>1, <2>4, QuietSteps
<1>6. CASE ~stream.bSendAfterPredict
  <2>1. Send_
    BY <1>6 DEF ElementAfterConvergence
  <2>2. ASSUME ~Left PROVE ~SendIsDue /\ OutputCounter' = 0
    <3>1. /\ SendIsDue <=> OutputCounter + 1 = stream.OutputEvery
          /\ ~SendIsDue => OutputCounter' = OutputCounter + 1
      BY <1>4, <2>1, <2>2, GoingFacts, SendCounts
    <3> QED
      BY <1>2, <2>2, <3>1, GoingFacts
  <2>3. ASSUME ~Left PROVE CountersInTurn'
    <3>1. InputCounter' = 0 /\ OutputCounter' = 0
      BY <1>2, <1>3, <2>2, <2>3
    <3>2. StagesInTurn' /\ StepsInTurn'
      BY <1>1, <3>1 DEF StagesInTurn, StepsInTurn
    <3> QED
      BY <1>1, <1>6, <3>2 DEF CountersInTurn, StartInTurn
  <2> QED
    BY <1>1, <2>1, <2>2, <2>3, PassedSending
<1> QED
  BY <1>5, <1>6

LEMMA PassedConvergence ==
  ASSUME Going, start = "Run", UNCHANGED <<stream, start, drive, peer>>,
         StageConverges, ElementAfterConvergence
  PROVE  Passed
<1>1. /\ pc = "Solve" /\ UNCHANGED <<input, step, stage>>
      /\ IF stage < Stages THEN pc' = "Stage" ELSE pc' = "Idle"
  BY DEF StageConverges, solver, Accept
<1>2. step > 0
  BY <1>1, GoingFacts DEF InStep
<1>3. ControlInv /\ ConfigurationInv /\ StreamTypeInv
  BY DEF Going, StreamTypeInv
<1>4. /\ stage \in 1 .. Stages /\ Stages \in Nat
      /\ stream.InputEvery \in Nat /\ stream.OutputEvery \in Nat /\ stream.OutputEvery > 0
      /\ InputCounter \in Int /\ OutputCounter \in Int
  BY <1>3, GoingFacts, InTurnFacts
<1>5. UNCHANGED InputCounter /\ HasStages' = HasStages /\ Stages' = Stages
  BY <1>1, SameStep DEF drive, HasStages
<1>6. ASSUME Send_, ~Left
      PROVE  /\ SendIsDue <=> OutputCounter + 1 = stream.OutputEvery
             /\ OutputCounter' = IF OutputCounter + 1 = stream.OutputEvery THEN 0 ELSE OutputCounter + 1
  <2>1. /\ SendIsDue <=> OutputCounter + 1 = stream.OutputEvery
        /\ SendIsDue => OutputCounter' = 0
        /\ ~SendIsDue => OutputCounter' = OutputCounter + 1
    BY <1>3, <1>6, GoingFacts, SendCounts
  <2> QED
    BY <2>1
<1>7. CASE HasStages
  <2>1. Stages = stream.OutputEvery /\ ~stream.bSendAfterPredict
    BY <1>2, <1>3, <1>7, GoingFacts, InTurnFacts
  <2>2. Send_
    BY <2>1 DEF ElementAfterConvergence
  <2>3. ASSUME ~Left PROVE (SendIsDue => Holds) /\ CountersInTurn'
    <3>1. /\ OutputCounter = stage - 1
          /\ stage < Stages => InputCounter = stage + 1
          /\ stage = Stages => InputCounter = 0 /\ Holds
      BY <1>1, <1>7, <2>3, GoingFacts DEF CountersInTurn, StagesInTurn
    <3>2. OutputCounter + 1 = stream.OutputEvery <=> stage = Stages
      BY <1>4, <2>1, <3>1
    <3>3. SendIsDue => Holds
      BY <1>6, <2>2, <2>3, <3>1, <3>2
    <3>4. /\ pc' = "Stage" => OutputCounter' = stage' /\ InputCounter' = stage' + 1
          /\ pc' = "Idle" => OutputCounter' = 0 /\ InputCounter' = 0
      <4>1. OutputCounter' = IF stage = Stages THEN 0 ELSE OutputCounter + 1
        BY <1>6, <2>2, <2>3, <3>2
      <4>2. CASE stage < Stages
        <5>1. stage # Stages /\ pc' = "Stage" /\ stage' = stage
          BY <1>1, <1>4, <4>2
        <5> QED
          BY <1>4, <1>5, <3>1, <4>1, <4>2, <5>1
      <4>3. CASE ~(stage < Stages)
        <5>1. stage = Stages /\ pc' = "Idle"
          BY <1>1, <1>4, <4>3
        <5> QED
          BY <1>5, <3>1, <4>1, <5>1
      <4> QED
        BY <4>2, <4>3
    <3>5. pc' \in {"Stage", "Idle"}
      BY <1>1
    <3>6. StagesInTurn'
      BY <3>4, <3>5 DEF StagesInTurn
    <3> QED
      BY <1>5, <1>7, <2>1, <3>3, <3>5, <3>6 DEF CountersInTurn, StartInTurn
  <2>4. pc' \notin {"SetTimeAgain", "End"}
    BY <1>1
  <2> QED
    BY <2>2, <2>3, <2>4, PassedSending
<1>8. CASE ~HasStages
  <2>1. pc' = "Idle" /\ stream.InputEvery = stream.OutputEvery
    <3>1. Stages = 1 /\ stream.InputEvery = stream.OutputEvery
      BY <1>2, <1>3, <1>8, GoingFacts, InTurnFacts
    <3> QED
      BY <1>1, <1>4, <3>1
  <2>2. CASE stream.bSendAfterPredict
    <3>1. UNCHANGED element
      BY <2>2 DEF ElementAfterConvergence
    <3>2. ASSUME ~Left PROVE CountersInTurn'
      <4>1. PredictionsInTurn
        BY <2>2, <3>2, GoingFacts DEF CountersInTurn
      <4>2. Holds' = Holds /\ UNCHANGED OutputCounter
        BY <3>1, HoldsKept DEF element
      <4>3. PredictionsInTurn'
        BY <1>1, <1>5, <2>1, <4>1, <4>2 DEF PredictionsInTurn, Following
      <4> QED
        BY <1>5, <1>8, <2>1, <2>2, <4>3 DEF CountersInTurn, StartInTurn
    <3> QED
      BY <2>1, <3>1, <3>2, QuietSteps
  <2>3. CASE ~stream.bSendAfterPredict
    <3>1. Send_
      BY <2>3 DEF ElementAfterConvergence
    <3>2. ASSUME ~Left PROVE (SendIsDue => Holds) /\ CountersInTurn'
      <4>1. /\ OutputCounter >= 0 /\ InputCounter = Following(OutputCounter)
            /\ OutputCounter + 1 = stream.OutputEvery => Holds
        BY <1>1, <1>8, <2>3, <3>2, GoingFacts DEF CountersInTurn, StepsInTurn
      <4>2. SendIsDue => Holds
        BY <1>6, <3>1, <3>2, <4>1
      <4>3. OutputCounter' = InputCounter /\ InputCounter >= 0
        BY <1>4, <1>6, <2>1, <3>1, <3>2, <4>1 DEF Following
      <4>4. StepsInTurn'
        BY <1>5, <2>1, <4>3 DEF StepsInTurn
      <4> QED
        BY <1>5, <1>8, <2>1, <2>3, <4>2, <4>4 DEF CountersInTurn, StartInTurn
    <3> QED
      BY <2>1, <3>1, <3>2, PassedSending
  <2> QED
    BY <2>2, <2>3
<1> QED
  BY <1>7, <1>8

(* Nothing else concerns drive and element.                                 *)
LEMMA PassedOtherwise ==
  ASSUME Going, start = "Run", UNCHANGED <<stream, start, peer>>, OtherSteps
  PROVE  Passed
<1>1. UNCHANGED <<drive, element>>
  BY DEF OtherSteps
<1>2. UNCHANGED <<InputCounter, OutputCounter>> /\ Holds' = Holds
  BY <1>1, HoldsKept DEF drive, element
<1>3. CASE SolveDerivatives \/ RepeatDerivatives
  <2>1. pc \in {"Derivatives", "Derived"} /\ pc' \in {"Derivatives", "Derived"}
    BY <1>3 DEF SolveDerivatives, RepeatDerivatives
  <2>2. ASSUME ~Left PROVE CountersInTurn'
    <3>1. InputCounter = 0 /\ OutputCounter = -1
      BY <2>1, <2>2, GoingFacts DEF CountersInTurn, StartInTurn
    <3>2. StartInTurn'
      BY <1>2, <3>1 DEF StartInTurn
    <3>3. StagesInTurn' /\ StepsInTurn' /\ PredictionsInTurn'
      BY <2>1 DEF StagesInTurn, StepsInTurn, PredictionsInTurn
    <3> QED
      BY <3>2, <3>3 DEF CountersInTurn
  <2> QED
    BY <1>1, <2>1, <2>2, QuietSteps
<1>4. CASE DerivativesConvergeOnSolution \/ ConvergesOnSolution
  BY <1>4, GoingFacts DEF DerivativesConvergeOnSolution, ConvergesOnSolution
<1>5. CASE RepeatStep
  BY <1>5, GoingFacts DEF RepeatStep
<1>6. CASE EndRun
  BY <1>1, <1>6, QuietSteps DEF EndRun
<1>7. CASE BeginStep
  <2>1. pc = "Idle" /\ pc' = "SetTime" /\ UNCHANGED input
    BY <1>7 DEF BeginStep
  <2>2. ASSUME ~Left PROVE CountersInTurn'
    <3>1. CountersInTurn
      BY <2>2, GoingFacts
    <3>2. HasStages' = HasStages
      BY <2>1 DEF HasStages
    <3>3. StartInTurn'
      BY <2>1 DEF StartInTurn
    <3>4. HasStages => StagesInTurn'
      BY <1>2, <2>1, <3>1 DEF CountersInTurn, StagesInTurn
    <3>5. ~HasStages /\ ~stream.bSendAfterPredict => StepsInTurn'
      BY <1>2, <2>1, <3>1 DEF CountersInTurn, StepsInTurn
    <3>6. stream.bSendAfterPredict => PredictionsInTurn'
      BY <1>2, <2>1, <3>1 DEF CountersInTurn, PredictionsInTurn, Following
    <3> QED
      BY <3>2, <3>3, <3>4, <3>5, <3>6 DEF CountersInTurn
  <2> QED
    BY <1>1, <2>1, <2>2, QuietSteps
<1> QED
  BY <1>3, <1>4, <1>5, <1>6, <1>7 DEF OtherSteps

LEMMA ExchangeInitially ==
  ASSUME ExchangesAreInTurn, StreamInit
  PROVE  ExchangeInv
<1> SUFFICES ASSUME IsExchange PROVE ExchangeInv
  BY DEF ExchangeInv
<1>1. PICK c \in Configurations : input = c[1] /\ stream = c[2]
  BY DEF StreamInit
<1>2. InTurn(input, stream)
  BY <1>1 DEF ExchangesAreInTurn, IsExchange
<1>3. pc = "Derivatives"
  BY DEF StreamInit, Init
<1>4. /\ start = "SetTime" /\ inAbandoned = FALSE /\ outAbandoned = FALSE
      /\ InputCounter = IF stream.bReceiveFirst THEN stream.InputEvery - 1 ELSE -1
      /\ at = "Put" /\ seen = sent /\ toPeer = <<>> /\ toMBDyn = <<>>
  BY DEF StreamInit
<1>5. Token
  BY <1>4 DEF Token
<1>6. CountersInTurn
  BY <1>3, <1>4 DEF CountersInTurn, StartInTurn, StagesInTurn, StepsInTurn, PredictionsInTurn
<1> QED
  BY <1>2, <1>3, <1>4, <1>5, <1>6 DEF ExchangeInv

(* A step of MBDyn.                                                         *)
LEMMA PassedByMBDyn ==
  ASSUME Going, MBDyn
  PROVE  Passed /\ UNCHANGED <<stream, peer>> /\ UNCHANGED input /\ (start' # "Run" => pc' = "Derivatives")
<1>1. CASE InitialSetTime
  <2>1. UNCHANGED <<stream, peer>> /\ UNCHANGED <<input, pc>> /\ start # "Run"
    BY <1>1 DEF InitialSetTime, vars, solver
  <2> QED
    BY <1>1, <2>1, PassedInitially, GoingFacts
<1>2. CASE SetValue
  <2>1. UNCHANGED <<stream, peer>> /\ UNCHANGED input /\ start' = "Run"
    BY <1>2 DEF SetValue, vars, solver
  <2> QED
    BY <1>2, <2>1, PassedFirst
<1>3. CASE DriveTimesOut \/ SendBreaks
  <2>1. /\ UNCHANGED <<stream, drive, element, peer>> /\ UNCHANGED input
        /\ pc' = "End" /\ start' = "Run"
    BY <1>3 DEF DriveTimesOut, SendBreaks, solver
  <2> QED
    BY <2>1, QuietSteps
<1>4. CASE Steps
  <2>1. start = "Run" /\ UNCHANGED <<stream, start, peer>>
    BY <1>4 DEF Steps
  <2>2. Passed
    <3>1. CASE Converging
      <4>1. /\ DerivativesConverge \/ StageConverges
            /\ UNCHANGED drive /\ ElementAfterConvergence
        BY <3>1 DEF Converging
      <4> QED
        BY <2>1, <4>1, PassedDerivatives, PassedConvergence
    <3> QED
      BY <1>4, <2>1, <3>1, PassedServing, PassedStage, PassedPredicting, PassedOtherwise DEF Steps
  <2>3. UNCHANGED input
    BY <1>4 DEF Steps, Serving, ServingAndPredicting, Predicting, Converging, OtherSteps,
         SetTime, AdvanceStages, NextStage, AdvanceStepN, AdvanceSingleStep,
         DerivativesConverge, StageConverges, SolveDerivatives, RepeatDerivatives,
         DerivativesConvergeOnSolution, BeginStep, ConvergesOnSolution, RepeatStep, EndRun,
         solver
  <2> QED
    BY <2>1, <2>2, <2>3
<1> QED
  BY <1>1, <1>2, <1>3, <1>4 DEF MBDyn

(* The end of the run is the end of the exchange.                           *)
LEMMA AfterTheEnd ==
  ASSUME start # "Run" => pc = "Derivatives", pc = "End", [StreamNext]_allVars
  PROVE  /\ UNCHANGED <<input, stream, pc, start, values, sent, inAbandoned, outAbandoned>>
         /\ Left => Left'
<1>1. start = "Run"
  OBVIOUS
<1>2. ~MBDyn
  <2>1. ~InitialSetTime /\ ~SetValue /\ ~DriveTimesOut /\ ~SendBreaks
    BY <1>1 DEF InitialSetTime, SetValue, DriveTimesOut, SendBreaks
  <2>2. ~Steps
    BY DEF Steps, Serving, ServingAndPredicting, Predicting, Converging, OtherSteps,
         SetTime, AdvanceStages, NextStage, AdvanceStepN, AdvanceSingleStep,
         DerivativesConverge, StageConverges, SolveDerivatives, RepeatDerivatives,
         DerivativesConvergeOnSolution, BeginStep, ConvergesOnSolution, RepeatStep, EndRun
  <2> QED
    BY <2>1, <2>2 DEF MBDyn
<1>3. CASE Peer
  <2>1. UNCHANGED <<input, stream, pc, start, values, sent, inAbandoned, outAbandoned>>
    BY <1>3 DEF Peer, vars, solver
  <2>2. ~Left
    BY <1>3 DEF Peer, Reading, Writing, Leaving, Get, GetNothing, PutFirst, PutRest, Leave, Left
  <2> QED
    BY <2>1, <2>2
<1>4. CASE UNCHANGED allVars
  BY <1>4 DEF allVars, streamVars, vars, solver, drive, element, peer, Left
<1> QED
  BY <1>2, <1>3, <1>4 DEF StreamNext

LEMMA ExchangeNext ==
  ASSUME ControlInv, StreamTypeInv, ExchangeInv, [StreamNext]_allVars
  PROVE  /\ ExchangeInv'
         /\ IsExchange => /\ pc = "End" => UNCHANGED <<pc, values, sent>>
                          /\ pc # "End" => Moves
         /\ UNCHANGED stream
<1>1. UNCHANGED stream
  BY DEF StreamNext, MBDyn, InitialSetTime, SetValue, Steps, DriveTimesOut, SendBreaks, Peer,
       allVars, streamVars
<1>2. CASE ~IsExchange
  BY <1>1, <1>2 DEF ExchangeInv, IsExchange
<1>3. CASE IsExchange /\ pc = "End"
  <2>1. /\ UNCHANGED <<input, stream, pc, start, values, sent, inAbandoned, outAbandoned>>
        /\ Left => Left'
    BY <1>3, AfterTheEnd DEF ExchangeInv
  <2> QED
    BY <1>3, <2>1 DEF ExchangeInv, InTurn
<1>4. CASE IsExchange /\ pc # "End"
  <2>1. Going
    BY <1>4 DEF Going
  <2>2. CASE MBDyn
    <3>1. /\ Passed /\ UNCHANGED <<stream, peer>> /\ UNCHANGED input
          /\ start' # "Run" => pc' = "Derivatives"
      BY <2>1, <2>2, PassedByMBDyn
    <3>2. Left' = Left
      BY <3>1 DEF peer, Left
    <3>3. InTurn(input, stream)'
      BY <2>1, <3>1, GoingFacts DEF InTurn
    <3> QED
      BY <1>1, <1>4, <3>1, <3>2, <3>3 DEF ExchangeInv, Passed
  <2>3. CASE Peer
    <3>1. /\ UNCHANGED <<vars, stream, start, InputCounter, buf, values, inAbandoned, reads,
                         OutputCounter, outAbandoned, sent>>
      BY <2>3 DEF Peer
    <3>2. ~Left
      BY <2>3 DEF Peer, Reading, Writing, Leaving, Get, GetNothing, PutFirst, PutRest, Leave, Left
    <3>3. Token' /\ (Holds => Holds')
      BY <1>4, <2>1, <2>3, GoingFacts, TokenOfPeer DEF Going
    <3>4. UNCHANGED <<input, step, stage, pc>>
      BY <3>1 DEF vars, solver
    <3>5. HasStages' = HasStages /\ Stages' = Stages /\ InTurn(input, stream)'
      BY <2>1, <3>1, <3>4, GoingFacts, SameStep DEF HasStages, InTurn
    <3>6. CountersInTurn
      BY <2>1, <3>2, GoingFacts
    <3>7. CountersInTurn'
      <4>1. StartInTurn'
        BY <3>1, <3>3, <3>4, <3>6 DEF CountersInTurn, StartInTurn
      <4>2. HasStages => StagesInTurn'
        BY <3>1, <3>3, <3>4, <3>5, <3>6 DEF CountersInTurn, StagesInTurn
      <4>3. ~HasStages /\ ~stream.bSendAfterPredict => StepsInTurn'
        BY <3>1, <3>3, <3>4, <3>6 DEF CountersInTurn, StepsInTurn, Following
      <4>4. stream.bSendAfterPredict => PredictionsInTurn'
        BY <3>1, <3>3, <3>4, <3>6 DEF CountersInTurn, PredictionsInTurn, Following
      <4> QED
        BY <3>1, <3>5, <4>1, <4>2, <4>3, <4>4 DEF CountersInTurn
    <3> QED
      BY <1>1, <1>4, <2>1, <3>1, <3>2, <3>3, <3>4, <3>5, <3>7, GoingFacts DEF ExchangeInv, Moves
  <2>4. CASE UNCHANGED allVars
    <3>1. UNCHANGED <<stream, start, drive, element, peer>> /\ UNCHANGED <<input, step, stage, pc>>
      BY <2>4 DEF allVars, streamVars, vars, solver
    <3>2. /\ UNCHANGED <<InputCounter, values, inAbandoned, OutputCounter, outAbandoned, sent>>
          /\ Left' = Left
      BY <3>1 DEF drive, element, peer, Left
    <3>3. HasStages' = HasStages /\ Stages' = Stages /\ InTurn(input, stream)' /\ Holds' = Holds
      BY <2>1, <3>1, GoingFacts, SameStep, HoldsKept DEF HasStages, InTurn
    <3>4. Token' = Token
      BY <3>1, <3>3 DEF Token, Holds, drive, element, peer
    <3>5. CountersInTurn' = CountersInTurn
      BY <3>1, <3>2, <3>3 DEF CountersInTurn, StartInTurn, StagesInTurn, StepsInTurn,
                              PredictionsInTurn, Following
    <3> QED
      BY <1>1, <1>4, <2>1, <3>1, <3>2, <3>3, <3>4, <3>5, GoingFacts DEF ExchangeInv, Moves
  <2> QED
    BY <2>2, <2>3, <2>4 DEF StreamNext
<1> QED
  BY <1>2, <1>3, <1>4

(* The exchange as Exchange has it: the number of the last output, and that *)
(* of the output the values of the drive were computed from.                *)
LEMMA AnsweredFacts ==
  ASSUME IsExchange, NEW n \in Nat, values = Packet(n)
  PROVE  Answered = n
  BY PacketFacts DEF Answered

LEMMA ExchangeStep ==
  ASSUME ControlInv, StreamTypeInv, OutputInv, ExchangeInv, [StreamNext]_allVars
  PROVE  [Abstract!Next]_Abstract!vars
<1>1. /\ UNCHANGED stream /\ sent \in Nat
      /\ IsExchange /\ pc # "End" => Moves
      /\ start # "Run" => pc = "Derivatives"
  BY ExchangeNext DEF StreamTypeInv, ElementInv, OutputInv
<1>2. pc = "End" => UNCHANGED <<pc, values, sent>>
  BY <1>1, AfterTheEnd
<1>3. IsExchange' = IsExchange
  BY <1>1 DEF IsExchange
(* Drive and element have nothing to do with the end of the run.            *)
<1>4. IsExchange /\ pc' = "End" => UNCHANGED <<values, sent>>
  <2> SUFFICES ASSUME pc' = "End", pc # "End", IsExchange PROVE UNCHANGED <<values, sent>>
    BY <1>2
  <2>1. CASE MBDyn
    <3>1. CASE DriveTimesOut \/ SendBreaks
      BY <3>1 DEF DriveTimesOut, SendBreaks, drive, element
    <3>2. CASE InitialSetTime \/ SetValue
      BY <3>2 DEF InitialSetTime, SetValue, vars
    <3>3. CASE Steps
      <4>1. CASE OtherSteps
        BY <4>1 DEF OtherSteps, drive, element
      <4>2. CASE Serving \/ ServingAndPredicting \/ Predicting \/ Converging
        BY <4>2 DEF Serving, ServingAndPredicting, Predicting, Converging, SetTime,
             AdvanceStages, NextStage, AdvanceStepN, AdvanceSingleStep, Predict,
             DerivativesConverge, StageConverges, Accept
      <4> QED
        BY <3>3, <4>1, <4>2 DEF Steps
    <3> QED
      BY <2>1, <3>1, <3>2, <3>3 DEF MBDyn
  <2>2. CASE Peer
    BY <2>2 DEF Peer, vars
  <2>3. CASE UNCHANGED allVars
    BY <2>3 DEF allVars, vars
  <2> QED
    BY <2>1, <2>2, <2>3 DEF StreamNext
<1>5. CASE UNCHANGED <<values, sent>> \/ ~IsExchange
  <2>1. UNCHANGED <<Motion, Answered>>
    BY <1>3, <1>5 DEF Motion, Answered
  <2>2. (pc' = "End") = (pc = "End") \/ (pc # "End" /\ pc' = "End")
    BY <1>2
  <2> QED
    BY <2>1, <2>2 DEF Abstract!Next, Abstract!End, Abstract!vars
<1>6. CASE IsExchange /\ pc # "End" /\ pc' # "End" /\ UNCHANGED sent /\ values' = Packet(sent)
  <2>1. Motion = sent /\ Motion' = sent
    BY <1>3, <1>6 DEF Motion
  <2>2. Answered' = sent
    BY <1>1, <1>3, <1>6, PacketFacts DEF Answered
  <2> QED
    BY <1>6, <2>1, <2>2 DEF Abstract!Next, Abstract!Answer, Abstract!vars
<1>7. CASE /\ IsExchange /\ pc # "End" /\ pc' # "End"
           /\ UNCHANGED values /\ sent' = sent + 1 /\ values = Packet(sent)
  <2>1. Motion = sent /\ Motion' = sent + 1
    BY <1>3, <1>7 DEF Motion
  <2>2. Answered = sent /\ Answered' = sent
    BY <1>1, <1>3, <1>7, PacketFacts DEF Answered
  <2> QED
    BY <1>7, <2>1, <2>2 DEF Abstract!Next, Abstract!Publish, Abstract!vars
<1> QED
  BY <1>1, <1>2, <1>4, <1>5, <1>6, <1>7 DEF Moves

(* MBDyn and a peer like spring.py, when their counters are in turn, are an *)
(* exchange of one output for one input computed from it, whatever fails,   *)
(* whoever leaves and in however many parts the packets arrive: the safety  *)
(* part of KeepsPromise.                                                    *)
THEOREM StreamsAreAnExchange ==
  ASSUME ExchangesAreInTurn
  PROVE  StreamSpec => Abstract!Init /\ [][Abstract!Next]_Abstract!vars
<1>1. StreamInit => StreamTypeInv /\ ControlInv /\ OutputInv /\ ExchangeInv
  BY StreamTypeInit, StreamControlInit, OutputInit, ExchangeInitially
<1>2. StreamTypeInv /\ ControlInv /\ OutputInv /\ ExchangeInv /\ [StreamNext]_allVars
        => StreamTypeInv' /\ ControlInv' /\ OutputInv' /\ ExchangeInv'
  BY StreamTypeNext, StreamControlNext, OutputNext, ExchangeNext
<1>3. StreamInit => Abstract!Init
  <2> SUFFICES ASSUME StreamInit PROVE Abstract!Init
    OBVIOUS
  <2>1. sent = 0 /\ values = Packet(0) /\ pc = "Derivatives"
    BY DEF StreamInit, Init, InitialValues
  <2>2. Motion = 0 /\ Answered = 0
    BY <2>1, PacketFacts DEF Motion, Answered
  <2> QED
    BY <2>1, <2>2 DEF Abstract!Init
<1>4. StreamTypeInv /\ ControlInv /\ OutputInv /\ ExchangeInv /\ [StreamNext]_allVars
        => [Abstract!Next]_Abstract!vars
  BY ExchangeStep
<1> QED
  BY <1>1, <1>2, <1>3, <1>4, PTL DEF StreamSpec
=============================================================================
