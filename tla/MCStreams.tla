------------------------------ MODULE MCStreams ------------------------------
(* Instances of Streams.                                                    *)
EXTENDS Streams

Steps1(dummies, dummy, regular) ==
  [iDummyStepsNumber |-> dummies, DummyType |-> dummy, RegularType |-> regular,
   bSolConvThrows |-> FALSE]

Stream(every, first, outEvery, afterPredict, peerIs) ==
  [InputEvery |-> every, bReceiveFirst |-> first, bNonBlocking |-> FALSE,
   bTimeout |-> FALSE, OutputEvery |-> outEvery, bSendFirst |-> first,
   bSendAfterPredict |-> afterPredict, bAbortIfBroken |-> FALSE,
   peer |-> peerIs, mayLeave |-> FALSE, bWhole |-> FALSE]

(* A peer that stays, one that may leave, and with both what a drive that   *)
(* times out and an element that aborts make of it.                         *)
WithPeers(c, leave) ==
  {[c EXCEPT !.mayLeave = l, !.bAbortIfBroken = a, !.bTimeout = a] :
     l \in leave, a \in BOOLEAN}

(* spring.py: with an integrator whose steps are not repeated, the input    *)
(* every as many calls of SetTime as the output every convergences; sent    *)
(* after predict only from the second call on.                              *)
OneStage == {Steps1(0, "INT_MS2", r) : r \in {"INT_MS4", "INT_SS2"}}
              \cup {Steps1(3, "INT_MS4", "INT_MS3")}
Spring ==
  OneStage \X UNION {WithPeers(Stream(n, f, n, FALSE, "spring"), BOOLEAN) :
                       n \in {1, 2}, f \in BOOLEAN}
    \cup OneStage \X WithPeers(Stream(2, FALSE, 2, TRUE, "spring"), BOOLEAN)
    \cup {Steps1(0, "INT_MS2", "INT_BATHE")}
           \X WithPeers(Stream(3, TRUE, 2, FALSE, "spring"), BOOLEAN)
    \cup {Steps1(0, "INT_MS2", "INT_DIRK43")}
           \X WithPeers(Stream(5, TRUE, 4, FALSE, "spring"), BOOLEAN)

(* A source, with steps that are repeated, dummy steps and stages; one that *)
(* sends in parts may leave between them.                                   *)
Source ==
  {Steps1(0, "INT_MS2", "INT_CRANKNICOLSON"), Steps1(2, "INT_CRANKNICOLSON", "INT_HOPE"),
   Steps1(1, "INT_BATHE", "INT_MSSTC3")}
    \X {[Stream(2, TRUE, m, p, "source") EXCEPT !.bNonBlocking = b, !.bWhole = b,
                                                !.bTimeout = ~b, !.mayLeave = ~b] :
          m \in {1, 3}, p \in BOOLEAN, b \in BOOLEAN}

WorkingConfigurations == Spring \cup Source
WorkingInputs == {c[1] : c \in WorkingConfigurations}

Repeated ==
  {Steps1(0, "INT_MS2", "INT_CRANKNICOLSON")} \X {Stream(1, TRUE, 1, FALSE, "source")}
RepeatedInputs == {c[1] : c \in Repeated}
=============================================================================
