------------------------------ MODULE Exchange ------------------------------
(***************************************************************************)
(* What the coupling of MBDyn with an external program promises, whatever  *)
(* the pattern (extforce.cc, comment at the top of ExtForce): MBDyn hands  *)
(* out one motion at a time, the peer's next answer is the answer to that  *)
(* motion, and an answer comes unless the coupled run ends first.          *)
(***************************************************************************)
EXTENDS Naturals

VARIABLES
  motion,    \* how many motions MBDyn has handed out
  answered,  \* the motion the last answer was computed from
  over       \* the coupled run has ended

vars == <<motion, answered, over>>

Init == motion = 0 /\ answered = 0 /\ over = FALSE

Publish ==
  /\ ~over
  /\ answered = motion
  /\ motion' = motion + 1
  /\ UNCHANGED <<answered, over>>

Answer ==
  /\ ~over
  /\ answered # motion
  /\ answered' = motion
  /\ UNCHANGED <<motion, over>>

End == ~over /\ over' = TRUE /\ UNCHANGED <<motion, answered>>

Next == Publish \/ Answer \/ End

Spec == Init /\ [][Next]_vars /\ WF_vars(Answer)
=============================================================================
