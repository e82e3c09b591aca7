------------------------------ MODULE Assembly ------------------------------
(* What the assembly of the Jacobian matrix promises to its caller,         *)
(* whichever threads do it: it returns; it returns normally only if nothing *)
(* failed, and then the matrix is complete, with the contribution of every  *)
(* element to every row exactly once; if an element asked for the matrix to *)
(* be rebuilt that is what the caller is told, else it is told that an      *)
(* element failed.                                                          *)

VARIABLES
  outcome,    \* of the last assembly
  failures,   \* of the elements assembled so far
  complete    \* the caller has a complete matrix

vars == <<outcome, failures, complete>>

Failures == {"error", "rebuild"}

OutcomeOf(f) ==
  IF f = {} THEN "ok" ELSE IF "rebuild" \in f THEN "rebuild" ELSE "error"

Init == outcome = "none" /\ failures = {} /\ complete = FALSE

Call ==
  /\ outcome \notin {"running", "over"}
  /\ outcome' = "running"
  /\ complete' = FALSE
  /\ UNCHANGED failures

ElementFails ==
  /\ outcome = "running"
  /\ \E f \in Failures : failures' = failures \cup {f}
  /\ UNCHANGED <<outcome, complete>>

(* The last failure and the return may be one step.                         *)
Return ==
  /\ outcome = "running"
  /\ \E f \in SUBSET Failures :
       /\ failures \subseteq f
       /\ outcome' = OutcomeOf(f)
       /\ complete' = (f = {})
  /\ failures' = {}

Destroy ==
  /\ outcome \notin {"running", "over"}
  /\ outcome' = "over"
  /\ complete' = FALSE
  /\ UNCHANGED failures

Next == Call \/ ElementFails \/ Return \/ Destroy

Spec == Init /\ [][Next]_vars /\ WF_vars(Return)
=============================================================================
