-------------------------- MODULE NaiveElimination --------------------------
(* What the naive sparse solver promises to the nonlinear solver, whichever *)
(* threads do the work: naivfct eliminates the columns of the matrix one    *)
(* after the other, each with one pivot, and records which rows get new     *)
(* entries (libraries/libnaive/mthrdslv.c); naivslv then substitutes, and   *)
(* the solution is where the caller looks for it.                           *)
EXTENDS Naturals, Sequences, SequencesExt

CONSTANTS
  iSize,       \* rows and columns of the matrix
  Patterns     \* the sets of entries an assembly may lead to, by column

VARIABLES
  phase,
  col,         \* the rows that have an entry in each column (ri, nzr)
  piv,         \* the pivot rows of the columns eliminated so far
  solution     \* pSolHdl has the solution for the last residual

vars == <<phase, col, piv, solution>>

Columns == 0 .. iSize - 1

Init ==
  /\ phase = "idle"
  /\ col = [c \in Columns |-> {}] /\ piv = <<>>
  /\ solution = FALSE

(* A new residual, and perhaps a new matrix.                                *)
Assemble ==
  /\ phase = "idle"
  /\ phase' = "running"
  /\ \/ col' \in Patterns /\ piv' = <<>>
     \/ Len(piv) = iSize /\ UNCHANGED <<col, piv>>
  /\ UNCHANGED solution

(* One column: every row below gets the entries of the pivot row.           *)
Eliminate ==
  /\ phase = "running"
  /\ Len(piv) < iSize
  /\ LET i == Len(piv) IN
     \E pvr \in col[i] \ ToSet(piv) :
       LET below == col[i] \ (ToSet(piv) \cup {pvr}) IN
       /\ piv' = Append(piv, pvr)
       /\ col' = [c \in Columns |->
                    IF c > i /\ pvr \in col[c] THEN col[c] \cup below ELSE col[c]]
  /\ UNCHANGED <<phase, solution>>

(* No pivot in the next column.                                             *)
NoPivot ==
  /\ phase = "running"
  /\ Len(piv) < iSize
  /\ phase' = "terminated"
  /\ UNCHANGED <<col, piv, solution>>

Substitute ==
  /\ phase = "running"
  /\ Len(piv) = iSize
  /\ phase' = "solved"
  /\ solution' = TRUE
  /\ UNCHANGED <<col, piv>>

Use ==
  /\ phase = "solved"
  /\ phase' = "idle"
  /\ solution' = FALSE
  /\ UNCHANGED <<col, piv>>

Destroy ==
  /\ phase = "idle"
  /\ phase' = "over"
  /\ UNCHANGED <<col, piv, solution>>

Next == Assemble \/ Eliminate \/ NoPivot \/ Substitute \/ Use \/ Destroy

(* A call returns, or the program ends.                                     *)
Spec == Init /\ [][Next]_vars /\ WF_vars(Eliminate \/ NoPivot \/ Substitute)
=============================================================================
