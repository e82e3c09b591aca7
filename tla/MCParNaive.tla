----------------------------- MODULE MCParNaive -----------------------------
(* Small instances of ParNaive.                                             *)
EXTENDS ParNaive

(* By column: arrows, which fill up if the column of the tip is eliminated  *)
(* with the full row, and of which one makes two threads add entries to the *)
(* same columns; a permuted triangle; an upper triangle; columns in which   *)
(* one pivot leaves the next without; an empty column.                      *)
SomePatterns ==
  {<<{0, 1, 2}, {0, 1}, {0, 2}>>,
   <<{0, 1, 2}, {0}, {0}>>,
   <<{2}, {1, 2}, {0, 1, 2}>>,
   <<{0}, {0, 1}, {0, 1, 2}>>,
   <<{0, 1}, {0, 1}, {1, 2}>>,
   <<{0, 1}, {0}, {0, 2}>>,
   <<{0, 1}, {}, {1, 2}>>}

MCPatterns == {[c \in 0 .. iSize - 1 |-> p[c + 1]] : p \in SomePatterns}

(* Every matrix of the size.                                                *)
AllPatterns == [0 .. iSize - 1 -> SUBSET (0 .. iSize - 1)]

(* The managers and variants that work.                                     *)
WorkingManagers ==
  {[perm |-> FALSE, modified |-> TRUE], [perm |-> TRUE, modified |-> FALSE]}

ModifiedWithPermutation == {[perm |-> TRUE, modified |-> TRUE]}
=============================================================================
