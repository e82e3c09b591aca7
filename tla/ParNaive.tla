------------------------------ MODULE ParNaive ------------------------------
(* The parallel naive sparse solver: ParNaiveSolver hands the factorization *)
(* and the substitution of one matrix to nThreads threads                   *)
(* (libraries/libmbwrap/parnaivewrap.cc), which share the rows and keep in  *)
(* step by spinning on counters (pnaivfct and pnaivslv in                   *)
(* libraries/libnaive/pmthrdslv.c).  The caller is a Newton-Raphson solver  *)
(* that looks for the solution where the solution manager says it is.       *)
(*                                                                          *)
(* Of an entry of the matrix only its presence is kept, with the columns    *)
(* that were eliminated from each row; of a vector whether it is right.     *)
EXTENDS Integers, Sequences, SequencesExt, FiniteSets

CONSTANTS
  iSize,         \* rows and columns of the matrix
  nThreads,
  Patterns,      \* the sets of entries an assembly may lead to, by column
  Managers       \* the solution managers and Newton-Raphson variants

ASSUME NaiveAssumption ==
  /\ iSize \in Nat \ {0}
  /\ nThreads \in Nat \ {0}
  /\ Patterns \subseteq [0 .. iSize - 1 -> SUBSET (0 .. iSize - 1)]
  /\ Managers \subseteq [perm : BOOLEAN, modified : BOOLEAN]

Threads == 0 .. nThreads - 1
Rows == 0 .. iSize - 1

VARIABLES
  (* the caller *)
  manager,        \* its solution manager
  caller,         \* where it is
  next,           \* the thread it is about to release or to join
  ePermState,
  bHasBeenReset,
  permuted,       \* the matrix was assembled with permuted columns
  pdSol,          \* the vector pnaivslv writes to
  VH, XH,         \* what is in the two vectors of the manager
  (* the hand-shake *)
  op, thread_count, sem, notified,
  (* the matrix and what the threads share *)
  ci,             \* the columns of the entries of each row (ppiCols, nzc, nz)
  ri,             \* the rows of the entries of each column (ppiRows, nzr)
  ril,            \* new entries of the k-th row of the column in hand (nril)
  piv, todo, row_locks, col_locks,
  applied,        \* the columns eliminated from each row, in order
  fwd, sol,       \* the entries that are right for this substitution
  (* each thread *)
  pc, i, k, pvr,
  cols,           \* the columns of the row in hand it still has to deal with
  s               \* the partial sum is right

calls == <<manager, ePermState, bHasBeenReset, permuted, pdSol, VH, XH>>
pool == <<op, thread_count, sem, notified>>
lists == <<ci, ri, ril>>
vectors == <<fwd, sol>>
locals == <<i, k, pvr, cols, s>>
vars == <<calls, caller, next, pool, lists, piv, todo, row_locks, col_locks, applied,
          vectors, pc, locals>>

Init ==
  /\ manager \in Managers
  /\ caller = "Idle" /\ next = 0
  /\ ePermState = "PERM_NO" /\ bHasBeenReset = TRUE /\ permuted = FALSE
  /\ pdSol = "XH" /\ VH = "none" /\ XH = "none"
  /\ op = "NONE" /\ thread_count = 0
  /\ sem = [t \in Threads |-> 0] /\ notified = FALSE
  /\ ci = [r \in Rows |-> <<>>] /\ ri = [c \in Rows |-> <<>>]
  /\ ril = [n \in 1 .. iSize |-> {}]
  /\ piv = [c \in Rows |-> -1] /\ todo = {}
  /\ row_locks = [r \in 0 .. iSize |-> 0] /\ col_locks = [c \in Rows |-> FALSE]
  /\ applied = [r \in Rows |-> <<>>]
  /\ fwd = {} /\ sol = {}
  /\ pc = [t \in Threads |-> "Acquire"]
  /\ i = [t \in Threads |-> 0] /\ k = [t \in Threads |-> 1] /\ pvr = 0
  /\ cols = [t \in Threads |-> <<>>] /\ s = [t \in Threads |-> TRUE]

-----------------------------------------------------------------------------
(* The caller: one iteration of NewtonRaphsonSolver::Solve.                 *)

(* A list of the elements of a set of rows or columns, as an assembly in    *)
(* ascending order makes it.                                                *)
ListOf(set) ==
  CHOOSE f \in [1 .. Cardinality(set) -> set] :
    /\ ToSet(f) = set
    /\ \A m, n \in DOMAIN f : m < n => f[m] < f[n]

(* The elements of a list at some of its places, in the list's order.       *)
Selection(list, places) ==
  [n \in 1 .. Cardinality(places) |-> list[ListOf(places)[n]]]

(* A new residual makes whatever solution there was an old one.             *)
Residual ==
  /\ VH' = "residual"
  /\ XH' = IF XH = "solution" THEN "old" ELSE XH

(* MatrReset of the manager: the permutation computed for the last matrix   *)
(* is used from the next one on.                                            *)
MatrReset ==
  /\ bHasBeenReset' = TRUE
  /\ IF manager.perm /\ ePermState = "PERM_INTERMEDIATE"
     THEN ePermState' = "PERM_READY" /\ pdSol' = "XH"
     ELSE UNCHANGED <<ePermState, pdSol>>

(* A new matrix, with any of the patterns.                                  *)
Jacobian ==
  \E p \in Patterns :
    /\ ci' = [r \in Rows |-> ListOf({c \in Rows : r \in p[c]})]
    /\ ri' = [c \in Rows |-> ListOf(p[c])]
    /\ applied' = [r \in Rows |-> <<>>]
    /\ permuted' = (ePermState' = "PERM_READY")

Assemble ==
  /\ caller = "Idle"
  /\ Residual
  /\ \/ MatrReset /\ Jacobian
     \/ /\ manager.modified /\ ~bHasBeenReset
        /\ UNCHANGED <<bHasBeenReset, ePermState, pdSol, ci, ri, applied, permuted>>
  /\ caller' = "Solve"
  /\ UNCHANGED <<manager, next, pool, ril, piv, todo, row_locks, col_locks, vectors,
                 pc, locals>>

(* A mutation of Dispatch that counts as if the caller took part.           *)
DispatchOneLess(o) ==
  /\ op' = o
  /\ thread_count' = nThreads - 1
  /\ next' = 0
  /\ caller' = "Release"

(* The threads are counted and then released one by one.                    *)
Dispatch(o) ==
  /\ op' = o
  /\ thread_count' = nThreads
  /\ next' = 0
  /\ caller' = "Release"

Factor ==
  /\ Dispatch("FACTOR")
  /\ piv' = [c \in Rows |-> -1] /\ todo' = Rows
  /\ row_locks' = [r \in 0 .. iSize |-> 0]
  /\ UNCHANGED vectors

(* A mutation of Substitute that relies on what pnaivslv leaves.            *)
SubstituteKeepsLocks ==
  /\ Dispatch("SOLVE")
  /\ fwd' = {} /\ sol' = {}
  /\ UNCHANGED <<piv, todo, row_locks>>

Substitute ==
  /\ Dispatch("SOLVE")
  /\ row_locks' = [r \in 0 .. iSize |-> 0]
  /\ fwd' = {} /\ sol' = {}
  /\ UNCHANGED <<piv, todo>>

(* Solve of the manager, up to the release of the first thread.             *)
Solve ==
  /\ caller = "Solve"
  /\ IF ~manager.perm
     THEN UNCHANGED <<ePermState, pdSol>>
     ELSE IF ePermState = "PERM_NO"
          THEN ePermState' = "PERM_INTERMEDIATE" /\ UNCHANGED pdSol
          ELSE pdSol' = "VH" /\ UNCHANGED ePermState
  /\ IF bHasBeenReset THEN Factor ELSE Substitute
  /\ UNCHANGED <<manager, bHasBeenReset, permuted, VH, XH, sem, notified, lists,
                 col_locks, applied, pc, locals>>

Release ==
  /\ caller = "Release"
  /\ sem' = [sem EXCEPT ![next] = @ + 1]
  /\ IF next = nThreads - 1 THEN caller' = "Wait" /\ UNCHANGED next
                            ELSE next' = next + 1 /\ UNCHANGED caller
  /\ UNCHANGED <<calls, op, thread_count, notified, lists, piv, todo, row_locks,
                 col_locks, applied, vectors, pc, locals>>

(* The caller waits, once and only if the count is not zero.                *)
Wait ==
  /\ caller = "Wait"
  /\ caller' = IF thread_count > 0 THEN "Blocked" ELSE "Collect"
  /\ UNCHANGED <<calls, next, pool, lists, piv, todo, row_locks, col_locks, applied,
                 vectors, pc, locals>>

WakeUp ==
  /\ caller = "Blocked" /\ notified
  /\ notified' = FALSE
  /\ caller' = "Collect"
  /\ UNCHANGED <<calls, next, op, thread_count, sem, lists, piv, todo, row_locks,
                 col_locks, applied, vectors, pc, locals>>

(* Solve goes on with the substitution.                                     *)
CollectFactor ==
  /\ caller = "Collect" /\ op = "FACTOR"
  /\ bHasBeenReset' = FALSE
  /\ Substitute
  /\ UNCHANGED <<manager, ePermState, permuted, pdSol, VH, XH, sem, notified, lists,
                 col_locks, applied, pc, locals>>

(* What the threads wrote, and the permutation back to the caller's order.  *)
Written == IF sol # Rows THEN "wrong" ELSE IF permuted THEN "permuted" ELSE "solution"
BackPerm == IF Written = "permuted" THEN "solution" ELSE "wrong"

CollectSolve ==
  /\ caller = "Collect" /\ op = "SOLVE"
  /\ VH' = IF pdSol = "VH" THEN Written ELSE VH
  /\ IF manager.perm /\ ePermState = "PERM_READY"
     THEN XH' = BackPerm /\ pdSol' = "XH"
     ELSE XH' = (IF pdSol = "XH" THEN Written ELSE XH) /\ UNCHANGED pdSol
  /\ caller' = "Use"
  /\ UNCHANGED <<manager, next, ePermState, bHasBeenReset, permuted, pool, lists, piv,
                 todo, row_locks, col_locks, applied, vectors, pc, locals>>

(* Update(pSolHdl).                                                         *)
Use ==
  /\ caller = "Use"
  /\ caller' = "Idle"
  /\ UNCHANGED <<calls, next, pool, lists, piv, todo, row_locks, col_locks, applied,
                 vectors, pc, locals>>

(* ~ParNaiveSolver: the threads are released, awaited and joined.           *)
Destroy ==
  /\ caller = "Idle"
  /\ Dispatch("EXIT")
  /\ UNCHANGED <<calls, sem, notified, lists, piv, todo, row_locks, col_locks, applied,
                 vectors, pc, locals>>

Join ==
  /\ caller = "Collect" /\ op = "EXIT"
  /\ \A t \in Threads : pc[t] = "Gone"
  /\ caller' = "Gone"
  /\ UNCHANGED <<calls, next, pool, lists, piv, todo, row_locks, col_locks, applied,
                 vectors, pc, locals>>

-----------------------------------------------------------------------------
(* The threads: thread_op, between sem_wait and EndOfOp.                    *)
Start(t) ==
  /\ pc[t] = "Acquire" /\ sem[t] > 0
  /\ sem' = [sem EXCEPT ![t] = @ - 1]
  /\ i' = [i EXCEPT ![t] = 0]
  /\ pc' = [pc EXCEPT ![t] = CASE op = "FACTOR" -> "Pivot"
                               [] op = "SOLVE" -> "First"
                               [] OTHER -> "Exit"]
  /\ UNCHANGED <<calls, caller, next, op, thread_count, notified, lists, piv, todo,
                 row_locks, col_locks, applied, vectors, k, pvr, cols, s>>

(* A mutation of EndOfOp after which a thread waits for work after EXIT.     *)
EndOfOpKeepsGoing(t) ==
  /\ pc[t] \in {"EndOfOp", "Exit"}
  /\ thread_count' = thread_count - 1
  /\ notified' = (notified \/ (thread_count' = 0 /\ caller = "Blocked"))
  /\ pc' = [pc EXCEPT ![t] = "Acquire"]
  /\ UNCHANGED <<calls, caller, next, op, sem, lists, piv, todo, row_locks, col_locks,
                 applied, vectors, locals>>

(* EndOfOp, with thread_mutex locked.                                       *)
EndOfOp(t) ==
  /\ pc[t] \in {"EndOfOp", "Exit"}
  /\ thread_count' = thread_count - 1
  /\ notified' = (notified \/ (thread_count' = 0 /\ caller = "Blocked"))
  /\ pc' = [pc EXCEPT ![t] = IF @ = "Exit" THEN "Gone" ELSE "Acquire"]
  /\ UNCHANGED <<calls, caller, next, op, sem, lists, piv, todo, row_locks, col_locks,
                 applied, vectors, locals>>

-----------------------------------------------------------------------------
(* pnaivfct, column i[t].                                                   *)

(* Thread 0 chooses a pivot among the rows that have an entry in the column *)
(* and were not pivots before.  Which of them is large enough and which has *)
(* fewest entries is left open.                                             *)
ChoosePivot ==
  /\ pc[0] = "Pivot"
  /\ \E r \in ToSet(ri[i[0]]) \cap todo :
       /\ pvr' = r
       /\ todo' = todo \ {r}
  /\ pc' = [pc EXCEPT ![0] = "Publish"]
  /\ UNCHANGED <<calls, caller, next, pool, lists, piv, row_locks, col_locks, applied,
                 vectors, i, k, cols, s>>

(* A mutation of NoPivot in which the thread just returns.                  *)
NoPivotReturns ==
  /\ pc[0] = "Pivot"
  /\ pc' = [pc EXCEPT ![0] = "EndOfOp"]
  /\ UNCHANGED <<calls, caller, next, pool, lists, piv, todo, row_locks, col_locks,
                 applied, vectors, locals>>

(* NAIVE_ENULCOL or NAIVE_ENOPIV: thread_op throws, out of the thread, and  *)
(* the program ends.                                                        *)
NoPivot ==
  /\ pc[0] = "Pivot"
  /\ caller' = "Terminated"
  /\ UNCHANGED <<calls, next, pool, lists, piv, todo, row_locks, col_locks, applied,
                 vectors, pc, locals>>

PublishPivot ==
  /\ pc[0] = "Publish"
  /\ piv' = [piv EXCEPT ![i[0]] = pvr]
  /\ pc' = [pc EXCEPT ![0] = "Rows"]
  /\ k' = [k EXCEPT ![0] = 1]
  /\ UNCHANGED <<calls, caller, next, pool, lists, todo, row_locks, col_locks, applied,
                 vectors, i, pvr, cols, s>>

(* The other threads spin until the pivot is there.                         *)
AwaitPivot(t) ==
  /\ pc[t] = "Pivot" /\ t # 0
  /\ piv[i[t]] >= 0
  /\ pc' = [pc EXCEPT ![t] = "Rows"]
  /\ k' = [k EXCEPT ![t] = 1]
  /\ UNCHANGED <<calls, caller, next, pool, lists, piv, todo, row_locks, col_locks,
                 applied, vectors, i, pvr, cols, s>>

(* A mutation of Mine in which rows that were pivots are eliminated too.    *)
MineWithPivots(t) ==
  {n \in DOMAIN ri[i[t]] : n >= k[t] /\ ri[i[t]][n] % nThreads = t}

(* The rows of the column that are still to be eliminated by the thread.    *)
Mine(t) ==
  {n \in DOMAIN ri[i[t]] :
     n >= k[t] /\ ri[i[t]][n] \in todo /\ ri[i[t]][n] % nThreads = t}

(* The pivot row is subtracted where the row has entries already; the other *)
(* columns of the pivot row are new entries, to be added one by one.        *)
EliminateRow(t) ==
  /\ pc[t] = "Rows"
  /\ \E n \in Mine(t) :
     /\ \A m \in Mine(t) : n <= m
     /\ LET r == ri[i[t]][n]
            p == ci[piv[i[t]]]
            new == Selection(p, {m \in DOMAIN p : p[m] > i[t] /\ p[m] \notin ToSet(ci[r])})
        IN /\ applied' = [applied EXCEPT ![r] = Append(@, i[t])]
           /\ cols' = [cols EXCEPT ![t] = new]
           /\ k' = [k EXCEPT ![t] = IF new = <<>> THEN n + 1 ELSE n]
           /\ pc' = [pc EXCEPT ![t] = IF new = <<>> THEN @ ELSE "Lock"]
  /\ UNCHANGED <<calls, caller, next, pool, lists, piv, todo, row_locks, col_locks,
                 vectors, i, pvr, s>>

(* One turn of the loop on AO_test_and_set_full, which goes on as long as   *)
(* the lock was free: a thread comes through when it finds the lock taken,  *)
(* by itself or by another.                                                 *)
TestAndSet(t) ==
  /\ pc[t] = "Lock"
  /\ col_locks' = [col_locks EXCEPT ![Head(cols[t])] = TRUE]
  /\ pc' = [pc EXCEPT ![t] = IF col_locks[Head(cols[t])] THEN "Fill" ELSE @]
  /\ UNCHANGED <<calls, caller, next, pool, lists, piv, todo, row_locks, applied,
                 vectors, locals>>

(* A mutation of Fill that does not clear the lock.                         *)
FillKeepsLock(t) ==
  /\ pc[t] = "Fill"
  /\ LET c == Head(cols[t]) IN
     /\ ci' = [ci EXCEPT ![ri[i[t]][k[t]]] = Append(@, c)]
     /\ ril' = [ril EXCEPT ![k[t]] = @ \cup {c}]
     /\ UNCHANGED col_locks
  /\ cols' = [cols EXCEPT ![t] = Tail(@)]
  /\ pc' = [pc EXCEPT ![t] = IF Len(cols[t]) = 1 THEN "Rows" ELSE "Lock"]
  /\ k' = [k EXCEPT ![t] = IF Len(cols[t]) = 1 THEN @ + 1 ELSE @]
  /\ UNCHANGED <<calls, caller, next, pool, ri, piv, todo, row_locks, applied, vectors,
                 i, pvr, s>>

(* The new entry, noted in the list of the row, and AO_CLEAR.               *)
Fill(t) ==
  /\ pc[t] = "Fill"
  /\ LET c == Head(cols[t]) IN
     /\ ci' = [ci EXCEPT ![ri[i[t]][k[t]]] = Append(@, c)]
     /\ ril' = [ril EXCEPT ![k[t]] = @ \cup {c}]
     /\ col_locks' = [col_locks EXCEPT ![c] = FALSE]
  /\ cols' = [cols EXCEPT ![t] = Tail(@)]
  /\ pc' = [pc EXCEPT ![t] = IF Len(cols[t]) = 1 THEN "Rows" ELSE "Lock"]
  /\ k' = [k EXCEPT ![t] = IF Len(cols[t]) = 1 THEN @ + 1 ELSE @]
  /\ UNCHANGED <<calls, caller, next, pool, ri, piv, todo, row_locks, applied, vectors,
                 i, pvr, s>>

ArriveAtColumn(t) ==
  /\ pc[t] = "Rows" /\ Mine(t) = {}
  /\ row_locks' = [row_locks EXCEPT ![i[t]] = @ + 1]
  /\ pc' = [pc EXCEPT ![t] = "Column"]
  /\ UNCHANGED <<calls, caller, next, pool, lists, piv, todo, col_locks, applied,
                 vectors, locals>>

NextColumn(t) ==
  /\ i' = [i EXCEPT ![t] = @ + 1]
  /\ pc' = [pc EXCEPT ![t] = IF i[t] + 1 < iSize THEN "Pivot" ELSE "EndOfOp"]

(* A mutation of LeaveColumn that does not wait for the others.             *)
LeaveColumnAtOnce(t) ==
  /\ pc[t] = "Column"
  /\ IF t = 0 THEN pc' = [pc EXCEPT ![t] = "Merge"] /\ UNCHANGED i
              ELSE NextColumn(t)
  /\ UNCHANGED <<calls, caller, next, pool, lists, piv, todo, row_locks, col_locks,
                 applied, vectors, k, pvr, cols, s>>

(* The threads spin until all are done with the column.                     *)
LeaveColumn(t) ==
  /\ pc[t] = "Column"
  /\ row_locks[i[t]] >= nThreads
  /\ IF t = 0 THEN pc' = [pc EXCEPT ![t] = "Merge"] /\ UNCHANGED i
              ELSE NextColumn(t)
  /\ UNCHANGED <<calls, caller, next, pool, lists, piv, todo, row_locks, col_locks,
                 applied, vectors, k, pvr, cols, s>>

(* The rows that got an entry in column c, in the order of column j.        *)
NewRows(c, j) == Selection(ri[j], {m \in DOMAIN ri[j] : c \in ril[m]})

(* A mutation of Merge that does not empty the lists of new entries.        *)
MergeKeepsLists ==
  /\ pc[0] = "Merge"
  /\ ri' = [c \in Rows |-> ri[c] \o NewRows(c, i[0])]
  /\ NextColumn(0)
  /\ UNCHANGED <<calls, caller, next, pool, ci, ril, piv, todo, row_locks, col_locks,
                 applied, vectors, k, pvr, cols, s>>

(* Thread 0 adds the new entries to the lists of their columns.             *)
Merge ==
  /\ pc[0] = "Merge"
  /\ ri' = [c \in Rows |-> ri[c] \o NewRows(c, i[0])]
  /\ ril' = [n \in DOMAIN ril |-> IF n <= Len(ri[i[0]]) THEN {} ELSE ril[n]]
  /\ NextColumn(0)
  /\ UNCHANGED <<calls, caller, next, pool, ci, piv, todo, row_locks, col_locks,
                 applied, vectors, k, pvr, cols, s>>

-----------------------------------------------------------------------------
(* pnaivslv.  Row j of the factored matrix is row piv[j].                   *)

(* The right-hand side is still there unless the solution was written over  *)
(* it.                                                                      *)
RhsIsThere == pdSol = "VH" => sol = {}

(* The thread turns to the first of its rows from j on, or from j back.     *)
EnterForward(t, j) ==
  LET own == {n \in j .. iSize - 1 : n % nThreads = t} IN
  IF own = {}
  THEN pc' = [pc EXCEPT ![t] = "Arrive"] /\ UNCHANGED <<i, cols, s>>
  ELSE \E n \in own :
         /\ \A m \in own : n <= m
         /\ pc' = [pc EXCEPT ![t] = "Forward"]
         /\ i' = [i EXCEPT ![t] = n]
         /\ cols' = [cols EXCEPT ![t] =
              LET p == ci[piv[n]] IN Selection(p, {m \in DOMAIN p : p[m] < n})]
         /\ s' = [s EXCEPT ![t] = RhsIsThere]

EnterBackward(t, j) ==
  LET own == {n \in 0 .. j : n % nThreads = t} IN
  IF own = {}
  THEN pc' = [pc EXCEPT ![t] = "EndOfOp"] /\ UNCHANGED <<i, cols, s>>
  ELSE \E n \in own :
         /\ \A m \in own : n >= m
         /\ pc' = [pc EXCEPT ![t] = "Backward"]
         /\ i' = [i EXCEPT ![t] = n]
         /\ cols' = [cols EXCEPT ![t] =
              LET p == ci[piv[n]] IN Selection(p, {m \in DOMAIN p : p[m] > n})]
         /\ s' = [s EXCEPT ![t] = n \in fwd]

(* An entry of a vector is right if what it was computed from was.          *)
Store(v, j, right) == IF right THEN v \cup {j} ELSE v \ {j}

(* Thread 0 has the first row, which needs no other.                        *)
FirstRow(t) ==
  /\ pc[t] = "First"
  /\ IF t = 0 THEN /\ fwd' = Store(fwd, 0, RhsIsThere)
                   /\ row_locks' = [row_locks EXCEPT ![0] = 1]
              ELSE UNCHANGED <<fwd, row_locks>>
  /\ EnterForward(t, 1)
  /\ UNCHANGED <<calls, caller, next, pool, lists, piv, todo, col_locks, applied, sol,
                 k, pvr>>

(* fwd of an earlier row is subtracted once its lock says it is there.      *)
SubtractForward(t) ==
  /\ pc[t] = "Forward" /\ cols[t] # <<>>
  /\ LET c == Head(cols[t]) IN
     /\ row_locks[c] # 0
     /\ s' = [s EXCEPT ![t] = @ /\ c \in fwd]
  /\ cols' = [cols EXCEPT ![t] = Tail(@)]
  /\ UNCHANGED <<calls, caller, next, pool, lists, piv, todo, row_locks, col_locks,
                 applied, vectors, pc, i, k, pvr>>

StoreForward(t) ==
  /\ pc[t] = "Forward" /\ cols[t] = <<>>
  /\ fwd' = Store(fwd, i[t], s[t])
  /\ row_locks' = [row_locks EXCEPT ![i[t]] = 1]
  /\ EnterForward(t, i[t] + 1)
  /\ UNCHANGED <<calls, caller, next, pool, lists, piv, todo, col_locks, applied, sol,
                 k, pvr>>

(* All threads are done with fwd before any begins with sol.                *)
ArriveAtEnd(t) ==
  /\ pc[t] = "Arrive"
  /\ row_locks' = [row_locks EXCEPT ![iSize] = @ + 1]
  /\ pc' = [pc EXCEPT ![t] = "Half"]
  /\ UNCHANGED <<calls, caller, next, pool, lists, piv, todo, col_locks, applied,
                 vectors, locals>>

TurnBack(t) ==
  /\ pc[t] = "Half"
  /\ row_locks[iSize] >= nThreads
  /\ IF t = 0 THEN /\ sol' = Store(sol, iSize - 1, iSize - 1 \in fwd)
                   /\ row_locks' = [row_locks EXCEPT ![iSize - 1] = 0]
              ELSE UNCHANGED <<sol, row_locks>>
  /\ EnterBackward(t, iSize - 2)
  /\ UNCHANGED <<calls, caller, next, pool, lists, piv, todo, col_locks, applied, fwd,
                 k, pvr>>

SubtractBackward(t) ==
  /\ pc[t] = "Backward" /\ cols[t] # <<>>
  /\ LET c == Head(cols[t]) IN
     /\ row_locks[c] = 0
     /\ s' = [s EXCEPT ![t] = @ /\ c \in sol]
  /\ cols' = [cols EXCEPT ![t] = Tail(@)]
  /\ UNCHANGED <<calls, caller, next, pool, lists, piv, todo, row_locks, col_locks,
                 applied, vectors, pc, i, k, pvr>>

StoreBackward(t) ==
  /\ pc[t] = "Backward" /\ cols[t] = <<>>
  /\ sol' = Store(sol, i[t], s[t])
  /\ row_locks' = [row_locks EXCEPT ![i[t]] = 0]
  /\ EnterBackward(t, i[t] - 1)
  /\ UNCHANGED <<calls, caller, next, pool, lists, piv, todo, col_locks, applied, fwd,
                 k, pvr>>

-----------------------------------------------------------------------------
Caller ==
  \/ Assemble \/ Solve \/ Release \/ Wait \/ WakeUp \/ CollectFactor \/ CollectSolve
  \/ Use \/ Destroy \/ Join

pnaivfct(t) ==
  \/ t = 0 /\ (ChoosePivot \/ NoPivot \/ PublishPivot \/ Merge)
  \/ AwaitPivot(t) \/ EliminateRow(t) \/ TestAndSet(t) \/ Fill(t)
  \/ ArriveAtColumn(t) \/ LeaveColumn(t)

pnaivslv(t) ==
  \/ FirstRow(t) \/ SubtractForward(t) \/ StoreForward(t)
  \/ ArriveAtEnd(t) \/ TurnBack(t) \/ SubtractBackward(t) \/ StoreBackward(t)

Thread(t) == Start(t) \/ pnaivfct(t) \/ pnaivslv(t) \/ EndOfOp(t)

(* Nothing happens after the program has ended.                             *)
Next ==
  /\ caller # "Terminated"
  /\ Caller \/ \E t \in Threads : Thread(t)

Spec == Init /\ [][Next]_vars

(* Each thread is one of the operating system's.  When the next iteration   *)
(* comes is not assumed.                                                    *)
FairSpec ==
  /\ Spec
  /\ WF_vars(caller # "Terminated" /\ caller # "Idle" /\ Caller)
  /\ \A t \in Threads : WF_vars(caller # "Terminated" /\ Thread(t))

-----------------------------------------------------------------------------
(* Types.                                                                   *)
TypeOK ==
  /\ manager \in Managers
  /\ caller \in {"Idle", "Solve", "Release", "Wait", "Blocked", "Collect", "Use", "Gone",
                 "Terminated"}
  /\ next \in Threads
  /\ ePermState \in {"PERM_NO", "PERM_INTERMEDIATE", "PERM_READY"}
  /\ bHasBeenReset \in BOOLEAN /\ permuted \in BOOLEAN
  /\ pdSol \in {"VH", "XH"}
  /\ VH \in {"none", "residual", "solution", "permuted", "wrong"}
  /\ XH \in {"none", "old", "solution", "permuted", "wrong"}
  /\ op \in {"NONE", "FACTOR", "SOLVE", "EXIT"}
  /\ thread_count \in 0 .. nThreads
  /\ sem \in [Threads -> 0 .. 1]
  /\ notified \in BOOLEAN
  /\ ci \in [Rows -> Seq(Rows)] /\ ri \in [Rows -> Seq(Rows)]
  /\ ril \in [1 .. iSize -> SUBSET Rows]
  /\ piv \in [Rows -> Rows \cup {-1}]
  /\ todo \subseteq Rows
  /\ row_locks \in [0 .. iSize -> 0 .. nThreads]
  /\ col_locks \in [Rows -> BOOLEAN]
  /\ applied \in [Rows -> Seq(Rows)]
  /\ fwd \subseteq Rows /\ sol \subseteq Rows
  /\ pc \in [Threads -> {"Acquire", "Pivot", "Publish", "Rows", "Lock", "Fill", "Column",
                         "Merge", "First", "Forward", "Arrive", "Half", "Backward",
                         "EndOfOp", "Exit", "Gone"}]
  /\ i \in [Threads -> 0 .. iSize]
  /\ k \in [Threads -> 1 .. iSize + 1]
  /\ pvr \in Rows
  /\ cols \in [Threads -> Seq(Rows)]
  /\ s \in [Threads -> BOOLEAN]

(* A row that was made the pivot of a column is not written any more: what  *)
(* the other threads subtract is complete (the spinning on row_locks and    *)
(* the order in which todo and piv are written in pnaivfct).                *)
PivotRowsAreFinal ==
  [][\A c \in Rows :
       piv[c] >= 0 /\ piv'[c] = piv[c] /\ UNCHANGED bHasBeenReset
         => UNCHANGED <<ci[piv[c]], applied[piv[c]]>>]_vars

(* After a factorization every row is the pivot of one column, and of each  *)
(* row exactly the columns before its own where it has an entry, new ones   *)
(* included, were eliminated, once and in order.                            *)
EliminatedInOrder ==
  ~bHasBeenReset =>
    /\ {piv[c] : c \in Rows} = Rows
    /\ \A c \in Rows :
         applied[piv[c]] = ListOf({d \in ToSet(ci[piv[c]]) : d < c})

(* An entry noted in ril by the column thread 0 is at, and not yet in ri.   *)
IsNew(r, c) ==
  /\ pc[0] \in {"Rows", "Lock", "Fill", "Column", "Merge"}
  /\ \E n \in DOMAIN ri[i[0]] : ri[i[0]][n] = r /\ c \in ril[n]

(* The lists by row and by column describe the same entries, each once,     *)
(* except for those that wait in ril to be merged; and ril is empty between *)
(* two operations, where Factor does not reset it.                          *)
ListsAgree ==
  /\ \A c \in Rows : IsInjective(ri[c]) /\ IsInjective(ci[c])
  /\ \A r, c \in Rows :
       c \in ToSet(ci[r]) <=> (r \in ToSet(ri[c]) \/ IsNew(r, c))
  /\ caller \in {"Idle", "Solve"} => \A n \in DOMAIN ril : ril[n] = {}

(* Factor does not reset col_locks: they are clear whenever no thread is at *)
(* work ("they're always left equal to zero after use").                    *)
ColLocksAreLeftClear ==
  caller \in {"Idle", "Solve", "Use"} => \A c \in Rows : ~col_locks[c]

(* The nonlinear solver finds the solution of the last residual where       *)
(* pSolHdl says it is.                                                      *)
SolutionIsAvailable == caller = "Use" => XH = "solution"

(* How many columns are eliminated, and merged into the lists.              *)
Eliminated ==
  IF op = "FACTOR" THEN IF piv[0] = -1 THEN 0 ELSE i[0]
  ELSE IF bHasBeenReset THEN 0 ELSE iSize

(* What NaiveElimination sees of it.                                        *)
Phase ==
  CASE caller = "Idle" -> "idle"
    [] caller = "Use" -> "solved"
    [] caller = "Terminated" -> "terminated"
    [] caller \notin {"Idle", "Use", "Terminated"} /\ op = "EXIT" -> "over"
    [] OTHER -> "running"
Entries == [c \in Rows |-> ToSet(ri[c])]
Pivots == [n \in 1 .. Eliminated |-> piv[n - 1]]
Solved == caller = "Use" /\ XH = "solution"

Abstract == INSTANCE NaiveElimination WITH
  phase <- Phase, col <- Entries, piv <- Pivots, solution <- Solved

(* The threads together do what the sequential solver does: one column      *)
(* after the other, the same new entries, the solution where it is looked   *)
(* for; and every call returns, or a column without pivot ends the program. *)
KeepsPromise == Abstract!Spec

(* Destroying the solver ends, with every thread gone.                      *)
ThreadsEnd == op = "EXIT" ~> caller = "Gone" /\ \A t \in Threads : pc[t] = "Gone"
=============================================================================
