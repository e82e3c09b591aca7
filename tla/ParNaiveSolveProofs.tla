------------------------- MODULE ParNaiveSolveProofs -------------------------
(***************************************************************************)
(* Proofs about ParNaive, continued: the substitution, where the solution  *)
(* is, the types, and that the threads together do what NaiveElimination   *)
(* says.                                                                   *)
(***************************************************************************)
EXTENDS ParNaiveProofs

-----------------------------------------------------------------------------
\* The substitution.

Substituting == op = "SOLVE" /\ Working
After == {"Half", "Backward", "EndOfOp", "Acquire"}
Owner(n) == n % nThreads

\* A thread is done with fwd, has seen all be done with it; an entry of fwd or
\* of sol is there.
HalfWay(t) == Begun(t) /\ pc[t] \in After
Turned(t) == Begun(t) /\ pc[t] \in After \ {"Half"}
ForwardDone(n) ==
  /\ Begun(Owner(n))
  /\ \/ pc[Owner(n)] = "Forward" /\ n < i[Owner(n)]
     \/ pc[Owner(n)] \in After \cup {"Arrive"}
BackwardDone(n) ==
  IF n = iSize - 1
  THEN Turned(0)
  ELSE /\ Begun(Owner(n))
       /\ \/ pc[Owner(n)] = "Backward" /\ n > i[Owner(n)]
          \/ pc[Owner(n)] \in {"EndOfOp", "Acquire"}

\* Nobody turns back before all are done with fwd.
HalfWayInv ==
  /\ row_locks[iSize] = Cardinality({t \in Threads : HalfWay(t)})
  /\ \A t, u \in Threads : Turned(t) => HalfWay(u)

\* Everything that is there is right, and the lock of a row says whether fwd is
\* there and sol is not.
VectorsInv ==
  /\ \A n \in Rows : n \in fwd <=> ForwardDone(n)
  /\ \A n \in Rows : n \in sol <=> BackwardDone(n)
  /\ \A n \in Rows : row_locks[n] = IF n \in fwd /\ n \notin sol THEN 1 ELSE 0

\* The sum in the hands of a thread is right, and for a row of its own.
SumsInv ==
  \A t \in Threads :
    /\ pc[t] \in {"Forward", "Backward"} => s[t] /\ i[t] \in Rows /\ Owner(i[t]) = t
    /\ pc[t] = "Forward" => i[t] > 0
    /\ pc[t] = "Backward" => i[t] < iSize - 1

SolveInv == Substituting => HalfWayInv /\ VectorsInv /\ SumsInv

(* The first and the last row, and the thread that has the first.          *)
LEMMA Ends ==
  /\ 0 \in Rows /\ iSize - 1 \in Rows /\ iSize \notin Rows /\ Owner(0) = 0
  /\ \A n \in Rows : Owner(n) \in Threads /\ Owner(n) = n % nThreads
  /\ \A n \in Rows : n # iSize - 1 => ~ (n > iSize - 2)
<1>1. Owner(0) = 0
  BY NaiveAssumption DEF Owner
<1>2. \A n \in Rows : Owner(n) \in Threads /\ Owner(n) = n % nThreads
  BY Owners DEF Owner
<1>3. 0 \in Rows /\ iSize - 1 \in Rows /\ iSize \notin Rows
      /\ \A n \in Rows : n # iSize - 1 => ~ (n > iSize - 2)
  BY NaiveAssumption DEF Rows
<1> QED
  BY <1>1, <1>2, <1>3

(* Before all threads are done with fwd there is nothing of sol.           *)
LEMMA BeforeHalf ==
  ASSUME MatrixTypes, HalfWayInv, VectorsInv, NEW t \in Threads, ~ HalfWay(t)
  PROVE  sol = {} /\ (\A u \in Threads : ~ Turned(u)) /\ RhsIsThere
<1>1. \A u \in Threads : ~ Turned(u)
  BY DEF HalfWayInv
<1>2. \A n \in Rows : ~ BackwardDone(n)
  BY <1>1, Ends, ThreadsFinite DEF BackwardDone, Turned, After
<1>3. sol = {}
  BY <1>2 DEF VectorsInv, MatrixTypes
<1> QED
  BY <1>1, <1>3 DEF RhsIsThere

(* Once one has turned back, all of fwd is there.                          *)
LEMMA AfterHalf ==
  ASSUME MatrixTypes, VectorsInv, \A u \in Threads : HalfWay(u)
  PROVE  \A n \in Rows : ForwardDone(n) /\ n \in fwd
<1>1. \A n \in Rows : ForwardDone(n)
  BY Ends DEF ForwardDone, HalfWay
<1> QED
  BY <1>1 DEF VectorsInv

(* A thread that turns to its first row from j on has those before ...     *)
LEMMA ForwardDoneBefore ==
  ASSUME PoolTypes, ThreadTypes, NEW t \in Threads, NEW j \in Nat, EnterForward(t, j),
         Begun(t)', NEW m \in Rows, Owner(m) = t
  PROVE  ForwardDone(m)' <=> m < j
<1>1. /\ Owner(m)' = t /\ m \in Nat /\ m % nThreads = t
      /\ m >= j \/ m < j
      /\ ~ (m >= j /\ m < j)
  <2>1. m \in Nat
    BY DEF Rows
  <2>2. (m >= j \/ m < j) /\ ~ (m >= j /\ m < j)
    BY <2>1
  <2> QED
    BY <2>1, <2>2 DEF Owner
<1>2. CASE pc'[t] = "Arrive" /\ \A n \in Rows : n >= j => n % nThreads # t
  BY <1>1, <1>2 DEF ForwardDone, After
<1>3. ASSUME NEW n \in Rows, n >= j, pc'[t] = "Forward", i'[t] = n,
             \A q \in Rows : q >= j /\ q < n => q % nThreads # t
      PROVE  ForwardDone(m)' <=> m < j
  <2>1. m < j => m < n
    BY <1>3 DEF Rows
  <2>2. ForwardDone(m)' <=> m < n
    BY <1>1, <1>3 DEF ForwardDone, After
  <2> QED
    BY <1>1, <1>3, <2>1, <2>2
<1>4. CASE pc'[t] = "Arrive"
  BY <1>2, <1>4, ForwardRows
<1>5. CASE pc'[t] # "Arrive"
  <2>1. PICK n \in Rows :
              /\ n >= j /\ n % nThreads = t
              /\ \A q \in Rows : q >= j /\ q < n => q % nThreads # t
              /\ pc'[t] = "Forward" /\ i'[t] = n /\ s'[t] = RhsIsThere
              /\ i' = [i EXCEPT ![t] = n]
              /\ s' = [s EXCEPT ![t] = RhsIsThere]
              /\ cols' = [cols EXCEPT ![t] =
                   Selection(ci[piv[n]], {q \in DOMAIN ci[piv[n]] : ci[piv[n]][q] < n})]
    BY <1>5, ForwardRows, Zenon
  <2> QED
    BY <1>3, <2>1
<1> QED
  BY <1>4, <1>5

(* ... and one that turns to its last row up to j has those after.         *)
LEMMA BackwardDoneAfter ==
  ASSUME PoolTypes, ThreadTypes, NEW t \in Threads, NEW j \in Int, j < iSize,
         EnterBackward(t, j), Begun(t)', NEW m \in Rows, Owner(m) = t, m # iSize - 1
  PROVE  BackwardDone(m)' <=> m > j
<1>1. /\ Owner(m)' = t /\ m \in Nat /\ m % nThreads = t
      /\ m <= j \/ m > j
      /\ ~ (m <= j /\ m > j)
  <2>1. m \in Nat
    BY DEF Rows
  <2>2. (m <= j \/ m > j) /\ ~ (m <= j /\ m > j)
    BY <2>1
  <2> QED
    BY <2>1, <2>2 DEF Owner
<1>2. CASE pc'[t] = "EndOfOp" /\ \A n \in Rows : n <= j => n % nThreads # t
  BY <1>1, <1>2 DEF BackwardDone
<1>3. ASSUME NEW n \in Rows, n <= j, pc'[t] = "Backward", i'[t] = n,
             \A q \in Rows : q <= j /\ q > n => q % nThreads # t
      PROVE  BackwardDone(m)' <=> m > j
  <2>1. m > j => m > n
    BY <1>3 DEF Rows
  <2>2. BackwardDone(m)' <=> m > n
    BY <1>1, <1>3 DEF BackwardDone
  <2> QED
    BY <1>1, <1>3, <2>1, <2>2
<1>4. CASE pc'[t] = "EndOfOp"
  BY <1>2, <1>4, BackwardRows
<1>5. CASE pc'[t] # "EndOfOp"
  <2>1. PICK n \in Rows :
              /\ n <= j /\ n % nThreads = t
              /\ \A q \in Rows : q <= j /\ q > n => q % nThreads # t
              /\ pc'[t] = "Backward" /\ i'[t] = n /\ s'[t] = (n \in fwd)
              /\ i' = [i EXCEPT ![t] = n]
              /\ s' = [s EXCEPT ![t] = n \in fwd]
              /\ cols' = [cols EXCEPT ![t] =
                   Selection(ci[piv[n]], {q \in DOMAIN ci[piv[n]] : ci[piv[n]][q] > n})]
    BY <1>5, BackwardRows, Zenon
  <2> QED
    BY <1>3, <2>1
<1> QED
  BY <1>4, <1>5

(* Nothing is there before the first thread has begun.                     *)
LEMMA SolveInit == Init => SolveInv
BY DEF Init, SolveInv, Substituting, Working

(* Steps that leave what is there as it was.                               *)
LEMMA SolveKept ==
  ASSUME SolveInv, Substituting' => Substituting,
         Substituting' =>
           /\ UNCHANGED <<row_locks, fwd, sol, i, s>>
           /\ \A t \in Threads : /\ (HalfWay(t)' <=> HalfWay(t)) /\ (Turned(t)' <=> Turned(t))
                                 /\ pc'[t] \in {"Forward", "Backward"} => pc'[t] = pc[t]
           /\ \A n \in Rows : /\ ForwardDone(n)' <=> ForwardDone(n)
                              /\ BackwardDone(n)' <=> BackwardDone(n)
  PROVE  SolveInv'
<1> SUFFICES ASSUME Substituting' PROVE (HalfWayInv /\ VectorsInv /\ SumsInv)'
  BY DEF SolveInv
<1>1. HalfWayInv /\ VectorsInv /\ SumsInv
  BY DEF SolveInv
<1>2. HalfWayInv'
  <2>1. {t \in Threads : HalfWay(t)'} = {t \in Threads : HalfWay(t)}
    OBVIOUS
  <2> QED
    BY <1>1, <2>1 DEF HalfWayInv
<1>3. VectorsInv'
  BY <1>1 DEF VectorsInv
<1>4. SumsInv'
  BY <1>1 DEF SumsInv, Owner
<1> QED
  BY <1>2, <1>3, <1>4

(* The sum a thread begins with.                                           *)
LEMMA ForwardSum ==
  ASSUME PoolTypes, ThreadTypes, NEW t \in Threads, NEW j \in Nat, EnterForward(t, j)
  PROVE  /\ pc'[t] \in {"Arrive", "Forward"}
         /\ pc'[t] = "Forward" => /\ i'[t] \in Rows /\ i'[t] >= j /\ i'[t] % nThreads = t
                                  /\ s'[t] = RhsIsThere
<1>1. CASE pc'[t] = "Arrive"
  BY <1>1
<1>2. CASE pc'[t] # "Arrive"
  <2>1. PICK n \in Rows :
              /\ n >= j /\ n % nThreads = t
              /\ \A q \in Rows : q >= j /\ q < n => q % nThreads # t
              /\ pc'[t] = "Forward" /\ i'[t] = n /\ s'[t] = RhsIsThere
              /\ i' = [i EXCEPT ![t] = n]
              /\ s' = [s EXCEPT ![t] = RhsIsThere]
              /\ cols' = [cols EXCEPT ![t] =
                   Selection(ci[piv[n]], {q \in DOMAIN ci[piv[n]] : ci[piv[n]][q] < n})]
    BY <1>2, ForwardRows, Zenon
  <2> QED
    BY <2>1, Zenon
<1> QED
  BY <1>1, <1>2

LEMMA BackwardSum ==
  ASSUME PoolTypes, ThreadTypes, NEW t \in Threads, NEW j \in Int, j < iSize,
         EnterBackward(t, j)
  PROVE  /\ pc'[t] \in {"EndOfOp", "Backward"}
         /\ pc'[t] = "Backward" => /\ i'[t] \in Rows /\ i'[t] <= j /\ i'[t] % nThreads = t
                                   /\ s'[t] = (i'[t] \in fwd)
<1>1. CASE pc'[t] = "EndOfOp"
  BY <1>1
<1>2. CASE pc'[t] # "EndOfOp"
  <2>1. PICK n \in Rows :
              /\ n <= j /\ n % nThreads = t
              /\ \A q \in Rows : q <= j /\ q > n => q % nThreads # t
              /\ pc'[t] = "Backward" /\ i'[t] = n /\ s'[t] = (n \in fwd)
              /\ i' = [i EXCEPT ![t] = n]
              /\ s' = [s EXCEPT ![t] = n \in fwd]
              /\ cols' = [cols EXCEPT ![t] =
                   Selection(ci[piv[n]], {q \in DOMAIN ci[piv[n]] : ci[piv[n]][q] > n})]
    BY <1>2, BackwardRows, Zenon
  <2> QED
    BY <2>1, Zenon
<1> QED
  BY <1>1, <1>2

(* What a step of pnaivslv does to the other threads.                      *)
LEMMA OthersInSolve ==
  ASSUME PoolInv, ThreadTypes, SolveInv, caller # "Terminated",
         NEW t \in Threads, pnaivslv(t)
  PROVE  /\ Substituting /\ Substituting' /\ Begun(t) /\ Begun(t)'
         /\ HalfWayInv /\ VectorsInv /\ SumsInv
         /\ \A u \in Threads : u # t => /\ (HalfWay(u)' <=> HalfWay(u))
                                        /\ (Turned(u)' <=> Turned(u))
         /\ \A n \in Rows : Owner(n) # t =>
              /\ ForwardDone(n)' <=> ForwardDone(n)
              /\ n # iSize - 1 => (BackwardDone(n)' <=> BackwardDone(n))
         /\ \A n \in Rows : n = iSize - 1 =>
              /\ BackwardDone(n) <=> Turned(0)
              /\ BackwardDone(n)' <=> Turned(0)'
<1>1. /\ op = "SOLVE" /\ Begun(t) /\ Working
      /\ \A u \in Threads : Begun(u)' <=> Begun(u)
      /\ \A u \in Threads : u # t => pc'[u] = pc[u] /\ i'[u] = i[u]
      /\ UNCHANGED <<op, caller>>
  BY SolveFrame
<1>2. Substituting /\ Substituting' /\ Begun(t)'
  BY <1>1 DEF Substituting, Working
<1>3. \A u \in Threads : u # t => /\ (HalfWay(u)' <=> HalfWay(u))
                                  /\ (Turned(u)' <=> Turned(u))
  BY <1>1 DEF HalfWay, Turned
<1>4. ASSUME NEW n \in Rows, Owner(n) # t
      PROVE  /\ ForwardDone(n)' <=> ForwardDone(n)
             /\ n # iSize - 1 => (BackwardDone(n)' <=> BackwardDone(n))
  <2>1. Owner(n) \in Threads
    BY Ends
  <2>2. PICK u \in Threads : u = Owner(n)
    BY <2>1
  <2>3. u = Owner(n)' /\ u # t
    BY <1>4, <2>2 DEF Owner
  <2>4. ForwardDone(n)' <=> ForwardDone(n)
    BY <1>1, <2>2, <2>3 DEF ForwardDone
  <2>5. n # iSize - 1 => (BackwardDone(n)' <=> BackwardDone(n))
    BY <1>1, <2>2, <2>3 DEF BackwardDone
  <2> QED
    BY <2>4, <2>5
<1>5. \A n \in Rows : n = iSize - 1 =>
        /\ BackwardDone(n) <=> Turned(0)
        /\ BackwardDone(n)' <=> Turned(0)'
  BY DEF BackwardDone
<1> QED
  BY <1>1, <1>2, <1>3, <1>4, <1>5 DEF SolveInv

(* The sums of the other threads are not touched.                          *)
LEMMA SumsOfOthers ==
  ASSUME PoolInv, ThreadTypes, SumsInv, caller # "Terminated",
         NEW t \in Threads, pnaivslv(t),
         pc'[t] \in {"Forward", "Backward"} => s'[t] /\ i'[t] \in Rows /\ i'[t] % nThreads = t,
         pc'[t] = "Forward" => i'[t] > 0,
         pc'[t] = "Backward" => i'[t] < iSize - 1
  PROVE  SumsInv'
<1>1. \A u \in Threads : u # t => pc'[u] = pc[u] /\ i'[u] = i[u] /\ s'[u] = s[u]
  BY SolveFrame
<1> SUFFICES ASSUME NEW u \in Threads
             PROVE  /\ pc'[u] \in {"Forward", "Backward"}
                         => s'[u] /\ i'[u] \in Rows /\ i'[u] % nThreads = u
                    /\ pc'[u] = "Forward" => i'[u] > 0
                    /\ pc'[u] = "Backward" => i'[u] < iSize - 1
  BY DEF SumsInv, Owner
<1>2. CASE u = t
  BY <1>2
<1>3. CASE u # t
  BY <1>1, <1>3 DEF SumsInv, Owner
<1> QED
  BY <1>2, <1>3

(* Thread t stores the entries w of fwd and turns to its next row.         *)
LEMMA ForwardStep ==
  ASSUME PoolInv, PoolTypes, MatrixTypes, ThreadTypes, SolveInv, caller # "Terminated",
         NEW t \in Threads, pnaivslv(t), pc[t] \in {"First", "Forward"},
         NEW j \in Nat, j > 0, EnterForward(t, j), NEW w \in SUBSET Rows,
         \A m \in w : Owner(m) = t,
         \A m \in Rows : Owner(m) = t => (m < j <=> ForwardDone(m) \/ m \in w),
         sol' = sol, fwd' = fwd \cup w, row_locks'[iSize] = row_locks[iSize],
         \A n \in Rows : row_locks'[n] = IF n \in w THEN 1 ELSE row_locks[n]
  PROVE  SolveInv'
<1>1. /\ Begun(t)'
      /\ HalfWayInv /\ VectorsInv /\ SumsInv
      /\ \A u \in Threads : u # t => /\ (HalfWay(u)' <=> HalfWay(u))
                                     /\ (Turned(u)' <=> Turned(u))
      /\ \A n \in Rows : Owner(n) # t => (ForwardDone(n)' <=> ForwardDone(n))
  BY OthersInSolve
<1>2. pc'[t] \in {"Arrive", "Forward"}
      /\ (pc'[t] = "Forward" => /\ i'[t] \in Rows /\ i'[t] >= j /\ i'[t] % nThreads = t
                                /\ s'[t] = RhsIsThere)
  BY ForwardSum
<1>3. ~ HalfWay(t) /\ ~ HalfWay(t)' /\ ~ Turned(t)'
  BY <1>2 DEF HalfWay, Turned, After
<1>4. sol = {} /\ (\A u \in Threads : ~ Turned(u)) /\ RhsIsThere
  BY <1>1, <1>3, BeforeHalf
<1>5. \A u \in Threads : ~ Turned(u)' /\ (HalfWay(u)' <=> HalfWay(u))
  BY <1>1, <1>3, <1>4
<1>6. HalfWayInv'
  <2>1. {u \in Threads : HalfWay(u)'} = {u \in Threads : HalfWay(u)}
    BY <1>5
  <2> QED
    BY <1>1, <1>5, <2>1 DEF HalfWayInv
<1>7. \A n \in Rows : ~ BackwardDone(n)'
  BY <1>5, Ends, ThreadsFinite DEF BackwardDone, Turned, After, Owner
<1>8. \A n \in Rows : n \in fwd' <=> ForwardDone(n)'
  <2>1. \A n \in Rows : Owner(n) = t => (ForwardDone(n)' <=> n < j)
    BY <1>1, ForwardDoneBefore
  <2> QED
    BY <1>1, <2>1 DEF VectorsInv
<1>9. VectorsInv'
  <2>1. \A n \in Rows : row_locks'[n] = IF n \in fwd' /\ n \notin sol' THEN 1 ELSE 0
    BY <1>1, <1>4 DEF VectorsInv
  <2> QED
    BY <1>4, <1>7, <1>8, <2>1 DEF VectorsInv
<1>10. SumsInv'
  <2>1. pc'[t] = "Forward" => i'[t] > 0
    BY <1>2 DEF Rows
  <2> QED
    BY <1>1, <1>2, <1>4, <2>1, SumsOfOthers
<1> QED
  BY <1>6, <1>9, <1>10 DEF SolveInv

(* Thread t stores the entries w of sol and turns back to its next row.    *)
LEMMA BackwardStep ==
  ASSUME PoolInv, PoolTypes, MatrixTypes, ThreadTypes, SolveInv, caller # "Terminated",
         NEW t \in Threads, pnaivslv(t), pc[t] \in {"Half", "Backward"},
         \A u \in Threads : HalfWay(u),
         NEW j \in Int, j < iSize - 1, EnterBackward(t, j), NEW w \in SUBSET Rows,
         \A m \in w : m # iSize - 1 => Owner(m) = t,
         \A m \in Rows : Owner(m) = t /\ m # iSize - 1 => (m > j <=> BackwardDone(m) \/ m \in w),
         Turned(0)' <=> Turned(0) \/ iSize - 1 \in w,
         fwd' = fwd, sol' = sol \cup w, row_locks'[iSize] = row_locks[iSize],
         \A n \in Rows : row_locks'[n] = IF n \in w THEN 0 ELSE row_locks[n]
  PROVE  SolveInv'
<1>1. /\ Begun(t) /\ Begun(t)'
      /\ HalfWayInv /\ VectorsInv /\ SumsInv
      /\ \A u \in Threads : u # t => (HalfWay(u)' <=> HalfWay(u))
      /\ \A n \in Rows : Owner(n) # t =>
           /\ ForwardDone(n)' <=> ForwardDone(n)
           /\ n # iSize - 1 => (BackwardDone(n)' <=> BackwardDone(n))
      /\ \A n \in Rows : n = iSize - 1 =>
           /\ BackwardDone(n) <=> Turned(0)
           /\ BackwardDone(n)' <=> Turned(0)'
  BY OthersInSolve
<1>2. j < iSize
  BY NaiveAssumption
<1>3. pc'[t] \in {"EndOfOp", "Backward"}
      /\ (pc'[t] = "Backward" => /\ i'[t] \in Rows /\ i'[t] <= j /\ i'[t] % nThreads = t
                                 /\ s'[t] = (i'[t] \in fwd))
  BY <1>2, BackwardSum
<1>4. \A u \in Threads : HalfWay(u)'
  BY <1>1, <1>3 DEF HalfWay, After
<1>5. \A n \in Rows : ForwardDone(n) /\ n \in fwd
  BY <1>1, AfterHalf
<1>6. HalfWayInv'
  <2>1. {u \in Threads : HalfWay(u)'} = {u \in Threads : HalfWay(u)}
    BY <1>4
  <2> QED
    BY <1>1, <1>4, <2>1 DEF HalfWayInv
<1>7. \A n \in Rows : ForwardDone(n)'
  BY <1>4, Ends DEF ForwardDone, HalfWay, Owner
<1>8. \A n \in Rows : n \in sol' <=> BackwardDone(n)'
  <2>1. \A n \in Rows : Owner(n) = t /\ n # iSize - 1 => (BackwardDone(n)' <=> n > j)
    BY <1>1, <1>2, BackwardDoneAfter
  <2> QED
    BY <1>1, <2>1 DEF VectorsInv
<1>9. VectorsInv'
  <2>1. \A n \in Rows : row_locks'[n] = IF n \in fwd' /\ n \notin sol' THEN 1 ELSE 0
    BY <1>1 DEF VectorsInv
  <2> QED
    BY <1>5, <1>7, <1>8, <2>1 DEF VectorsInv
<1>10. SumsInv'
  <2>1. pc'[t] = "Backward" => i'[t] < iSize - 1
    BY <1>3, NaiveAssumption DEF Rows
  <2> QED
    BY <1>1, <1>3, <1>5, <2>1, SumsOfOthers
<1> QED
  BY <1>6, <1>9, <1>10 DEF SolveInv

(* Every step of pnaivslv: a thread subtracts what is there, and right.    *)
LEMMA SolveOfThread ==
  ASSUME PoolInv, MatrixTypes, ThreadTypes, SolveInv, caller # "Terminated",
         NEW t \in Threads, pnaivslv(t)
  PROVE  SolveInv'
<1>1. PoolTypes
  BY DEF PoolInv
<1>2. /\ Substituting /\ Substituting' /\ Begun(t) /\ Begun(t)'
      /\ HalfWayInv /\ VectorsInv /\ SumsInv
      /\ \A u \in Threads : u # t => /\ (HalfWay(u)' <=> HalfWay(u))
                                     /\ (Turned(u)' <=> Turned(u))
      /\ \A n \in Rows : Owner(n) # t =>
           /\ ForwardDone(n)' <=> ForwardDone(n)
           /\ n # iSize - 1 => (BackwardDone(n)' <=> BackwardDone(n))
      /\ \A n \in Rows : n = iSize - 1 =>
           /\ BackwardDone(n) <=> Turned(0)
           /\ BackwardDone(n)' <=> Turned(0)'
  BY OthersInSolve
<1>3. DOMAIN row_locks = 0 .. iSize /\ Rows \subseteq 0 .. iSize /\ iSize \in 0 .. iSize
  BY RowsFacts, NaiveAssumption DEF MatrixTypes
<1>4. CASE FirstRow(t)
  <2>1. pc[t] = "First" /\ EnterForward(t, 1) /\ sol' = sol
    BY <1>4 DEF FirstRow
  <2>2. RhsIsThere
    <3>1. ~ HalfWay(t)
      BY <2>1 DEF HalfWay, After
    <3> QED
      BY <1>2, <3>1, BeforeHalf
  <2>3. \A m \in Rows : Owner(m) = t => ~ ForwardDone(m)
    BY <2>1 DEF ForwardDone, After
  <2>4. \A m \in Rows : m < 1 <=> m = 0
    BY DEF Rows
  <2> DEFINE w == IF t = 0 THEN {0} ELSE {}
  <2>5. \A m \in Rows : Owner(m) = t => (m < 1 <=> ForwardDone(m) \/ m \in w)
    BY <2>3, <2>4, Ends
  <2>6. /\ fwd' = fwd \cup w /\ row_locks'[iSize] = row_locks[iSize]
        /\ \A n \in Rows : row_locks'[n] = IF n \in w THEN 1 ELSE row_locks[n]
    <3>1. CASE t = 0
      <4>1. fwd' = fwd \cup {0} /\ row_locks' = [row_locks EXCEPT ![0] = 1]
        BY <1>4, <2>2, <3>1 DEF FirstRow, Store
      <4> QED
        BY <1>3, <3>1, <4>1, Ends
    <3>2. CASE t # 0
      BY <1>4, <3>2 DEF FirstRow
    <3> QED
      BY <3>1, <3>2
  <2>7. w \in SUBSET Rows /\ \A m \in w : Owner(m) = t
    BY Ends
  <2> HIDE DEF w
  <2> QED
    BY <1>1, <2>1, <2>5, <2>6, <2>7, ForwardStep
<1>5. CASE SubtractForward(t)
  <2>1. /\ pc[t] = "Forward" /\ pc' = pc /\ cols[t] # <<>> /\ row_locks[Head(cols[t])] # 0
        /\ s' = [s EXCEPT ![t] = @ /\ Head(cols[t]) \in fwd]
        /\ UNCHANGED <<row_locks, fwd, sol, i>>
    BY <1>5 DEF SubtractForward, vectors
  <2>2. Head(cols[t]) \in Rows
    BY <2>1, TailOfList DEF ThreadTypes
  <2>3. Head(cols[t]) \in fwd
    BY <1>2, <2>1, <2>2 DEF VectorsInv
  <2>4. s[t] = TRUE
    BY <1>2, <2>1 DEF SumsInv, ThreadTypes
  <2>5. s' = s
    BY <2>1, <2>3, <2>4 DEF ThreadTypes
  <2>6. \A u \in Threads : (HalfWay(u)' <=> HalfWay(u)) /\ (Turned(u)' <=> Turned(u))
    BY <1>2, <2>1 DEF HalfWay, Turned
  <2>7. \A n \in Rows : /\ ForwardDone(n)' <=> ForwardDone(n)
                        /\ BackwardDone(n)' <=> BackwardDone(n)
    <3>1. ASSUME NEW n \in Rows, Owner(n) = t
          PROVE  /\ ForwardDone(n)' <=> ForwardDone(n)
                 /\ n # iSize - 1 => (BackwardDone(n)' <=> BackwardDone(n))
      BY <1>2, <2>1, <3>1 DEF ForwardDone, BackwardDone, Owner
    <3> QED
      BY <1>2, <2>6, <3>1, ThreadsFinite
  <2> QED
    BY <1>2, <2>1, <2>5, <2>6, <2>7, SolveKept
<1>6. CASE StoreForward(t)
  <2>1. pc[t] = "Forward" /\ EnterForward(t, i[t] + 1) /\ sol' = sol
        /\ fwd' = Store(fwd, i[t], s[t]) /\ row_locks' = [row_locks EXCEPT ![i[t]] = 1]
    BY <1>6 DEF StoreForward
  <2>2. s[t] /\ i[t] \in Rows /\ Owner(i[t]) = t
    BY <1>2, <2>1 DEF SumsInv
  <2>3. PICK q \in Rows : q = i[t]
    BY <2>2
  <2>4. fwd' = fwd \cup {q} /\ Owner(q) = t
    BY <2>1, <2>2, <2>3 DEF Store
  <2>5. q + 1 \in Nat /\ q + 1 > 0 /\ \A m \in Rows : m < q + 1 <=> m < q \/ m = q
    BY DEF Rows
  <2>6. \A m \in Rows : Owner(m) = t => (ForwardDone(m) <=> m < q)
    BY <1>2, <2>1, <2>3 DEF ForwardDone, After
  <2>7. /\ row_locks'[iSize] = row_locks[iSize]
        /\ \A n \in Rows : row_locks'[n] = IF n \in {q} THEN 1 ELSE row_locks[n]
    BY <1>3, <2>1, <2>3, Ends
  <2>8. \A m \in Rows : Owner(m) = t => (m < q + 1 <=> ForwardDone(m) \/ m \in {q})
    BY <2>5, <2>6
  <2>9. EnterForward(t, q + 1) /\ {q} \in SUBSET Rows /\ \A m \in {q} : Owner(m) = t
    BY <2>1, <2>3, <2>4
  <2> DEFINE j == q + 1
             w == {q}
  <2>10. /\ j \in Nat /\ j > 0 /\ EnterForward(t, j)
         /\ w \in SUBSET Rows /\ (\A m \in w : Owner(m) = t) /\ fwd' = fwd \cup w
         /\ \A m \in Rows : Owner(m) = t => (m < j <=> ForwardDone(m) \/ m \in w)
         /\ \A n \in Rows : row_locks'[n] = IF n \in w THEN 1 ELSE row_locks[n]
    BY <2>4, <2>5, <2>7, <2>8, <2>9
  <2> HIDE DEF j, w
  <2> QED
    BY <1>1, <2>1, <2>7, <2>10, ForwardStep
<1>7. CASE ArriveAtEnd(t)
  <2>1. /\ pc[t] = "Arrive" /\ pc'[t] = "Half"
        /\ row_locks' = [row_locks EXCEPT ![iSize] = @ + 1]
        /\ UNCHANGED <<fwd, sol, i, s>>
    BY <1>1, <1>7 DEF ArriveAtEnd, vectors, locals, PoolTypes
  <2>2. ~ HalfWay(t) /\ HalfWay(t)' /\ ~ Turned(t) /\ ~ Turned(t)'
    BY <1>2, <2>1 DEF HalfWay, Turned, After
  <2>3. HalfWayInv'
    <3> DEFINE S == {u \in Threads : HalfWay(u)}
               T == {u \in Threads : HalfWay(u)'}
    <3>1. T = S \cup {t} /\ t \notin S
      BY <1>2, <2>2
    <3>2. S \in SUBSET Threads
      OBVIOUS
    <3>3. IsFiniteSet(S)
      BY <3>2, SomeThreads
    <3>4. Cardinality(T) = Cardinality(S) + 1
      <4> HIDE DEF S, T
      <4> QED
        BY <3>1, <3>3, FS_AddElement
    <3>5. row_locks'[iSize] = row_locks[iSize] + 1
      BY <1>3, <2>1
    <3>6. \A u, v \in Threads : Turned(u)' => HalfWay(v)'
      BY <1>2, <2>2 DEF HalfWayInv
    <3> QED
      BY <1>2, <3>4, <3>5, <3>6 DEF HalfWayInv
  <2>4. \A n \in Rows : row_locks'[n] = row_locks[n]
    BY <1>3, <2>1, Ends
  <2>5. \A n \in Rows : /\ ForwardDone(n)' <=> ForwardDone(n)
                        /\ BackwardDone(n)' <=> BackwardDone(n)
    <3>1. ASSUME NEW n \in Rows, Owner(n) = t
          PROVE  /\ ForwardDone(n)' <=> ForwardDone(n)
                 /\ n # iSize - 1 => (BackwardDone(n)' <=> BackwardDone(n))
      BY <1>2, <2>1, <3>1 DEF ForwardDone, BackwardDone, Owner, After
    <3> QED
      BY <1>2, <2>2, <3>1, ThreadsFinite
  <2>6. VectorsInv'
    BY <1>2, <2>1, <2>4, <2>5 DEF VectorsInv
  <2>7. SumsInv'
    BY <1>2, <2>1, SumsOfOthers
  <2> QED
    BY <2>3, <2>6, <2>7 DEF SolveInv
<1>8. CASE TurnBack(t)
  <2>1. pc[t] = "Half" /\ row_locks[iSize] >= nThreads /\ EnterBackward(t, iSize - 2)
        /\ fwd' = fwd
    BY <1>8 DEF TurnBack
  <2>2. \A u \in Threads : HalfWay(u)
    <3> DEFINE S == {u \in Threads : HalfWay(u)}
    <3>1. S \in SUBSET Threads /\ Cardinality(S) >= nThreads
      BY <1>2, <2>1 DEF HalfWayInv
    <3>2. S = Threads
      <4> HIDE DEF S
      <4>1. Cardinality(S) \in 0 .. nThreads
        BY <3>1, SomeThreads
      <4>2. Cardinality(S) = nThreads
        BY <3>1, <4>1, NaiveAssumption
      <4> QED
        BY <3>1, <4>2, SomeThreads
    <3> QED
      BY <3>2
  <2>3. iSize - 1 \in Rows /\ iSize - 1 \in fwd
    BY <1>2, <2>2, AfterHalf, Ends
  <2>4. iSize - 2 \in Int /\ iSize - 2 < iSize - 1
    BY NaiveAssumption
  <2>5. pc'[t] \in {"EndOfOp", "Backward"}
    <3>1. iSize - 2 < iSize
      BY NaiveAssumption
    <3> QED
      BY <1>1, <2>1, <2>4, <3>1, BackwardSum
  <2> DEFINE w == IF t = 0 THEN {iSize - 1} ELSE {}
  <2>6. /\ sol' = sol \cup w /\ row_locks'[iSize] = row_locks[iSize]
        /\ \A n \in Rows : row_locks'[n] = IF n \in w THEN 0 ELSE row_locks[n]
    <3>1. CASE t = 0
      <4>1. sol' = sol \cup {iSize - 1} /\ row_locks' = [row_locks EXCEPT ![iSize - 1] = 0]
        BY <1>8, <2>3, <3>1 DEF TurnBack, Store
      <4>2. iSize - 1 # iSize /\ iSize - 1 \in 0 .. iSize
        BY <1>3, <2>3, Ends
      <4> QED
        BY <1>3, <3>1, <4>1, <4>2
    <3>2. CASE t # 0
      BY <1>8, <3>2 DEF TurnBack
    <3> QED
      BY <3>1, <3>2
  <2>7. Turned(0)' <=> Turned(0) \/ iSize - 1 \in w
    <3>1. CASE t = 0
      BY <1>2, <2>5, <3>1 DEF Turned, After
    <3>2. CASE t # 0
      BY <1>2, <3>2, ThreadsFinite
    <3> QED
      BY <3>1, <3>2
  <2>8. \A m \in w : m = iSize - 1
    OBVIOUS
  <2>9. \A m \in Rows : Owner(m) = t /\ m # iSize - 1 =>
          (m > iSize - 2 <=> BackwardDone(m) \/ m \in w)
    <3>1. \A m \in Rows : Owner(m) = t /\ m # iSize - 1 => ~ BackwardDone(m)
      BY <2>1 DEF BackwardDone
    <3> QED
      BY <2>8, <3>1, Ends
  <2>10. w \in SUBSET Rows
    BY <2>3
  <2> HIDE DEF w
  <2> QED
    BY <1>1, <2>1, <2>2, <2>4, <2>6, <2>7, <2>8, <2>9, <2>10, BackwardStep
<1>9. CASE SubtractBackward(t)
  <2>1. /\ pc[t] = "Backward" /\ pc' = pc /\ cols[t] # <<>> /\ row_locks[Head(cols[t])] = 0
        /\ s' = [s EXCEPT ![t] = @ /\ Head(cols[t]) \in sol]
        /\ UNCHANGED <<row_locks, fwd, sol, i>>
    BY <1>9 DEF SubtractBackward, vectors
  <2>2. Head(cols[t]) \in Rows
    BY <2>1, TailOfList DEF ThreadTypes
  <2>3. Head(cols[t]) \in sol
    <3>1. \A u \in Threads : HalfWay(u)
      BY <1>2, <2>1 DEF HalfWayInv, Turned, After
    <3>2. Head(cols[t]) \in fwd
      BY <1>2, <2>2, <3>1, AfterHalf
    <3> QED
      BY <1>2, <2>1, <2>2, <3>2 DEF VectorsInv
  <2>4. s[t] = TRUE
    BY <1>2, <2>1 DEF SumsInv, ThreadTypes
  <2>5. s' = s
    BY <2>1, <2>3, <2>4 DEF ThreadTypes
  <2>6. \A u \in Threads : (HalfWay(u)' <=> HalfWay(u)) /\ (Turned(u)' <=> Turned(u))
    BY <1>2, <2>1 DEF HalfWay, Turned
  <2>7. \A n \in Rows : /\ ForwardDone(n)' <=> ForwardDone(n)
                        /\ BackwardDone(n)' <=> BackwardDone(n)
    <3>1. ASSUME NEW n \in Rows, Owner(n) = t
          PROVE  /\ ForwardDone(n)' <=> ForwardDone(n)
                 /\ n # iSize - 1 => (BackwardDone(n)' <=> BackwardDone(n))
      BY <1>2, <2>1, <3>1 DEF ForwardDone, BackwardDone, Owner
    <3> QED
      BY <1>2, <2>6, <3>1, ThreadsFinite
  <2> QED
    BY <1>2, <2>1, <2>5, <2>6, <2>7, SolveKept
<1>10. CASE StoreBackward(t)
  <2>1. pc[t] = "Backward" /\ EnterBackward(t, i[t] - 1) /\ fwd' = fwd
        /\ sol' = Store(sol, i[t], s[t]) /\ row_locks' = [row_locks EXCEPT ![i[t]] = 0]
    BY <1>10 DEF StoreBackward
  <2>2. s[t] /\ i[t] \in Rows /\ Owner(i[t]) = t /\ i[t] < iSize - 1
    BY <1>2, <2>1 DEF SumsInv
  <2>3. PICK q \in Rows : q = i[t]
    BY <2>2
  <2>4. sol' = sol \cup {q} /\ Owner(q) = t
    BY <2>1, <2>2, <2>3 DEF Store
  <2>5. /\ q - 1 \in Int /\ q - 1 < iSize - 1 /\ q - 1 < iSize /\ q # iSize - 1
        /\ \A m \in Rows : m > q - 1 <=> m > q \/ m = q
    BY <2>2, <2>3, NaiveAssumption DEF Rows
  <2>6. \A m \in Rows : Owner(m) = t /\ m # iSize - 1 => (BackwardDone(m) <=> m > q)
    BY <1>2, <2>1, <2>3 DEF BackwardDone
  <2>7. /\ row_locks'[iSize] = row_locks[iSize]
        /\ \A n \in Rows : row_locks'[n] = IF n \in {q} THEN 0 ELSE row_locks[n]
    BY <1>3, <2>1, <2>3, Ends
  <2>8. \A m \in Rows : Owner(m) = t /\ m # iSize - 1 =>
          (m > q - 1 <=> BackwardDone(m) \/ m \in {q})
    BY <2>5, <2>6
  <2>9. EnterBackward(t, q - 1) /\ {q} \in SUBSET Rows /\ \A m \in {q} : Owner(m) = t
    BY <2>1, <2>3, <2>4
  <2>10. \A u \in Threads : HalfWay(u)
    BY <1>2, <2>1 DEF HalfWayInv, Turned, After
  <2>11. pc'[t] \in {"EndOfOp", "Backward"}
    BY <1>1, <2>5, <2>9, BackwardSum
  <2>12. Turned(0)' <=> Turned(0) \/ iSize - 1 \in {q}
    <3>1. CASE t = 0
      BY <1>2, <2>1, <2>5, <2>11, <3>1 DEF Turned, After
    <3>2. CASE t # 0
      BY <1>2, <2>5, <3>2, ThreadsFinite
    <3> QED
      BY <3>1, <3>2
  <2> DEFINE j == q - 1
             w == {q}
  <2>13. /\ j \in Int /\ j < iSize - 1 /\ EnterBackward(t, j)
         /\ w \in SUBSET Rows /\ (\A m \in w : m # iSize - 1 => Owner(m) = t)
         /\ sol' = sol \cup w
         /\ \A m \in Rows : Owner(m) = t /\ m # iSize - 1 =>
              (m > j <=> BackwardDone(m) \/ m \in w)
         /\ Turned(0)' <=> Turned(0) \/ iSize - 1 \in w
         /\ \A n \in Rows : row_locks'[n] = IF n \in w THEN 0 ELSE row_locks[n]
    BY <2>4, <2>5, <2>7, <2>8, <2>9, <2>12
  <2> HIDE DEF j, w
  <2> QED
    BY <1>1, <2>1, <2>7, <2>10, <2>13, BackwardStep
<1> QED
  BY <1>4, <1>5, <1>6, <1>7, <1>8, <1>9, <1>10 DEF pnaivslv

(* Steps of the caller, and a thread that reports its end.                 *)
LEMMA QuietInSolve ==
  ASSUME PoolInv, caller # "Terminated", QuietStep, Substituting'
  PROVE  /\ Substituting
         /\ \A t \in Threads : Begun(t)' <=> Begun(t)
         /\ \A t \in Threads : \/ pc'[t] = pc[t]
                               \/ pc[t] = "EndOfOp" /\ pc'[t] = "Acquire"
<1> USE DEF calls, pool
<1>1. PoolTypes /\ Waiting /\ PlacesOfOp
  BY DEF PoolInv
<1>2. CASE Release
  BY <1>1, <1>2, ReleaseUnstarted DEF Release, Begun, Substituting, Working
<1>3. CASE Wait \/ WakeUp
  BY <1>3 DEF Wait, WakeUp, Begun, Unstarted, Substituting, Working
<1>4. CASE CollectSolve \/ Use \/ Join \/ Destroy \/ NoPivot
  BY <1>4 DEF CollectSolve, Use, Join, Destroy, Dispatch, NoPivot, Substituting, Working
<1>5. ASSUME NEW t \in Threads, EndOfOp(t)
      PROVE  /\ UNCHANGED <<caller, op, next, sem>> /\ pc[t] \in {"EndOfOp", "Exit"}
             /\ pc'[t] = IF pc[t] = "Exit" THEN "Gone" ELSE "Acquire"
             /\ \A u \in Threads : u # t => pc'[u] = pc[u]
  BY <1>1, <1>5 DEF EndOfOp, PoolTypes
<1>6. CASE \E t \in Threads : EndOfOp(t)
  <2>1. PICK t \in Threads : EndOfOp(t)
    BY <1>6
  <2>2. Substituting /\ \A u \in Threads : Begun(u)' <=> Begun(u)
    BY <1>5, <2>1 DEF Begun, Unstarted, Substituting, Working
  <2>3. pc[t] # "Exit"
    BY <1>1, <2>2 DEF PlacesOfOp, Substituting
  <2> QED
    BY <1>5, <2>1, <2>2, <2>3
<1> QED
  BY <1>2, <1>3, <1>4, <1>6 DEF QuietStep

(* A new substitution: nobody has begun.                                   *)
LEMMA SolveDispatch ==
  ASSUME PoolInv, Substitute, pc' = pc, caller \in {"Solve", "Collect"}
  PROVE  SolveInv'
<1>1. PoolTypes /\ Pending = {}
  BY DEF PoolInv, Waiting
<1>2. \A t \in Threads : ~ Begun(t)'
  BY DispatchFrame DEF Substitute
<1>3. \A t \in Threads : pc'[t] \in {"Acquire", "Gone"}
  BY <1>1 DEF Pending
<1>4. /\ fwd' = {} /\ sol' = {} /\ row_locks'[iSize] = 0
      /\ \A n \in Rows : row_locks'[n] = 0
  BY RowsFacts, NaiveAssumption DEF Substitute
<1>5. HalfWayInv'
  <2>1. {t \in Threads : HalfWay(t)'} = {}
    BY <1>2 DEF HalfWay
  <2> QED
    BY <1>2, <1>4, <2>1, FS_EmptySet DEF HalfWayInv, Turned
<1>6. VectorsInv'
  <2>1. \A n \in Rows : ~ ForwardDone(n)' /\ ~ BackwardDone(n)'
    BY <1>2, Ends, ThreadsFinite DEF ForwardDone, BackwardDone, Turned, Owner
  <2> QED
    BY <1>4, <2>1 DEF VectorsInv
<1>7. SumsInv'
  BY <1>3 DEF SumsInv
<1> QED
  BY <1>5, <1>6, <1>7 DEF SolveInv

(* Every step preserves SolveInv.                                          *)
LEMMA SolveNext ==
  ASSUME FactorInv, SolveInv, [Next]_vars
  PROVE  SolveInv'
<1>1. PoolInv /\ PoolTypes /\ MatrixTypes /\ ThreadTypes
  BY DEF FactorInv, PoolInv
<1>2. CASE UNCHANGED vars
  BY <1>2 DEF vars, pool, vectors, locals, SolveInv, Substituting, Working, HalfWayInv,
     VectorsInv, SumsInv, HalfWay, Turned, ForwardDone, BackwardDone, Begun, Unstarted, Owner
<1>3. CASE caller # "Terminated" /\ QuietStep
  <2>1. UNCHANGED <<row_locks, fwd, sol, i, s>>
    BY <1>1, <1>3, QuietFrame
  <2>2. ASSUME Substituting'
        PROVE  /\ Substituting
               /\ \A t \in Threads : /\ (HalfWay(t)' <=> HalfWay(t))
                                     /\ (Turned(t)' <=> Turned(t))
                                     /\ pc'[t] \in {"Forward", "Backward"} => pc'[t] = pc[t]
               /\ \A n \in Rows : /\ ForwardDone(n)' <=> ForwardDone(n)
                                  /\ BackwardDone(n)' <=> BackwardDone(n)
    <3>1. /\ Substituting
          /\ \A t \in Threads : Begun(t)' <=> Begun(t)
          /\ \A t \in Threads : \/ pc'[t] = pc[t]
                                \/ pc[t] = "EndOfOp" /\ pc'[t] = "Acquire"
      BY <1>1, <1>3, <2>2, QuietInSolve
    <3>2. \A t \in Threads : (HalfWay(t)' <=> HalfWay(t)) /\ (Turned(t)' <=> Turned(t))
      BY <3>1 DEF HalfWay, Turned, After
    <3>3. ASSUME NEW n \in Rows
          PROVE  /\ ForwardDone(n)' <=> ForwardDone(n)
                 /\ BackwardDone(n)' <=> BackwardDone(n)
      <4>1. PICK t \in Threads : t = Owner(n)
        BY Ends
      <4>2. t = Owner(n)'
        BY <4>1 DEF Owner
      <4>3. ForwardDone(n)' <=> ForwardDone(n)
        BY <2>1, <3>1, <4>1, <4>2 DEF ForwardDone, After
      <4>4. BackwardDone(n)' <=> BackwardDone(n)
        BY <2>1, <3>1, <3>2, <4>1, <4>2, ThreadsFinite DEF BackwardDone
      <4> QED
        BY <4>3, <4>4
    <3> QED
      BY <3>1, <3>2, <3>3
  <2> QED
    BY <2>1, <2>2, SolveKept
<1>4. CASE Assemble
  BY <1>4 DEF Assemble, SolveInv, Substituting, Working
<1>5. CASE Solve
  <2>1. pc' = pc /\ caller = "Solve"
    BY <1>5 DEF Solve
  <2>2. CASE bHasBeenReset
    BY <1>5, <2>2 DEF Solve, Factor, Dispatch, SolveInv, Substituting
  <2>3. CASE ~ bHasBeenReset
    BY <1>1, <1>5, <2>1, <2>3, SolveDispatch DEF Solve
  <2> QED
    BY <2>2, <2>3
<1>6. CASE CollectFactor
  BY <1>1, <1>6, SolveDispatch DEF CollectFactor
<1>7. ASSUME NEW t \in Threads, caller # "Terminated", Start(t) PROVE SolveInv'
  <2>1. /\ ~ Begun(t) /\ Begun(t)' /\ (op = "SOLVE" => pc'[t] = "First")
        /\ \A u \in Threads : u # t => /\ pc'[u] = pc[u] /\ i'[u] = i[u]
                                       /\ (Begun(u)' <=> Begun(u))
        /\ UNCHANGED <<op, caller, row_locks, fwd, sol, s>>
    BY <1>1, <1>7, StartFrame
  <2> SUFFICES ASSUME Substituting' PROVE (HalfWayInv /\ VectorsInv /\ SumsInv)'
    BY DEF SolveInv
  <2>2. Substituting /\ pc'[t] = "First" /\ HalfWayInv /\ VectorsInv /\ SumsInv
    BY <2>1 DEF Substituting, Working, SolveInv
  <2>3. \A u \in Threads : (HalfWay(u)' <=> HalfWay(u)) /\ (Turned(u)' <=> Turned(u))
    BY <2>1, <2>2 DEF HalfWay, Turned, After
  <2>4. \A n \in Rows : /\ ForwardDone(n)' <=> ForwardDone(n)
                        /\ BackwardDone(n)' <=> BackwardDone(n)
    <3>1. ASSUME NEW n \in Rows
          PROVE  /\ ForwardDone(n)' <=> ForwardDone(n)
                 /\ BackwardDone(n)' <=> BackwardDone(n)
      <4>1. PICK u \in Threads : u = Owner(n)
        BY Ends
      <4>2. u = Owner(n)'
        BY <4>1 DEF Owner
      <4>3. ForwardDone(n)' <=> ForwardDone(n)
        BY <2>1, <2>2, <4>1, <4>2 DEF ForwardDone, After
      <4>4. BackwardDone(n)' <=> BackwardDone(n)
        BY <2>1, <2>2, <2>3, <4>1, <4>2, ThreadsFinite DEF BackwardDone
      <4> QED
        BY <4>3, <4>4
    <3> QED
      BY <3>1
  <2>5. HalfWayInv'
    <3>1. {u \in Threads : HalfWay(u)'} = {u \in Threads : HalfWay(u)}
      BY <2>3
    <3> QED
      BY <2>1, <2>2, <2>3, <3>1 DEF HalfWayInv
  <2>6. VectorsInv'
    BY <2>1, <2>2, <2>4 DEF VectorsInv
  <2>7. SumsInv'
    BY <2>1, <2>2 DEF SumsInv, Owner
  <2> QED
    BY <2>5, <2>6, <2>7
<1>8. ASSUME NEW t \in Threads, caller # "Terminated", pnaivfct(t), caller' # "Terminated"
      PROVE  SolveInv'
  BY <1>1, <1>8, FactorFrame DEF Factoring, Substituting, SolveInv
<1>9. ASSUME NEW t \in Threads, caller # "Terminated", pnaivslv(t) PROVE SolveInv'
  BY <1>1, <1>9, SolveOfThread
<1> QED
  BY <1>1, <1>2, <1>3, <1>4, <1>5, <1>6, <1>7, <1>8, <1>9, StepCases

-----------------------------------------------------------------------------
\* The types.

\* No counter exceeds the number of threads.
RowLocksInv == \A n \in 0 .. iSize : row_locks[n] \in 0 .. nThreads

\* Everything but where the solution is.
ThreadsInv == FactorInv /\ SolveInv /\ RowLocksInv

(* A counter says how many threads arrived, or whether an entry is there.  *)
LEMMA RowLocksNext ==
  ASSUME FactorInv, FactorInv', SolveInv', RowLocksInv, [Next]_vars
  PROVE  RowLocksInv'
<1>1. /\ PoolInv /\ PoolTypes /\ MatrixTypes /\ ThreadTypes /\ ColumnsInv
      /\ BarrierInv' /\ MatrixTypes'
  BY DEF FactorInv, PoolInv
<1>2. /\ 0 \in 0 .. nThreads /\ 1 \in 0 .. nThreads
      /\ \A n \in 0 .. iSize : n \in Rows \/ n = iSize
  BY NaiveAssumption DEF Rows
<1>3. CASE row_locks' = row_locks
  BY <1>3 DEF RowLocksInv
<1>4. CASE Factor \/ Substitute
  BY <1>2, <1>4 DEF Factor, Substitute, RowLocksInv
<1>5. CASE (caller # "Terminated" /\ QuietStep) \/ UNCHANGED vars
  BY <1>1, <1>3, <1>5, QuietFrame
<1>6. CASE Assemble \/ Solve \/ CollectFactor
  BY <1>3, <1>4, <1>6 DEF Assemble, Solve, CollectFactor
<1>7. ASSUME NEW t \in Threads, caller # "Terminated", Start(t) PROVE row_locks' = row_locks
  BY <1>1, <1>7, StartFrame
<1>8. ASSUME NEW t \in Threads, caller # "Terminated", pnaivfct(t), caller' # "Terminated"
      PROVE  RowLocksInv'
  <2>1. Factoring /\ Factoring' /\ Begun(t)
    BY <1>1, <1>8, FactorFrame
  <2>2. row_locks' = row_locks \/ ArriveAtColumn(t)
    BY <1>8, FactorCases DEF ChoosePivot, PublishPivot, Merge, AwaitPivot, EliminateRow,
       TestAndSet, Fill, LeaveColumn
  <2>3. CASE ArriveAtColumn(t)
    <3>1. i[t] \in Rows
      BY <1>1, <1>8, <2>1, FactorMoves DEF ColumnsInv
    <3>2. row_locks'[iSize] = row_locks[iSize]
      <4>1. iSize # i[t]
        BY <3>1, Ends
      <4>2. DOMAIN row_locks = 0 .. iSize /\ iSize \in 0 .. iSize
        BY <1>1, NaiveAssumption DEF MatrixTypes
      <4>3. row_locks' = [row_locks EXCEPT ![i[t]] = @ + 1]
        BY <2>3 DEF ArriveAtColumn
      <4> QED
        BY <4>1, <4>2, <4>3
    <3>3. \A c \in Rows : row_locks'[c] \in 0 .. nThreads
      <4>1. ASSUME NEW c \in Rows PROVE row_locks'[c] \in 0 .. nThreads
        <5>1. {u \in Threads : Arrived(u, c)'} \in SUBSET Threads
          OBVIOUS
        <5>2. Cardinality({u \in Threads : Arrived(u, c)'}) \in 0 .. nThreads
          BY <5>1, SomeThreads
        <5> QED
          BY <1>1, <2>1, <5>2 DEF BarrierInv
      <4> QED
        BY <4>1
    <3>4. iSize \in 0 .. iSize
      BY NaiveAssumption
    <3> QED
      BY <1>2, <3>2, <3>3, <3>4 DEF RowLocksInv
  <2> QED
    BY <1>3, <2>2, <2>3
<1>9. ASSUME NEW t \in Threads, caller # "Terminated", pnaivslv(t) PROVE RowLocksInv'
  <2>1. Substituting'
    BY <1>1, <1>9, SolveFrame DEF Substituting, Working
  <2>2. {u \in Threads : HalfWay(u)'} \in SUBSET Threads
    OBVIOUS
  <2>3. Cardinality({u \in Threads : HalfWay(u)'}) \in 0 .. nThreads
    BY <2>2, SomeThreads
  <2>4. row_locks'[iSize] \in 0 .. nThreads /\ \A n \in Rows : row_locks'[n] \in 0 .. nThreads
    BY <1>2, <2>1, <2>3 DEF SolveInv, HalfWayInv, VectorsInv
  <2> QED
    BY <1>2, <2>4 DEF RowLocksInv
<1> QED
  BY <1>1, <1>3, <1>5, <1>6, <1>7, <1>8, <1>9, StepCases

(* The invariant of the threads is inductive ...                           *)
LEMMA ThreadsInit == Init => ThreadsInv
<1>1. Init => RowLocksInv
  BY NaiveAssumption DEF Init, RowLocksInv
<1> QED
  BY <1>1, FactorInit, SolveInit DEF ThreadsInv

LEMMA ThreadsNext == ThreadsInv /\ [Next]_vars => ThreadsInv'
<1> SUFFICES ASSUME ThreadsInv, [Next]_vars PROVE ThreadsInv'
  OBVIOUS
<1>1. FactorInv'
  BY FactorNext DEF ThreadsInv
<1>2. SolveInv'
  BY SolveNext DEF ThreadsInv
<1>3. RowLocksInv'
  BY <1>1, <1>2, RowLocksNext DEF ThreadsInv
<1> QED
  BY <1>1, <1>2, <1>3 DEF ThreadsInv

(* ... so that in every reachable state of a factorization or substitution *)
(* what is there is right, and what a lock says is there is there.         *)
THEOREM ThreadsInvariant == Spec => []ThreadsInv
BY ThreadsInit, ThreadsNext, PTL DEF Spec

(* The types follow.                                                       *)
LEMMA InvTypes == ThreadsInv => TypeOK
<1> SUFFICES ASSUME ThreadsInv PROVE TypeOK
  OBVIOUS
<1>1. PoolTypes /\ CallTypes /\ MatrixTypes /\ ThreadTypes /\ RowLocksInv
  BY DEF ThreadsInv, FactorInv, PoolInv
<1>2. row_locks \in [0 .. iSize -> 0 .. nThreads]
  BY <1>1 DEF MatrixTypes, RowLocksInv
<1>3. pc \in [Threads -> {"Acquire", "Pivot", "Publish", "Rows", "Lock", "Fill", "Column",
                         "Merge", "First", "Forward", "Arrive", "Half", "Backward",
                         "EndOfOp", "Exit", "Gone"}]
  BY <1>1 DEF PoolTypes, ThreadPlaces, FactorPlaces, SolvePlaces
<1> QED
  BY <1>1, <1>2, <1>3 DEF TypeOK, PoolTypes, CallTypes, MatrixTypes, ThreadTypes, CallerPlaces

(* Types of the caller, the pool, the matrix and the threads.              *)
THEOREM NaiveTypeCorrect == Spec => []TypeOK
BY InvTypes, ThreadsInvariant, PTL

-----------------------------------------------------------------------------
\* Where the solution is.

\* The manager that permutes the columns is not used with the modified
\* Newton-Raphson method (naive_modified shows what happens if it is).
ManagersMatch == \A m \in Managers : ~ (m.perm /\ m.modified)

\* The permutation is computed by the first factorization, used from the next
\* matrix on, and undone for the caller.
ManagerInv ==
  /\ ~ manager.perm => ePermState = "PERM_NO" /\ pdSol = "XH" /\ ~ permuted
  /\ manager.perm /\ ePermState # "PERM_READY" => pdSol = "XH" /\ ~ permuted
  /\ manager.perm /\ ePermState = "PERM_READY" /\ op # "EXIT" =>
       permuted /\ pdSol = (IF caller \in {"Idle", "Solve", "Use"} THEN "XH" ELSE "VH")
  /\ manager.perm /\ caller = "Solve" => ePermState # "PERM_INTERMEDIATE" /\ bHasBeenReset
  /\ manager.perm /\ ((Working /\ op # "EXIT") \/ caller = "Use") => ePermState # "PERM_NO"
  /\ SolutionIsAvailable

LEMMA ManagerInit == Init => ManagerInv
BY DEF Init, ManagerInv, Working, SolutionIsAvailable

(* When the threads are done with the substitution the solution is there.  *)
LEMMA AllIsRight ==
  ASSUME ThreadsInv, CollectSolve
  PROVE  sol = Rows
<1>1. /\ PoolInv /\ MatrixTypes /\ SolveInv /\ caller = "Collect" /\ op = "SOLVE"
  BY DEF ThreadsInv, FactorInv, CollectSolve
<1>2. Substituting /\ Pending = {} /\ PlacesOfOp
  BY <1>1 DEF Substituting, Working, PoolInv, Waiting
<1>3. \A t \in Threads : Begun(t) /\ pc[t] = "Acquire"
  BY <1>1, <1>2 DEF Pending, Begun, PlacesOfOp
<1>4. \A n \in Rows : BackwardDone(n)
  BY <1>3, Ends, ThreadsFinite DEF BackwardDone, Turned, After
<1> QED
  BY <1>1, <1>2, <1>4 DEF SolveInv, VectorsInv, MatrixTypes

(* Every step preserves ManagerInv.                                        *)
LEMMA ManagerNext ==
  ASSUME ManagersMatch, ThreadsInv, ManagerInv, [Next]_vars
  PROVE  ManagerInv'
<1> USE DEF calls, pool, SolutionIsAvailable
<1>1. /\ PoolInv /\ PoolTypes /\ CallTypes /\ ThreadTypes
  BY DEF ThreadsInv, FactorInv, PoolInv
<1>2. ~ (manager.perm /\ manager.modified)
  BY <1>1 DEF CallTypes, ManagersMatch
<1>3. caller # "Terminated" => PlacesOfOp
  BY <1>1 DEF PoolInv
<1>4. CASE UNCHANGED <<calls, caller, op>>
  BY <1>4 DEF ManagerInv, Working
<1>5. CASE UNCHANGED vars
  BY <1>4, <1>5 DEF vars
<1>6. CASE Assemble
  <2>1. /\ caller = "Idle" /\ caller' = "Solve" /\ op \in {"NONE", "SOLVE"}
        /\ UNCHANGED <<manager, op>>
    BY <1>3, <1>6 DEF Assemble, PlacesOfOp
  <2>2. CASE MatrReset /\ Jacobian
    <3>1. permuted' = (ePermState' = "PERM_READY") /\ bHasBeenReset' = TRUE
      BY <2>2 DEF Jacobian, MatrReset
    <3>2. \/ /\ manager.perm /\ ePermState = "PERM_INTERMEDIATE"
             /\ ePermState' = "PERM_READY" /\ pdSol' = "XH"
          \/ /\ ~ (manager.perm /\ ePermState = "PERM_INTERMEDIATE")
             /\ UNCHANGED <<ePermState, pdSol>>
      BY <2>2 DEF MatrReset
    <3> QED
      BY <1>1, <2>1, <3>1, <3>2 DEF ManagerInv, Working, CallTypes
  <2>3. CASE manager.modified /\ UNCHANGED <<ePermState, pdSol, permuted, bHasBeenReset>>
    BY <1>2, <2>1, <2>3 DEF ManagerInv, Working
  <2> QED
    BY <1>6, <2>2, <2>3 DEF Assemble
<1>7. CASE Solve
  <2>1. /\ caller = "Solve" /\ caller' = "Release" /\ op' \in {"FACTOR", "SOLVE"}
        /\ UNCHANGED <<manager, permuted>> /\ op # "EXIT"
    BY <1>3, <1>7 DEF Solve, Factor, Substitute, Dispatch, PlacesOfOp
  <2>2. \/ ~ manager.perm /\ UNCHANGED <<ePermState, pdSol>>
        \/ /\ manager.perm /\ ePermState = "PERM_NO"
           /\ ePermState' = "PERM_INTERMEDIATE" /\ UNCHANGED pdSol
        \/ manager.perm /\ ePermState # "PERM_NO" /\ pdSol' = "VH" /\ UNCHANGED ePermState
    BY <1>7 DEF Solve
  <2> QED
    BY <1>1, <2>1, <2>2 DEF ManagerInv, Working, CallTypes
<1>8. CASE CollectFactor
  BY <1>8 DEF CollectFactor, Substitute, Dispatch, ManagerInv, Working
<1>9. CASE CollectSolve
  <2>1. /\ caller = "Collect" /\ caller' = "Use" /\ op = "SOLVE"
        /\ UNCHANGED <<manager, ePermState, permuted, op>>
    BY <1>9 DEF CollectSolve
  <2>2. Written = IF permuted THEN "permuted" ELSE "solution"
    BY <1>9, AllIsRight DEF Written
  <2>3. CASE manager.perm /\ ePermState = "PERM_READY"
    BY <1>9, <2>1, <2>2, <2>3 DEF CollectSolve, BackPerm, ManagerInv, Working
  <2>4. CASE ~ (manager.perm /\ ePermState = "PERM_READY")
    BY <1>9, <2>1, <2>2, <2>4 DEF CollectSolve, ManagerInv, Working
  <2> QED
    BY <2>3, <2>4
<1>10. CASE Release \/ Wait \/ WakeUp \/ Use \/ Join
  BY <1>3, <1>10 DEF Release, Wait, WakeUp, Use, Join, ManagerInv, Working, PlacesOfOp
<1>11. CASE Destroy
  BY <1>11 DEF Destroy, Dispatch, ManagerInv, Working
<1>12. CASE NoPivot
  <2>1. (caller # "Terminated" /\ op = "FACTOR" /\ Working) \/ caller = "Terminated"
    <3>1. ASSUME caller # "Terminated" PROVE op = "FACTOR" /\ Working
      <4>1. pc[0] = "Pivot" /\ 0 \in Threads
        BY <1>12, ThreadsFinite DEF NoPivot
      <4>2. 0 \in Pending
        BY <4>1 DEF Pending
      <4> QED
        BY <1>1, <1>3, <3>1, <4>1, <4>2 DEF PlacesOfOp, FactorPlaces, PoolInv, Waiting,
           PoolTypes, CallerPlaces, Working
    <3> QED
      BY <3>1
  <2> QED
    BY <1>12, <2>1 DEF NoPivot, ManagerInv, Working
<1>13. ASSUME NEW t \in Threads, EndOfOp(t) PROVE ManagerInv'
  BY <1>4, <1>13 DEF EndOfOp
<1>14. ASSUME NEW t \in Threads, caller # "Terminated", Start(t) \/ pnaivslv(t)
       PROVE  ManagerInv'
  BY <1>1, <1>4, <1>14, StartFrame, SolveFrame
<1>15. ASSUME NEW t \in Threads, caller # "Terminated", pnaivfct(t), caller' # "Terminated"
       PROVE  ManagerInv'
  <2>1. UNCHANGED <<calls, op>>
    BY <1>1, <1>15, FactorFrame
  <2>2. UNCHANGED caller
    BY <1>1, <1>15, FactorMoves
  <2> QED
    BY <1>4, <2>1, <2>2
<1> QED
  BY <1>1, <1>5, <1>6, <1>7, <1>8, <1>9, <1>10, <1>11, <1>12, <1>13, <1>14, <1>15, StepCases
     DEF QuietStep

(* What the threads computed is right, and it is where the caller looks    *)
(* for it, permuted back where it must be.                                 *)
THEOREM SolutionIsThere == ASSUME ManagersMatch PROVE Spec => []SolutionIsAvailable
<1>1. ManagerInv /\ ThreadsInv /\ [Next]_vars => ManagerInv'
  BY ManagerNext
<1>2. ManagerInv => SolutionIsAvailable
  BY DEF ManagerInv
<1> QED
  BY <1>1, <1>2, ManagerInit, ThreadsInvariant, PTL DEF Spec

-----------------------------------------------------------------------------
\* What NaiveElimination sees of it.

\* The pivot is one of the rows that have an entry in the column.
PivotInColumn ==
  Factoring =>
    /\ pc[0] = "Publish" => pvr \in ToSet(ri[i[0]])
    /\ pc[0] \in InColumn => piv[i[0]] \in ToSet(ri[i[0]])

LEMMA PivotInColumnInit == Init => PivotInColumn
BY DEF Init, PivotInColumn, Factoring

(* Every step preserves it.                                                *)
LEMMA PivotInColumnNext ==
  ASSUME FactorInv, PivotInColumn, [Next]_vars
  PROVE  PivotInColumn'
<1>1. PoolInv /\ ThreadTypes /\ MatrixTypes /\ ColumnsInv /\ 0 \in Threads
  BY ThreadsFinite DEF FactorInv
<1>2. PoolTypes /\ (caller # "Terminated" => Waiting /\ PlacesOfOp)
  BY <1>1 DEF PoolInv
<1>3. pc[0] \in ThreadPlaces
  BY <1>1, <1>2 DEF PoolTypes
<1>4. CASE (caller # "Terminated" /\ QuietStep) \/ UNCHANGED vars
  <2>1. UNCHANGED <<ri, piv, i, pvr>> /\ (Factoring' => Factoring)
    BY <1>1, <1>4, QuietFrame
  <2>2. pc'[0] = pc[0] \/ pc'[0] \in {"Acquire", "Gone"}
    BY <1>1, <1>4, QuietFrame
  <2> QED
    BY <2>1, <2>2 DEF PivotInColumn, InColumn
<1>5. CASE Assemble \/ CollectFactor
  <2>1. caller # "Terminated" => ~ Factoring'
    BY <1>2, <1>5 DEF Assemble, CollectFactor, Substitute, Dispatch, Factoring, pool, PlacesOfOp
  <2> QED
    BY <1>5, <2>1 DEF PivotInColumn, Assemble, CollectFactor
<1>6. CASE Solve
  <2>1. caller = "Solve" /\ UNCHANGED pc
    BY <1>6 DEF Solve
  <2>2. pc[0] \in {"Acquire", "Gone"}
    BY <1>1, <1>2, <2>1 DEF Waiting, Pending
  <2> QED
    BY <2>1, <2>2 DEF PivotInColumn, InColumn
<1>7. ASSUME NEW t \in Threads, caller # "Terminated", Start(t) PROVE PivotInColumn'
  <2>1. /\ UNCHANGED <<op, caller, ri, piv, pvr>> /\ pc'[t] \in {"Pivot", "First", "Exit"}
        /\ t # 0 => pc'[0] = pc[0] /\ i'[0] = i[0]
    BY <1>1, <1>7, StartFrame DEF Start, locals
  <2> QED
    BY <2>1 DEF PivotInColumn, InColumn, Factoring
<1>8. ASSUME NEW t \in Threads, caller # "Terminated", pnaivslv(t) PROVE PivotInColumn'
  BY <1>1, <1>8, SolveFrame DEF PivotInColumn, Factoring
<1>9. ASSUME NEW t \in Threads, caller # "Terminated", pnaivfct(t), caller' # "Terminated"
      PROVE  PivotInColumn'
  <2>1. Factoring /\ Factoring' /\ (t # 0 => pc'[0] = pc[0] /\ i'[0] = i[0])
    BY <1>1, <1>9, FactorFrame
  <2>2. CASE t = 0 /\ ChoosePivot
    <3>1. pc[0] = "Pivot" /\ pc'[0] = "Publish" /\ UNCHANGED <<ri, i>>
      BY <1>1, <1>2, <2>2 DEF ChoosePivot, PoolTypes, lists
    <3>2. pvr' \in ToSet(ri[i[0]])
      BY <2>2 DEF ChoosePivot
    <3> QED
      BY <3>1, <3>2 DEF PivotInColumn, InColumn
  <2>3. CASE t = 0 /\ PublishPivot
    <3>1. i[0] \in Rows /\ Begun(0)
      BY <1>1, <1>2, <1>9, <2>1, <2>3, AtWork DEF ColumnsInv, PublishPivot, FactorPlaces
    <3>2. piv'[i[0]] = pvr /\ pc'[0] = "Rows" /\ pc[0] = "Publish" /\ UNCHANGED <<ri, i>>
      BY <1>1, <1>2, <2>1, <2>3, <3>1 DEF PublishPivot, MatrixTypes, PoolTypes, lists
    <3>3. pvr \in ToSet(ri[i[0]])
      BY <2>1, <3>2 DEF PivotInColumn
    <3> QED
      BY <3>2, <3>3 DEF PivotInColumn
  <2>4. CASE t = 0 /\ Merge
    <3>1. pc'[0] \in {"Pivot", "EndOfOp"}
      BY <1>1, <1>2, <2>4 DEF Merge, NextColumn, PoolTypes
    <3> QED
      BY <3>1 DEF PivotInColumn, InColumn
  <2>5. CASE t # 0 \/ ~ (ChoosePivot \/ PublishPivot \/ Merge)
    <3>1. UNCHANGED <<ri, piv, pvr>>
      <4>1. CASE t = 0 /\ (ChoosePivot \/ PublishPivot \/ Merge)
        BY <2>5, <4>1
      <4>2. CASE AwaitPivot(t) \/ EliminateRow(t) \/ TestAndSet(t) \/ Fill(t)
                 \/ ArriveAtColumn(t) \/ LeaveColumn(t)
        BY <4>2 DEF AwaitPivot, EliminateRow, TestAndSet, Fill, ArriveAtColumn, LeaveColumn,
                    lists, locals
      <4> QED
        BY <1>9, <4>1, <4>2, FactorCases
    <3>2. CASE t # 0
      BY <2>1, <3>1, <3>2 DEF PivotInColumn
    <3>3. CASE t = 0
      <4>1. EliminateRow(t) \/ TestAndSet(t) \/ Fill(t) \/ ArriveAtColumn(t) \/ LeaveColumn(t)
        BY <1>9, <2>5, <3>3, FactorCases DEF AwaitPivot
      <4>2. pc[0] \in InColumn /\ i'[0] = i[0] /\ pc'[0] # "Publish"
        BY <1>2, <3>3, <4>1 DEF EliminateRow, TestAndSet, Fill, ArriveAtColumn, LeaveColumn,
              locals, InColumn, PoolTypes
      <4> QED
        BY <2>1, <3>1, <4>2 DEF PivotInColumn
    <3> QED
      BY <3>2, <3>3
  <2> QED
    BY <2>2, <2>3, <2>4, <2>5
<1> QED
  BY <1>1, <1>4, <1>5, <1>6, <1>7, <1>8, <1>9, StepCases

(* The columns that are eliminated and merged are those before the one     *)
(* thread 0 is at.                                                         *)
LEMMA EliminatedFacts ==
  FactorInv => /\ Eliminated \in 0 .. iSize
               /\ Factoring /\ Begun(0) => Eliminated = i[0]
               /\ Factoring /\ ~ Begun(0) => Eliminated = 0
<1> SUFFICES ASSUME FactorInv
             PROVE  /\ Eliminated \in 0 .. iSize
                    /\ Factoring /\ Begun(0) => Eliminated = i[0]
                    /\ Factoring /\ ~ Begun(0) => Eliminated = 0
  OBVIOUS
<1>1. i[0] \in 0 .. iSize /\ piv[0] \in Rows \cup {-1} /\ 0 \in Rows /\ -1 \notin Rows
  BY ThreadsFinite, RowsFacts DEF FactorInv, ThreadTypes, MatrixTypes, Rows
<1>2. Eliminated \in 0 .. iSize
  BY <1>1, NaiveAssumption DEF Eliminated
<1>3. Factoring => (piv[0] \in Rows <=> Entered(0, 0))
  BY <1>1 DEF FactorInv, PivotInv
<1>4. Factoring /\ ~ Begun(0) => Eliminated = 0
  BY <1>1, <1>3 DEF Entered, Eliminated, Factoring
<1>5. ASSUME Factoring, Begun(0) PROVE Eliminated = i[0]
  <2>1. piv[0] = -1 => i[0] = 0
    BY <1>1, <1>3, <1>5 DEF Entered
  <2> QED
    BY <1>1, <1>5, <2>1 DEF Eliminated, Factoring
<1> QED
  BY <1>2, <1>4, <1>5

(* NaiveElimination sees the lists by column, and the pivots of the columns *)
(* that are eliminated.                                                    *)
LEMMA SameView ==
  ASSUME Eliminated \in 0 .. iSize, Eliminated' = Eliminated, UNCHANGED ri,
         \A d \in Rows : d < Eliminated => piv'[d] = piv[d]
  PROVE  UNCHANGED <<Entries, Pivots>>
<1>1. \A n \in 1 .. Eliminated : n - 1 \in Rows /\ n - 1 < Eliminated
  BY NaiveAssumption DEF Rows
<1>2. Pivots' = Pivots
  BY <1>1 DEF Pivots
<1> QED
  BY <1>2 DEF Entries

(* The other steps of the threads are none of NaiveElimination's.          *)
LEMMA ThreadsView ==
  ASSUME FactorInv, caller # "Terminated", caller' # "Terminated", [Next]_vars,
         NEW t \in Threads,
         \/ Start(t) \/ pnaivslv(t)
         \/ pnaivfct(t) /\ ~ (t = 0 /\ Merge)
  PROVE  UNCHANGED <<Entries, Pivots, Phase, Solved>>
<1>1. PoolInv /\ ThreadTypes /\ MatrixTypes /\ ColumnsInv /\ 0 \in Threads
      /\ Eliminated \in 0 .. iSize
  BY ThreadsFinite, EliminatedFacts DEF FactorInv
<1>2. UNCHANGED <<op, caller, bHasBeenReset, XH, ri>>
  <2>1. CASE Start(t)
    BY <1>1, <2>1, StartFrame DEF calls
  <2>2. CASE pnaivslv(t)
    BY <1>1, <2>2, SolveFrame DEF calls
  <2>3. CASE pnaivfct(t) /\ ~ (t = 0 /\ Merge)
    <3>1. UNCHANGED <<op, caller, calls>>
      BY <1>1, <2>3, FactorFrame, FactorMoves DEF PoolInv
    <3>2. UNCHANGED ri
      BY <2>3, FactorCases DEF ChoosePivot, PublishPivot, AwaitPivot, EliminateRow, TestAndSet,
         Fill, ArriveAtColumn, LeaveColumn, lists
    <3> QED
      BY <3>1, <3>2 DEF calls
  <2> QED
    BY <2>1, <2>2, <2>3
<1>3. Eliminated' = Eliminated /\ \A d \in Rows : d < Eliminated => piv'[d] = piv[d]
  <2>1. CASE Start(t)
    <3>1. UNCHANGED piv /\ ~ Begun(t) /\ (t # 0 => i'[0] = i[0])
      BY <1>1, <2>1, StartFrame
    <3>2. CASE op = "FACTOR" /\ t = 0
      <4>1. piv[0] = -1
        <5>1. ~ Entered(0, 0) /\ 0 \in Rows
          BY <3>1, <3>2, RowsFacts DEF Entered
        <5> QED
          BY <3>2, <5>1, <1>1 DEF FactorInv, PivotInv, Factoring, MatrixTypes
      <4> QED
        BY <1>2, <3>1, <3>2, <4>1 DEF Eliminated
    <3>3. CASE ~ (op = "FACTOR" /\ t = 0)
      BY <1>2, <3>1, <3>3 DEF Eliminated
    <3> QED
      BY <3>2, <3>3
  <2>2. CASE pnaivslv(t)
    <3>1. UNCHANGED piv /\ op = "SOLVE"
      BY <1>1, <2>2, SolveFrame
    <3> QED
      BY <1>2, <3>1 DEF Eliminated
  <2>3. CASE t = 0 /\ PublishPivot
    <3>1. Factoring /\ Factoring' /\ Begun(0) /\ Begun(0)'
      BY <1>1, <2>3, FactorFrame DEF pnaivfct
    <3>2. UNCHANGED i /\ piv' = [piv EXCEPT ![i[0]] = pvr]
      BY <2>3 DEF PublishPivot
    <3>3. FactorInv'
      BY FactorNext
    <3>4. Eliminated = i[0]
      BY <3>1, EliminatedFacts
    <3>5. (FactorInv => (Factoring /\ Begun(0) => Eliminated = i[0]))'
      BY EliminatedFacts, PTL
    <3>6. Eliminated' = i'[0]
      BY <3>1, <3>3, <3>5
    <3>7. \A d \in Rows : d < i[0] => piv'[d] = piv[d]
      <4>1. \A d \in Rows : d < i[0] => d # i[0]
        BY <1>1 DEF Rows, ThreadTypes
      <4> QED
        BY <1>1, <3>2, <4>1 DEF MatrixTypes
    <3> QED
      BY <3>2, <3>4, <3>6, <3>7
  <2>4. CASE pnaivfct(t) /\ ~ (t = 0 /\ Merge) /\ ~ (t = 0 /\ PublishPivot)
    <3>1. UNCHANGED piv
      BY <2>4, FactorCases DEF ChoosePivot, AwaitPivot, EliminateRow, TestAndSet,
         Fill, ArriveAtColumn, LeaveColumn
    <3>2. i'[0] = i[0]
      <4>1. CASE t # 0
        BY <1>1, <2>4, <4>1, FactorFrame
      <4>2. CASE t = 0
        BY <2>4, <4>2, FactorCases DEF ChoosePivot, AwaitPivot, EliminateRow, TestAndSet,
           Fill, ArriveAtColumn, LeaveColumn, locals
      <4> QED
        BY <4>1, <4>2
    <3> QED
      BY <1>2, <3>1, <3>2 DEF Eliminated
  <2> QED
    BY <2>1, <2>2, <2>3, <2>4
<1>4. UNCHANGED <<Phase, Solved>>
  BY <1>2 DEF Phase, Solved
<1> QED
  BY <1>1, <1>2, <1>3, <1>4, SameView

(* The pivots are as many as the columns that are eliminated.              *)
LEMMA PivotsFacts ==
  (MatrixTypes /\ Eliminated \in 0 .. iSize)
     => /\ Pivots \in Seq(Rows \cup {-1}) /\ Len(Pivots) = Eliminated
        /\ DOMAIN Pivots = 1 .. Eliminated
        /\ \A n \in 1 .. Eliminated : Pivots[n] = piv[n - 1]
        /\ Eliminated = 0 => Pivots = <<>>
<1> SUFFICES ASSUME MatrixTypes, Eliminated \in 0 .. iSize
             PROVE  /\ Pivots \in Seq(Rows \cup {-1}) /\ Len(Pivots) = Eliminated
                    /\ DOMAIN Pivots = 1 .. Eliminated
                    /\ \A n \in 1 .. Eliminated : Pivots[n] = piv[n - 1]
                    /\ Eliminated = 0 => Pivots = <<>>
  OBVIOUS
<1>1. \A n \in 1 .. Eliminated : n - 1 \in Rows
  BY NaiveAssumption DEF Rows
<1>2. \A n \in 1 .. Eliminated : piv[n - 1] \in Rows \cup {-1}
  BY <1>1 DEF MatrixTypes
<1>3. Eliminated \in Nat
  BY NaiveAssumption
<1>4. Pivots \in [1 .. Eliminated -> Rows \cup {-1}]
  BY <1>2 DEF Pivots
<1>5. Pivots \in Seq(Rows \cup {-1}) /\ Len(Pivots) = Eliminated
  BY <1>3, <1>4
<1>6. Eliminated = 0 => Pivots = <<>>
  BY <1>5, EmptySeq
<1> QED
  BY <1>4, <1>5, <1>6 DEF Pivots

(* What NaiveElimination sees of the steps of the caller.                  *)
LEMMA CallerView ==
  ASSUME ThreadsInv, ManagerInv, ManagerInv', caller # "Terminated", [Next]_vars,
         Assemble \/ Solve \/ CollectFactor \/ QuietStep
  PROVE  [Abstract!Next]_Abstract!vars
<1>1. /\ FactorInv /\ PoolInv /\ MatrixTypes /\ FactoredInv /\ ThreadTypes /\ CallTypes
      /\ Eliminated \in 0 .. iSize
  BY EliminatedFacts DEF ThreadsInv, FactorInv
<1>2. PoolTypes /\ Waiting /\ PlacesOfOp
  BY <1>1 DEF PoolInv
<1>3. Len(Pivots) = Eliminated
  BY <1>1, PivotsFacts
<1>4. CASE Assemble
  <2>1. /\ caller = "Idle" /\ caller' = "Solve" /\ op \in {"NONE", "SOLVE"} /\ UNCHANGED <<op, piv>>
    BY <1>2, <1>4 DEF Assemble, PlacesOfOp, pool
  <2>2. Phase = "idle" /\ Phase' = "running" /\ UNCHANGED Solved
    BY <2>1 DEF Phase, Solved
  <2>3. CASE MatrReset /\ Jacobian
    <3>1. bHasBeenReset' = TRUE
      BY <2>3 DEF MatrReset
    <3>2. Eliminated' = 0
      BY <2>1, <3>1 DEF Eliminated
    <3>3. Pivots' = <<>>
      <4>1. FactorInv'
        BY <1>1, FactorNext
      <4>2. MatrixTypes'
        BY <4>1 DEF FactorInv
      <4>3. (MatrixTypes /\ Eliminated \in 0 .. iSize => (Eliminated = 0 => Pivots = <<>>))'
        BY PivotsFacts, PTL
      <4> QED
        BY <3>2, <4>2, <4>3, NaiveAssumption
    <3>4. Entries' \in Patterns
      <4>1. PICK p \in [Rows -> SUBSET Rows] :
               p \in Patterns /\ \A c \in Rows : ToSet(ri'[c]) = p[c]
        BY <2>3, JacobianLists
      <4>2. Entries' = p
        BY <4>1 DEF Entries
      <4> QED
        BY <4>1, <4>2
    <3>5. Abstract!Assemble
      BY <2>2, <3>3, <3>4 DEF Abstract!Assemble
    <3> QED
      BY <3>5 DEF Abstract!Next
  <2>4. CASE ~ bHasBeenReset /\ UNCHANGED <<bHasBeenReset, ri>>
    <3>1. Eliminated = iSize /\ Eliminated' = iSize
      BY <2>1, <2>4 DEF Eliminated
    <3>2. UNCHANGED <<Entries, Pivots>>
      BY <1>1, <2>1, <2>4, <3>1, SameView
    <3>3. Abstract!Assemble
      BY <1>3, <2>2, <3>1, <3>2 DEF Abstract!Assemble
    <3> QED
      BY <3>3 DEF Abstract!Next
  <2> QED
    BY <1>4, <2>3, <2>4 DEF Assemble
<1>5. CASE Solve
  <2>1. /\ caller = "Solve" /\ caller' = "Release" /\ op \in {"NONE", "SOLVE"}
        /\ op' \in {"FACTOR", "SOLVE"} /\ UNCHANGED <<ri, bHasBeenReset>>
    BY <1>2, <1>5 DEF Solve, Factor, Substitute, Dispatch, PlacesOfOp, lists
  <2>2. Phase = "running" /\ Phase' = "running" /\ UNCHANGED Solved
    BY <2>1 DEF Phase, Solved
  <2>3. CASE bHasBeenReset
    <3>1. op' = "FACTOR" /\ piv' = [c \in Rows |-> -1]
      BY <1>5, <2>3 DEF Solve, Factor, Dispatch
    <3>2. Eliminated = 0 /\ Eliminated' = 0
      BY <2>1, <2>3, <3>1, RowsFacts DEF Eliminated
    <3>3. UNCHANGED <<Entries, Pivots>>
      BY <1>1, <2>1, <3>2, SameView DEF Rows
    <3> QED
      BY <2>2, <3>3 DEF Abstract!vars
  <2>4. CASE ~ bHasBeenReset
    <3>1. op' = "SOLVE" /\ UNCHANGED piv
      BY <1>5, <2>4 DEF Solve, Substitute, Dispatch
    <3>2. Eliminated' = Eliminated
      BY <2>1, <2>4, <3>1 DEF Eliminated
    <3>3. UNCHANGED <<Entries, Pivots>>
      BY <1>1, <2>1, <3>1, <3>2, SameView
    <3> QED
      BY <2>2, <3>3 DEF Abstract!vars
  <2> QED
    BY <2>3, <2>4
<1>6. CASE CollectFactor
  <2>1. Factoring /\ Begun(0) /\ i[0] = iSize
    BY <1>1, <1>6, FactorIsOver, ThreadsFinite
  <2>2. /\ caller = "Collect" /\ caller' = "Release" /\ op = "FACTOR" /\ op' = "SOLVE"
        /\ bHasBeenReset' = FALSE /\ UNCHANGED <<ri, piv>>
    BY <1>6 DEF CollectFactor, Substitute, Dispatch, lists
  <2>3. Eliminated = iSize /\ Eliminated' = iSize
    <3>1. Eliminated = iSize
      BY <1>1, <2>1, EliminatedFacts
    <3> QED
      BY <2>2, <3>1 DEF Eliminated
  <2>4. UNCHANGED <<Entries, Pivots>>
    BY <1>1, <2>2, <2>3, SameView
  <2>5. UNCHANGED <<Phase, Solved>>
    BY <2>2 DEF Phase, Solved
  <2> QED
    BY <2>4, <2>5 DEF Abstract!vars
<1>7. CASE QuietStep
  <2>1. UNCHANGED <<ri, piv, i, bHasBeenReset>>
    BY <1>1, <1>7, QuietFrame
  <2>2. CASE Release \/ Wait \/ WakeUp \/ Join \/ \E t \in Threads : EndOfOp(t)
    <3>1. UNCHANGED op
      BY <2>2 DEF Release, Wait, WakeUp, Join, EndOfOp, pool
    <3>2. UNCHANGED Eliminated
      BY <2>1, <3>1 DEF Eliminated
    <3>3. UNCHANGED <<Phase, Solved>>
      <4>1. CASE Release \/ Wait \/ WakeUp \/ Join
        <5>1. caller \in {"Release", "Wait", "Blocked", "Collect"}
              /\ caller' \in {"Release", "Wait", "Blocked", "Collect", "Gone"}
          BY <4>1 DEF Release, Wait, WakeUp, Join
        <5> QED
          BY <3>1, <5>1 DEF Phase, Solved
      <4>2. CASE \E t \in Threads : EndOfOp(t)
        <5>1. UNCHANGED <<caller, XH>>
          BY <4>2 DEF EndOfOp, calls
        <5> QED
          BY <3>1, <5>1 DEF Phase, Solved
      <4> QED
        BY <2>2, <4>1, <4>2
    <3>4. UNCHANGED <<Entries, Pivots>>
      BY <1>1, <2>1, <3>2, SameView
    <3> QED
      BY <3>3, <3>4 DEF Abstract!vars
  <2>3. CASE CollectSolve
    <3>1. caller = "Collect" /\ caller' = "Use" /\ op = "SOLVE" /\ UNCHANGED op
      BY <2>3 DEF CollectSolve, pool
    <3>2. ~ bHasBeenReset
      BY <1>1, <3>1 DEF FactoredInv, Working
    <3>3. Eliminated = iSize /\ Eliminated' = iSize
      BY <2>1, <3>1, <3>2 DEF Eliminated
    <3>4. UNCHANGED <<Entries, Pivots>>
      BY <1>1, <2>1, <3>3, SameView
    <3>5. Phase = "running" /\ Phase' = "solved"
      BY <3>1 DEF Phase
    <3>6. Solved' = TRUE
      BY <3>1 DEF Solved, ManagerInv, SolutionIsAvailable
    <3>7. Abstract!Substitute
      BY <1>3, <3>3, <3>4, <3>5, <3>6 DEF Abstract!Substitute
    <3> QED
      BY <3>7 DEF Abstract!Next
  <2>4. CASE Use
    <3>1. caller = "Use" /\ caller' = "Idle" /\ UNCHANGED op
      BY <2>4 DEF Use, pool
    <3>2. UNCHANGED Eliminated
      BY <2>1, <3>1 DEF Eliminated
    <3>3. UNCHANGED <<Entries, Pivots>>
      BY <1>1, <2>1, <3>2, SameView
    <3>4. Phase = "solved" /\ Phase' = "idle" /\ Solved' = FALSE
      BY <3>1 DEF Phase, Solved
    <3>5. Abstract!Use
      BY <3>3, <3>4 DEF Abstract!Use
    <3> QED
      BY <3>5 DEF Abstract!Next
  <2>5. CASE Destroy
    <3>1. caller = "Idle" /\ caller' = "Release" /\ op' = "EXIT" /\ op \in {"NONE", "SOLVE"}
      BY <1>2, <2>5 DEF Destroy, Dispatch, PlacesOfOp
    <3>2. UNCHANGED Eliminated
      BY <2>1, <3>1 DEF Eliminated
    <3>3. UNCHANGED <<Entries, Pivots>>
      BY <1>1, <2>1, <3>2, SameView
    <3>4. Phase = "idle" /\ Phase' = "over" /\ UNCHANGED Solved
      BY <3>1 DEF Phase, Solved
    <3>5. Abstract!Destroy
      BY <3>3, <3>4 DEF Abstract!Destroy
    <3> QED
      BY <3>5 DEF Abstract!Next
  <2>6. CASE NoPivot
    <3>1. pc[0] = "Pivot" /\ caller' = "Terminated" /\ UNCHANGED op
      BY <2>6 DEF NoPivot, pool
    <3>2. op = "FACTOR" /\ 0 \in Pending
      BY <1>2, <3>1, ThreadsFinite DEF PlacesOfOp, FactorPlaces, Pending
    <3>3. caller \notin {"Idle", "Use", "Terminated"}
      BY <1>2, <3>2 DEF Waiting
    <3>4. UNCHANGED Eliminated
      BY <2>1, <3>1 DEF Eliminated
    <3>5. UNCHANGED <<Entries, Pivots>>
      BY <1>1, <2>1, <3>4, SameView
    <3>6. Phase = "running" /\ Phase' = "terminated" /\ UNCHANGED Solved
      BY <3>1, <3>2, <3>3 DEF Phase, Solved
    <3>7. Eliminated < iSize
      <4>1. Begun(0) /\ Factoring
        BY <1>1, <3>1, <3>2, AtWork, ThreadsFinite DEF Factoring
      <4>2. i[0] \in Rows
        BY <1>1, <3>1, <4>1, ThreadsFinite DEF FactorInv, ColumnsInv, FactorPlaces
      <4> QED
        BY <1>1, <4>1, <4>2, EliminatedFacts, RowsFacts
    <3>8. Abstract!NoPivot
      BY <1>3, <3>5, <3>6, <3>7 DEF Abstract!NoPivot
    <3> QED
      BY <3>8 DEF Abstract!Next
  <2> QED
    BY <1>7, <2>2, <2>3, <2>4, <2>5, <2>6 DEF QuietStep
<1> QED
  BY <1>4, <1>5, <1>6, <1>7

(* What the merge adds is what the elimination of the column adds: below   *)
(* the pivot, every row of the column gets the entries of the pivot row.   *)
Below(j) == {r \in ToSet(ri[j]) : r \in todo}

LEMMA MergedEntries ==
  ASSUME FactorInv, PivotInColumn, caller # "Terminated", Merge,
         NEW j, j = i[0], NEW q, q = piv[j], NEW c \in Rows
  PROVE  ToSet(ri'[c]) = IF c > j /\ q \in ToSet(ri[c]) THEN ToSet(ri[c]) \cup Below(j)
                                                        ELSE ToSet(ri[c])
<1>1. /\ PoolInv /\ ThreadTypes /\ MatrixTypes /\ ColumnsInv /\ BarrierInv /\ PivotInv
      /\ ListsInv /\ FilledInv /\ pc[0] = "Merge" /\ 0 \in Threads
  BY ThreadsFinite DEF FactorInv, Merge
<1>2. /\ Factoring /\ j \in Rows /\ q \in Rows
      /\ \A t \in Threads : Arrived(t, j)
  BY <1>1, BeforeMerge
<1>3. q \notin todo
  BY <1>1, <1>2, PivotIsDone
<1>4. ToSet(ri'[c]) = ToSet(ri[c]) \cup {r \in Rows : IsNew(r, c)}
  BY MergeFacts
<1>5. ASSUME NEW r \in Rows, IsNew(r, c)
      PROVE  c > j /\ q \in ToSet(ri[c]) /\ r \in Below(j)
  <2>1. c > j /\ r \in todo /\ c \in ToSet(ci[q])
    BY <1>1, <1>5 DEF ListsInv
  <2>2. ~ IsNew(q, c)
    BY <1>1, <1>2, <1>3 DEF ListsInv
  <2>3. q \in ToSet(ri[c])
    BY <1>1, <1>2, <2>1, <2>2 DEF ListsInv
  <2>4. r \in ToSet(ri[j])
    BY <1>5 DEF IsNew, ToSet
  <2> QED
    BY <2>1, <2>3, <2>4 DEF Below
<1>6. ASSUME c > j, q \in ToSet(ri[c]), NEW r \in Below(j)
      PROVE  r \in Rows /\ (r \in ToSet(ri[c]) \/ IsNew(r, c))
  <2>1. r \in Rows /\ r \in todo /\ r \in ToSet(ri[i[0]]) /\ r % nThreads \in Threads
    BY <1>1, <1>2, InRows, Owners DEF Below
  <2>2. c \in ToSet(ci[piv[i[0]]])
    BY <1>1, <1>2, <1>6 DEF ListsInv
  <2>3. Finished(r % nThreads, i[0], r)
    BY <1>2, <2>1, FinishedMeans
  <2>4. pc[r % nThreads] \notin {"Lock", "Fill"}
    BY <1>1, <2>1, NobodyAtRows
  <2>5. c \in ToSet(ci[r])
    BY <1>1, <1>2, <1>6, <2>1, <2>2, <2>3, <2>4 DEF FilledInv, InColumn
  <2> QED
    BY <1>1, <2>1, <2>5 DEF ListsInv
<1>7. CASE c > j /\ q \in ToSet(ri[c])
  BY <1>4, <1>5, <1>6, <1>7
<1>8. CASE ~ (c > j /\ q \in ToSet(ri[c]))
  BY <1>4, <1>5, <1>8
<1> QED
  BY <1>7, <1>8

(* The merge of a column is its elimination.                               *)
LEMMA MergeView ==
  ASSUME FactorInv, PivotInColumn, caller # "Terminated", caller' # "Terminated",
         [Next]_vars, pnaivfct(0), Merge
  PROVE  Abstract!Eliminate
<1>1. /\ PoolInv /\ ThreadTypes /\ MatrixTypes /\ ColumnsInv /\ BarrierInv /\ PivotInv
      /\ pc[0] = "Merge" /\ 0 \in Threads /\ Eliminated \in 0 .. iSize
  BY ThreadsFinite, EliminatedFacts DEF FactorInv, Merge
<1>2. PoolTypes /\ Waiting /\ PlacesOfOp
  BY <1>1 DEF PoolInv
<1>3. PICK j : j = i[0]
  OBVIOUS
<1>4. PICK q : q = piv[j]
  OBVIOUS
<1>5. /\ Factoring /\ Begun(0) /\ j \in Rows /\ q \in Rows
      /\ \A d \in Rows : d > j => piv[d] \notin Rows
  BY <1>1, <1>3, <1>4, BeforeMerge
<1>6. Factoring' /\ (Begun(0)' <=> Begun(0))
  BY <1>1, FactorFrame
<1>7. UNCHANGED <<caller, op, piv, XH>> /\ i'[0] = j + 1
  BY <1>1, <1>3 DEF Merge, NextColumn, pool, calls, ThreadTypes
<1>8. FactorInv'
  BY FactorNext
<1>9. Eliminated = j /\ Eliminated' = j + 1
  <2>1. Eliminated = j
    BY <1>3, <1>5, EliminatedFacts
  <2>2. (FactorInv => (Factoring /\ Begun(0) => Eliminated = i[0]))'
    BY EliminatedFacts, PTL
  <2> QED
    BY <1>5, <1>6, <1>7, <1>8, <2>1, <2>2
<1>10. /\ Pivots \in Seq(Rows \cup {-1}) /\ Len(Pivots) = j /\ DOMAIN Pivots = 1 .. j
       /\ \A n \in 1 .. j : Pivots[n] = piv[n - 1]
  BY <1>1, <1>9, PivotsFacts
<1>11. /\ Pivots' \in Seq(Rows \cup {-1}) /\ Len(Pivots') = j + 1
       /\ DOMAIN Pivots' = 1 .. j + 1
       /\ \A n \in 1 .. j + 1 : Pivots'[n] = piv[n - 1]
  <2>1. (MatrixTypes /\ Eliminated \in 0 .. iSize
           => /\ Pivots \in Seq(Rows \cup {-1}) /\ Len(Pivots) = Eliminated
              /\ DOMAIN Pivots = 1 .. Eliminated
              /\ \A n \in 1 .. Eliminated : Pivots[n] = piv[n - 1])'
    BY PivotsFacts, PTL
  <2>2. MatrixTypes' /\ Eliminated' \in 0 .. iSize
    BY <1>5, <1>8, <1>9, RowsFacts DEF FactorInv
  <2> QED
    BY <1>7, <1>9, <2>1, <2>2
<1>12. Pivots' = Append(Pivots, q)
  <2>1. j \in Nat
    BY <1>5, RowsFacts
  <2>2. /\ Append(Pivots, q) \in Seq(Rows \cup {-1}) /\ Len(Append(Pivots, q)) = j + 1
        /\ \A n \in 1 .. j : Append(Pivots, q)[n] = Pivots[n]
        /\ Append(Pivots, q)[j + 1] = q
    BY <1>5, <1>10, <2>1, AppendProperties
  <2>3. Pivots'[j + 1] = q
    BY <1>4, <1>11, <2>1
  <2>4. \A n \in 1 .. j + 1 : n = j + 1 \/ n \in 1 .. j
    BY <2>1
  <2>5. \A n \in 1 .. j + 1 : Append(Pivots, q)[n] = Pivots'[n]
    BY <1>10, <1>11, <2>1, <2>2, <2>3, <2>4
  <2> DEFINE old == Append(Pivots, q)
             new == Pivots'
  <2>6. /\ old \in Seq(Rows \cup {-1}) /\ new \in Seq(Rows \cup {-1})
        /\ Len(old) = Len(new) /\ \A n \in 1 .. Len(old) : old[n] = new[n]
    BY <1>11, <2>2, <2>5
  <2> HIDE DEF old, new
  <2>7. old = new
    BY <2>6, SeqEqual
  <2> QED
    BY <2>7 DEF old, new
<1>13. ToSet(Pivots) = {piv[d] : d \in {e \in Rows : e < j}}
  <2>1. /\ \A n \in 1 .. j : n - 1 \in Rows /\ n - 1 < j
        /\ \A d \in Rows : d < j => d + 1 \in 1 .. j /\ (d + 1) - 1 = d
    BY <1>5, NaiveAssumption DEF Rows
  <2>2. ToSet(Pivots) = {Pivots[n] : n \in 1 .. j}
    BY <1>10 DEF ToSet
  <2>3. \A n \in 1 .. j : Pivots[n] \in {piv[d] : d \in {e \in Rows : e < j}}
    BY <1>10, <2>1
  <2>4. \A d \in Rows : d < j => piv[d] \in {Pivots[n] : n \in 1 .. j}
    BY <1>10, <2>1
  <2> QED
    BY <2>2, <2>3, <2>4
<1>14. \A r \in Rows : r \in todo <=> r # q /\ r \notin ToSet(Pivots)
  <2>1. \A r \in Rows : r \in todo <=> \A d \in Rows : piv[d] # r
    BY <1>1, <1>5, TodoInColumn
  <2>2. \A d \in Rows : d < j \/ d = j \/ d > j
    BY <1>5, RowsOrder
  <2> QED
    BY <1>4, <1>5, <1>13, <2>1, <2>2
<1>15. q \in ToSet(ri[j]) /\ q \notin ToSet(Pivots)
  <2>1. q \in ToSet(ri[j])
    BY <1>1, <1>3, <1>4, <1>5 DEF PivotInColumn, InColumn
  <2>2. \A d \in Rows : d < j => piv[d] # q
    BY <1>1, <1>4, <1>5, RowsOrder DEF PivotInv
  <2> QED
    BY <1>13, <2>1, <2>2
<1>16. Below(j) = ToSet(ri[j]) \ (ToSet(Pivots) \cup {q})
  BY <1>1, <1>5, <1>14, InRows DEF Below
<1>17. Entries' = [c \in Rows |->
                     IF c > j /\ q \in Entries[c]
                     THEN Entries[c] \cup (Entries[j] \ (ToSet(Pivots) \cup {q}))
                     ELSE Entries[c]]
  <2>1. \A c \in Rows : ToSet(ri'[c]) =
           IF c > j /\ q \in ToSet(ri[c])
           THEN ToSet(ri[c]) \cup (ToSet(ri[j]) \ (ToSet(Pivots) \cup {q}))
           ELSE ToSet(ri[c])
    BY <1>3, <1>4, <1>16, MergedEntries
  <2> QED
    BY <1>5, <2>1 DEF Entries
<1>18. Phase = "running" /\ UNCHANGED <<Phase, Solved>>
  <2>1. 0 \in Pending
    BY <1>1 DEF Pending
  <2>2. caller \notin {"Idle", "Use", "Terminated"}
    BY <1>2, <2>1 DEF Waiting
  <2> QED
    BY <1>5, <1>7, <2>2 DEF Phase, Solved, Factoring
<1>19. j < iSize
  BY <1>5, RowsFacts
<1>20. Entries[j] = ToSet(ri[j])
  BY <1>5 DEF Entries
<1>21. \E r \in Entries[Len(Pivots)] \ ToSet(Pivots) :
         /\ Pivots' = Append(Pivots, r)
         /\ Entries' = [c \in 0 .. iSize - 1 |->
                          IF c > Len(Pivots) /\ r \in Entries[c]
                          THEN Entries[c] \cup (Entries[Len(Pivots)] \ (ToSet(Pivots) \cup {r}))
                          ELSE Entries[c]]
  BY <1>10, <1>12, <1>15, <1>17, <1>20 DEF Rows
<1>22. Abstract!ToSet(Pivots) = ToSet(Pivots)
  BY DEF Abstract!ToSet, ToSet
<1>23. Len(Pivots) < iSize
  BY <1>10, <1>19
<1> QED
  BY <1>18, <1>21, <1>22, <1>23, Zenon DEF Abstract!Eliminate, Abstract!Columns

(* The threads together do what the sequential solver does: one column     *)
(* after the other with one pivot and the same new entries, and the        *)
(* solution where it is looked for: the safety part of KeepsPromise.       *)
THEOREM ThreadsEliminate ==
  ASSUME ManagersMatch
  PROVE  Spec => Abstract!Init /\ [][Abstract!Next]_Abstract!vars
<1>1. Init => ManagerInv /\ PivotInColumn
  BY ManagerInit, PivotInColumnInit
<1>2. ManagerInv /\ ThreadsInv /\ [Next]_vars => ManagerInv'
  BY ManagerNext
<1>3. PivotInColumn /\ ThreadsInv /\ [Next]_vars => PivotInColumn'
  BY PivotInColumnNext DEF ThreadsInv
<1>4. Init => Abstract!Init
  <2> SUFFICES ASSUME Init PROVE Abstract!Init
    OBVIOUS
  <2>1. FactorInv /\ MatrixTypes
    BY FactorInit DEF FactorInv
  <2>2. Eliminated = 0
    BY DEF Init, Eliminated
  <2>3. Pivots = <<>>
    BY <2>1, <2>2, PivotsFacts, EliminatedFacts
  <2>4. \A c \in Rows : ToSet(ri[c]) = {}
    BY DEF Init, ToSet
  <2>5. Entries = [c \in 0 .. iSize - 1 |-> {}]
    BY <2>4 DEF Entries, Rows
  <2>6. Phase = "idle" /\ Solved = FALSE
    BY DEF Init, Phase, Solved
  <2> QED
    BY <2>3, <2>5, <2>6 DEF Abstract!Init, Abstract!Columns
<1>5. ManagerInv /\ ManagerInv' /\ PivotInColumn /\ ThreadsInv /\ [Next]_vars
        => [Abstract!Next]_Abstract!vars
  <2> SUFFICES ASSUME ManagerInv, ManagerInv', PivotInColumn, ThreadsInv, [Next]_vars
               PROVE  [Abstract!Next]_Abstract!vars
    OBVIOUS
  <2>1. FactorInv /\ PoolInv /\ ThreadTypes
    BY DEF ThreadsInv, FactorInv
  <2>2. CASE UNCHANGED vars
    <3>1. UNCHANGED <<caller, op, piv, ri, i, bHasBeenReset, XH>>
      BY <2>2 DEF vars, pool, lists, locals, calls
    <3> QED
      BY <3>1 DEF Abstract!vars, Phase, Entries, Pivots, Eliminated, Solved
  <2>3. CASE caller # "Terminated" /\ (Assemble \/ Solve \/ CollectFactor \/ QuietStep)
    BY <2>3, CallerView
  <2>4. ASSUME NEW t \in Threads, caller # "Terminated",
               \/ Start(t) \/ pnaivslv(t)
               \/ pnaivfct(t) /\ caller' # "Terminated"
        PROVE  [Abstract!Next]_Abstract!vars
    <3>1. CASE t = 0 /\ pnaivfct(t) /\ Merge /\ caller' # "Terminated"
      BY <2>1, <2>4, <3>1, MergeView DEF Abstract!Next
    <3>2. CASE \/ Start(t) \/ pnaivslv(t)
               \/ pnaivfct(t) /\ caller' # "Terminated" /\ ~ (t = 0 /\ Merge)
      <4>1. caller' # "Terminated"
        <5>1. Start(t) \/ pnaivslv(t) => UNCHANGED caller
          BY <2>1, <2>4, StartFrame, SolveFrame
        <5> QED
          BY <2>4, <3>2, <5>1
      <4>2. UNCHANGED <<Entries, Pivots, Phase, Solved>>
        BY <2>1, <2>4, <3>2, <4>1, ThreadsView
      <4> QED
        BY <4>2 DEF Abstract!vars
    <3> QED
      BY <2>4, <3>1, <3>2
  <2> QED
    BY <2>1, <2>2, <2>3, <2>4, StepCases
<1> QED
  BY <1>1, <1>2, <1>3, <1>4, <1>5, ThreadsInvariant, PTL DEF Spec
=============================================================================
