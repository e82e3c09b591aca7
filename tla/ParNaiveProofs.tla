---------------------------- MODULE ParNaiveProofs ----------------------------
(***************************************************************************)
(* Proofs about ParNaive, for every size of the matrix, every number of    *)
(* threads and every set of patterns: the pool of threads and the          *)
(* factorization.                                                          *)
(***************************************************************************)
EXTENDS ParNaiveLists

-----------------------------------------------------------------------------
\* The pool of threads.

CallerPlaces ==
  {"Idle", "Solve", "Release", "Wait", "Blocked", "Collect", "Use", "Gone", "Terminated"}
FactorPlaces == {"Pivot", "Publish", "Rows", "Lock", "Fill", "Column", "Merge"}
SolvePlaces == {"First", "Forward", "Arrive", "Half", "Backward"}
ThreadPlaces == {"Acquire", "EndOfOp", "Exit", "Gone"} \cup FactorPlaces \cup SolvePlaces

\* A thread that has still to take up the operation, and those that have not
\* reported its end.
Unstarted(t) == (caller = "Release" /\ t >= next) \/ sem[t] = 1
Pending == {t \in Threads : Unstarted(t) \/ pc[t] \notin {"Acquire", "Gone"}}

Working == caller \in {"Release", "Wait", "Blocked", "Collect"}

\* The types of the variables of the pool.
PoolTypes ==
  /\ caller \in CallerPlaces
  /\ next \in Threads
  /\ op \in {"NONE", "FACTOR", "SOLVE", "EXIT"}
  /\ thread_count \in 0 .. nThreads
  /\ sem \in [Threads -> 0 .. 1]
  /\ notified \in BOOLEAN
  /\ pc \in [Threads -> ThreadPlaces]

\* Nothing is pending outside an operation, and the threads that are not
\* released yet wait for it.
Waiting ==
  /\ caller \in {"Idle", "Solve", "Collect", "Use", "Gone"} => Pending = {}
  /\ caller = "Release" => \A t \in Threads : t >= next => sem[t] = 0 /\ pc[t] = "Acquire"
  /\ \A t \in Threads : sem[t] = 1 => pc[t] = "Acquire"

\* Caller and threads are where the operation in hand takes them.
PlacesOfOp ==
  /\ \A t \in Threads : pc[t] \in FactorPlaces => op = "FACTOR"
  /\ \A t \in Threads : pc[t] \in SolvePlaces => op = "SOLVE"
  /\ \A t \in Threads : pc[t] = "EndOfOp" => op \in {"FACTOR", "SOLVE"}
  /\ \A t \in Threads : pc[t] \in {"Exit", "Gone"} => op = "EXIT"
  /\ \A t \in Threads : pc[t] \in {"Publish", "Merge"} => t = 0
  /\ caller \in {"Idle", "Solve"} => op \in {"NONE", "SOLVE"}
  /\ caller = "Use" => op = "SOLVE"
  /\ caller = "Gone" => op = "EXIT"
  /\ Working => op # "NONE"

\* The count is that of the pending threads, and the caller that waits is
\* notified when there are none.
CountInv ==
  /\ thread_count = Cardinality(Pending)
  /\ notified => caller = "Blocked" /\ Pending = {}
  /\ caller = "Blocked" /\ Pending = {} => notified

PoolInv ==
  /\ PoolTypes
  /\ caller # "Terminated" => Waiting /\ PlacesOfOp /\ CountInv

(* The threads are finitely many.                                          *)
LEMMA ThreadsFinite ==
  /\ IsFiniteSet(Threads) /\ Cardinality(Threads) = nThreads
  /\ 0 \in Threads /\ nThreads - 1 \in Threads /\ Threads \subseteq Nat
  /\ \A t \in Threads : t # nThreads - 1 => t + 1 \in Threads
<1>1. IsFiniteSet(Threads) /\ Cardinality(Threads) = nThreads
  BY FS_Interval, NaiveAssumption DEF Threads
<1> QED
  BY <1>1, NaiveAssumption DEF Threads

(* So is any set of them.                                                  *)
LEMMA SomeThreads ==
  ASSUME NEW S \in SUBSET Threads
  PROVE  /\ IsFiniteSet(S) /\ Cardinality(S) \in 0 .. nThreads
         /\ Cardinality(S) = nThreads => S = Threads
         /\ Cardinality(S) = 0 <=> S = {}
<1>1. IsFiniteSet(S) /\ Cardinality(S) <= nThreads
      /\ (Cardinality(S) = nThreads => S = Threads)
  BY ThreadsFinite, FS_Subset
<1>2. Cardinality(S) \in Nat
  BY <1>1, FS_CardinalityType
<1>3. Cardinality(S) = 0 <=> S = {}
  BY <1>1, FS_EmptySet
<1> QED
  BY <1>1, <1>2, <1>3, NaiveAssumption

(* The invariant holds before the first assembly.                          *)
LEMMA PoolInit == Init => PoolInv
<1> SUFFICES ASSUME Init PROVE PoolInv
  OBVIOUS
<1> USE DEF Init
<1>1. PoolTypes
  BY ThreadsFinite, NaiveAssumption DEF PoolTypes, CallerPlaces, ThreadPlaces
<1>2. Pending = {}
  BY DEF Pending, Unstarted
<1>3. Waiting
  BY <1>2 DEF Waiting
<1>4. PlacesOfOp
  BY DEF PlacesOfOp, FactorPlaces, SolvePlaces, Working
<1>5. CountInv
  BY <1>2, FS_EmptySet DEF CountInv
<1> QED
  BY <1>1, <1>3, <1>4, <1>5 DEF PoolInv

(* A step of pnaivfct that does not end the program moves one thread.      *)
LEMMA FactorMoves ==
  ASSUME PoolTypes, NEW t \in Threads, pnaivfct(t), caller' # "Terminated"
  PROVE  /\ pc[t] \in FactorPlaces
         /\ pc'[t] \in FactorPlaces \cup {"EndOfOp"}
         /\ pc'[t] \in {"Publish", "Merge"} => t = 0
         /\ pc' = [pc EXCEPT ![t] = pc'[t]]
         /\ UNCHANGED <<caller, next, op, thread_count, sem, notified>>
<1> USE DEF PoolTypes, FactorPlaces, pool
<1>1. CASE t = 0 /\ ChoosePivot
  BY <1>1 DEF ChoosePivot
<1>2. CASE t = 0 /\ NoPivot
  BY <1>2 DEF NoPivot
<1>3. CASE t = 0 /\ PublishPivot
  BY <1>3 DEF PublishPivot
<1>4. CASE t = 0 /\ Merge
  BY <1>4 DEF Merge, NextColumn
<1>5. CASE AwaitPivot(t)
  BY <1>5 DEF AwaitPivot
<1>6. CASE EliminateRow(t)
  BY <1>6 DEF EliminateRow
<1>7. CASE TestAndSet(t)
  BY <1>7 DEF TestAndSet
<1>8. CASE Fill(t)
  BY <1>8 DEF Fill
<1>9. CASE ArriveAtColumn(t)
  BY <1>9 DEF ArriveAtColumn
<1>10. CASE LeaveColumn(t)
  BY <1>10 DEF LeaveColumn, NextColumn
<1> QED
  BY <1>1, <1>2, <1>3, <1>4, <1>5, <1>6, <1>7, <1>8, <1>9, <1>10 DEF pnaivfct

(* So does a step of pnaivslv.                                             *)
LEMMA SolveMoves ==
  ASSUME PoolTypes, NEW t \in Threads, pnaivslv(t)
  PROVE  /\ pc[t] \in SolvePlaces
         /\ pc'[t] \in SolvePlaces \cup {"EndOfOp"}
         /\ pc' = [pc EXCEPT ![t] = pc'[t]]
         /\ UNCHANGED <<caller, next, op, thread_count, sem, notified>>
<1> USE DEF PoolTypes, SolvePlaces, pool
<1>1. CASE FirstRow(t)
  BY <1>1 DEF FirstRow, EnterForward
<1>2. CASE SubtractForward(t)
  BY <1>2 DEF SubtractForward
<1>3. CASE StoreForward(t)
  BY <1>3 DEF StoreForward, EnterForward
<1>4. CASE ArriveAtEnd(t)
  BY <1>4 DEF ArriveAtEnd
<1>5. CASE TurnBack(t)
  BY <1>5 DEF TurnBack, EnterBackward
<1>6. CASE SubtractBackward(t)
  BY <1>6 DEF SubtractBackward
<1>7. CASE StoreBackward(t)
  BY <1>7 DEF StoreBackward, EnterBackward
<1> QED
  BY <1>1, <1>2, <1>3, <1>4, <1>5, <1>6, <1>7 DEF pnaivslv

(* Steps that do not touch the pool preserve the invariant.                *)
LEMMA PoolStutter ==
  ASSUME PoolInv, UNCHANGED <<caller, next, op, thread_count, sem, notified, pc>>
  PROVE  PoolInv'
<1>1. Pending' = Pending
  BY DEF Pending, Unstarted
<1> QED
  BY <1>1 DEF PoolInv, PoolTypes, Waiting, PlacesOfOp, CountInv, Working

(* The caller hands an operation to threads that all wait for it: all are  *)
(* pending.                                                                *)
LEMMA PoolDispatch ==
  ASSUME PoolInv, caller \in {"Idle", "Solve", "Collect"}, op # "EXIT",
         NEW o \in {"FACTOR", "SOLVE", "EXIT"}, Dispatch(o),
         UNCHANGED <<sem, notified, pc>>
  PROVE  PoolInv'
<1>1. PoolTypes /\ Waiting /\ PlacesOfOp /\ CountInv
  BY DEF PoolInv
<1>2. \A t \in Threads : sem[t] = 0 /\ pc[t] = "Acquire"
  BY <1>1 DEF Waiting, PlacesOfOp, Pending, Unstarted, PoolTypes
<1>3. caller' = "Release" /\ next' = 0 /\ op' = o /\ thread_count' = nThreads
  BY DEF Dispatch
<1>4. PoolTypes'
  BY <1>1, <1>3, ThreadsFinite, NaiveAssumption DEF PoolTypes, CallerPlaces
<1>5. Waiting'
  BY <1>2, <1>3 DEF Waiting
<1>6. PlacesOfOp'
  BY <1>2, <1>3 DEF PlacesOfOp, FactorPlaces, SolvePlaces
<1>7. Pending' = Threads
  <2>1. \A t \in Threads : t >= next'
    BY <1>3 DEF Threads
  <2> QED
    BY <1>3, <2>1 DEF Pending, Unstarted
<1>8. CountInv'
  BY <1>1, <1>3, <1>7, ThreadsFinite DEF CountInv
<1> QED
  BY <1>4, <1>5, <1>6, <1>8 DEF PoolInv

(* A move of the caller that leaves the same threads pending.              *)
LEMMA PoolCallerMoves ==
  ASSUME PoolInv, caller \notin {"Release", "Terminated"},
         caller' \in CallerPlaces \ {"Release"},
         caller' \in {"Idle", "Solve", "Collect", "Use", "Gone"} => Pending = {},
         caller' \in {"Idle", "Solve"} => op \in {"NONE", "SOLVE"},
         caller' = "Use" => op = "SOLVE",
         caller' = "Gone" => op = "EXIT",
         caller' \in {"Wait", "Blocked", "Collect"} => op # "NONE",
         notified' => caller' = "Blocked" /\ Pending = {},
         caller' = "Blocked" /\ Pending = {} => notified',
         notified' \in BOOLEAN,
         UNCHANGED <<next, op, thread_count, sem, pc>>
  PROVE  PoolInv'
<1>1. PoolTypes /\ Waiting /\ PlacesOfOp /\ CountInv
  BY DEF PoolInv
<1>2. Pending' = Pending
  BY DEF Pending, Unstarted
<1>3. PoolTypes'
  BY <1>1 DEF PoolTypes
<1>4. Waiting'
  BY <1>1, <1>2 DEF Waiting
<1>5. PlacesOfOp'
  BY <1>1 DEF PlacesOfOp, Working
<1>6. CountInv'
  BY <1>1, <1>2 DEF CountInv
<1> QED
  BY <1>3, <1>4, <1>5, <1>6 DEF PoolInv

(* The release of one thread changes neither who has still to begin ...    *)
LEMMA ReleaseUnstarted ==
  ASSUME PoolTypes, Waiting, Release, NEW t \in Threads
  PROVE  Unstarted(t)' <=> Unstarted(t)
<1> USE DEF Release, calls
<1>1. next \in Threads /\ sem[next] = 0 /\ next <= nThreads - 1 /\ caller = "Release"
      /\ \A u \in Threads : u >= next => sem[u] = 0
  BY NaiveAssumption DEF PoolTypes, Waiting, Threads
<1>2. sem'[next] = 1 /\ (t = next \/ (t # next /\ sem'[t] = sem[t]))
  BY <1>1 DEF PoolTypes
<1>3. CASE next = nThreads - 1
  <2>1. caller' = "Wait" /\ (t >= next <=> t = next)
    BY <1>3, <1>1, NaiveAssumption DEF Threads
  <2> QED
    BY <2>1, <1>1, <1>2 DEF Unstarted
<1>4. CASE next # nThreads - 1
  <2>1. caller' = "Release" /\ next' = next + 1
    BY <1>4, <1>1
  <2>2. t >= next <=> (t = next \/ t >= next')
    BY <2>1, <1>1, NaiveAssumption DEF Threads
  <2> QED
    BY <2>1, <2>2, <1>1, <1>2 DEF Unstarted
<1> QED
  BY <1>3, <1>4

(* ... nor what is pending.                                                *)
LEMMA PoolRelease ==
  ASSUME PoolInv, Release
  PROVE  PoolInv'
<1> USE DEF Release, calls
<1>1. PoolTypes /\ Waiting /\ PlacesOfOp /\ CountInv /\ caller = "Release"
  BY DEF PoolInv
<1>2. next \in Threads /\ sem[next] = 0 /\ pc[next] = "Acquire" /\ next <= nThreads - 1
      /\ \A t \in Threads : t >= next => sem[t] = 0 /\ pc[t] = "Acquire"
  BY <1>1, NaiveAssumption DEF PoolTypes, Waiting, Threads
<1>3. sem'[next] = 1 /\ \A t \in Threads : t # next => sem'[t] = sem[t]
  BY <1>1, <1>2 DEF PoolTypes
<1>4. PoolTypes'
  <2>1. sem' \in [Threads -> 0 .. 1]
    BY <1>1, <1>2 DEF PoolTypes
  <2>2. next' \in Threads /\ caller' \in CallerPlaces
    BY <1>1, <1>2, ThreadsFinite DEF PoolTypes, CallerPlaces
  <2> QED
    BY <1>1, <2>1, <2>2 DEF PoolTypes
<1>5. \A t \in Threads : Unstarted(t)' <=> Unstarted(t)
  BY <1>1, ReleaseUnstarted
<1>6. Pending' = Pending
  BY <1>5 DEF Pending
<1>7. Waiting'
  <2>1. caller' \in {"Release", "Wait"}
    BY <1>1
  <2>2. caller' = "Release" =>
          \A t \in Threads : t >= next' => sem'[t] = 0 /\ pc'[t] = "Acquire"
    <3> SUFFICES ASSUME caller' = "Release", NEW t \in Threads, t >= next'
                 PROVE  sem'[t] = 0 /\ pc'[t] = "Acquire"
      OBVIOUS
    <3>1. next' = next + 1
      OBVIOUS
    <3>2. t > next
      BY <3>1, <1>2 DEF Threads
    <3> QED
      BY <3>2, <1>2, <1>3 DEF Threads
  <2> QED
    BY <2>1, <2>2, <1>1, <1>2, <1>3 DEF Waiting
<1>8. PlacesOfOp'
  BY <1>1 DEF PlacesOfOp, Working
<1>9. CountInv'
  BY <1>1, <1>6 DEF CountInv
<1> QED
  BY <1>4, <1>7, <1>8, <1>9 DEF PoolInv

(* A thread that takes up the operation.                                   *)
LEMMA PoolStart ==
  ASSUME PoolInv, caller # "Terminated", NEW t \in Threads, Start(t)
  PROVE  PoolInv'
<1> USE DEF Start
<1>1. PoolTypes /\ Waiting /\ PlacesOfOp /\ CountInv
  BY DEF PoolInv
<1>2. sem[t] = 1 /\ pc[t] = "Acquire" /\ sem'[t] = 0
      /\ \A u \in Threads : u # t => sem'[u] = sem[u] /\ pc'[u] = pc[u]
  BY <1>1 DEF PoolTypes
<1>3. t \in Pending
  BY <1>2 DEF Pending, Unstarted
<1>4. Working /\ op # "NONE"
  BY <1>1, <1>3 DEF Waiting, PlacesOfOp, Working, PoolTypes, CallerPlaces
<1>5. pc'[t] = CASE op = "FACTOR" -> "Pivot" [] op = "SOLVE" -> "First" [] OTHER -> "Exit"
  BY <1>1 DEF PoolTypes
<1>6. /\ op = "FACTOR" => pc'[t] = "Pivot"
      /\ op = "SOLVE" => pc'[t] = "First"
      /\ op = "EXIT" => pc'[t] = "Exit"
  BY <1>5
<1>7. op \in {"FACTOR", "SOLVE", "EXIT"}
  BY <1>1, <1>4 DEF PoolTypes
<1>8. PoolTypes'
  <2>1. pc'[t] \in ThreadPlaces
    BY <1>6, <1>7 DEF ThreadPlaces, FactorPlaces, SolvePlaces
  <2>2. pc' \in [Threads -> ThreadPlaces]
    BY <2>1, <1>1 DEF PoolTypes
  <2>3. sem' \in [Threads -> 0 .. 1]
    BY <1>1, <1>2 DEF PoolTypes
  <2> QED
    BY <2>2, <2>3, <1>1 DEF PoolTypes
<1>9. pc'[t] \notin {"Acquire", "Gone", "EndOfOp", "Publish", "Merge"}
  BY <1>6, <1>7
<1>10. Pending' = Pending
  BY <1>2, <1>3, <1>9 DEF Pending, Unstarted
<1>11. caller = "Release" => t < next
  <2>1. caller = "Release" => ~ (t >= next)
    BY <1>1, <1>2 DEF Waiting
  <2> QED
    BY <2>1, <1>1 DEF PoolTypes, Threads
<1>12. Waiting'
  BY <1>1, <1>2, <1>10, <1>11 DEF Waiting, PoolTypes, Threads
<1>13. PlacesOfOp'
  BY <1>1, <1>2, <1>6, <1>7 DEF PlacesOfOp, FactorPlaces, SolvePlaces, Working
<1>14. CountInv'
  BY <1>1, <1>10 DEF CountInv
<1> QED
  BY <1>8, <1>12, <1>13, <1>14 DEF PoolInv

(* A thread at work that moves on stays pending.                           *)
LEMMA PoolThreadMoves ==
  ASSUME PoolInv, caller # "Terminated", NEW t \in Threads,
         \/ /\ pc[t] \in FactorPlaces
            /\ pc'[t] \in FactorPlaces \cup {"EndOfOp"}
            /\ pc'[t] \in {"Publish", "Merge"} => t = 0
         \/ pc[t] \in SolvePlaces /\ pc'[t] \in SolvePlaces \cup {"EndOfOp"},
         pc' = [pc EXCEPT ![t] = pc'[t]],
         UNCHANGED <<caller, next, op, thread_count, sem, notified>>
  PROVE  PoolInv'
<1>1. PoolTypes /\ Waiting /\ PlacesOfOp /\ CountInv
  BY DEF PoolInv
<1>2. \A u \in Threads : u # t => pc'[u] = pc[u]
  BY <1>1 DEF PoolTypes
<1>3. pc[t] \notin {"Acquire", "Gone"} /\ pc'[t] \notin {"Acquire", "Gone"}
      /\ pc'[t] \in ThreadPlaces
  BY DEF FactorPlaces, SolvePlaces, ThreadPlaces
<1>4. PoolTypes'
  <2>1. pc' \in [Threads -> ThreadPlaces]
    BY <1>1, <1>3 DEF PoolTypes
  <2> QED
    BY <2>1, <1>1 DEF PoolTypes
<1>5. Pending' = Pending
  BY <1>2, <1>3 DEF Pending, Unstarted
<1>6. Waiting'
  BY <1>1, <1>2, <1>3, <1>5 DEF Waiting
<1>7. PlacesOfOp'
  BY <1>1, <1>2 DEF PlacesOfOp, FactorPlaces, SolvePlaces, Working
<1>8. CountInv'
  BY <1>1, <1>5 DEF CountInv
<1> QED
  BY <1>4, <1>6, <1>7, <1>8 DEF PoolInv

(* A thread that reports its end.                                          *)
LEMMA PoolEndOfOp ==
  ASSUME PoolInv, caller # "Terminated", NEW t \in Threads, EndOfOp(t)
  PROVE  PoolInv'
<1> USE DEF EndOfOp
<1>1. PoolTypes /\ Waiting /\ PlacesOfOp /\ CountInv
  BY DEF PoolInv
<1>2. pc[t] \in {"EndOfOp", "Exit"}
      /\ pc'[t] = (IF pc[t] = "Exit" THEN "Gone" ELSE "Acquire")
      /\ \A u \in Threads : u # t => pc'[u] = pc[u]
  BY <1>1 DEF PoolTypes
<1>3. t \in Pending /\ ~ Unstarted(t)
  BY <1>1, <1>2 DEF Pending, Unstarted, Waiting
<1>4. Pending' = Pending \ {t}
  <2>1. t \notin Pending'
    BY <1>2, <1>3 DEF Pending, Unstarted
  <2> QED
    BY <2>1, <1>2, <1>3 DEF Pending, Unstarted
<1>5. Pending \in SUBSET Threads
  BY DEF Pending
<1>6. Cardinality(Pending') = thread_count - 1
  BY <1>1, <1>3, <1>4, <1>5, SomeThreads, FS_RemoveElement DEF CountInv
<1>7. thread_count' \in 0 .. nThreads
  <2>1. thread_count \in 0 .. nThreads /\ thread_count # 0
    BY <1>1, <1>3, <1>5, SomeThreads DEF CountInv
  <2> QED
    BY <2>1, NaiveAssumption
<1>8. PoolTypes'
  <2>1. pc'[t] \in ThreadPlaces
    BY <1>2 DEF ThreadPlaces
  <2>2. pc' \in [Threads -> ThreadPlaces]
    BY <2>1, <1>1 DEF PoolTypes
  <2>3. notified' \in BOOLEAN
    BY <1>1 DEF PoolTypes
  <2> QED
    BY <2>2, <2>3, <1>1, <1>7 DEF PoolTypes
<1>9. Waiting'
  BY <1>1, <1>2, <1>3, <1>4 DEF Waiting
<1>10. PlacesOfOp'
  BY <1>1, <1>2 DEF PlacesOfOp, FactorPlaces, SolvePlaces, Working
<1>11. CountInv'
  <2>1. Pending' \in SUBSET Threads
    BY <1>4, <1>5
  <2>2. thread_count' = Cardinality(Pending')
    BY <1>6
  <2>3. thread_count' = 0 <=> Pending' = {}
    BY <2>1, <2>2, SomeThreads
  <2>4. ~ notified
    BY <1>1, <1>3 DEF CountInv
  <2> QED
    BY <2>2, <2>3, <2>4 DEF CountInv
<1> QED
  BY <1>8, <1>9, <1>10, <1>11 DEF PoolInv

(* The end of the program leaves only the types.                           *)
LEMMA PoolNoPivot ==
  ASSUME PoolInv, NoPivot
  PROVE  PoolInv'
BY DEF PoolInv, PoolTypes, CallerPlaces, NoPivot, pool

(* Every step preserves the invariant.                                     *)
LEMMA PoolNext == PoolInv /\ [Next]_vars => PoolInv'
<1> SUFFICES ASSUME PoolInv, [Next]_vars PROVE PoolInv'
  OBVIOUS
<1>1. CASE UNCHANGED vars
  BY <1>1, PoolStutter DEF vars, pool
<1>2. CASE Next
  <2>1. PoolTypes /\ Waiting /\ PlacesOfOp /\ CountInv /\ caller # "Terminated"
    BY <1>2 DEF PoolInv, Next
  <2>2. CASE Assemble
    <3>1. caller = "Idle" /\ caller' = "Solve" /\ Pending = {} /\ op \in {"NONE", "SOLVE"}
          /\ ~ notified /\ notified' = notified /\ notified' \in BOOLEAN
          /\ UNCHANGED <<next, op, thread_count, sem, pc>>
      BY <2>1, <2>2 DEF Assemble, pool, Waiting, PlacesOfOp, CountInv, PoolTypes
    <3> QED
      BY <3>1, PoolCallerMoves DEF CallerPlaces
  <2>3. CASE Solve
    <3>1. PICK o \in {"FACTOR", "SOLVE"} : Dispatch(o)
      BY <2>3 DEF Solve, Factor, Substitute
    <3>2. caller = "Solve" /\ op # "EXIT" /\ UNCHANGED <<sem, notified, pc>>
      BY <2>1, <2>3 DEF Solve, PlacesOfOp
    <3> QED
      BY <3>1, <3>2, PoolDispatch
  <2>4. CASE Release
    BY <2>4, PoolRelease
  <2>5. CASE Wait
    <3>1. thread_count > 0 <=> Pending # {}
      <4>1. Pending \in SUBSET Threads
        BY DEF Pending
      <4> QED
        BY <4>1, <2>1, SomeThreads DEF CountInv, PoolTypes
    <3>2. caller = "Wait" /\ caller' = (IF Pending = {} THEN "Collect" ELSE "Blocked")
          /\ op # "NONE" /\ notified' = notified /\ ~ notified /\ notified' \in BOOLEAN
          /\ UNCHANGED <<next, op, thread_count, sem, pc>>
      BY <3>1, <2>1, <2>5 DEF Wait, pool, CountInv, PlacesOfOp, Working, PoolTypes
    <3> QED
      BY <3>2, PoolCallerMoves DEF CallerPlaces
  <2>6. CASE WakeUp
    <3>1. caller = "Blocked" /\ caller' = "Collect" /\ Pending = {} /\ op # "NONE" /\ ~ notified'
          /\ notified' \in BOOLEAN
          /\ UNCHANGED <<next, op, thread_count, sem, pc>>
      BY <2>1, <2>6 DEF WakeUp, CountInv, PlacesOfOp, Working
    <3> QED
      BY <3>1, PoolCallerMoves DEF CallerPlaces
  <2>7. CASE CollectFactor
    <3>1. Dispatch("SOLVE") /\ caller = "Collect" /\ op # "EXIT"
          /\ UNCHANGED <<sem, notified, pc>>
      BY <2>7 DEF CollectFactor, Substitute
    <3> QED
      BY <3>1, PoolDispatch
  <2>8. CASE CollectSolve
    BY <2>1, <2>8, PoolCallerMoves
       DEF CollectSolve, pool, CallerPlaces, Waiting, CountInv, PoolTypes
  <2>9. CASE Use
    BY <2>1, <2>9, PoolCallerMoves
       DEF Use, pool, CallerPlaces, Waiting, PlacesOfOp, CountInv, PoolTypes
  <2>10. CASE Destroy
    <3>1. Dispatch("EXIT") /\ caller = "Idle" /\ op # "EXIT"
          /\ UNCHANGED <<sem, notified, pc>>
      BY <2>1, <2>10 DEF Destroy, PlacesOfOp
    <3> QED
      BY <3>1, PoolDispatch
  <2>11. CASE Join
    BY <2>1, <2>11, PoolCallerMoves
       DEF Join, pool, CallerPlaces, Waiting, CountInv, PoolTypes
  <2>12. ASSUME NEW t \in Threads, Thread(t) PROVE PoolInv'
    <3>1. CASE Start(t)
      BY <2>1, <3>1, PoolStart
    <3>2. CASE EndOfOp(t)
      BY <2>1, <3>2, PoolEndOfOp
    <3>3. CASE t = 0 /\ NoPivot
      BY <3>3, PoolNoPivot
    <3>4. CASE pnaivfct(t) /\ caller' # "Terminated"
      BY <2>1, <3>4, FactorMoves, PoolThreadMoves
    <3>5. CASE pnaivslv(t)
      BY <2>1, <3>5, SolveMoves, PoolThreadMoves
    <3>6. pnaivfct(t) => caller' = caller \/ (t = 0 /\ NoPivot)
      BY DEF pnaivfct, ChoosePivot, PublishPivot, Merge, AwaitPivot, EliminateRow, TestAndSet,
         Fill, ArriveAtColumn, LeaveColumn
    <3> QED
      BY <2>1, <2>12, <3>1, <3>2, <3>3, <3>4, <3>5, <3>6 DEF Thread
  <2> QED
    BY <1>2, <2>2, <2>3, <2>4, <2>5, <2>6, <2>7, <2>8, <2>9, <2>10, <2>11, <2>12
       DEF Next, Caller
<1> QED
  BY <1>1, <1>2

(* The count of the pool is right, no thread is released twice or goes on  *)
(* with an operation the caller has collected, and a caller that waits is  *)
(* notified when the last thread reports.                                  *)
THEOREM PoolInvariant == Spec => []PoolInv
BY PoolInit, PoolNext, PTL DEF Spec

-----------------------------------------------------------------------------
\* The factorization: the types of the matrix and of what the threads share,
\* and where the threads are.

InColumn == {"Rows", "Lock", "Fill", "Column", "Merge"}
Begun(t) == ~ Unstarted(t)
Factoring == op = "FACTOR" /\ caller # "Terminated"

\* The types of the rest; how large a counter gets is another matter.
CallTypes ==
  /\ manager \in Managers
  /\ ePermState \in {"PERM_NO", "PERM_INTERMEDIATE", "PERM_READY"}
  /\ bHasBeenReset \in BOOLEAN /\ permuted \in BOOLEAN
  /\ pdSol \in {"VH", "XH"}
  /\ VH \in {"none", "residual", "solution", "permuted", "wrong"}
  /\ XH \in {"none", "old", "solution", "permuted", "wrong"}

MatrixTypes ==
  /\ ci \in [Rows -> Seq(Rows)] /\ ri \in [Rows -> Seq(Rows)]
  /\ ril \in [1 .. iSize -> SUBSET Rows]
  /\ piv \in [Rows -> Rows \cup {-1}]
  /\ todo \in SUBSET Rows
  /\ row_locks \in [0 .. iSize -> Nat]
  /\ col_locks \in [Rows -> BOOLEAN]
  /\ applied \in [Rows -> Seq(Rows)]
  /\ fwd \in SUBSET Rows /\ sol \in SUBSET Rows
  /\ pvr \in Rows

ThreadTypes ==
  /\ i \in [Threads -> 0 .. iSize]
  /\ k \in [Threads -> 1 .. iSize + 1]
  /\ cols \in [Threads -> Seq(Rows)]
  /\ s \in [Threads -> BOOLEAN]

\* A thread at work on a column or a row has one.
ColumnsInv ==
  /\ Factoring =>
       \A t \in Threads : Begun(t) =>
         IF pc[t] \in FactorPlaces THEN i[t] \in Rows ELSE i[t] = iSize
  /\ \A t \in Threads : pc[t] \in {"Forward", "Backward"} => i[t] \in Rows

\* Thread t found the pivot of column c, is done with the rows of it, and saw
\* all the others be done with theirs.
Entered(t, c) == Begun(t) /\ (i[t] > c \/ (i[t] = c /\ pc[t] \in InColumn))
Arrived(t, c) == Begun(t) /\ (i[t] > c \/ (i[t] = c /\ pc[t] \in {"Column", "Merge"}))
Passed(t, c) == Begun(t) /\ (i[t] > c \/ (i[t] = c /\ pc[t] = "Merge"))

\* The counter of a column is that of the threads that are done with its rows,
\* and none goes on before all are.
BarrierInv ==
  Factoring =>
    /\ \A c \in Rows : row_locks[c] = Cardinality({t \in Threads : Arrived(t, c)})
    /\ \A t, u \in Threads, c \in Rows : Passed(t, c) => Arrived(u, c)

\* Pivots are published in the order of the columns, by thread 0, before any
\* thread turns to the rows; no row is the pivot of two columns, and todo has
\* those that are not the pivot of any.
PivotInv ==
  Factoring =>
    /\ \A c \in Rows : piv[c] \in Rows <=> Entered(0, c)
    /\ \A t \in Threads, c \in Rows : Entered(t, c) => piv[c] \in Rows
    /\ \A c, d \in Rows : piv[c] = piv[d] /\ piv[c] \in Rows => c = d
    /\ \A r \in Rows :
         r \in todo <=> (\A c \in Rows : piv[c] # r) /\ ~ (pc[0] = "Publish" /\ pvr = r)
    /\ pc[0] = "Publish" => \A c \in Rows : piv[c] # pvr

\* ListsAgree, with what it takes for a new entry to be merged once.
ListsInv ==
  /\ \A c \in Rows : IsInjective(ri[c]) /\ IsInjective(ci[c])
  /\ \A r, c \in Rows :
       c \in ToSet(ci[r]) <=> (r \in ToSet(ri[c]) \/ IsNew(r, c))
  /\ \A r, c \in Rows :
       IsNew(r, c) => /\ r \notin ToSet(ri[c]) /\ c > i[0] /\ r \in todo
                      /\ c \in ToSet(ci[piv[i[0]]])
  /\ \A n \in 1 .. iSize :
       ril[n] # {} => pc[0] \in InColumn /\ n \in DOMAIN ri[i[0]]

\* A thread that adds entries has a row of its own in hand, which is not a
\* pivot and has none of them yet.
RowInHand(t) == ri[i[t]][k[t]]

Filling(t) ==
  /\ cols[t] # <<>> /\ IsInjective(cols[t])
  /\ k[t] \in DOMAIN ri[i[t]]
  /\ RowInHand(t) \in todo /\ RowInHand(t) % nThreads = t
  /\ \A c \in ToSet(cols[t]) : /\ c > i[t]
                               /\ c \notin ToSet(ci[RowInHand(t)])
                               /\ c \in ToSet(ci[piv[i[t]]])

FillInv == Factoring => \A t \in Threads : pc[t] \in {"Lock", "Fill"} => Filling(t)

\* Thread t has dealt with row r in column d.
Finished(t, d, r) ==
  /\ Begun(t)
  /\ \/ i[t] > d
     \/ i[t] = d /\ pc[t] \in {"Column", "Merge"}
     \/ /\ i[t] = d
        /\ \E n \in DOMAIN ri[d] : /\ ri[d][n] = r
                                   /\ \/ pc[t] = "Rows" /\ n < k[t]
                                      \/ pc[t] \in {"Lock", "Fill"} /\ n <= k[t]

Before(r, c) == {d \in ToSet(ci[r]) : d < c}

\* A row has had eliminated, in order, what its thread is done with; a pivot
\* the columns before its own.
AppliedInv ==
  Factoring =>
    /\ \A r \in Rows : (\A c \in Rows : piv[c] # r) =>
         /\ Ascending(applied[r])
         /\ ToSet(applied[r]) = {d \in ToSet(ci[r]) : Finished(r % nThreads, d, r)}
    /\ \A c \in Rows : piv[c] \in Rows =>
         /\ Ascending(applied[piv[c]])
         /\ ToSet(applied[piv[c]]) = Before(piv[c], c)

\* A row that is done with in the column in hand has the entries of the pivot
\* row, or is getting them.
FilledInv ==
  Factoring /\ pc[0] \in InColumn =>
    \A r \in todo : r \in ToSet(ri[i[0]]) /\ Finished(r % nThreads, i[0], r) =>
      \A c \in ToSet(ci[piv[i[0]]]) : c > i[0] =>
        \/ c \in ToSet(ci[r])
        \/ /\ pc[r % nThreads] \in {"Lock", "Fill"}
           /\ r = RowInHand(r % nThreads)
           /\ c \in ToSet(cols[r % nThreads])

\* When the manager has a factored matrix, and what that is.
FactoredInv ==
  /\ op = "FACTOR" => bHasBeenReset
  /\ Working /\ op = "SOLVE" => ~ bHasBeenReset
  /\ caller = "Use" => ~ bHasBeenReset
  /\ caller = "Idle" /\ bHasBeenReset => \A c \in Rows : piv[c] = -1
  /\ caller = "Solve" /\ bHasBeenReset => \A r \in Rows : applied[r] = <<>>
  /\ ~ bHasBeenReset =>
       /\ \A c \in Rows : piv[c] \in Rows
       /\ \A c, d \in Rows : piv[c] = piv[d] => c = d
       /\ \A c \in Rows : /\ Ascending(applied[piv[c]])
                          /\ ToSet(applied[piv[c]]) = Before(piv[c], c)

\* A column that is locked is being filled.
LocksInv ==
  \A c \in Rows : col_locks[c] =>
    \E t \in Threads : pc[t] \in {"Lock", "Fill"} /\ Head(cols[t]) = c

FactorInv ==
  /\ PoolInv /\ CallTypes /\ MatrixTypes /\ ThreadTypes
  /\ ColumnsInv /\ BarrierInv /\ PivotInv /\ ListsInv /\ FillInv /\ AppliedInv
  /\ FilledInv /\ FactoredInv /\ LocksInv

-----------------------------------------------------------------------------
\* Where the threads are, in relation to each other.

(* Each row belongs to a thread.                                           *)
LEMMA Owners == \A r \in Rows : r % nThreads \in Threads
BY NaiveAssumption DEF Rows, Threads

(* The rows are the numbers below the size.                                *)
LEMMA RowsFacts ==
  /\ Rows \subseteq Nat /\ 0 \in Rows /\ iSize \in Nat /\ iSize \notin Rows
  /\ Rows \subseteq 0 .. iSize
  /\ \A c \in 0 .. iSize : c \in Rows <=> c < iSize
  /\ \A c \in Rows : c + 1 \in 0 .. iSize /\ (c + 1 \in Rows <=> c + 1 < iSize)
BY NaiveAssumption DEF Rows

(* The order of the rows.                                                  *)
LEMMA RowsOrder ==
  \A c, d \in Rows : /\ ~ (c > c) /\ (d > c => c # d /\ ~ (c > d))
                     /\ d >= c <=> ~ (c > d)
                     /\ c > d <=> d < c
                     /\ c < d \/ c = d \/ d < c
                     /\ c \in Nat /\ c + 1 \in Nat /\ c + 1 > c
                     /\ c >= d + 1 <=> c > d
                     /\ c < d + 1 <=> ~ (c > d)
BY DEF Rows

(* A thread that is somewhere has begun.                                   *)
LEMMA AtWork ==
  ASSUME PoolInv, caller # "Terminated", NEW t \in Threads, pc[t] # "Acquire"
  PROVE  Begun(t)
BY DEF PoolInv, Waiting, Begun, Unstarted

(* While a thread is at work on the rows of a column, thread 0 is in the   *)
(* same column and has published its pivot.                                *)
LEMMA SameColumn ==
  ASSUME PoolInv, ThreadTypes, ColumnsInv, BarrierInv, PivotInv, caller # "Terminated",
         NEW t \in Threads, pc[t] \in {"Rows", "Lock", "Fill"}
  PROVE  /\ Factoring /\ Begun(t) /\ Begun(0)
         /\ i[t] \in Rows /\ i[0] = i[t]
         /\ pc[0] \in {"Rows", "Lock", "Fill", "Column"}
         /\ piv[i[t]] \in Rows
<1>1. Factoring /\ Begun(t)
  BY AtWork DEF PoolInv, PlacesOfOp, FactorPlaces, Factoring
<1>2. i[t] \in Rows
  BY <1>1 DEF ColumnsInv, FactorPlaces
<1>3. Entered(t, i[t]) /\ ~ Arrived(t, i[t])
  <2>1. ~ (i[t] > i[t])
    BY <1>2, RowsOrder
  <2> QED
    BY <2>1, <1>1 DEF Entered, Arrived, InColumn
<1>4. Entered(0, i[t]) /\ piv[i[t]] \in Rows
  BY <1>1, <1>2, <1>3 DEF PivotInv
<1>5. ~ Passed(0, i[t])
  BY <1>1, <1>2, <1>3, ThreadsFinite DEF BarrierInv
<1> QED
  BY <1>1, <1>2, <1>4, <1>5 DEF Entered, Passed, InColumn

(* While thread 0 looks for a pivot, all threads are done with the columns *)
(* before and none has begun with this one.                                *)
LEMMA BeforePivot ==
  ASSUME PoolInv, ThreadTypes, ColumnsInv, BarrierInv, PivotInv, caller # "Terminated",
         pc[0] \in {"Pivot", "Publish"}, NEW t \in Threads
  PROVE  /\ Factoring /\ Begun(0) /\ i[0] \in Rows
         /\ \A d \in Rows : d < i[0] => Arrived(t, d) /\ piv[d] \in Rows
         /\ \A d \in Rows : d >= i[0] => ~ Entered(t, d) /\ piv[d] \notin Rows
<1>1. Factoring /\ Begun(0)
  BY AtWork, ThreadsFinite DEF PoolInv, PlacesOfOp, FactorPlaces, Factoring
<1>2. i[0] \in Rows
  BY <1>1, ThreadsFinite DEF ColumnsInv, FactorPlaces
<1>3. ASSUME NEW d \in Rows, d < i[0] PROVE Arrived(t, d) /\ piv[d] \in Rows
  <2>1. Passed(0, d) /\ Entered(0, d)
    BY <1>1, <1>2, <1>3, RowsFacts DEF Passed, Entered
  <2> QED
    BY <2>1, <1>1, ThreadsFinite DEF BarrierInv, PivotInv
<1>4. ASSUME NEW d \in Rows, d >= i[0] PROVE ~ Entered(t, d) /\ piv[d] \notin Rows
  <2>1. ~ Entered(0, d)
    <3>1. ~ (i[0] > d)
      BY <1>2, <1>4, RowsOrder
    <3> QED
      BY <3>1 DEF Entered, InColumn
  <2> QED
    BY <2>1, <1>1 DEF PivotInv
<1> QED
  BY <1>1, <1>2, <1>3, <1>4

(* While thread 0 merges, all threads are done with the column and none    *)
(* has begun with the next.                                                *)
LEMMA BeforeMerge ==
  ASSUME PoolInv, ThreadTypes, ColumnsInv, BarrierInv, PivotInv, caller # "Terminated",
         pc[0] = "Merge", NEW t \in Threads
  PROVE  /\ Factoring /\ Begun(0) /\ i[0] \in Rows
         /\ Arrived(t, i[0]) /\ piv[i[0]] \in Rows
         /\ \A d \in Rows : d > i[0] => ~ Entered(t, d) /\ piv[d] \notin Rows
<1>1. Factoring /\ Begun(0)
  BY AtWork, ThreadsFinite DEF PoolInv, PlacesOfOp, FactorPlaces, Factoring
<1>2. i[0] \in Rows
  BY <1>1, ThreadsFinite DEF ColumnsInv, FactorPlaces
<1>3. Passed(0, i[0]) /\ Entered(0, i[0])
  BY <1>1, <1>2 DEF Passed, Entered, InColumn
<1>4. Arrived(t, i[0]) /\ piv[i[0]] \in Rows
  BY <1>1, <1>2, <1>3, ThreadsFinite DEF BarrierInv, PivotInv
<1>5. ASSUME NEW d \in Rows, d > i[0] PROVE ~ Entered(t, d) /\ piv[d] \notin Rows
  <2>1. ~ Entered(0, d)
    <3>1. ~ (i[0] > d) /\ i[0] # d
      BY <1>2, <1>5, RowsOrder
    <3> QED
      BY <3>1 DEF Entered
  <2> QED
    BY <2>1, <1>1 DEF PivotInv
<1> QED
  BY <1>1, <1>2, <1>4, <1>5

(* The row in hand of a thread that waits for a pivot, or has not begun.   *)
LEMMA NobodyAtRows ==
  ASSUME PoolInv, ThreadTypes, ColumnsInv, BarrierInv, PivotInv, caller # "Terminated",
         pc[0] \notin {"Rows", "Lock", "Fill", "Column"}, NEW t \in Threads
  PROVE  pc[t] \notin {"Rows", "Lock", "Fill"}
BY SameColumn

-----------------------------------------------------------------------------
\* What the steps leave alone.

\* Steps of the caller, or of a thread that reports its end, that touch neither
\* the matrix nor what the threads share.
QuietStep ==
  \/ Release \/ Wait \/ WakeUp \/ CollectSolve \/ Use \/ Join \/ Destroy \/ NoPivot
  \/ \E t \in Threads : EndOfOp(t)

(* Such a step does not matter to a factorization.                         *)
LEMMA QuietFrame ==
  ASSUME PoolInv, (caller # "Terminated" /\ QuietStep) \/ UNCHANGED vars
  PROVE  /\ UNCHANGED <<ci, ri, ril, piv, todo, row_locks, col_locks, applied, fwd, sol,
                        i, k, pvr, cols, s, bHasBeenReset>>
         /\ Factoring' => Factoring
         /\ Factoring' => \A t \in Threads : Begun(t)' <=> Begun(t)
         /\ \A t \in Threads :
              \/ pc'[t] = pc[t]
              \/ pc[t] \in {"EndOfOp", "Exit"} /\ pc'[t] \in {"Acquire", "Gone"}
<1> USE DEF calls, pool, lists, vectors, locals, Factoring
<1>1. CASE UNCHANGED vars
  BY <1>1 DEF vars, Begun, Unstarted
<1>2. CASE caller # "Terminated" /\ QuietStep
  <2>1. PoolTypes /\ Waiting /\ PlacesOfOp /\ CountInv
    BY <1>2 DEF PoolInv
  <2>2. CASE Release
    BY <2>1, <2>2, ReleaseUnstarted DEF Release, Begun
  <2>3. CASE Wait
    BY <2>3 DEF Wait, Begun, Unstarted
  <2>4. CASE WakeUp
    BY <2>4 DEF WakeUp, Begun, Unstarted
  <2>5. CASE CollectSolve
    BY <2>5 DEF CollectSolve, Begun, Unstarted
  <2>6. CASE Use
    BY <2>6 DEF Use, Begun, Unstarted
  <2>7. CASE Join
    BY <2>7 DEF Join, Begun, Unstarted
  <2>8. CASE Destroy
    BY <2>8 DEF Destroy, Dispatch
  <2>9. CASE NoPivot
    BY <2>9 DEF NoPivot
  <2>10. ASSUME NEW t \in Threads, EndOfOp(t)
         PROVE  /\ UNCHANGED <<ci, ri, ril, piv, todo, row_locks, col_locks, applied, fwd,
                               sol, i, k, pvr, cols, s, bHasBeenReset, caller, op, next, sem>>
                /\ pc[t] \in {"EndOfOp", "Exit"} /\ pc'[t] \in {"Acquire", "Gone"}
                /\ \A u \in Threads : u # t => pc'[u] = pc[u]
    BY <2>1, <2>10 DEF EndOfOp, PoolTypes
  <2>11. CASE \E t \in Threads : EndOfOp(t)
    BY <2>10, <2>11 DEF Begun, Unstarted
  <2> QED
    BY <1>2, <2>2, <2>3, <2>4, <2>5, <2>6, <2>7, <2>8, <2>9, <2>11 DEF QuietStep
<1> QED
  BY <1>1, <1>2

(* A step of pnaivfct belongs to one thread.                               *)
LEMMA FactorFrame ==
  ASSUME PoolInv, ThreadTypes, caller # "Terminated",
         NEW t \in Threads, pnaivfct(t), caller' # "Terminated"
  PROVE  /\ Factoring /\ Factoring' /\ Begun(t)
         /\ \A u \in Threads : Begun(u)' <=> Begun(u)
         /\ \A u \in Threads : u # t => /\ pc'[u] = pc[u] /\ i'[u] = i[u]
                                        /\ k'[u] = k[u] /\ cols'[u] = cols[u]
         /\ UNCHANGED <<op, fwd, sol, s, bHasBeenReset, calls>>
<1>1. PoolTypes /\ Waiting /\ PlacesOfOp /\ CountInv
  BY DEF PoolInv
<1>2. /\ pc[t] \in FactorPlaces /\ pc' = [pc EXCEPT ![t] = pc'[t]]
      /\ UNCHANGED <<caller, next, op, thread_count, sem, notified>>
  BY <1>1, FactorMoves
<1>3. Factoring /\ Factoring'
  BY <1>1, <1>2 DEF PlacesOfOp, Factoring
<1>4. Begun(t)
  BY <1>2, AtWork DEF FactorPlaces
<1>5. \A u \in Threads : Begun(u)' <=> Begun(u)
  BY <1>2 DEF Begun, Unstarted
<1>6. \A u \in Threads : u # t => pc'[u] = pc[u]
  BY <1>1, <1>2 DEF PoolTypes
<1>7. /\ \A u \in Threads : u # t => i'[u] = i[u] /\ k'[u] = k[u] /\ cols'[u] = cols[u]
      /\ UNCHANGED <<fwd, sol, s, bHasBeenReset, calls>>
  <2> USE DEF ThreadTypes, calls, vectors, locals
  <2>1. CASE t = 0 /\ ChoosePivot
    BY <2>1 DEF ChoosePivot
  <2>2. CASE t = 0 /\ NoPivot
    BY <2>2 DEF NoPivot
  <2>3. CASE t = 0 /\ PublishPivot
    BY <2>3 DEF PublishPivot
  <2>4. CASE t = 0 /\ Merge
    BY <2>4 DEF Merge, NextColumn
  <2>5. CASE AwaitPivot(t)
    BY <2>5 DEF AwaitPivot
  <2>6. CASE EliminateRow(t)
    BY <2>6 DEF EliminateRow
  <2>7. CASE TestAndSet(t)
    BY <2>7 DEF TestAndSet
  <2>8. CASE Fill(t)
    BY <2>8 DEF Fill
  <2>9. CASE ArriveAtColumn(t)
    BY <2>9 DEF ArriveAtColumn
  <2>10. CASE LeaveColumn(t)
    BY <2>10 DEF LeaveColumn, NextColumn
  <2> QED
    BY <2>1, <2>2, <2>3, <2>4, <2>5, <2>6, <2>7, <2>8, <2>9, <2>10 DEF pnaivfct
<1> QED
  BY <1>2, <1>3, <1>4, <1>5, <1>6, <1>7

(* A step of pnaivslv as well, and it leaves the matrix alone.             *)
LEMMA SolveFrame ==
  ASSUME PoolInv, ThreadTypes, caller # "Terminated", NEW t \in Threads, pnaivslv(t)
  PROVE  /\ op = "SOLVE" /\ Begun(t) /\ Working
         /\ \A u \in Threads : Begun(u)' <=> Begun(u)
         /\ \A u \in Threads : u # t => /\ pc'[u] = pc[u] /\ i'[u] = i[u]
                                        /\ cols'[u] = cols[u] /\ s'[u] = s[u]
         /\ UNCHANGED <<op, caller, ci, ri, ril, piv, todo, applied, col_locks, k, pvr, calls>>
<1>1. PoolTypes /\ Waiting /\ PlacesOfOp /\ CountInv
  BY DEF PoolInv
<1>2. /\ pc[t] \in SolvePlaces /\ pc' = [pc EXCEPT ![t] = pc'[t]]
      /\ UNCHANGED <<caller, next, op, thread_count, sem, notified>>
  BY <1>1, SolveMoves
<1>3. op = "SOLVE"
  BY <1>1, <1>2 DEF PlacesOfOp
<1>4. Begun(t)
  BY <1>2, AtWork DEF SolvePlaces
<1>5. \A u \in Threads : Begun(u)' <=> Begun(u)
  BY <1>2 DEF Begun, Unstarted
<1>6. \A u \in Threads : u # t => pc'[u] = pc[u]
  BY <1>1, <1>2 DEF PoolTypes
<1>7. /\ \A u \in Threads : u # t => i'[u] = i[u] /\ s'[u] = s[u] /\ cols'[u] = cols[u]
      /\ UNCHANGED <<ci, ri, ril, piv, todo, applied, col_locks, k, pvr, calls>>
  <2> USE DEF ThreadTypes, calls, vectors, locals, lists
  <2>1. CASE FirstRow(t)
    BY <2>1 DEF FirstRow, EnterForward
  <2>2. CASE SubtractForward(t)
    BY <2>2 DEF SubtractForward
  <2>3. CASE StoreForward(t)
    BY <2>3 DEF StoreForward, EnterForward
  <2>4. CASE ArriveAtEnd(t)
    BY <2>4 DEF ArriveAtEnd
  <2>5. CASE TurnBack(t)
    BY <2>5 DEF TurnBack, EnterBackward
  <2>6. CASE SubtractBackward(t)
    BY <2>6 DEF SubtractBackward
  <2>7. CASE StoreBackward(t)
    BY <2>7 DEF StoreBackward, EnterBackward
  <2> QED
    BY <2>1, <2>2, <2>3, <2>4, <2>5, <2>6, <2>7 DEF pnaivslv
<1>8. Working
  <2>1. t \in Pending
    BY <1>2 DEF Pending, SolvePlaces
  <2> QED
    BY <2>1, <1>1 DEF Waiting, Working, PoolTypes, CallerPlaces
<1> QED
  BY <1>2, <1>3, <1>4, <1>5, <1>6, <1>7, <1>8

(* A thread that begins an operation.                                      *)
LEMMA StartFrame ==
  ASSUME PoolInv, ThreadTypes, caller # "Terminated", NEW t \in Threads, Start(t)
  PROVE  /\ ~ Begun(t) /\ Begun(t)' /\ pc[t] = "Acquire" /\ i'[t] = 0
         /\ op = "FACTOR" => pc'[t] = "Pivot"
         /\ op = "SOLVE" => pc'[t] = "First"
         /\ pc'[t] \in {"Pivot", "First", "Exit"}
         /\ \A u \in Threads : u # t => /\ pc'[u] = pc[u] /\ i'[u] = i[u]
                                        /\ (Begun(u)' <=> Begun(u))
         /\ UNCHANGED <<op, caller, ci, ri, ril, piv, todo, row_locks, col_locks, applied,
                        fwd, sol, k, pvr, cols, s, calls>>
<1> USE DEF Start, lists, vectors
<1>1. PoolTypes /\ Waiting
  BY DEF PoolInv
<1>2. sem[t] = 1 /\ sem'[t] = 0 /\ \A u \in Threads : u # t => sem'[u] = sem[u]
  BY <1>1 DEF PoolTypes
<1>3. caller = "Release" => ~ (t >= next)
  BY <1>1, <1>2 DEF Waiting
<1>4. ~ Begun(t) /\ Begun(t)'
  BY <1>2, <1>3 DEF Begun, Unstarted
<1>5. \A u \in Threads : u # t => (Begun(u)' <=> Begun(u))
  BY <1>2 DEF Begun, Unstarted
<1>6. pc'[t] = CASE op = "FACTOR" -> "Pivot" [] op = "SOLVE" -> "First" [] OTHER -> "Exit"
  BY <1>1 DEF PoolTypes
<1>7. /\ op = "FACTOR" => pc'[t] = "Pivot"
      /\ op = "SOLVE" => pc'[t] = "First"
      /\ pc'[t] \in {"Pivot", "First", "Exit"}
  BY <1>6
<1>8. i'[t] = 0 /\ \A u \in Threads : u # t => pc'[u] = pc[u] /\ i'[u] = i[u]
  BY <1>1 DEF PoolTypes, ThreadTypes
<1> QED
  BY <1>4, <1>5, <1>7, <1>8

(* A new factorization: nobody has begun.                                  *)
LEMMA DispatchFrame ==
  ASSUME NEW o, Dispatch(o), NEW t \in Threads
  PROVE  ~ Begun(t)' /\ op' = o /\ caller' = "Release"
BY DEF Dispatch, Begun, Unstarted, Threads

(* What it means to turn to the next of the rows in the forward            *)
(* substitution ...                                                        *)
LEMMA ForwardRows ==
  ASSUME PoolTypes, ThreadTypes, NEW t \in Threads, NEW j \in Nat, EnterForward(t, j)
  PROVE  \/ /\ pc'[t] = "Arrive" /\ UNCHANGED <<i, cols, s>>
            /\ \A m \in Rows : m >= j => m % nThreads # t
         \/ \E n \in Rows :
              /\ n >= j /\ n % nThreads = t
              /\ \A m \in Rows : m >= j /\ m < n => m % nThreads # t
              /\ pc'[t] = "Forward" /\ i'[t] = n /\ s'[t] = RhsIsThere
              /\ i' = [i EXCEPT ![t] = n]
              /\ s' = [s EXCEPT ![t] = RhsIsThere]
              /\ cols' = [cols EXCEPT ![t] =
                   Selection(ci[piv[n]], {m \in DOMAIN ci[piv[n]] : ci[piv[n]][m] < n})]
<1> DEFINE own == {n \in j .. iSize - 1 : n % nThreads = t}
<1>1. \A m \in Rows : m >= j /\ m % nThreads = t => m \in own
  BY DEF Rows
<1>2. \A n \in own : n \in Rows /\ n >= j /\ n % nThreads = t
  BY NaiveAssumption DEF Rows
<1>3. CASE own = {}
  <2>1. pc'[t] = "Arrive" /\ UNCHANGED <<i, cols, s>>
    BY <1>3 DEF EnterForward, PoolTypes
  <2> HIDE DEF own
  <2> QED
    BY <2>1, <1>1, <1>3
<1>4. CASE own # {}
  <2>1. PICK n \in own :
           /\ \A m \in own : n <= m
           /\ pc' = [pc EXCEPT ![t] = "Forward"]
           /\ i' = [i EXCEPT ![t] = n]
           /\ cols' = [cols EXCEPT ![t] =
                Selection(ci[piv[n]], {m \in DOMAIN ci[piv[n]] : ci[piv[n]][m] < n})]
           /\ s' = [s EXCEPT ![t] = RhsIsThere]
    BY <1>4 DEF EnterForward
  <2> HIDE DEF own
  <2>2. n \in Rows /\ n >= j /\ n % nThreads = t
    BY <1>2
  <2>3. \A m \in Rows : m >= j /\ m < n => m % nThreads # t
    <3>1. \A m \in Rows : m < n => ~ (n <= m)
      BY <2>2 DEF Rows
    <3> QED
      BY <3>1, <2>1, <1>1
  <2>4. pc'[t] = "Forward" /\ i'[t] = n /\ s'[t] = RhsIsThere
    BY <2>1 DEF PoolTypes, ThreadTypes
  <2> QED
    BY <2>1, <2>2, <2>3, <2>4
<1> QED
  BY <1>3, <1>4

(* ... and in the backward substitution.                                   *)
LEMMA BackwardRows ==
  ASSUME PoolTypes, ThreadTypes, NEW t \in Threads, NEW j \in Int, j < iSize,
         EnterBackward(t, j)
  PROVE  \/ /\ pc'[t] = "EndOfOp" /\ UNCHANGED <<i, cols, s>>
            /\ \A m \in Rows : m <= j => m % nThreads # t
         \/ \E n \in Rows :
              /\ n <= j /\ n % nThreads = t
              /\ \A m \in Rows : m <= j /\ m > n => m % nThreads # t
              /\ pc'[t] = "Backward" /\ i'[t] = n /\ s'[t] = (n \in fwd)
              /\ i' = [i EXCEPT ![t] = n]
              /\ s' = [s EXCEPT ![t] = n \in fwd]
              /\ cols' = [cols EXCEPT ![t] =
                   Selection(ci[piv[n]], {m \in DOMAIN ci[piv[n]] : ci[piv[n]][m] > n})]
<1> DEFINE own == {n \in 0 .. j : n % nThreads = t}
<1>1. \A m \in Rows : m <= j /\ m % nThreads = t => m \in own
  BY DEF Rows
<1>2. \A n \in own : n \in Rows /\ n <= j /\ n % nThreads = t
  BY NaiveAssumption DEF Rows
<1>3. CASE own = {}
  <2>1. pc'[t] = "EndOfOp" /\ UNCHANGED <<i, cols, s>>
    BY <1>3 DEF EnterBackward, PoolTypes
  <2> HIDE DEF own
  <2> QED
    BY <2>1, <1>1, <1>3
<1>4. CASE own # {}
  <2>1. PICK n \in own :
           /\ \A m \in own : n >= m
           /\ pc' = [pc EXCEPT ![t] = "Backward"]
           /\ i' = [i EXCEPT ![t] = n]
           /\ cols' = [cols EXCEPT ![t] =
                Selection(ci[piv[n]], {m \in DOMAIN ci[piv[n]] : ci[piv[n]][m] > n})]
           /\ s' = [s EXCEPT ![t] = n \in fwd]
    BY <1>4 DEF EnterBackward
  <2> HIDE DEF own
  <2>2. n \in Rows /\ n <= j /\ n % nThreads = t
    BY <1>2
  <2>3. \A m \in Rows : m <= j /\ m > n => m % nThreads # t
    <3>1. \A m \in Rows : m > n => ~ (n >= m)
      BY <2>2 DEF Rows
    <3> QED
      BY <3>1, <2>1, <1>1
  <2>4. pc'[t] = "Backward" /\ i'[t] = n /\ s'[t] = (n \in fwd)
    BY <2>1 DEF PoolTypes, ThreadTypes
  <2> QED
    BY <2>1, <2>2, <2>3, <2>4
<1> QED
  BY <1>3, <1>4

(* Every step is one of these.                                             *)
LEMMA StepCases ==
  ASSUME PoolInv, ThreadTypes, [Next]_vars
  PROVE  \/ (caller # "Terminated" /\ QuietStep) \/ UNCHANGED vars
         \/ /\ caller # "Terminated"
            /\ \/ Assemble \/ Solve \/ CollectFactor
               \/ \E t \in Threads : \/ Start(t) \/ pnaivslv(t)
                                     \/ pnaivfct(t) /\ caller' # "Terminated"
<1>1. ASSUME NEW t \in Threads, pnaivfct(t), caller # "Terminated"
      PROVE  caller' # "Terminated" \/ NoPivot
  BY <1>1 DEF pnaivfct, ChoosePivot, PublishPivot, Merge, AwaitPivot, EliminateRow, TestAndSet,
     Fill, ArriveAtColumn, LeaveColumn
<1> QED
  BY <1>1 DEF Next, Caller, Thread, QuietStep

(* Before the first assembly there is nothing.                             *)
LEMMA FactorInit == Init => FactorInv
<1> SUFFICES ASSUME Init PROVE FactorInv
  OBVIOUS
<1>1. PoolInv
  BY PoolInit
<1> USE DEF Init
<1>2. CallTypes
  BY DEF CallTypes
<1>3. <<>> \in Seq(Rows) /\ ToSet(<<>>) = {} /\ IsInjective(<<>>) /\ DOMAIN <<>> = {}
  BY DEF ToSet, IsInjective
<1>4. MatrixTypes
  BY <1>3, RowsFacts DEF MatrixTypes
<1>5. ThreadTypes
  BY <1>3, RowsFacts DEF ThreadTypes
<1>6. ~ Factoring /\ \A t \in Threads : pc[t] = "Acquire"
  BY DEF Factoring
<1>7. ColumnsInv /\ BarrierInv /\ PivotInv /\ FillInv /\ AppliedInv /\ FilledInv
  BY <1>6 DEF ColumnsInv, BarrierInv, PivotInv, FillInv, AppliedInv, FilledInv
<1>8. ListsInv
  <2>1. pc[0] = "Acquire"
    BY <1>6, ThreadsFinite
  <2>2. \A r, c : ~ IsNew(r, c)
    BY <2>1 DEF IsNew
  <2>3. \A c \in Rows : ri[c] = <<>> /\ ci[c] = <<>>
    OBVIOUS
  <2>4. \A n \in 1 .. iSize : ril[n] = {}
    OBVIOUS
  <2> QED
    BY <1>3, <2>2, <2>3, <2>4 DEF ListsInv
<1>9. FactoredInv
  BY DEF FactoredInv, Working
<1>10. LocksInv
  BY DEF LocksInv
<1> QED
  BY <1>1, <1>2, <1>4, <1>5, <1>7, <1>8, <1>9, <1>10 DEF FactorInv

-----------------------------------------------------------------------------
\* Where the threads are.

(* Every step preserves ColumnsInv.                                        *)
LEMMA ColumnsNext ==
  ASSUME FactorInv, [Next]_vars
  PROVE  ColumnsInv'
<1>1. PoolInv /\ PoolTypes /\ ThreadTypes /\ ColumnsInv
  BY DEF FactorInv, PoolInv
<1>2. CASE (caller # "Terminated" /\ QuietStep) \/ UNCHANGED vars
  BY <1>1, <1>2, QuietFrame DEF ColumnsInv, FactorPlaces
<1>3. CASE Assemble \/ Solve \/ CollectFactor
  <2>1. UNCHANGED <<pc, i>>
    BY <1>3 DEF Assemble, Solve, CollectFactor, locals
  <2>2. CASE Assemble
    <3>1. ~ Factoring'
      BY <1>1, <2>2 DEF Assemble, Factoring, PoolInv, PlacesOfOp, pool
    <3> QED
      BY <3>1, <2>1, <1>1 DEF ColumnsInv
  <2>3. CASE Solve \/ CollectFactor
    <3>1. PICK o : Dispatch(o)
      BY <2>3 DEF Solve, CollectFactor, Factor, Substitute
    <3>2. \A t \in Threads : ~ Begun(t)'
      BY <3>1, DispatchFrame
    <3> QED
      BY <3>2, <2>1, <1>1 DEF ColumnsInv
  <2> QED
    BY <1>3, <2>2, <2>3
<1>4. ASSUME NEW t \in Threads, caller # "Terminated", Start(t) PROVE ColumnsInv'
  <2>1. Factoring' => Factoring /\ pc'[t] = "Pivot" /\ i'[t] = 0
    BY <1>1, <1>4, StartFrame DEF Factoring
  <2>2. pc'[t] \notin {"Forward", "Backward"}
    BY <1>1, <1>4, StartFrame
  <2> QED
    BY <2>1, <2>2, <1>1, <1>4, StartFrame, RowsFacts DEF ColumnsInv, FactorPlaces
<1>5. ASSUME NEW t \in Threads, caller # "Terminated", pnaivslv(t) PROVE ColumnsInv'
  <2>1. ~ Factoring' /\ \A u \in Threads : u # t => pc'[u] = pc[u] /\ i'[u] = i[u]
    BY <1>1, <1>5, SolveFrame DEF Factoring
  <2>2. pc'[t] \in {"Forward", "Backward"} => i'[t] \in Rows
    <3>1. CASE FirstRow(t)
      <4>1. EnterForward(t, 1)
        BY <3>1 DEF FirstRow
      <4> QED
        BY <4>1, <1>1, ForwardRows
    <3>2. CASE SubtractForward(t)
      BY <1>1, <3>2 DEF SubtractForward, ColumnsInv, PoolTypes
    <3>3. CASE StoreForward(t)
      <4>1. i[t] \in Rows /\ EnterForward(t, i[t] + 1)
        BY <1>1, <3>3 DEF StoreForward, ColumnsInv
      <4>2. i[t] + 1 \in Nat
        BY <4>1, RowsOrder
      <4> QED
        BY <4>1, <4>2, <1>1, ForwardRows
    <3>4. CASE ArriveAtEnd(t)
      BY <1>1, <3>4 DEF ArriveAtEnd, PoolTypes
    <3>5. CASE TurnBack(t)
      <4>1. EnterBackward(t, iSize - 2) /\ iSize - 2 \in Int /\ iSize - 2 < iSize
        BY <3>5, NaiveAssumption DEF TurnBack
      <4> QED
        BY <4>1, <1>1, BackwardRows
    <3>6. CASE SubtractBackward(t)
      BY <1>1, <3>6 DEF SubtractBackward, ColumnsInv, PoolTypes
    <3>7. CASE StoreBackward(t)
      <4>1. EnterBackward(t, i[t] - 1) /\ i[t] \in Rows
        BY <1>1, <3>7 DEF StoreBackward, ColumnsInv
      <4>2. i[t] - 1 \in Int /\ i[t] - 1 < iSize
        BY <4>1, NaiveAssumption DEF Rows
      <4> QED
        BY <4>1, <4>2, <1>1, BackwardRows
    <3> QED
      BY <1>5, <3>1, <3>2, <3>3, <3>4, <3>5, <3>6, <3>7 DEF pnaivslv
  <2> QED
    BY <2>1, <2>2, <1>1 DEF ColumnsInv
<1>6. ASSUME NEW t \in Threads, caller # "Terminated", pnaivfct(t), caller' # "Terminated"
      PROVE  ColumnsInv'
  <2>1. /\ Factoring /\ Begun(t)
        /\ \A u \in Threads : Begun(u)' <=> Begun(u)
        /\ \A u \in Threads : u # t => pc'[u] = pc[u] /\ i'[u] = i[u]
    BY <1>1, <1>6, FactorFrame
  <2>2. pc[t] \in FactorPlaces /\ i[t] \in Rows
    BY <1>1, <1>6, <2>1, FactorMoves DEF ColumnsInv
  <2>3. IF pc'[t] \in FactorPlaces THEN i'[t] \in Rows ELSE i'[t] = iSize
    <3> USE <1>1, <2>2 DEF PoolTypes, ThreadTypes, FactorPlaces, locals
    <3>1. CASE t = 0 /\ ChoosePivot
      BY <3>1 DEF ChoosePivot
    <3>2. CASE t = 0 /\ PublishPivot
      BY <3>2 DEF PublishPivot
    <3>3. ASSUME NextColumn(t)
          PROVE  IF pc'[t] \in FactorPlaces THEN i'[t] \in Rows ELSE i'[t] = iSize
      <4>1. i'[t] = i[t] + 1 /\ pc'[t] = IF i[t] + 1 < iSize THEN "Pivot" ELSE "EndOfOp"
        BY <3>3 DEF NextColumn
      <4>2. IF i[t] + 1 < iSize THEN i[t] + 1 \in Rows ELSE i[t] + 1 = iSize
        BY NaiveAssumption DEF Rows
      <4> QED
        BY <4>1, <4>2
    <3>4. CASE t = 0 /\ Merge
      BY <3>3, <3>4 DEF Merge
    <3>5. CASE AwaitPivot(t)
      BY <3>5 DEF AwaitPivot
    <3>6. CASE EliminateRow(t)
      BY <3>6 DEF EliminateRow
    <3>7. CASE TestAndSet(t)
      BY <3>7 DEF TestAndSet
    <3>8. CASE Fill(t)
      BY <3>8 DEF Fill
    <3>9. CASE ArriveAtColumn(t)
      BY <3>9 DEF ArriveAtColumn
    <3>10. CASE LeaveColumn(t)
      BY <3>3, <3>10 DEF LeaveColumn
    <3>11. ~ NoPivot
      BY <1>6 DEF NoPivot
    <3> QED
      BY <1>6, <3>1, <3>2, <3>4, <3>5, <3>6, <3>7, <3>8, <3>9, <3>10, <3>11 DEF pnaivfct
  <2>4. pc'[t] \notin {"Forward", "Backward"}
    BY <1>1, <1>6, FactorMoves DEF FactorPlaces
  <2> QED
    BY <2>1, <2>3, <2>4, <1>1 DEF ColumnsInv
<1> QED
  BY <1>1, <1>2, <1>3, <1>4, <1>5, <1>6, StepCases

(* Which of the steps of pnaivfct there are, if the program goes on.       *)
LEMMA FactorCases ==
  ASSUME NEW t \in Threads, pnaivfct(t), caller' # "Terminated"
  PROVE  \/ t = 0 /\ (ChoosePivot \/ PublishPivot \/ Merge)
         \/ AwaitPivot(t) \/ EliminateRow(t) \/ TestAndSet(t) \/ Fill(t)
         \/ ArriveAtColumn(t) \/ LeaveColumn(t)
BY DEF pnaivfct, NoPivot

(* A step with which nobody arrives at the end of a column, nor leaves it, *)
(* keeps the barrier.                                                      *)
LEMMA BarrierKept ==
  ASSUME BarrierInv, Factoring' => Factoring,
         Factoring' => /\ row_locks' = row_locks
                       /\ \A t \in Threads, c \in Rows :
                            (Arrived(t, c)' <=> Arrived(t, c)) /\ (Passed(t, c)' => Passed(t, c))
  PROVE  BarrierInv'
<1> SUFFICES ASSUME Factoring'
             PROVE  /\ \A c \in Rows :
                         row_locks'[c] = Cardinality({t \in Threads : Arrived(t, c)'})
                    /\ \A t, u \in Threads, c \in Rows : Passed(t, c)' => Arrived(u, c)'
  BY DEF BarrierInv
<1>1. \A c \in Rows : {t \in Threads : Arrived(t, c)'} = {t \in Threads : Arrived(t, c)}
  OBVIOUS
<1> QED
  BY <1>1 DEF BarrierInv

(* Every step preserves the barrier: the counter of a column says how many *)
(* arrived there, and who leaves has seen all of them.                     *)
LEMMA BarrierNext ==
  ASSUME FactorInv, [Next]_vars
  PROVE  BarrierInv'
<1>1. PoolInv /\ PoolTypes /\ ThreadTypes /\ MatrixTypes /\ ColumnsInv /\ BarrierInv
  BY DEF FactorInv, PoolInv
<1>2. CASE (caller # "Terminated" /\ QuietStep) \/ UNCHANGED vars
  <2>1. /\ UNCHANGED <<i, row_locks>>
        /\ Factoring' => Factoring /\ \A t \in Threads : Begun(t)' <=> Begun(t)
        /\ \A t \in Threads :
              \/ pc'[t] = pc[t]
              \/ pc[t] \in {"EndOfOp", "Exit"} /\ pc'[t] \in {"Acquire", "Gone"}
    BY <1>1, <1>2, QuietFrame
  <2> QED
    BY <2>1, <1>1, BarrierKept DEF Arrived, Passed
<1>3. CASE Assemble \/ Solve \/ CollectFactor
  <2>1. CASE Assemble
    BY <1>1, <2>1 DEF Assemble, Factoring, PoolInv, PlacesOfOp, pool, BarrierInv
  <2>2. CASE CollectFactor
    BY <2>2 DEF CollectFactor, Substitute, Dispatch, Factoring, BarrierInv
  <2>3. CASE Solve
    <3>1. CASE Substitute
      BY <3>1 DEF Substitute, Dispatch, Factoring, BarrierInv
    <3>2. CASE Factor
      <4>1. \A t \in Threads : ~ Begun(t)'
        BY <3>2, DispatchFrame DEF Factor
      <4>2. \A c \in Rows : {t \in Threads : Arrived(t, c)'} = {} /\ row_locks'[c] = 0
        BY <3>2, <4>1, RowsFacts DEF Arrived, Factor
      <4>3. \A t \in Threads, c \in Rows : ~ Passed(t, c)'
        BY <4>1 DEF Passed
      <4>4. \A c \in Rows : row_locks'[c] = Cardinality({t \in Threads : Arrived(t, c)'})
        BY <4>2, FS_EmptySet
      <4> QED
        BY <4>3, <4>4 DEF BarrierInv
    <3> QED
      BY <2>3, <3>1, <3>2 DEF Solve
  <2> QED
    BY <1>3, <2>1, <2>2, <2>3
<1>4. ASSUME NEW t \in Threads, caller # "Terminated", Start(t) PROVE BarrierInv'
  <2>1. /\ ~ Begun(t) /\ i'[t] = 0 /\ pc'[t] \notin {"Column", "Merge"}
        /\ \A u \in Threads : u # t => pc'[u] = pc[u] /\ i'[u] = i[u] /\ (Begun(u)' <=> Begun(u))
        /\ UNCHANGED <<op, caller, row_locks>>
    BY <1>1, <1>4, StartFrame
  <2>2. \A c \in Rows : ~ (0 > c)
    BY RowsOrder, RowsFacts
  <2>3. \A c \in Rows : /\ ~ Arrived(t, c) /\ ~ Arrived(t, c)'
                        /\ ~ Passed(t, c) /\ ~ Passed(t, c)'
    BY <2>1, <2>2 DEF Arrived, Passed
  <2>4. \A u \in Threads, c \in Rows : u # t => /\ Arrived(u, c)' <=> Arrived(u, c)
                                                /\ Passed(u, c)' <=> Passed(u, c)
    BY <2>1 DEF Arrived, Passed
  <2>5. Factoring' => Factoring
    BY <2>1 DEF Factoring
  <2> QED
    BY <2>1, <2>3, <2>4, <2>5, <1>1, BarrierKept
<1>5. ASSUME NEW t \in Threads, caller # "Terminated", pnaivslv(t) PROVE BarrierInv'
  BY <1>1, <1>5, SolveFrame DEF Factoring, BarrierInv
<1>6. ASSUME NEW t \in Threads, caller # "Terminated", pnaivfct(t), caller' # "Terminated"
      PROVE  BarrierInv'
  <2>1. /\ Factoring /\ Factoring' /\ Begun(t) /\ Begun(t)'
        /\ \A u \in Threads : Begun(u)' <=> Begun(u)
        /\ \A u \in Threads : u # t => pc'[u] = pc[u] /\ i'[u] = i[u]
    BY <1>1, <1>6, FactorFrame
  <2>2. i[t] \in Rows /\ pc[t] \in FactorPlaces
    BY <1>1, <1>6, <2>1, FactorMoves DEF ColumnsInv
  <2>3. \A u \in Threads, c \in Rows : u # t => /\ Arrived(u, c)' <=> Arrived(u, c)
                                                /\ Passed(u, c)' <=> Passed(u, c)
    BY <2>1 DEF Arrived, Passed
  <2>4. ASSUME row_locks' = row_locks, i'[t] = i[t],
               pc[t] \notin {"Column", "Merge"}, pc'[t] \notin {"Column", "Merge"}
        PROVE  BarrierInv'
    <3>1. \A c \in Rows : /\ Arrived(t, c)' <=> Arrived(t, c)
                          /\ Passed(t, c)' <=> Passed(t, c)
      BY <2>1, <2>4 DEF Arrived, Passed
    <3> QED
      BY <2>1, <2>3, <2>4, <3>1, <1>1, BarrierKept
  <2>5. CASE (t = 0 /\ (ChoosePivot \/ PublishPivot)) \/ AwaitPivot(t) \/ EliminateRow(t)
             \/ TestAndSet(t) \/ Fill(t)
    <3>1. row_locks' = row_locks /\ i'[t] = i[t]
      BY <2>5 DEF ChoosePivot, PublishPivot, AwaitPivot, EliminateRow, TestAndSet, Fill, locals
    <3>2. pc[t] \notin {"Column", "Merge"} /\ pc'[t] \notin {"Column", "Merge"}
      BY <1>1, <2>5 DEF ChoosePivot, PublishPivot, AwaitPivot, EliminateRow, TestAndSet, Fill,
         PoolTypes
    <3> QED
      BY <2>4, <3>1, <3>2
  <2>6. CASE ArriveAtColumn(t)
    <3>1. pc[t] = "Rows" /\ pc'[t] = "Column" /\ i'[t] = i[t]
      BY <1>1, <2>6 DEF ArriveAtColumn, PoolTypes, locals
    <3>2. /\ row_locks'[i[t]] = row_locks[i[t]] + 1
          /\ \A c \in Rows : c # i[t] => row_locks'[c] = row_locks[c]
      BY <1>1, <2>2, <2>6, RowsFacts DEF ArriveAtColumn, MatrixTypes
    <3> DEFINE A(c) == {u \in Threads : Arrived(u, c)}
    <3>3. /\ ~ Arrived(t, i[t]) /\ Arrived(t, i[t])'
          /\ \A c \in Rows : c # i[t] => (Arrived(t, c)' <=> Arrived(t, c))
          /\ \A c \in Rows : Passed(t, c)' <=> Passed(t, c)
      BY <2>1, <2>2, <3>1, RowsOrder DEF Arrived, Passed
    <3>4. \A c \in Rows : c # i[t] => A(c)' = A(c)
      BY <2>3, <3>3
    <3>5. A(i[t])' = A(i[t]) \cup {t}
      <4>1. \A u \in Threads : u # t => (Arrived(u, i[t])' <=> Arrived(u, i[t]))
        BY <2>1, <3>1 DEF Arrived
      <4> QED
        BY <3>1, <3>3, <4>1
    <3>6. A(i[t]) \in SUBSET Threads /\ t \notin A(i[t])
      BY <3>3
    <3>7. Cardinality(A(i[t])') = Cardinality(A(i[t])) + 1
      <4> DEFINE B == A(i[t])
      <4> HIDE DEF B
      <4>1. IsFiniteSet(B) /\ t \notin B
        BY <3>6, SomeThreads DEF B
      <4>2. Cardinality(B \cup {t}) = Cardinality(B) + 1
        BY <4>1, FS_AddElement
      <4> QED
        BY <4>2, <3>5 DEF B
    <3>8. \A c \in Rows : row_locks[c] = Cardinality(A(c))
      BY <1>1, <2>1 DEF BarrierInv
    <3>9. \A c \in Rows : row_locks'[c] = Cardinality(A(c)')
      <4> SUFFICES ASSUME NEW c \in Rows PROVE row_locks'[c] = Cardinality(A(c)')
        OBVIOUS
      <4>1. CASE c = i[t]
        <5>1. A(c)' = A(i[t])'
          BY <4>1, <3>1
        <5> QED
          BY <4>1, <5>1, <3>2, <3>7, <3>8, <2>2
      <4>2. CASE c # i[t]
        BY <4>2, <3>2, <3>4, <3>8
      <4> QED
        BY <4>1, <4>2
    <3>10. \A u, v \in Threads, c \in Rows : Passed(u, c)' => Arrived(v, c)'
      <4>1. \A u, v \in Threads, c \in Rows : Passed(u, c) => Arrived(v, c)
        BY <1>1, <2>1 DEF BarrierInv
      <4>2. \A u \in Threads, c \in Rows : Passed(u, c)' <=> Passed(u, c)
        BY <2>3, <3>3
      <4>3. \A u \in Threads, c \in Rows : Arrived(u, c) => Arrived(u, c)'
        BY <2>3, <3>3, <3>1
      <4> QED
        BY <4>1, <4>2, <4>3
    <3> QED
      BY <3>9, <3>10 DEF BarrierInv
  <2>7. ASSUME pc[t] \in {"Column", "Merge"}, row_locks' = row_locks,
               \/ t = 0 /\ pc[t] = "Column" /\ pc'[t] = "Merge" /\ i'[t] = i[t]
               \/ pc'[t] \notin {"Column", "Merge"} /\ i'[t] = i[t] + 1,
               \A u \in Threads : Arrived(u, i[t])
        PROVE  BarrierInv'
    <3>1. \A c \in Rows : i[t] + 1 > c <=> (i[t] > c \/ i[t] = c)
      BY <2>2 DEF Rows
    <3>2. \A c \in Rows : i[t] + 1 = c => ~ (i[t] > c) /\ i[t] # c
      BY <2>2 DEF Rows
    <3>3. \A c \in Rows : Arrived(t, c)' <=> Arrived(t, c)
      BY <2>1, <2>7, <3>1, <3>2 DEF Arrived
    <3>4. \A c \in Rows : Passed(t, c)' => Passed(t, c) \/ c = i[t]
      BY <2>1, <2>7, <3>1, <3>2 DEF Passed
    <3>5. \A c \in Rows : {u \in Threads : Arrived(u, c)'} = {u \in Threads : Arrived(u, c)}
      BY <2>3, <3>3
    <3>6. \A u, v \in Threads, c \in Rows : Passed(u, c)' => Arrived(v, c)'
      <4>1. \A u, v \in Threads, c \in Rows : Passed(u, c) => Arrived(v, c)
        BY <1>1, <2>1 DEF BarrierInv
      <4>2. \A u \in Threads, c \in Rows : Passed(u, c)' => Passed(u, c) \/ c = i[t]
        BY <2>3, <3>4
      <4>3. \A u \in Threads, c \in Rows : Arrived(u, c) => Arrived(u, c)'
        BY <2>3, <3>3
      <4> QED
        BY <4>1, <4>2, <4>3, <2>7
    <3> QED
      BY <1>1, <2>1, <2>7, <3>5, <3>6 DEF BarrierInv
  <2>8. NextColumn(t) => i'[t] = i[t] + 1 /\ pc'[t] \notin {"Column", "Merge"}
    BY <1>1 DEF NextColumn, PoolTypes, ThreadTypes
  <2>9. CASE LeaveColumn(t)
    <3>1. {u \in Threads : Arrived(u, i[t])} = Threads
      <4> DEFINE A == {u \in Threads : Arrived(u, i[t])}
      <4>1. row_locks[i[t]] = Cardinality(A)
        BY <1>1, <2>1, <2>2 DEF BarrierInv
      <4>2. A \in SUBSET Threads
        OBVIOUS
      <4>3. row_locks[i[t]] >= nThreads
        BY <2>9 DEF LeaveColumn
      <4> HIDE DEF A
      <4>4. Cardinality(A) = nThreads
        BY <4>1, <4>2, <4>3, SomeThreads, NaiveAssumption
      <4> QED
        BY <4>2, <4>4, SomeThreads DEF A
    <3>2. \A u \in Threads : Arrived(u, i[t])
      BY <3>1
    <3>3. \/ t = 0 /\ pc[t] = "Column" /\ pc'[t] = "Merge" /\ i'[t] = i[t]
          \/ pc'[t] \notin {"Column", "Merge"} /\ i'[t] = i[t] + 1
      BY <1>1, <2>8, <2>9 DEF LeaveColumn, PoolTypes
    <3>4. pc[t] = "Column" /\ row_locks' = row_locks
      BY <2>9 DEF LeaveColumn
    <3> QED
      BY <2>7, <3>2, <3>3, <3>4
  <2>10. CASE t = 0 /\ Merge
    <3>1. pc[t] = "Merge" /\ row_locks' = row_locks /\ NextColumn(t)
      BY <2>10 DEF Merge
    <3>2. Passed(t, i[t])
      BY <2>1, <3>1 DEF Passed
    <3>3. \A u \in Threads : Arrived(u, i[t])
      BY <3>2, <1>1, <2>1, <2>2 DEF BarrierInv
    <3> QED
      BY <2>7, <2>8, <3>1, <3>3
  <2> QED
    BY <1>6, <2>5, <2>6, <2>9, <2>10, FactorCases
<1> QED
  BY <1>1, <1>2, <1>3, <1>4, <1>5, <1>6, StepCases

-----------------------------------------------------------------------------
\* The lists, and what the steps do to them.

(* The places of a list are no more than the rows.                         *)
LEMMA Places ==
  ASSUME MatrixTypes, ListsInv, NEW c \in Rows, NEW n \in DOMAIN ri[c]
  PROVE  /\ n \in Nat /\ n \in 1 .. iSize /\ n + 1 \in 1 .. iSize + 1
         /\ ri[c][n] \in Rows
<1>1. ri[c] \in Seq(Rows) /\ IsInjective(ri[c])
  BY DEF MatrixTypes, ListsInv
<1>2. Len(ri[c]) \in 0 .. iSize
  BY <1>1, InjectiveIsShort
<1> DEFINE q == ri[c]
<1>3. DOMAIN q = 1 .. Len(q) /\ Len(q) \in Nat /\ q[n] \in Rows
  BY <1>1
<1> DEFINE N == Len(q)
<1>4. N \in 0 .. iSize /\ n \in 1 .. N
  BY <1>2, <1>3
<1> HIDE DEF N, q
<1>5. n \in Nat /\ n \in 1 .. iSize /\ n + 1 \in 1 .. iSize + 1
  BY <1>4, NaiveAssumption
<1> QED
  BY <1>3, <1>5 DEF q

(* A new matrix.                                                           *)
LEMMA JacobianLists ==
  ASSUME Jacobian
  PROVE  \E p \in [Rows -> SUBSET Rows] :
           /\ p \in Patterns
           /\ ci' \in [Rows -> Seq(Rows)] /\ ri' \in [Rows -> Seq(Rows)]
           /\ \A c \in Rows : /\ ToSet(ri'[c]) = p[c]
                              /\ ToSet(ci'[c]) = {d \in Rows : c \in p[d]}
                              /\ IsInjective(ri'[c]) /\ IsInjective(ci'[c])
           /\ applied' = [r \in Rows |-> <<>>]
           /\ permuted' = (ePermState' = "PERM_READY")
<1>1. PICK p \in Patterns :
        /\ ci' = [r \in Rows |-> ListOf({c \in Rows : r \in p[c]})]
        /\ ri' = [c \in Rows |-> ListOf(p[c])]
        /\ applied' = [r \in Rows |-> <<>>]
        /\ permuted' = (ePermState' = "PERM_READY")
  BY DEF Jacobian
<1>2. p \in [Rows -> SUBSET Rows]
  BY <1>1, NaiveAssumption DEF Rows
<1>3. iSize \in Nat /\ Rows \subseteq 0 .. iSize
  BY RowsFacts
<1>4. ASSUME NEW S \in SUBSET Rows
      PROVE  /\ ListOf(S) \in Seq(Rows) /\ ToSet(ListOf(S)) = S /\ IsInjective(ListOf(S))
  <2>1. S \in SUBSET (0 .. iSize)
    BY <1>3
  <2>2. ListOf(S) \in Seq(S) /\ ToSet(ListOf(S)) = S /\ IsInjective(ListOf(S))
    BY <2>1, <1>3, ListOfProperties
  <2>3. Seq(S) \subseteq Seq(Rows)
    OBVIOUS
  <2> QED
    BY <2>2, <2>3
<1>5. \A c \in Rows : /\ ri'[c] = ListOf(p[c]) /\ p[c] \in SUBSET Rows
                      /\ ci'[c] = ListOf({d \in Rows : c \in p[d]})
                      /\ {d \in Rows : c \in p[d]} \in SUBSET Rows
  BY <1>1, <1>2
<1>6. \A c \in Rows : /\ ri'[c] \in Seq(Rows) /\ ci'[c] \in Seq(Rows)
                      /\ ToSet(ri'[c]) = p[c]
                      /\ ToSet(ci'[c]) = {d \in Rows : c \in p[d]}
                      /\ IsInjective(ri'[c]) /\ IsInjective(ci'[c])
  BY <1>4, <1>5
<1> QED
  BY <1>1, <1>2, <1>6

(* What is subtracted from a row, and what it leaves to be filled.         *)
Subtracted(t, n, r, new) ==
  /\ ri[i[t]][n] = r /\ n >= k[t] /\ r \in todo /\ r % nThreads = t
  /\ \A m \in DOMAIN ri[i[t]] :
       m >= k[t] /\ m < n => ~ (ri[i[t]][m] \in todo /\ ri[i[t]][m] % nThreads = t)
  /\ n \in 1 .. iSize /\ n + 1 \in 1 .. iSize + 1
  /\ IsInjective(new)
  /\ ToSet(new) = {c \in ToSet(ci[piv[i[t]]]) : c > i[t] /\ c \notin ToSet(ci[r])}
  /\ applied' = [applied EXCEPT ![r] = Append(@, i[t])]
  /\ cols' = [cols EXCEPT ![t] = new]
  /\ k' = [k EXCEPT ![t] = IF new = <<>> THEN n + 1 ELSE n]
  /\ pc' = [pc EXCEPT ![t] = IF new = <<>> THEN @ ELSE "Lock"]

LEMMA EliminateRowFacts ==
  ASSUME FactorInv, caller # "Terminated", NEW t \in Threads, EliminateRow(t)
  PROVE  \E n \in DOMAIN ri[i[t]], r \in Rows, new \in Seq(Rows) : Subtracted(t, n, r, new)
<1>1. /\ PoolInv /\ MatrixTypes /\ ThreadTypes /\ ColumnsInv /\ BarrierInv /\ PivotInv
      /\ ListsInv
  BY DEF FactorInv
<1>2. pc[t] = "Rows"
  BY DEF EliminateRow
<1>3. i[t] \in Rows /\ piv[i[t]] \in Rows
  BY <1>1, <1>2, SameColumn
<1> DEFINE p == ci[piv[i[t]]]
           P(r) == {m \in DOMAIN p : p[m] > i[t] /\ p[m] \notin ToSet(ci[r])}
<1>4. PICK n \in Mine(t) :
        /\ \A m \in Mine(t) : n <= m
        /\ applied' = [applied EXCEPT ![ri[i[t]][n]] = Append(@, i[t])]
        /\ cols' = [cols EXCEPT ![t] = Selection(p, P(ri[i[t]][n]))]
        /\ k' = [k EXCEPT ![t] = IF Selection(p, P(ri[i[t]][n])) = <<>> THEN n + 1 ELSE n]
        /\ pc' = [pc EXCEPT ![t] = IF Selection(p, P(ri[i[t]][n])) = <<>> THEN @ ELSE "Lock"]
  BY DEF EliminateRow
<1> DEFINE r == ri[i[t]][n]
           new == Selection(p, P(r))
<1>5. p \in Seq(Rows) /\ IsInjective(p) /\ P(r) \in SUBSET DOMAIN p
  BY <1>1, <1>3 DEF MatrixTypes, ListsInv
<1>6. new \in Seq(Rows) /\ ToSet(new) = {p[m] : m \in P(r)} /\ IsInjective(new)
  <2> HIDE DEF p, P
  <2> QED
    BY <1>5, SelectionProperties
<1>7. {p[m] : m \in P(r)} = {c \in ToSet(p) : c > i[t] /\ c \notin ToSet(ci[r])}
  BY DEF ToSet
<1>8. n \in DOMAIN ri[i[t]] /\ n >= k[t] /\ r \in todo /\ r % nThreads = t
  BY DEF Mine
<1>9. r \in Rows /\ n \in 1 .. iSize /\ n + 1 \in 1 .. iSize + 1 /\ n \in Nat
  BY <1>1, <1>3, <1>8, Places
<1>10. \A m \in DOMAIN ri[i[t]] :
         m >= k[t] /\ m < n => ~ (ri[i[t]][m] \in todo /\ ri[i[t]][m] % nThreads = t)
  <2> SUFFICES ASSUME NEW m \in DOMAIN ri[i[t]], m >= k[t], m < n
               PROVE  m \notin Mine(t)
    BY DEF Mine
  <2>1. m \in Nat
    BY <1>1, <1>3, Places
  <2>2. ~ (n <= m)
    BY <2>1, <1>9
  <2> QED
    BY <2>2, <1>4
<1> HIDE DEF P
<1>11. ToSet(new) = {c \in ToSet(p) : c > i[t] /\ c \notin ToSet(ci[r])}
  BY <1>6, <1>7
<1> HIDE DEF p
<1>12. /\ applied' = [applied EXCEPT ![r] = Append(@, i[t])]
       /\ cols' = [cols EXCEPT ![t] = new]
       /\ k' = [k EXCEPT ![t] = IF new = <<>> THEN n + 1 ELSE n]
       /\ pc' = [pc EXCEPT ![t] = IF new = <<>> THEN @ ELSE "Lock"]
  BY <1>4
<1>13. Subtracted(t, n, r, new)
  <2>1. ri[i[t]][n] = r
    OBVIOUS
  <2> HIDE DEF new, r
  <2> QED
    BY <1>6, <1>8, <1>9, <1>10, <1>11, <1>12, <2>1 DEF Subtracted, p
<1> QED
  BY <1>6, <1>8, <1>9, <1>13

(* A new entry, of column c, in the row r that its thread has in hand.     *)
Filled(t, c, r) ==
  /\ c = Head(cols[t]) /\ r = RowInHand(t)
  /\ r \in todo /\ r % nThreads = t
  /\ c > i[t] /\ c \notin ToSet(ci[r]) /\ c \in ToSet(ci[piv[i[t]]])
  /\ ci'[r] \in Seq(Rows) /\ IsInjective(ci'[r])
  /\ ToSet(ci'[r]) = ToSet(ci[r]) \cup {c}
  /\ ci' = [ci EXCEPT ![r] = Append(@, c)]
  /\ k[t] \in DOMAIN ri[i[t]] /\ k[t] \in 1 .. iSize /\ k[t] + 1 \in 1 .. iSize + 1
  /\ ril' = [ril EXCEPT ![k[t]] = @ \cup {c}]
  /\ col_locks' = [col_locks EXCEPT ![c] = FALSE]
  /\ cols'[t] \in Seq(Rows) /\ IsInjective(cols'[t])
  /\ ToSet(cols[t]) = {c} \cup ToSet(cols'[t]) /\ c \notin ToSet(cols'[t])
  /\ \/ cols'[t] = <<>> /\ pc'[t] = "Rows" /\ k'[t] = k[t] + 1
     \/ cols'[t] # <<>> /\ pc'[t] = "Lock" /\ k'[t] = k[t]

LEMMA FillFacts ==
  ASSUME FactorInv, caller # "Terminated", NEW t \in Threads, Fill(t)
  PROVE  \E c \in Rows, r \in Rows : Filled(t, c, r)
<1>1. /\ PoolInv /\ PoolTypes /\ MatrixTypes /\ ThreadTypes /\ ColumnsInv /\ BarrierInv
      /\ PivotInv /\ ListsInv /\ FillInv
  BY DEF FactorInv, PoolInv
<1>2. pc[t] = "Fill"
  BY DEF Fill
<1>3. Factoring /\ i[t] \in Rows /\ piv[i[t]] \in Rows
  BY <1>1, <1>2, SameColumn
<1> DEFINE q == cols[t]
           c == Head(q)
           r == RowInHand(t)
<1>4. q \in Seq(Rows) /\ q # <<>> /\ IsInjective(q)
  BY <1>1, <1>2, <1>3 DEF FillInv, Filling, ThreadTypes
<1>5. /\ c \in Rows /\ Tail(q) \in Seq(Rows)
      /\ Len(q) = 1 <=> Tail(q) = <<>>
      /\ ToSet(q) = {c} \cup ToSet(Tail(q))
      /\ IsInjective(Tail(q)) /\ c \notin ToSet(Tail(q))
  <2> HIDE DEF q
  <2> QED
    BY <1>4, TailOfList
<1>6. /\ k[t] \in DOMAIN ri[i[t]] /\ r \in todo /\ r % nThreads = t
      /\ \A d \in ToSet(q) : /\ d > i[t] /\ d \notin ToSet(ci[r])
                             /\ d \in ToSet(ci[piv[i[t]]])
  BY <1>1, <1>2, <1>3 DEF FillInv, Filling
<1>7. r \in Rows /\ k[t] \in 1 .. iSize /\ k[t] + 1 \in 1 .. iSize + 1
  BY <1>1, <1>3, <1>6, Places DEF RowInHand
<1>8. c > i[t] /\ c \notin ToSet(ci[r]) /\ c \in ToSet(ci[piv[i[t]]])
  BY <1>5, <1>6
<1>9. ci[r] \in Seq(Rows) /\ IsInjective(ci[r])
  BY <1>1, <1>7 DEF MatrixTypes, ListsInv
<1>10. /\ ci' = [ci EXCEPT ![r] = Append(@, c)]
       /\ ril' = [ril EXCEPT ![k[t]] = @ \cup {c}]
       /\ col_locks' = [col_locks EXCEPT ![c] = FALSE]
       /\ cols' = [cols EXCEPT ![t] = Tail(@)]
       /\ pc' = [pc EXCEPT ![t] = IF Len(cols[t]) = 1 THEN "Rows" ELSE "Lock"]
       /\ k' = [k EXCEPT ![t] = IF Len(cols[t]) = 1 THEN @ + 1 ELSE @]
  BY DEF Fill, RowInHand
<1>11. ci'[r] = Append(ci[r], c)
  BY <1>1, <1>7, <1>10 DEF MatrixTypes
<1>12. /\ ci'[r] \in Seq(Rows) /\ IsInjective(ci'[r])
       /\ ToSet(ci'[r]) = ToSet(ci[r]) \cup {c}
  <2> DEFINE v == ci[r]
  <2>1. v \in Seq(Rows) /\ IsInjective(v) /\ c \notin ToSet(v) /\ c \in Rows
    BY <1>5, <1>8, <1>9
  <2> HIDE DEF v, c
  <2>2. /\ Append(v, c) \in Seq(Rows) /\ IsInjective(Append(v, c))
        /\ ToSet(Append(v, c)) = ToSet(v) \cup {c}
    BY <2>1, AppendToList
  <2> QED
    BY <2>2, <1>11 DEF v
<1>13. cols'[t] = Tail(q)
  BY <1>1, <1>10 DEF ThreadTypes
<1>14. \/ cols'[t] = <<>> /\ pc'[t] = "Rows" /\ k'[t] = k[t] + 1
       \/ cols'[t] # <<>> /\ pc'[t] = "Lock" /\ k'[t] = k[t]
  <2>1. /\ pc'[t] = IF Len(cols[t]) = 1 THEN "Rows" ELSE "Lock"
        /\ k'[t] = IF Len(cols[t]) = 1 THEN k[t] + 1 ELSE k[t]
    BY <1>1, <1>10 DEF PoolTypes, ThreadTypes
  <2>2. Len(cols[t]) = 1 <=> cols'[t] = <<>>
    BY <1>5, <1>13
  <2> QED
    BY <2>1, <2>2
<1>15. /\ cols'[t] \in Seq(Rows) /\ IsInjective(cols'[t])
       /\ ToSet(cols[t]) = {c} \cup ToSet(cols'[t]) /\ c \notin ToSet(cols'[t])
  BY <1>5, <1>13
<1>16. c = Head(cols[t]) /\ r = RowInHand(t)
  OBVIOUS
<1>17. Filled(t, c, r)
  <2> HIDE DEF q, c, r
  <2> QED
    BY <1>6, <1>7, <1>8, <1>10, <1>12, <1>14, <1>15, <1>16 DEF Filled
<1> QED
  BY <1>5, <1>7, <1>17

(* What thread 0 adds to the lists by column is what was noted in ril.     *)
LEMMA MergeFacts ==
  ASSUME FactorInv, caller # "Terminated", Merge
  PROVE  /\ ri' \in [Rows -> Seq(Rows)] /\ ril' \in [1 .. iSize -> SUBSET Rows]
         /\ \A n \in 1 .. iSize : ril'[n] = {}
         /\ \A c \in Rows : /\ ToSet(ri'[c]) = ToSet(ri[c]) \cup {r \in Rows : IsNew(r, c)}
                            /\ IsInjective(ri'[c])
         /\ ri'[i[0]] = ri[i[0]]
<1>1. /\ PoolInv /\ PoolTypes /\ MatrixTypes /\ ThreadTypes /\ ColumnsInv /\ BarrierInv
      /\ PivotInv /\ ListsInv
  BY DEF FactorInv, PoolInv
<1>2. pc[0] = "Merge" /\ 0 \in Threads
  BY ThreadsFinite DEF Merge
<1>3. i[0] \in Rows
  BY <1>1, <1>2, BeforeMerge
<1> DEFINE q == ri[i[0]]
           P(c) == {m \in DOMAIN q : c \in ril[m]}
<1>4. q \in Seq(Rows) /\ IsInjective(q)
  BY <1>1, <1>3 DEF MatrixTypes, ListsInv
<1>5. /\ ri' = [c \in Rows |-> ri[c] \o Selection(q, P(c))]
      /\ ril' = [n \in DOMAIN ril |-> IF n <= Len(q) THEN {} ELSE ril[n]]
  BY DEF Merge, NewRows
<1>6. \A n \in 1 .. iSize : n <= Len(q) <=> n \in DOMAIN q
  <2>1. DOMAIN q = 1 .. Len(q) /\ Len(q) \in Nat
    BY <1>4
  <2> DEFINE N == Len(q)
  <2> HIDE DEF N, q
  <2> QED
    BY <2>1, NaiveAssumption DEF N
<1>7. \A n \in 1 .. iSize : n \notin DOMAIN q => ril[n] = {}
  BY <1>1 DEF ListsInv
<1>8. DOMAIN ril = 1 .. iSize
  BY <1>1 DEF MatrixTypes
<1>9. \A n \in 1 .. iSize : ril'[n] = {}
  BY <1>5, <1>6, <1>7, <1>8
<1>10. ril' \in [1 .. iSize -> SUBSET Rows]
  BY <1>5, <1>8, <1>9
<1>11. ASSUME NEW c \in Rows
       PROVE  /\ Selection(q, P(c)) \in Seq(Rows) /\ IsInjective(Selection(q, P(c)))
              /\ ToSet(Selection(q, P(c))) = {r \in Rows : IsNew(r, c)}
              /\ P(c) = {} => Selection(q, P(c)) = <<>>
  <2>1. P(c) \in SUBSET DOMAIN q
    OBVIOUS
  <2>2. {q[m] : m \in P(c)} = {r \in Rows : IsNew(r, c)}
    <3>1. \A m \in DOMAIN q : q[m] \in Rows
      BY <1>4
    <3>2. \A r : IsNew(r, c) <=> \E m \in DOMAIN q : q[m] = r /\ c \in ril[m]
      BY <1>2 DEF IsNew
    <3> QED
      BY <3>1, <3>2
  <2> HIDE DEF q, P
  <2>3. /\ Selection(q, P(c)) \in Seq(Rows) /\ IsInjective(Selection(q, P(c)))
        /\ ToSet(Selection(q, P(c))) = {q[m] : m \in P(c)}
        /\ P(c) = {} => Selection(q, P(c)) = <<>>
    BY <1>4, <2>1, SelectionProperties
  <2> QED
    BY <2>2, <2>3
<1>12. ASSUME NEW c \in Rows
       PROVE  /\ ri'[c] \in Seq(Rows) /\ IsInjective(ri'[c])
              /\ ToSet(ri'[c]) = ToSet(ri[c]) \cup {r \in Rows : IsNew(r, c)}
  <2> DEFINE v == ri[c]
             w == Selection(q, P(c))
  <2>1. ri'[c] = v \o w
    BY <1>5
  <2>2. v \in Seq(Rows) /\ IsInjective(v)
    BY <1>1 DEF MatrixTypes, ListsInv
  <2>3. ToSet(v) \cap {r \in Rows : IsNew(r, c)} = {}
    BY <1>1 DEF ListsInv
  <2>4. w \in Seq(Rows) /\ IsInjective(w) /\ ToSet(w) = {r \in Rows : IsNew(r, c)}
    BY <1>11
  <2> HIDE DEF v, w
  <2>5. /\ v \o w \in Seq(Rows) /\ IsInjective(v \o w)
        /\ ToSet(v \o w) = ToSet(v) \cup ToSet(w)
    BY <2>2, <2>3, <2>4, ConcatOfLists
  <2> QED
    BY <2>1, <2>4, <2>5 DEF v
<1>13. ri' \in [Rows -> Seq(Rows)]
  <2>1. DOMAIN ri' = Rows /\ ri' = [c \in Rows |-> ri'[c]]
    BY <1>5
  <2> QED
    BY <2>1, <1>12
<1>14. ri'[i[0]] = ri[i[0]]
  <2>1. \A r \in Rows : ~ IsNew(r, i[0])
    <3>1. ~ (i[0] > i[0])
      BY <1>3, RowsOrder
    <3> QED
      BY <3>1, <1>1, <1>3 DEF ListsInv
  <2>2. P(i[0]) = {}
    BY <2>1, <1>2, <1>4 DEF IsNew
  <2>3. ri'[i[0]] = ri[i[0]] \o <<>>
    BY <1>3, <1>5, <1>11, <2>2
  <2> QED
    BY <2>3, <1>4
<1> QED
  BY <1>9, <1>10, <1>12, <1>13, <1>14

-----------------------------------------------------------------------------
\* Types.

(* The steps of the threads and those of the caller that only wait leave   *)
(* the manager alone; the others keep its types.                           *)
LEMMA CallTypesNext ==
  ASSUME FactorInv, [Next]_vars
  PROVE  CallTypes'
<1>1. PoolInv /\ ThreadTypes /\ CallTypes
  BY DEF FactorInv
<1>2. ASSUME UNCHANGED calls PROVE CallTypes'
  BY <1>1, <1>2 DEF CallTypes, calls
<1>3. CASE UNCHANGED vars
  BY <1>2, <1>3 DEF vars
<1>4. CASE caller # "Terminated" /\ QuietStep
  <2>1. CASE CollectSolve
    <3>1. Written \in {"wrong", "permuted", "solution"} /\ BackPerm \in {"wrong", "solution"}
      BY DEF Written, BackPerm
    <3> QED
      BY <1>1, <2>1, <3>1 DEF CollectSolve, CallTypes
  <2>2. CASE ~ CollectSolve
    BY <1>2, <1>4, <2>2 DEF QuietStep, Release, Wait, WakeUp, Use, Join, Destroy, NoPivot,
       EndOfOp
  <2> QED
    BY <2>1, <2>2
<1>5. CASE Assemble
  <2>1. VH' = "residual" /\ XH' \in {"none", "old", "solution", "permuted", "wrong"}
    BY <1>1, <1>5 DEF Assemble, Residual, CallTypes
  <2>2. /\ bHasBeenReset' \in BOOLEAN /\ permuted' \in BOOLEAN
        /\ ePermState' \in {"PERM_NO", "PERM_INTERMEDIATE", "PERM_READY"}
        /\ pdSol' \in {"VH", "XH"}
    <3>1. CASE MatrReset /\ Jacobian
      BY <1>1, <3>1 DEF MatrReset, Jacobian, CallTypes
    <3>2. CASE UNCHANGED <<bHasBeenReset, ePermState, pdSol, ci, ri, applied, permuted>>
      BY <1>1, <3>2 DEF CallTypes
    <3> QED
      BY <1>5, <3>1, <3>2 DEF Assemble
  <2>3. manager' = manager
    BY <1>5 DEF Assemble
  <2> QED
    BY <1>1, <2>1, <2>2, <2>3 DEF CallTypes
<1>6. CASE Solve
  BY <1>1, <1>6 DEF Solve, CallTypes
<1>7. CASE CollectFactor
  BY <1>1, <1>7 DEF CollectFactor, CallTypes
<1>8. ASSUME NEW t \in Threads, caller # "Terminated", Start(t) PROVE CallTypes'
  BY <1>1, <1>2, <1>8, StartFrame
<1>9. ASSUME NEW t \in Threads, caller # "Terminated", pnaivslv(t) PROVE CallTypes'
  BY <1>1, <1>2, <1>9, SolveFrame
<1>10. ASSUME NEW t \in Threads, caller # "Terminated", pnaivfct(t), caller' # "Terminated"
       PROVE  CallTypes'
  BY <1>1, <1>2, <1>10, FactorFrame
<1> QED
  BY <1>1, <1>3, <1>4, <1>5, <1>6, <1>7, <1>8, <1>9, <1>10, StepCases

(* The lists stay lists of rows and columns, and what is written is at a   *)
(* row.                                                                    *)
LEMMA MatrixTypesNext ==
  ASSUME FactorInv, [Next]_vars
  PROVE  MatrixTypes'
<1>1. /\ PoolInv /\ PoolTypes /\ MatrixTypes /\ ThreadTypes /\ ColumnsInv /\ BarrierInv
      /\ PivotInv /\ ListsInv
  BY DEF FactorInv, PoolInv
<1>2. CASE (caller # "Terminated" /\ QuietStep) \/ UNCHANGED vars
  BY <1>1, <1>2, QuietFrame DEF MatrixTypes
<1>3. CASE Assemble
  <2>1. UNCHANGED <<ril, piv, todo, row_locks, col_locks, fwd, sol, pvr>>
    BY <1>3 DEF Assemble, vectors, locals
  <2>2. ci' \in [Rows -> Seq(Rows)] /\ ri' \in [Rows -> Seq(Rows)]
        /\ applied' \in [Rows -> Seq(Rows)]
    <3>1. CASE Jacobian
      <4>1. <<>> \in Seq(Rows)
        OBVIOUS
      <4> QED
        BY <3>1, <4>1, JacobianLists
    <3>2. CASE UNCHANGED <<ci, ri, applied>>
      BY <1>1, <3>2 DEF MatrixTypes
    <3> QED
      BY <1>3, <3>1, <3>2 DEF Assemble
  <2> QED
    BY <1>1, <2>1, <2>2 DEF MatrixTypes
<1>4. CASE Solve \/ CollectFactor
  <2>1. UNCHANGED <<ci, ri, ril, col_locks, applied, pvr>>
    BY <1>4 DEF Solve, CollectFactor, lists, locals
  <2>2. Factor \/ Substitute
    BY <1>4 DEF Solve, CollectFactor
  <2> QED
    BY <1>1, <2>1, <2>2 DEF Factor, Substitute, vectors, MatrixTypes
<1>5. ASSUME NEW t \in Threads, caller # "Terminated", Start(t) PROVE MatrixTypes'
  BY <1>1, <1>5, StartFrame DEF MatrixTypes
<1>6. ASSUME NEW t \in Threads, caller # "Terminated", pnaivslv(t) PROVE MatrixTypes'
  <2>1. UNCHANGED <<ci, ri, ril, piv, todo, col_locks, applied, pvr>>
    BY <1>1, <1>6, SolveFrame
  <2>2. ASSUME NEW j \in Rows, NEW v \in SUBSET Rows, NEW right
        PROVE  Store(v, j, right) \in SUBSET Rows
    BY DEF Store
  <2>3. 0 \in Rows /\ iSize - 1 \in Rows /\ Rows \subseteq 0 .. iSize /\ iSize \in 0 .. iSize
    BY NaiveAssumption DEF Rows
  <2>4. fwd \in SUBSET Rows /\ sol \in SUBSET Rows /\ row_locks \in [0 .. iSize -> Nat]
    BY <1>1 DEF MatrixTypes
  <2>5. fwd' \in SUBSET Rows /\ sol' \in SUBSET Rows /\ row_locks' \in [0 .. iSize -> Nat]
    <3>1. CASE FirstRow(t)
      <4>1. CASE t = 0
        <5>1. /\ fwd' = Store(fwd, 0, RhsIsThere) /\ sol' = sol
              /\ row_locks' = [row_locks EXCEPT ![0] = 1]
          BY <3>1, <4>1 DEF FirstRow
        <5>2. fwd' \in SUBSET Rows
          BY <2>2, <2>3, <2>4, <5>1
        <5> QED
          BY <2>3, <2>4, <5>1, <5>2
      <4>2. CASE t # 0
        BY <2>4, <3>1, <4>2 DEF FirstRow
      <4> QED
        BY <4>1, <4>2
    <3>2. CASE SubtractForward(t) \/ SubtractBackward(t)
      BY <2>4, <3>2 DEF SubtractForward, SubtractBackward, vectors
    <3>3. CASE StoreForward(t)
      <4>1. i[t] \in Rows
        BY <1>1, <3>3 DEF StoreForward, ColumnsInv
      <4> QED
        BY <2>2, <2>3, <2>4, <3>3, <4>1 DEF StoreForward
    <3>4. CASE ArriveAtEnd(t)
      BY <2>3, <2>4, <3>4 DEF ArriveAtEnd, vectors
    <3>5. CASE TurnBack(t)
      <4>1. CASE t = 0
        <5>1. /\ sol' = Store(sol, iSize - 1, iSize - 1 \in fwd) /\ fwd' = fwd
              /\ row_locks' = [row_locks EXCEPT ![iSize - 1] = 0]
          BY <3>5, <4>1 DEF TurnBack
        <5>2. sol' \in SUBSET Rows
          BY <2>2, <2>3, <2>4, <5>1
        <5> QED
          BY <2>3, <2>4, <5>1, <5>2
      <4>2. CASE t # 0
        BY <2>4, <3>5, <4>2 DEF TurnBack
      <4> QED
        BY <4>1, <4>2
    <3>6. CASE StoreBackward(t)
      <4>1. i[t] \in Rows
        BY <1>1, <3>6 DEF StoreBackward, ColumnsInv
      <4> QED
        BY <2>2, <2>3, <2>4, <3>6, <4>1 DEF StoreBackward
    <3> QED
      BY <1>6, <3>1, <3>2, <3>3, <3>4, <3>5, <3>6 DEF pnaivslv
  <2> QED
    BY <1>1, <2>1, <2>5 DEF MatrixTypes
<1>7. ASSUME NEW t \in Threads, caller # "Terminated", pnaivfct(t), caller' # "Terminated"
      PROVE  MatrixTypes'
  <2>1. fwd' = fwd /\ sol' = sol
    BY <1>1, <1>7, FactorFrame
  <2>2. i[t] \in Rows
    BY <1>1, <1>7, FactorFrame, FactorMoves DEF ColumnsInv
  <2>3. CASE t = 0 /\ ChoosePivot
    BY <1>1, <2>1, <2>3 DEF ChoosePivot, lists, MatrixTypes
  <2>4. CASE t = 0 /\ PublishPivot
    BY <1>1, <2>1, <2>2, <2>4 DEF PublishPivot, lists, MatrixTypes
  <2>5. CASE t = 0 /\ Merge
    BY <1>1, <1>7, <2>1, <2>5, MergeFacts DEF Merge, MatrixTypes
  <2>6. CASE AwaitPivot(t) \/ LeaveColumn(t)
    BY <1>1, <2>1, <2>6 DEF AwaitPivot, LeaveColumn, lists, MatrixTypes
  <2>7. CASE EliminateRow(t)
    <3>1. PICK r \in Rows : applied' = [applied EXCEPT ![r] = Append(@, i[t])]
      BY <1>7, <2>7, EliminateRowFacts DEF Subtracted
    <3>2. Append(applied[r], i[t]) \in Seq(Rows)
      BY <1>1, <2>2 DEF MatrixTypes
    <3>3. applied' \in [Rows -> Seq(Rows)]
      BY <1>1, <3>1, <3>2 DEF MatrixTypes
    <3>4. UNCHANGED <<ci, ri, ril, piv, todo, row_locks, col_locks, pvr>>
      BY <2>7 DEF EliminateRow, lists
    <3> QED
      BY <1>1, <2>1, <3>3, <3>4 DEF MatrixTypes
  <2>8. CASE TestAndSet(t)
    BY <1>1, <2>1, <2>8 DEF TestAndSet, lists, locals, MatrixTypes
  <2>9. CASE Fill(t)
    <3>0. PICK c \in Rows, r \in Rows : Filled(t, c, r)
      BY <1>7, <2>9, FillFacts
    <3>1. /\ ci' = [ci EXCEPT ![r] = Append(@, c)] /\ ci'[r] \in Seq(Rows)
          /\ ril' = [ril EXCEPT ![k[t]] = @ \cup {c}]
          /\ col_locks' = [col_locks EXCEPT ![c] = FALSE]
      BY <3>0 DEF Filled
    <3>2. /\ ci' \in [Rows -> Seq(Rows)] /\ ril' \in [1 .. iSize -> SUBSET Rows]
          /\ col_locks' \in [Rows -> BOOLEAN]
      BY <1>1, <3>1 DEF MatrixTypes
    <3>3. UNCHANGED <<ri, piv, todo, row_locks, applied, pvr>>
      BY <2>9 DEF Fill
    <3> QED
      BY <1>1, <2>1, <3>2, <3>3 DEF MatrixTypes
  <2>10. CASE ArriveAtColumn(t)
    <3>1. row_locks' \in [0 .. iSize -> Nat]
      <4>1. i[t] \in 0 .. iSize
        BY <1>1 DEF ThreadTypes
      <4>2. row_locks \in [0 .. iSize -> Nat]
        BY <1>1 DEF MatrixTypes
      <4>3. row_locks[i[t]] + 1 \in Nat
        BY <4>1, <4>2
      <4> QED
        BY <2>10, <4>2, <4>3 DEF ArriveAtColumn
    <3>2. UNCHANGED <<ci, ri, ril, piv, todo, col_locks, applied, pvr>>
      BY <2>10 DEF ArriveAtColumn, lists, locals
    <3> QED
      BY <1>1, <2>1, <3>1, <3>2 DEF MatrixTypes
  <2> QED
    BY <1>7, <2>3, <2>4, <2>5, <2>6, <2>7, <2>8, <2>9, <2>10, FactorCases
<1> QED
  BY <1>1, <1>3, <1>2, <1>4, <1>5, <1>6, <1>7, StepCases

(* The columns of a row that are at one side of a column.                  *)
LEMMA SelectedColumns ==
  ASSUME MatrixTypes, FactoredInv, ~ bHasBeenReset, NEW n \in Rows, NEW P,
         P \in SUBSET DOMAIN ci[piv[n]]
  PROVE  Selection(ci[piv[n]], P) \in Seq(Rows)
<1>1. ci[piv[n]] \in Seq(Rows)
  BY DEF MatrixTypes, FactoredInv
<1> DEFINE q == ci[piv[n]]
<1> HIDE DEF q
<1>2. Selection(q, P) \in Seq(Rows)
  BY <1>1, SelectionProperties DEF q
<1> QED
  BY <1>2 DEF q

(* The counters of a thread stay in range.                                 *)
LEMMA ThreadTypesNext ==
  ASSUME FactorInv, [Next]_vars
  PROVE  ThreadTypes'
<1>1. /\ PoolInv /\ PoolTypes /\ MatrixTypes /\ ThreadTypes /\ ColumnsInv /\ BarrierInv
      /\ PivotInv /\ ListsInv /\ FactoredInv
  BY DEF FactorInv, PoolInv
<1>2. CASE (caller # "Terminated" /\ QuietStep) \/ UNCHANGED vars
  BY <1>1, <1>2, QuietFrame DEF ThreadTypes
<1>3. CASE Assemble \/ Solve \/ CollectFactor
  BY <1>1, <1>3 DEF Assemble, Solve, CollectFactor, locals, ThreadTypes
<1>4. ASSUME NEW t \in Threads, caller # "Terminated", Start(t) PROVE ThreadTypes'
  <2>1. i' = [i EXCEPT ![t] = 0] /\ UNCHANGED <<k, cols, s>> /\ 0 \in 0 .. iSize
    BY <1>4, NaiveAssumption DEF Start
  <2> QED
    BY <1>1, <2>1 DEF ThreadTypes
<1>5. ASSUME NEW t \in Threads, caller # "Terminated", pnaivslv(t) PROVE ThreadTypes'
  <2>1. k' = k /\ ~ bHasBeenReset
    BY <1>1, <1>5, SolveFrame DEF FactoredInv
  <2>2. ASSUME NEW j \in Nat, EnterForward(t, j) PROVE ThreadTypes'
    <3>1. CASE UNCHANGED <<i, cols, s>>
      BY <1>1, <2>1, <3>1 DEF ThreadTypes
    <3>2. ASSUME NEW n \in Rows, i' = [i EXCEPT ![t] = n], s' = [s EXCEPT ![t] = RhsIsThere],
                 cols' = [cols EXCEPT ![t] =
                   Selection(ci[piv[n]], {m \in DOMAIN ci[piv[n]] : ci[piv[n]][m] < n})]
          PROVE  ThreadTypes'
      <4>1. Selection(ci[piv[n]], {m \in DOMAIN ci[piv[n]] : ci[piv[n]][m] < n}) \in Seq(Rows)
        BY <1>1, <2>1, SelectedColumns
      <4>2. RhsIsThere \in BOOLEAN /\ n \in 0 .. iSize
        BY RowsFacts DEF RhsIsThere
      <4> QED
        BY <1>1, <2>1, <3>2, <4>1, <4>2 DEF ThreadTypes
    <3> QED
      BY <1>1, <2>2, <3>1, <3>2, ForwardRows
  <2>3. ASSUME NEW j \in Int, j < iSize, EnterBackward(t, j) PROVE ThreadTypes'
    <3>1. CASE UNCHANGED <<i, cols, s>>
      BY <1>1, <2>1, <3>1 DEF ThreadTypes
    <3>2. ASSUME NEW n \in Rows, i' = [i EXCEPT ![t] = n], s' = [s EXCEPT ![t] = n \in fwd],
                 cols' = [cols EXCEPT ![t] =
                   Selection(ci[piv[n]], {m \in DOMAIN ci[piv[n]] : ci[piv[n]][m] > n})]
          PROVE  ThreadTypes'
      <4>1. Selection(ci[piv[n]], {m \in DOMAIN ci[piv[n]] : ci[piv[n]][m] > n}) \in Seq(Rows)
        BY <1>1, <2>1, SelectedColumns
      <4>2. (n \in fwd) \in BOOLEAN /\ n \in 0 .. iSize
        BY RowsFacts
      <4> QED
        BY <1>1, <2>1, <3>2, <4>1, <4>2 DEF ThreadTypes
    <3> QED
      BY <1>1, <2>3, <3>1, <3>2, BackwardRows
  <2>4. CASE FirstRow(t)
    BY <2>2, <2>4 DEF FirstRow
  <2>5. CASE SubtractForward(t) \/ SubtractBackward(t)
    <3>1. /\ cols' = [cols EXCEPT ![t] = Tail(@)] /\ cols[t] # <<>> /\ i' = i
          /\ \E b \in BOOLEAN : s' = [s EXCEPT ![t] = b]
      BY <2>5 DEF SubtractForward, SubtractBackward
    <3>2. Tail(cols[t]) \in Seq(Rows)
      BY <1>1, <3>1 DEF ThreadTypes
    <3> QED
      BY <1>1, <2>1, <3>1, <3>2 DEF ThreadTypes
  <2>6. CASE StoreForward(t)
    <3>1. i[t] + 1 \in Nat
      BY <1>1, <2>6, RowsOrder DEF StoreForward, ColumnsInv
    <3> QED
      BY <2>2, <2>6, <3>1 DEF StoreForward
  <2>7. CASE ArriveAtEnd(t)
    BY <1>1, <2>7 DEF ArriveAtEnd, locals, ThreadTypes
  <2>8. CASE TurnBack(t)
    <3>1. iSize - 2 \in Int /\ iSize - 2 < iSize
      BY NaiveAssumption
    <3> QED
      BY <2>3, <2>8, <3>1 DEF TurnBack
  <2>9. CASE StoreBackward(t)
    <3>1. i[t] \in Rows
      BY <1>1, <2>9 DEF StoreBackward, ColumnsInv
    <3>2. i[t] - 1 \in Int /\ i[t] - 1 < iSize
      BY <3>1, NaiveAssumption DEF Rows
    <3> QED
      BY <2>3, <2>9, <3>2 DEF StoreBackward
  <2> QED
    BY <1>5, <2>4, <2>5, <2>6, <2>7, <2>8, <2>9 DEF pnaivslv
<1>6. ASSUME NEW t \in Threads, caller # "Terminated", pnaivfct(t), caller' # "Terminated"
      PROVE  ThreadTypes'
  <2>1. s' = s /\ i[t] \in Rows
    BY <1>1, <1>6, FactorFrame, FactorMoves DEF ColumnsInv
  <2>2. i[t] + 1 \in 0 .. iSize /\ 1 \in 1 .. iSize + 1
    BY <2>1, NaiveAssumption DEF Rows
  <2>3. CASE t = 0 /\ (ChoosePivot \/ PublishPivot)
    BY <1>1, <2>1, <2>2, <2>3 DEF ChoosePivot, PublishPivot, ThreadTypes
  <2>4. CASE t = 0 /\ Merge
    BY <1>1, <2>1, <2>2, <2>4 DEF Merge, NextColumn, ThreadTypes
  <2>5. CASE AwaitPivot(t) \/ LeaveColumn(t)
    BY <1>1, <2>1, <2>2, <2>5 DEF AwaitPivot, LeaveColumn, NextColumn, ThreadTypes
  <2>6. CASE EliminateRow(t)
    <3>1. PICK n \in Nat, new \in Seq(Rows) :
            /\ n \in 1 .. iSize + 1 /\ n + 1 \in 1 .. iSize + 1
            /\ cols' = [cols EXCEPT ![t] = new]
            /\ k' = [k EXCEPT ![t] = IF new = <<>> THEN n + 1 ELSE n]
      <4>1. \A n \in 1 .. iSize : n \in Nat /\ n \in 1 .. iSize + 1
        BY NaiveAssumption
      <4> QED
        BY <1>6, <2>6, <4>1, EliminateRowFacts DEF Subtracted
    <3>2. i' = i
      BY <2>6 DEF EliminateRow
    <3> QED
      BY <1>1, <2>1, <3>1, <3>2 DEF ThreadTypes
  <2>7. CASE TestAndSet(t) \/ ArriveAtColumn(t)
    BY <1>1, <2>1, <2>7 DEF TestAndSet, ArriveAtColumn, locals, ThreadTypes
  <2>8. CASE Fill(t)
    <3>1. cols'[t] \in Seq(Rows) /\ k[t] + 1 \in 1 .. iSize + 1
      BY <1>6, <2>8, FillFacts DEF Filled
    <3>2. /\ i' = i /\ cols' = [cols EXCEPT ![t] = Tail(@)]
          /\ k' = [k EXCEPT ![t] = IF Len(cols[t]) = 1 THEN @ + 1 ELSE @]
      BY <2>8 DEF Fill
    <3>3. cols' \in [Threads -> Seq(Rows)]
      BY <1>1, <3>1, <3>2 DEF ThreadTypes
    <3>4. k' \in [Threads -> 1 .. iSize + 1]
      <4> DEFINE one == Len(cols[t]) = 1
      <4> HIDE DEF one
      <4>1. k' = [k EXCEPT ![t] = IF one THEN @ + 1 ELSE @]
        BY <3>2 DEF one
      <4> QED
        BY <1>1, <3>1, <4>1 DEF ThreadTypes
    <3> QED
      BY <1>1, <2>1, <3>2, <3>3, <3>4 DEF ThreadTypes
  <2> QED
    BY <1>6, <2>3, <2>4, <2>5, <2>6, <2>7, <2>8, FactorCases
<1> QED
  BY <1>1, <1>2, <1>3, <1>4, <1>5, <1>6, StepCases

-----------------------------------------------------------------------------
\* Pivots.

(* A step with which nobody enters the rows of a column keeps PivotInv, if *)
(* it leaves the pivots alone.                                             *)
LEMMA PivotKept ==
  ASSUME PivotInv, Factoring' => Factoring,
         Factoring' => /\ UNCHANGED <<piv, todo, pvr>>
                       /\ pc'[0] = "Publish" <=> pc[0] = "Publish"
                       /\ \A t \in Threads, c \in Rows : Entered(t, c)' <=> Entered(t, c)
  PROVE  PivotInv'
BY ThreadsFinite DEF PivotInv

(* Every step preserves PivotInv.                                          *)
LEMMA PivotNext ==
  ASSUME FactorInv, [Next]_vars
  PROVE  PivotInv'
<1>1. /\ PoolInv /\ PoolTypes /\ MatrixTypes /\ ThreadTypes /\ ColumnsInv /\ BarrierInv
      /\ PivotInv
  BY DEF FactorInv, PoolInv
<1>2. CASE (caller # "Terminated" /\ QuietStep) \/ UNCHANGED vars
  <2>1. /\ UNCHANGED <<i, piv, todo, pvr>>
        /\ Factoring' => Factoring /\ \A t \in Threads : Begun(t)' <=> Begun(t)
        /\ \A t \in Threads :
              \/ pc'[t] = pc[t]
              \/ pc[t] \in {"EndOfOp", "Exit"} /\ pc'[t] \in {"Acquire", "Gone"}
    BY <1>1, <1>2, QuietFrame
  <2>2. \A t \in Threads : /\ pc'[t] \in InColumn <=> pc[t] \in InColumn
                           /\ pc'[t] = "Publish" <=> pc[t] = "Publish"
    BY <2>1 DEF InColumn
  <2>3. Factoring' => \A t \in Threads, c \in Rows : Entered(t, c)' <=> Entered(t, c)
    BY <2>1, <2>2 DEF Entered
  <2> QED
    BY <2>1, <2>2, <2>3, <1>1, PivotKept, ThreadsFinite
<1>3. CASE Assemble \/ Solve \/ CollectFactor
  <2>1. CASE Assemble
    BY <1>1, <2>1 DEF Assemble, Factoring, PoolInv, PlacesOfOp, pool, PivotInv
  <2>2. CASE CollectFactor
    BY <2>2 DEF CollectFactor, Substitute, Dispatch, Factoring, PivotInv
  <2>3. CASE Solve
    <3>1. CASE Substitute
      BY <3>1 DEF Substitute, Dispatch, Factoring, PivotInv
    <3>2. CASE Factor
      <4>1. \A t \in Threads, c \in Rows : ~ Entered(t, c)'
        BY <3>2, DispatchFrame DEF Factor, Entered
      <4>2. \A c \in Rows : piv'[c] = -1 /\ -1 \notin Rows
        BY <3>2 DEF Factor, Rows
      <4>3. todo' = Rows
        BY <3>2 DEF Factor
      <4>4. pc'[0] # "Publish"
        <5>1. pc' = pc /\ Pending = {}
          BY <1>1, <2>3 DEF Solve, PoolInv, Waiting
        <5> QED
          BY <5>1, ThreadsFinite DEF Pending
      <4> QED
        BY <4>1, <4>2, <4>3, <4>4, ThreadsFinite DEF PivotInv
    <3> QED
      BY <2>3, <3>1, <3>2 DEF Solve
  <2> QED
    BY <1>3, <2>1, <2>2, <2>3
<1>4. ASSUME NEW t \in Threads, caller # "Terminated", Start(t) PROVE PivotInv'
  <2>1. /\ ~ Begun(t) /\ i'[t] = 0 /\ pc'[t] \in {"Pivot", "First", "Exit"} /\ pc[t] = "Acquire"
        /\ \A u \in Threads : u # t => pc'[u] = pc[u] /\ i'[u] = i[u] /\ (Begun(u)' <=> Begun(u))
        /\ UNCHANGED <<op, caller, piv, todo, pvr>>
    BY <1>1, <1>4, StartFrame
  <2>2. \A c \in Rows : ~ (0 > c)
    BY RowsOrder, RowsFacts
  <2>3. \A c \in Rows : ~ Entered(t, c) /\ ~ Entered(t, c)'
    BY <2>1, <2>2 DEF Entered, InColumn
  <2>4. \A u \in Threads, c \in Rows : u # t => (Entered(u, c)' <=> Entered(u, c))
    BY <2>1 DEF Entered
  <2>5. Factoring' => Factoring
    BY <2>1 DEF Factoring
  <2>6. pc'[0] = "Publish" <=> pc[0] = "Publish"
    BY <2>1, ThreadsFinite
  <2>7. \A u \in Threads, c \in Rows : Entered(u, c)' <=> Entered(u, c)
    BY <2>3, <2>4
  <2> QED
    BY <2>1, <2>5, <2>6, <2>7, <1>1, PivotKept
<1>5. ASSUME NEW t \in Threads, caller # "Terminated", pnaivslv(t) PROVE PivotInv'
  BY <1>1, <1>5, SolveFrame DEF Factoring, PivotInv
<1>6. ASSUME NEW t \in Threads, caller # "Terminated", pnaivfct(t), caller' # "Terminated"
      PROVE  PivotInv'
  <2>1. /\ Factoring /\ Factoring' /\ Begun(t) /\ Begun(t)'
        /\ \A u \in Threads : Begun(u)' <=> Begun(u)
        /\ \A u \in Threads : u # t => pc'[u] = pc[u] /\ i'[u] = i[u]
    BY <1>1, <1>6, FactorFrame
  <2>2. i[t] \in Rows /\ pc[t] \in FactorPlaces /\ 0 \in Threads
    BY <1>1, <1>6, <2>1, FactorMoves, ThreadsFinite DEF ColumnsInv
  <2>3. \A u \in Threads, c \in Rows : u # t => (Entered(u, c)' <=> Entered(u, c))
    BY <2>1 DEF Entered
  <2>4. ASSUME UNCHANGED <<piv, todo, pvr>>, \A c \in Rows : Entered(t, c)' <=> Entered(t, c),
               pc[t] # "Publish", pc'[t] # "Publish"
        PROVE  PivotInv'
    <3>1. pc'[0] = "Publish" <=> pc[0] = "Publish"
      BY <2>1, <2>2, <2>4
    <3>2. \A u \in Threads, c \in Rows : Entered(u, c)' <=> Entered(u, c)
      BY <2>3, <2>4
    <3> QED
      BY <2>1, <2>4, <3>1, <3>2, <1>1, PivotKept
  <2>5. CASE EliminateRow(t) \/ TestAndSet(t) \/ Fill(t) \/ ArriveAtColumn(t)
    <3>1. UNCHANGED <<piv, todo, pvr, i>>
      BY <2>5 DEF EliminateRow, TestAndSet, Fill, ArriveAtColumn, locals
    <3>2. pc[t] \in InColumn /\ pc'[t] \in InColumn
      BY <1>1, <2>5 DEF EliminateRow, TestAndSet, Fill, ArriveAtColumn, PoolTypes, InColumn
    <3>3. \A c \in Rows : Entered(t, c)' <=> Entered(t, c)
      BY <2>1, <3>1, <3>2 DEF Entered
    <3> QED
      BY <2>4, <3>1, <3>2, <3>3 DEF InColumn
  <2>6. CASE LeaveColumn(t) \/ (t = 0 /\ Merge)
    <3>1. UNCHANGED <<piv, todo, pvr>>
      BY <2>6 DEF LeaveColumn, Merge
    <3>2. /\ pc[t] \in InColumn
          /\ \/ pc'[t] \in InColumn /\ i'[t] = i[t]
             \/ pc'[t] \in {"Pivot", "EndOfOp"} /\ i'[t] = i[t] + 1
      BY <1>1, <2>6 DEF LeaveColumn, Merge, NextColumn, PoolTypes, ThreadTypes, InColumn
    <3>3. \A c \in Rows : i[t] + 1 > c <=> (i[t] > c \/ i[t] = c)
      BY <2>2 DEF Rows
    <3>4. \A c \in Rows : Entered(t, c)' <=> Entered(t, c)
      <4>1. CASE pc'[t] \in InColumn /\ i'[t] = i[t]
        BY <2>1, <3>2, <4>1 DEF Entered
      <4>2. CASE pc'[t] \in {"Pivot", "EndOfOp"} /\ i'[t] = i[t] + 1
        BY <2>1, <3>2, <3>3, <4>2 DEF Entered, InColumn
      <4> QED
        BY <3>2, <4>1, <4>2
    <3> QED
      BY <2>4, <3>1, <3>2, <3>4 DEF InColumn
  <2>7. CASE t = 0 /\ ChoosePivot
    <3>1. PICK r \in todo : pvr' = r /\ todo' = todo \ {r}
      BY <2>7 DEF ChoosePivot
    <3>2. pc[0] = "Pivot" /\ pc'[0] = "Publish" /\ i' = i /\ piv' = piv
      BY <1>1, <2>2, <2>7 DEF ChoosePivot, PoolTypes
    <3>3. \A u \in Threads, c \in Rows : Entered(u, c)' <=> Entered(u, c)
      <4>1. \A c \in Rows : Entered(0, c)' <=> Entered(0, c)
        BY <2>1, <2>2, <3>2 DEF Entered, InColumn
      <4> QED
        BY <2>3, <2>7, <4>1
    <3>4. r \in Rows /\ \A q \in Rows : q \in todo <=> (\A c \in Rows : piv[c] # q)
      BY <1>1, <2>1, <3>2 DEF PivotInv, MatrixTypes
    <3>5. /\ \A c \in Rows : piv[c] \in Rows <=> Entered(0, c)
          /\ \A u \in Threads, c \in Rows : Entered(u, c) => piv[c] \in Rows
          /\ \A c, d \in Rows : piv[c] = piv[d] /\ piv[c] \in Rows => c = d
      BY <1>1, <2>1 DEF PivotInv
    <3> QED
      BY <2>2, <3>1, <3>2, <3>3, <3>4, <3>5 DEF PivotInv
  <2>8. CASE t = 0 /\ PublishPivot
    <3> DEFINE j == i[0]
    <3>1. pc[0] = "Publish" /\ pc'[0] = "Rows" /\ UNCHANGED <<i, todo, pvr>> /\ pvr \in Rows
      BY <1>1, <2>2, <2>8 DEF PublishPivot, PoolTypes, MatrixTypes
    <3>2. /\ j \in Rows /\ piv[j] \notin Rows
          /\ \A u \in Threads : ~ Entered(u, j)
      BY <1>1, <1>6, <2>2, <3>1, BeforePivot, RowsOrder
    <3>3. piv'[j] = pvr /\ \A c \in Rows : c # j => piv'[c] = piv[c]
      BY <1>1, <2>2, <2>8 DEF PublishPivot, MatrixTypes
    <3>4. \A c \in Rows : Entered(0, c)' <=> Entered(0, c) \/ c = j
      BY <2>1, <2>2, <3>1 DEF Entered, InColumn
    <3>5. /\ \A c \in Rows : piv[c] \in Rows <=> Entered(0, c)
          /\ \A u \in Threads, c \in Rows : Entered(u, c) => piv[c] \in Rows
          /\ \A c, d \in Rows : piv[c] = piv[d] /\ piv[c] \in Rows => c = d
          /\ \A r \in Rows : r \in todo <=> (\A c \in Rows : piv[c] # r) /\ pvr # r
          /\ \A c \in Rows : piv[c] # pvr
      BY <1>1, <2>1, <3>1 DEF PivotInv
    <3> HIDE DEF j
    <3>6. \A c \in Rows : piv'[c] \in Rows <=> Entered(0, c)'
      BY <3>1, <3>2, <3>3, <3>4, <3>5
    <3>7. \A u \in Threads, c \in Rows : Entered(u, c)' => piv'[c] \in Rows
      BY <2>3, <2>8, <3>1, <3>3, <3>4, <3>5
    <3>8. \A c, d \in Rows : piv'[c] = piv'[d] /\ piv'[c] \in Rows => c = d
      BY <3>3, <3>5
    <3>9. \A r \in Rows : r \in todo' <=> (\A c \in Rows : piv'[c] # r)
      BY <3>1, <3>2, <3>3, <3>5
    <3> QED
      BY <3>1, <3>6, <3>7, <3>8, <3>9 DEF PivotInv
  <2>9. CASE AwaitPivot(t)
    <3>1. /\ pc[t] = "Pivot" /\ pc'[t] = "Rows" /\ UNCHANGED <<i, piv, todo, pvr>>
          /\ t # 0 /\ piv[i[t]] >= 0
      BY <1>1, <2>9 DEF AwaitPivot, PoolTypes, lists
    <3>2. piv[i[t]] \in Rows
      BY <1>1, <2>2, <3>1 DEF MatrixTypes
    <3>3. \A c \in Rows : Entered(t, c)' => Entered(t, c) \/ c = i[t]
      BY <2>1, <3>1 DEF Entered, InColumn
    <3>4. pc'[0] = pc[0] /\ \A c \in Rows : Entered(0, c)' <=> Entered(0, c)
      BY <2>1, <2>2, <2>3, <3>1
    <3>5. /\ \A c \in Rows : piv[c] \in Rows <=> Entered(0, c)
          /\ \A u \in Threads, c \in Rows : Entered(u, c) => piv[c] \in Rows
      BY <1>1, <2>1 DEF PivotInv
    <3>6. \A u \in Threads, c \in Rows : Entered(u, c)' => piv[c] \in Rows
      BY <2>3, <3>2, <3>3, <3>5
    <3> QED
      BY <1>1, <2>1, <3>1, <3>4, <3>5, <3>6 DEF PivotInv
  <2> QED
    BY <1>6, <2>5, <2>6, <2>7, <2>8, <2>9, FactorCases
<1> QED
  BY <1>1, <1>2, <1>3, <1>4, <1>5, <1>6, StepCases

-----------------------------------------------------------------------------
\* New entries.

(* The row in hand of a thread is not touched as long as the others leave  *)
(* it and the pivot row alone.                                             *)
LEMMA FillingKept ==
  ASSUME NEW u \in Threads, Filling(u),
         i'[u] = i[u], k'[u] = k[u], cols'[u] = cols[u], UNCHANGED <<ri, todo, piv>>,
         ci'[RowInHand(u)] = ci[RowInHand(u)], ci'[piv[i[u]]] = ci[piv[i[u]]]
  PROVE  Filling(u)'
<1>1. RowInHand(u)' = RowInHand(u)
  BY DEF RowInHand
<1> QED
  BY <1>1 DEF Filling

(* A row that is still to be eliminated is no pivot.                       *)
LEMMA PivotIsDone ==
  ASSUME MatrixTypes, PivotInv, Factoring, NEW r \in todo, NEW c \in Rows
  PROVE  r \in Rows /\ piv[c] # r
BY DEF MatrixTypes, PivotInv

(* The steps of thread 0 that write piv, todo or ri are taken while no     *)
(* thread is at its rows.                                                  *)
LEMMA QuietAtRows ==
  ASSUME FactorInv, caller # "Terminated", ChoosePivot \/ PublishPivot \/ Merge,
         NEW u \in Threads
  PROVE  /\ pc[0] \in {"Pivot", "Publish", "Merge"}
         /\ pc[u] \notin {"Rows", "Lock", "Fill"} /\ pc'[u] \notin {"Lock", "Fill"}
<1>1. PoolInv /\ PoolTypes /\ ThreadTypes /\ ColumnsInv /\ BarrierInv /\ PivotInv
  BY DEF FactorInv, PoolInv
<1>2. /\ pc[0] \in {"Pivot", "Publish", "Merge"}
      /\ pc'[0] \in {"Publish", "Rows", "Pivot", "EndOfOp"}
      /\ \A v \in Threads : v # 0 => pc'[v] = pc[v]
  BY <1>1, ThreadsFinite DEF ChoosePivot, PublishPivot, Merge, NextColumn, PoolTypes
<1>3. pc[u] \notin {"Rows", "Lock", "Fill"}
  BY <1>1, <1>2, NobodyAtRows
<1> QED
  BY <1>2, <1>3

(* Every step preserves FillInv: two threads never have the same row in    *)
(* hand, and none of them that of a pivot.                                 *)
LEMMA FillNext ==
  ASSUME FactorInv, [Next]_vars
  PROVE  FillInv'
<1>1. /\ PoolInv /\ PoolTypes /\ MatrixTypes /\ ThreadTypes /\ ColumnsInv /\ BarrierInv
      /\ PivotInv /\ ListsInv /\ FillInv
  BY DEF FactorInv, PoolInv
<1>2. CASE (caller # "Terminated" /\ QuietStep) \/ UNCHANGED vars
  <2>1. /\ UNCHANGED <<ci, ri, piv, todo, i, k, cols>>
        /\ Factoring' => Factoring
        /\ \A t \in Threads :
              \/ pc'[t] = pc[t]
              \/ pc[t] \in {"EndOfOp", "Exit"} /\ pc'[t] \in {"Acquire", "Gone"}
    BY <1>1, <1>2, QuietFrame
  <2>2. ASSUME NEW t \in Threads, Filling(t) PROVE Filling(t)'
    BY <2>1, <2>2, FillingKept
  <2>3. \A t \in Threads : pc'[t] \in {"Lock", "Fill"} => pc'[t] = pc[t]
    BY <2>1
  <2> QED
    BY <2>1, <2>2, <2>3, <1>1 DEF FillInv
<1>3. CASE Assemble \/ Solve \/ CollectFactor
  <2>1. CASE Assemble
    BY <1>1, <2>1 DEF Assemble, Factoring, PoolInv, PlacesOfOp, pool, FillInv
  <2>2. CASE CollectFactor
    BY <2>2 DEF CollectFactor, Substitute, Dispatch, Factoring, FillInv
  <2>3. CASE Solve
    <3>1. pc' = pc /\ Pending = {}
      BY <1>1, <2>3 DEF Solve, PoolInv, Waiting
    <3> QED
      BY <3>1 DEF Pending, FillInv
  <2> QED
    BY <1>3, <2>1, <2>2, <2>3
<1>4. ASSUME NEW t \in Threads, caller # "Terminated", Start(t) PROVE FillInv'
  <2>1. /\ pc'[t] \in {"Pivot", "First", "Exit"}
        /\ \A u \in Threads : u # t => pc'[u] = pc[u] /\ i'[u] = i[u]
        /\ UNCHANGED <<op, caller, ci, ri, piv, todo, k, cols>>
    BY <1>1, <1>4, StartFrame
  <2>2. ASSUME NEW u \in Threads, u # t, Filling(u) PROVE Filling(u)'
    BY <2>1, <2>2, FillingKept
  <2>3. Factoring' => Factoring
    BY <2>1 DEF Factoring
  <2> QED
    BY <2>1, <2>2, <2>3, <1>1 DEF FillInv
<1>5. ASSUME NEW t \in Threads, caller # "Terminated", pnaivslv(t) PROVE FillInv'
  BY <1>1, <1>5, SolveFrame DEF Factoring, FillInv
<1>6. ASSUME NEW t \in Threads, caller # "Terminated", pnaivfct(t), caller' # "Terminated"
      PROVE  FillInv'
  <2>1. /\ Factoring /\ Factoring' /\ Begun(t)
        /\ \A u \in Threads : u # t => /\ pc'[u] = pc[u] /\ i'[u] = i[u]
                                       /\ k'[u] = k[u] /\ cols'[u] = cols[u]
    BY <1>1, <1>6, FactorFrame
  <2>2. \A u \in Threads : pc[u] \in {"Lock", "Fill"} => Filling(u)
    BY <1>1, <2>1 DEF FillInv
  <2>3. CASE t = 0 /\ (ChoosePivot \/ PublishPivot \/ Merge)
    BY <1>6, <2>3, QuietAtRows DEF FillInv
  <2>4. ASSUME UNCHANGED <<ci, ri, todo, piv>>,
               pc'[t] \in {"Lock", "Fill"} => Filling(t)'
        PROVE  FillInv'
    <3>1. ASSUME NEW u \in Threads, u # t, pc'[u] \in {"Lock", "Fill"} PROVE Filling(u)'
      BY <2>1, <2>2, <2>4, <3>1, FillingKept
    <3> QED
      BY <2>4, <3>1 DEF FillInv
  <2>5. CASE AwaitPivot(t) \/ ArriveAtColumn(t) \/ LeaveColumn(t)
    <3>1. UNCHANGED <<ci, ri, todo, piv>> /\ pc'[t] \notin {"Lock", "Fill"}
      BY <1>1, <2>5 DEF AwaitPivot, ArriveAtColumn, LeaveColumn, NextColumn, lists, PoolTypes
    <3> QED
      BY <2>4, <3>1
  <2>6. CASE TestAndSet(t)
    <3>1. UNCHANGED <<ci, ri, todo, piv, i, k, cols>> /\ pc[t] = "Lock"
      BY <2>6 DEF TestAndSet, lists, locals
    <3>2. Filling(t)'
      BY <2>2, <3>1, FillingKept
    <3> QED
      BY <2>4, <3>1, <3>2
  <2>7. CASE EliminateRow(t)
    <3>1. UNCHANGED <<ci, ri, ril, todo, piv, i>> /\ pc[t] = "Rows"
      BY <2>7 DEF EliminateRow, lists
    <3>0. PICK n \in DOMAIN ri[i[t]], r \in Rows, new \in Seq(Rows) : Subtracted(t, n, r, new)
      BY <1>6, <2>7, EliminateRowFacts
    <3>2. /\ ri[i[t]][n] = r /\ r \in todo /\ r % nThreads = t
          /\ IsInjective(new)
          /\ ToSet(new) = {c \in ToSet(ci[piv[i[t]]]) : c > i[t] /\ c \notin ToSet(ci[r])}
          /\ cols' = [cols EXCEPT ![t] = new]
          /\ k' = [k EXCEPT ![t] = IF new = <<>> THEN n + 1 ELSE n]
          /\ pc' = [pc EXCEPT ![t] = IF new = <<>> THEN @ ELSE "Lock"]
      BY <3>0 DEF Subtracted
    <3>3. CASE new = <<>>
      <4>1. pc'[t] = "Rows"
        BY <1>1, <3>1, <3>2, <3>3 DEF PoolTypes
      <4> QED
        BY <2>4, <3>1, <4>1
    <3>4. CASE new # <<>>
      <4>1. cols'[t] = new /\ k'[t] = n
        BY <1>1, <3>2, <3>4 DEF ThreadTypes
      <4>2. RowInHand(t)' = r
        BY <3>1, <3>2, <4>1 DEF RowInHand
      <4>3. Filling(t)'
        BY <3>1, <3>2, <3>4, <4>1, <4>2 DEF Filling
      <4> QED
        BY <2>4, <3>1, <4>3
    <3> QED
      BY <3>3, <3>4
  <2>8. CASE Fill(t)
    <3>1. UNCHANGED <<ri, todo, piv, i>> /\ pc[t] = "Fill"
      BY <2>8 DEF Fill
    <3>0. PICK c \in Rows, r \in Rows : Filled(t, c, r)
      BY <1>6, <2>8, FillFacts
    <3>2. /\ r = RowInHand(t) /\ r \in todo /\ r % nThreads = t
          /\ ToSet(ci'[r]) = ToSet(ci[r]) \cup {c}
          /\ ci' = [ci EXCEPT ![r] = Append(@, c)]
          /\ k[t] \in DOMAIN ri[i[t]]
          /\ IsInjective(cols'[t])
          /\ ToSet(cols[t]) = {c} \cup ToSet(cols'[t]) /\ c \notin ToSet(cols'[t])
          /\ \/ cols'[t] = <<>> /\ pc'[t] = "Rows"
             \/ cols'[t] # <<>> /\ pc'[t] = "Lock" /\ k'[t] = k[t]
      BY <3>0 DEF Filled
    <3>3. \A q \in Rows : q # r => ci'[q] = ci[q]
      BY <1>1, <3>2 DEF MatrixTypes
    <3>4. ASSUME NEW u \in Threads, pc[u] \in {"Lock", "Fill"}
          PROVE  ci'[piv[i[u]]] = ci[piv[i[u]]]
      <4>1. i[u] \in Rows /\ piv[i[u]] \in Rows
        BY <1>1, <1>6, <3>4, SameColumn
      <4> QED
        BY <1>1, <2>1, <3>2, <3>3, <4>1, PivotIsDone
    <3>5. ASSUME NEW u \in Threads, u # t, pc'[u] \in {"Lock", "Fill"} PROVE Filling(u)'
      <4>1. pc[u] \in {"Lock", "Fill"} /\ Filling(u)
        BY <2>1, <2>2, <3>5
      <4>2. RowInHand(u) \in Rows /\ RowInHand(u) # r
        BY <1>1, <2>1, <3>2, <3>5, <4>1 DEF Filling, MatrixTypes
      <4> QED
        BY <2>1, <3>1, <3>3, <3>4, <3>5, <4>1, <4>2, FillingKept
    <3>6. ASSUME pc'[t] \in {"Lock", "Fill"} PROVE Filling(t)'
      <4>1. cols'[t] # <<>> /\ k'[t] = k[t]
        BY <3>2, <3>6
      <4>2. RowInHand(t)' = r
        BY <3>1, <3>2, <4>1 DEF RowInHand
      <4>3. ASSUME NEW d \in ToSet(cols'[t])
            PROVE  d > i[t] /\ d \notin ToSet(ci'[r]) /\ d \in ToSet(ci[piv[i[t]]])
        BY <2>2, <3>1, <3>2, <4>3 DEF Filling
      <4>4. ci'[piv[i[t]]] = ci[piv[i[t]]]
        BY <3>1, <3>4
      <4> QED
        BY <3>1, <3>2, <4>1, <4>2, <4>3, <4>4 DEF Filling
    <3> QED
      BY <3>5, <3>6 DEF FillInv
  <2> QED
    BY <1>6, <2>3, <2>5, <2>6, <2>7, <2>8, FactorCases
<1> QED
  BY <1>1, <1>2, <1>3, <1>4, <1>5, <1>6, StepCases

-----------------------------------------------------------------------------
\* The lists by row and by column.

(* Outside the columns of thread 0 there are no new entries.               *)
LEMMA NothingNew ==
  ASSUME ListsInv, pc[0] \notin InColumn
  PROVE  /\ \A n \in 1 .. iSize : ril[n] = {}
         /\ \A r, c : ~ IsNew(r, c)
BY DEF ListsInv, IsNew, InColumn

(* Steps that leave the lists and the place of thread 0 alone.             *)
LEMMA ListsKept ==
  ASSUME ListsInv, UNCHANGED <<ci, ri, ril, todo, piv>>,
         i'[0] = i[0], pc'[0] \in InColumn <=> pc[0] \in InColumn
  PROVE  ListsInv'
<1>1. \A r, c : IsNew(r, c)' <=> IsNew(r, c)
  BY DEF IsNew, InColumn
<1>2. /\ \A c \in Rows : IsInjective(ri[c]) /\ IsInjective(ci[c])
      /\ \A r, c \in Rows :
           c \in ToSet(ci[r]) <=> (r \in ToSet(ri[c]) \/ IsNew(r, c))
      /\ \A r, c \in Rows :
           IsNew(r, c) => /\ r \notin ToSet(ri[c]) /\ c > i[0] /\ r \in todo
                          /\ c \in ToSet(ci[piv[i[0]]])
      /\ \A n \in 1 .. iSize :
           ril[n] # {} => pc[0] \in InColumn /\ n \in DOMAIN ri[i[0]]
  BY DEF ListsInv
<1>3. \A n \in 1 .. iSize :
           ril'[n] # {} => pc'[0] \in InColumn /\ n \in DOMAIN ri'[i'[0]]
  BY <1>2
<1>4. \A r, c \in Rows : c \in ToSet(ci'[r]) <=> (r \in ToSet(ri'[c]) \/ IsNew(r, c)')
  BY <1>1, <1>2
<1>5. \A r, c \in Rows :
           IsNew(r, c)' => /\ r \notin ToSet(ri'[c]) /\ c > i'[0] /\ r \in todo'
                           /\ c \in ToSet(ci'[piv'[i'[0]]])
  BY <1>1, <1>2
<1> QED
  BY <1>2, <1>3, <1>4, <1>5 DEF ListsInv

(* Steps that find no new entries and make none.                           *)
LEMMA ListsSame ==
  ASSUME ListsInv, MatrixTypes, UNCHANGED <<ci, ri, ril>>, pc[0] \notin InColumn,
         pc'[0] \notin InColumn \/ i'[0] \in Rows
  PROVE  ListsInv'
<1>1. /\ \A n \in 1 .. iSize : ril[n] = {}
      /\ \A r, c : ~ IsNew(r, c)
  BY NothingNew
<1>2. \A r, c : ~ IsNew(r, c)'
  <2>1. CASE pc'[0] \notin InColumn
    BY <2>1 DEF IsNew, InColumn
  <2>2. CASE i'[0] \in Rows
    <3>1. \A n \in DOMAIN ri[i'[0]] : n \in 1 .. iSize
      BY <2>2, Places
    <3> QED
      BY <1>1, <3>1 DEF IsNew
  <2> QED
    BY <2>1, <2>2
<1>3. /\ \A c \in Rows : IsInjective(ri[c]) /\ IsInjective(ci[c])
      /\ \A r, c \in Rows : c \in ToSet(ci[r]) <=> r \in ToSet(ri[c])
  BY <1>1 DEF ListsInv
<1> QED
  BY <1>1, <1>2, <1>3 DEF ListsInv

(* Every step preserves ListsInv: what one thread adds to the lists by row *)
(* is merged once into the lists by column.                                *)
LEMMA ListsNext ==
  ASSUME FactorInv, [Next]_vars
  PROVE  ListsInv'
<1>1. /\ PoolInv /\ PoolTypes /\ MatrixTypes /\ ThreadTypes /\ ColumnsInv /\ BarrierInv
      /\ PivotInv /\ ListsInv /\ FillInv
  BY DEF FactorInv, PoolInv
<1>2. CASE (caller # "Terminated" /\ QuietStep) \/ UNCHANGED vars
  <2>1. /\ UNCHANGED <<ci, ri, ril, piv, todo, i>>
        /\ \/ pc'[0] = pc[0]
           \/ pc[0] \in {"EndOfOp", "Exit"} /\ pc'[0] \in {"Acquire", "Gone"}
    BY <1>1, <1>2, QuietFrame, ThreadsFinite
  <2>2. pc'[0] \in InColumn <=> pc[0] \in InColumn
    BY <2>1 DEF InColumn
  <2> QED
    BY <2>1, <2>2, <1>1, ListsKept
<1>3. CASE Assemble \/ Solve \/ CollectFactor
  <2>1. pc[0] \notin InColumn /\ UNCHANGED <<pc, i, ril>>
    <3>1. Pending = {} /\ UNCHANGED <<pc, i, ril>>
      BY <1>1, <1>3 DEF Assemble, Solve, CollectFactor, PoolInv, Waiting, lists, locals
    <3> QED
      BY <3>1, ThreadsFinite DEF Pending, InColumn
  <2>2. CASE UNCHANGED <<ci, ri>>
    BY <2>1, <2>2, <1>1, ListsSame
  <2>3. CASE Jacobian
    <3>1. \A n \in 1 .. iSize : ril'[n] = {}
      BY <2>1, <1>1, NothingNew
    <3>2. \A r, c : ~ IsNew(r, c)'
      BY <2>1 DEF IsNew, InColumn
    <3>3. /\ \A c \in Rows : IsInjective(ri'[c]) /\ IsInjective(ci'[c])
          /\ \A r, c \in Rows : c \in ToSet(ci'[r]) <=> r \in ToSet(ri'[c])
      BY <2>3, JacobianLists
    <3> QED
      BY <3>1, <3>2, <3>3 DEF ListsInv
  <2> QED
    BY <1>3, <2>2, <2>3 DEF Assemble, Solve, CollectFactor, lists
<1>4. ASSUME NEW t \in Threads, caller # "Terminated", Start(t) PROVE ListsInv'
  <2>1. /\ pc[t] = "Acquire" /\ pc'[t] \in {"Pivot", "First", "Exit"}
        /\ \A u \in Threads : u # t => pc'[u] = pc[u] /\ i'[u] = i[u]
        /\ UNCHANGED <<ci, ri, ril, piv, todo>>
    BY <1>1, <1>4, StartFrame
  <2>2. CASE t = 0
    BY <2>1, <2>2, <1>1, ListsSame DEF InColumn
  <2>3. CASE t # 0
    BY <2>1, <2>3, <1>1, ListsKept, ThreadsFinite
  <2> QED
    BY <2>2, <2>3
<1>5. ASSUME NEW t \in Threads, caller # "Terminated", pnaivslv(t) PROVE ListsInv'
  <2>1. /\ UNCHANGED <<ci, ri, ril>> /\ op = "SOLVE"
        /\ \A u \in Threads : u # t => pc'[u] = pc[u]
    BY <1>1, <1>5, SolveFrame
  <2>2. \A u \in Threads : pc[u] \notin InColumn
    BY <1>1, <1>5, <2>1 DEF PoolInv, PlacesOfOp, FactorPlaces, InColumn
  <2>3. pc'[t] \notin InColumn
    BY <1>1, <1>5, SolveMoves DEF SolvePlaces, InColumn
  <2>4. pc'[0] \notin InColumn /\ pc[0] \notin InColumn
    BY <2>1, <2>2, <2>3, ThreadsFinite
  <2> QED
    BY <2>1, <2>4, <1>1, ListsSame
<1>6. ASSUME NEW t \in Threads, caller # "Terminated", pnaivfct(t), caller' # "Terminated"
      PROVE  ListsInv'
  <2>1. /\ Factoring /\ Begun(t) /\ 0 \in Threads
        /\ \A u \in Threads : u # t => pc'[u] = pc[u] /\ i'[u] = i[u]
    BY <1>1, <1>6, FactorFrame, ThreadsFinite
  <2>2. i[t] \in Rows
    BY <1>1, <1>6, <2>1, FactorMoves DEF ColumnsInv
  <2>3. CASE t = 0 /\ (ChoosePivot \/ PublishPivot)
    <3>1. /\ UNCHANGED <<ci, ri, ril, i>> /\ pc[0] \notin InColumn
      BY <2>3 DEF ChoosePivot, PublishPivot, lists, InColumn
    <3> QED
      BY <3>1, <2>2, <2>3, <1>1, ListsSame
  <2>4. ASSUME UNCHANGED <<ci, ri, ril, todo, piv>>, i'[t] = i[t] \/ t # 0,
               t = 0 => pc[t] \in InColumn /\ pc'[t] \in InColumn
        PROVE  ListsInv'
    <3>1. i'[0] = i[0] /\ (pc'[0] \in InColumn <=> pc[0] \in InColumn)
      BY <2>1, <2>4
    <3> QED
      BY <2>4, <3>1, <1>1, ListsKept
  <2>5. CASE AwaitPivot(t)
    <3>1. UNCHANGED <<ci, ri, ril, todo, piv>> /\ t # 0
      BY <2>5 DEF AwaitPivot, lists
    <3> QED
      BY <2>4, <3>1
  <2>6. CASE EliminateRow(t) \/ TestAndSet(t) \/ ArriveAtColumn(t)
    <3>1. UNCHANGED <<ci, ri, ril, todo, piv, i>>
      BY <2>6 DEF EliminateRow, TestAndSet, ArriveAtColumn, lists, locals
    <3>2. pc[t] \in InColumn /\ pc'[t] \in InColumn
      BY <1>1, <2>6 DEF EliminateRow, TestAndSet, ArriveAtColumn, PoolTypes, InColumn
    <3> QED
      BY <2>4, <3>1, <3>2
  <2>7. CASE LeaveColumn(t)
    <3>1. UNCHANGED <<ci, ri, ril, todo, piv>>
      BY <2>7 DEF LeaveColumn, lists
    <3>2. t = 0 => i'[t] = i[t] /\ pc[t] \in InColumn /\ pc'[t] \in InColumn
      BY <1>1, <2>7 DEF LeaveColumn, PoolTypes, InColumn
    <3> QED
      BY <2>4, <3>1, <3>2
  <2>8. CASE t = 0 /\ Merge
    <3>1. /\ \A n \in 1 .. iSize : ril'[n] = {}
          /\ \A c \in Rows : /\ ToSet(ri'[c]) = ToSet(ri[c]) \cup {r \in Rows : IsNew(r, c)}
                             /\ IsInjective(ri'[c])
      BY <1>6, <2>8, MergeFacts
    <3>2. ci' = ci /\ pc'[0] \notin InColumn
      BY <1>1, <2>8, <2>1 DEF Merge, NextColumn, PoolTypes, InColumn
    <3>3. \A r, c : ~ IsNew(r, c)'
      BY <3>2 DEF IsNew, InColumn
    <3>4. /\ \A c \in Rows : IsInjective(ci[c])
          /\ \A r, c \in Rows :
               c \in ToSet(ci[r]) <=> (r \in ToSet(ri[c]) \/ IsNew(r, c))
      BY <1>1 DEF ListsInv
    <3>5. \A r, c \in Rows : c \in ToSet(ci'[r]) <=> r \in ToSet(ri'[c])
      BY <3>1, <3>2, <3>4
    <3> QED
      BY <3>1, <3>2, <3>3, <3>4, <3>5 DEF ListsInv
  <2>9. CASE Fill(t)
    <3>1. UNCHANGED <<ri, todo, piv, i>> /\ pc[t] = "Fill"
      BY <2>9 DEF Fill
    <3>2. PICK c \in Rows, r \in Rows : Filled(t, c, r)
      BY <1>6, <2>9, FillFacts
    <3>3. /\ r = RowInHand(t) /\ r \in todo /\ c > i[t]
          /\ c \notin ToSet(ci[r]) /\ c \in ToSet(ci[piv[i[t]]])
          /\ IsInjective(ci'[r]) /\ ToSet(ci'[r]) = ToSet(ci[r]) \cup {c}
          /\ k[t] \in DOMAIN ri[i[t]] /\ k[t] \in 1 .. iSize
      BY <3>2 DEF Filled
    <3>4. /\ \A q \in Rows : q # r => ci'[q] = ci[q]
          /\ ril'[k[t]] = ril[k[t]] \cup {c}
          /\ \A n \in 1 .. iSize : n # k[t] => ril'[n] = ril[n]
      BY <1>1, <3>2 DEF Filled, MatrixTypes
    <3>5. i[0] = i[t] /\ pc[0] \in {"Rows", "Lock", "Fill", "Column"} /\ piv[i[t]] \in Rows
      BY <1>1, <1>6, <3>1, SameColumn
    <3>6. pc[0] \in InColumn /\ pc'[0] \in InColumn
      <4>1. pc'[t] \in {"Rows", "Lock"}
        BY <3>2 DEF Filled
      <4> QED
        BY <2>1, <3>5, <4>1 DEF InColumn
    <3>7. ci'[piv[i[t]]] = ci[piv[i[t]]]
      BY <1>1, <2>1, <2>2, <3>3, <3>4, <3>5, PivotIsDone
    <3>8. \A n \in DOMAIN ri[i[t]] : n \in 1 .. iSize
      BY <1>1, <2>2, Places
    <3>9. \A q, d \in Rows : IsNew(q, d)' <=> IsNew(q, d) \/ (q = r /\ d = c)
      <4> SUFFICES ASSUME NEW q \in Rows, NEW d \in Rows
                   PROVE  IsNew(q, d)' <=> IsNew(q, d) \/ (q = r /\ d = c)
        OBVIOUS
      <4>1. IsNew(q, d) <=> \E n \in DOMAIN ri[i[t]] : ri[i[t]][n] = q /\ d \in ril[n]
        BY <3>5, <3>6 DEF IsNew, InColumn
      <4>2. IsNew(q, d)' <=> \E n \in DOMAIN ri[i[t]] : ri[i[t]][n] = q /\ d \in ril'[n]
        BY <3>1, <3>5, <3>6 DEF IsNew, InColumn
      <4>3. ri[i[t]][k[t]] = r
        BY <3>3 DEF RowInHand
      <4> QED
        BY <3>3, <3>4, <3>8, <4>1, <4>2, <4>3
    <3>10. /\ \A d \in Rows : IsInjective(ri[d]) /\ IsInjective(ci[d])
           /\ \A q, d \in Rows : d \in ToSet(ci[q]) <=> (q \in ToSet(ri[d]) \/ IsNew(q, d))
           /\ \A q, d \in Rows :
                IsNew(q, d) => /\ q \notin ToSet(ri[d]) /\ d > i[0] /\ q \in todo
                               /\ d \in ToSet(ci[piv[i[0]]])
           /\ \A n \in 1 .. iSize : ril[n] # {} => n \in DOMAIN ri[i[0]]
      BY <1>1 DEF ListsInv
    <3>11. \A d \in Rows : IsInjective(ri'[d]) /\ IsInjective(ci'[d])
      BY <3>1, <3>3, <3>4, <3>10
    <3>12. \A q, d \in Rows : d \in ToSet(ci'[q]) <=> (q \in ToSet(ri'[d]) \/ IsNew(q, d)')
      BY <3>1, <3>3, <3>4, <3>9, <3>10
    <3>13. \A q, d \in Rows :
             IsNew(q, d)' => /\ q \notin ToSet(ri'[d]) /\ d > i'[0] /\ q \in todo'
                             /\ d \in ToSet(ci'[piv'[i'[0]]])
      <4>1. r \notin ToSet(ri[c])
        BY <3>3, <3>10
      <4> QED
        BY <3>1, <3>3, <3>5, <3>7, <3>9, <3>10, <4>1
    <3>14. \A n \in 1 .. iSize : ril'[n] # {} => pc'[0] \in InColumn /\ n \in DOMAIN ri'[i'[0]]
      BY <3>1, <3>3, <3>4, <3>5, <3>6, <3>10
    <3> QED
      BY <3>11, <3>12, <3>13, <3>14 DEF ListsInv
  <2> QED
    BY <1>6, <2>3, <2>5, <2>6, <2>7, <2>8, <2>9, FactorCases
<1> QED
  BY <1>1, <1>2, <1>3, <1>4, <1>5, <1>6, StepCases

-----------------------------------------------------------------------------
\* The locks of the columns, and what the manager has.

(* Every step preserves LocksInv.                                          *)
LEMMA LocksNext ==
  ASSUME FactorInv, [Next]_vars
  PROVE  LocksInv'
<1>1. PoolInv /\ PoolTypes /\ MatrixTypes /\ ThreadTypes /\ LocksInv
  BY DEF FactorInv, PoolInv
<1>2. ASSUME col_locks' = col_locks,
             \A u \in Threads : pc[u] \in {"Lock", "Fill"} => /\ pc'[u] \in {"Lock", "Fill"}
                                                              /\ cols'[u] = cols[u]
      PROVE  LocksInv'
  BY <1>1, <1>2 DEF LocksInv
<1>3. CASE (caller # "Terminated" /\ QuietStep) \/ UNCHANGED vars
  <2>1. /\ UNCHANGED <<col_locks, cols>>
        /\ \A t \in Threads :
              \/ pc'[t] = pc[t]
              \/ pc[t] \in {"EndOfOp", "Exit"} /\ pc'[t] \in {"Acquire", "Gone"}
    BY <1>1, <1>3, QuietFrame
  <2> QED
    BY <2>1, <1>2
<1>4. CASE Assemble \/ Solve \/ CollectFactor
  <2>1. UNCHANGED <<col_locks, pc, cols>>
    BY <1>4 DEF Assemble, Solve, CollectFactor, locals
  <2> QED
    BY <2>1, <1>2
<1>5. ASSUME NEW t \in Threads, caller # "Terminated", Start(t) PROVE LocksInv'
  BY <1>1, <1>2, <1>5, StartFrame
<1>6. ASSUME NEW t \in Threads, caller # "Terminated", pnaivslv(t) PROVE LocksInv'
  <2>1. pc[t] \notin {"Lock", "Fill"}
    BY <1>1, <1>6, SolveMoves DEF SolvePlaces
  <2>2. /\ col_locks' = col_locks
        /\ \A u \in Threads : u # t => pc'[u] = pc[u] /\ cols'[u] = cols[u]
    BY <1>1, <1>6, SolveFrame
  <2> QED
    BY <2>1, <2>2, <1>2
<1>7. ASSUME NEW t \in Threads, caller # "Terminated", pnaivfct(t), caller' # "Terminated"
      PROVE  LocksInv'
  <2>1. \A u \in Threads : u # t => pc'[u] = pc[u] /\ cols'[u] = cols[u]
    BY <1>1, <1>7, FactorFrame
  <2>2. CASE (t = 0 /\ (ChoosePivot \/ PublishPivot \/ Merge)) \/ AwaitPivot(t)
             \/ EliminateRow(t) \/ ArriveAtColumn(t) \/ LeaveColumn(t)
    <3>1. pc[t] \notin {"Lock", "Fill"} /\ col_locks' = col_locks
      BY <2>2 DEF ChoosePivot, PublishPivot, Merge, AwaitPivot, EliminateRow, ArriveAtColumn,
         LeaveColumn
    <3> QED
      BY <2>1, <3>1, <1>2
  <2>3. CASE TestAndSet(t)
    <3>1. pc[t] = "Lock" /\ pc'[t] \in {"Lock", "Fill"} /\ cols' = cols
      BY <1>1, <2>3 DEF TestAndSet, locals, PoolTypes
    <3>2. \A c \in Rows : col_locks'[c] => col_locks[c] \/ c = Head(cols[t])
      BY <1>1, <2>3 DEF TestAndSet, MatrixTypes
    <3>3. \A u \in Threads : pc[u] \in {"Lock", "Fill"} => pc'[u] \in {"Lock", "Fill"}
      BY <2>1, <3>1
    <3> QED
      BY <1>1, <3>1, <3>2, <3>3 DEF LocksInv
  <2>4. CASE Fill(t)
    <3>1. PICK c \in Rows, r \in Rows : Filled(t, c, r)
      BY <1>7, <2>4, FillFacts
    <3>2. /\ c = Head(cols[t]) /\ ~ col_locks'[c]
          /\ \A d \in Rows : d # c => col_locks'[d] = col_locks[d]
      BY <1>1, <3>1 DEF Filled, MatrixTypes
    <3> QED
      BY <1>1, <2>1, <3>2 DEF LocksInv
  <2> QED
    BY <1>7, <2>2, <2>3, <2>4, FactorCases
<1> QED
  BY <1>1, <1>3, <1>4, <1>5, <1>6, <1>7, StepCases

(* When a factorization is collected every thread has been through all the *)
(* columns.                                                                *)
LEMMA FactorIsOver ==
  ASSUME FactorInv, CollectFactor
  PROVE  Factoring /\ \A t \in Threads : Begun(t) /\ i[t] = iSize
<1>1. PoolInv /\ PoolTypes /\ ColumnsInv /\ caller = "Collect" /\ op = "FACTOR"
  BY DEF FactorInv, PoolInv, CollectFactor
<1>2. Pending = {}
  BY <1>1 DEF PoolInv, Waiting
<1>3. \A t \in Threads : Begun(t) /\ pc[t] \in {"Acquire", "Gone"}
  BY <1>2 DEF Pending, Begun
<1> QED
  BY <1>1, <1>3 DEF ColumnsInv, Factoring, FactorPlaces

(* Every step preserves FactoredInv: what AppliedInv says of the pivots of *)
(* all columns holds for as long as the matrix is used.                    *)
LEMMA FactoredNext ==
  ASSUME FactorInv, [Next]_vars
  PROVE  FactoredInv'
<1>1. /\ PoolInv /\ PoolTypes /\ MatrixTypes /\ ThreadTypes /\ PivotInv /\ AppliedInv
      /\ FactoredInv
  BY DEF FactorInv, PoolInv
<1> DEFINE Done == /\ \A c \in Rows : piv[c] \in Rows
                   /\ \A c, d \in Rows : piv[c] = piv[d] => c = d
                   /\ \A c \in Rows : /\ Ascending(applied[piv[c]])
                                      /\ ToSet(applied[piv[c]]) = Before(piv[c], c)
<1>2. /\ op = "FACTOR" => bHasBeenReset
      /\ Working /\ op = "SOLVE" => ~ bHasBeenReset
      /\ caller = "Use" => ~ bHasBeenReset
      /\ caller = "Idle" /\ bHasBeenReset => \A c \in Rows : piv[c] = -1
      /\ caller = "Solve" /\ bHasBeenReset => \A r \in Rows : applied[r] = <<>>
      /\ ~ bHasBeenReset => Done
  BY <1>1 DEF FactoredInv
<1>3. ASSUME UNCHANGED <<ci, piv, applied>> PROVE Done' <=> Done
  BY <1>3 DEF Before
<1> HIDE DEF Done
<1>4. ASSUME op' = "FACTOR" => bHasBeenReset',
             Working' /\ op' = "SOLVE" => ~ bHasBeenReset',
             caller' = "Use" => ~ bHasBeenReset',
             caller' = "Idle" /\ bHasBeenReset' => \A c \in Rows : piv'[c] = -1,
             caller' = "Solve" /\ bHasBeenReset' => \A r \in Rows : applied'[r] = <<>>,
             ~ bHasBeenReset' => Done'
      PROVE  FactoredInv'
  BY <1>4 DEF FactoredInv, Done
<1>5. CASE UNCHANGED vars
  <2>1. UNCHANGED <<op, caller, bHasBeenReset, ci, piv, applied>>
    BY <1>5 DEF vars, calls, pool, lists
  <2> QED
    BY <1>2, <1>3, <1>4, <2>1 DEF Working
<1>6. CASE caller # "Terminated" /\ QuietStep
  <2>1. UNCHANGED <<bHasBeenReset, ci, piv, applied>>
    BY <1>1, <1>6, QuietFrame
  <2>2. CASE Release \/ Wait \/ WakeUp \/ \E t \in Threads : EndOfOp(t)
    <3>1. op' = op /\ ((Working /\ Working') \/ caller' = caller)
      BY <2>2 DEF Release, Wait, WakeUp, EndOfOp, Working, pool
    <3> QED
      BY <1>2, <1>3, <1>4, <2>1, <3>1 DEF Working
  <2>3. CASE CollectSolve
    <3>1. op' = op /\ op = "SOLVE" /\ caller = "Collect" /\ caller' = "Use"
      BY <2>3 DEF CollectSolve, pool
    <3> QED
      BY <1>2, <1>3, <1>4, <2>1, <3>1 DEF Working
  <2>4. CASE Use
    <3>1. op' = op /\ caller = "Use" /\ caller' = "Idle"
      BY <2>4 DEF Use, pool
    <3> QED
      BY <1>2, <1>3, <1>4, <2>1, <3>1 DEF Working
  <2>5. CASE Join \/ Destroy \/ NoPivot
    <3>1. \/ op' = "EXIT" /\ caller' = "Release"
          \/ op' = op /\ caller' \in {"Gone", "Terminated"}
      BY <2>5 DEF Join, Destroy, Dispatch, NoPivot, pool
    <3> QED
      BY <1>2, <1>3, <1>4, <2>1, <3>1 DEF Working
  <2> QED
    BY <1>6, <2>2, <2>3, <2>4, <2>5 DEF QuietStep
<1>7. CASE Assemble
  <2>1. op' = op /\ caller' = "Solve"
    BY <1>7 DEF Assemble, pool
  <2>2. CASE MatrReset /\ Jacobian
    <3>1. bHasBeenReset' = TRUE /\ \A r \in Rows : applied'[r] = <<>>
      BY <2>2 DEF MatrReset, Jacobian
    <3> QED
      BY <1>4, <2>1, <3>1 DEF Working
  <2>3. CASE /\ ~ bHasBeenReset
             /\ UNCHANGED <<bHasBeenReset, ePermState, pdSol, ci, ri, applied, permuted>>
    <3>1. piv' = piv
      BY <1>7 DEF Assemble
    <3> QED
      BY <1>2, <1>3, <1>4, <2>1, <2>3, <3>1 DEF Working
  <2> QED
    BY <1>7, <2>2, <2>3 DEF Assemble
<1>8. CASE Solve
  <2>1. UNCHANGED <<bHasBeenReset, ci, applied>> /\ caller' = "Release"
    BY <1>8 DEF Solve, Factor, Substitute, Dispatch, lists
  <2>2. CASE bHasBeenReset
    <3>1. op' = "FACTOR"
      BY <1>8, <2>2 DEF Solve, Factor, Dispatch
    <3> QED
      BY <1>4, <2>1, <2>2, <3>1
  <2>3. CASE ~ bHasBeenReset
    <3>1. op' = "SOLVE" /\ piv' = piv
      BY <1>8, <2>3 DEF Solve, Substitute, Dispatch
    <3> QED
      BY <1>2, <1>3, <1>4, <2>1, <2>3, <3>1
  <2> QED
    BY <2>2, <2>3
<1>9. CASE CollectFactor
  <2>1. /\ UNCHANGED <<ci, piv, applied>> /\ ~ bHasBeenReset' /\ op' = "SOLVE"
        /\ caller' = "Release"
    BY <1>9 DEF CollectFactor, Substitute, Dispatch, lists
  <2>2. Factoring /\ Begun(0) /\ i[0] = iSize
    BY <1>9, FactorIsOver, ThreadsFinite
  <2>3. \A c \in Rows : Entered(0, c)
    <3>1. \A c \in Rows : iSize > c
      BY NaiveAssumption DEF Rows
    <3> QED
      BY <2>2, <3>1 DEF Entered
  <2>4. \A c \in Rows : piv[c] \in Rows
    BY <1>1, <2>2, <2>3 DEF PivotInv
  <2>5. Done
    BY <1>1, <2>2, <2>4 DEF Done, PivotInv, AppliedInv
  <2> QED
    BY <1>3, <1>4, <2>1, <2>5
<1>10. ASSUME NEW t \in Threads, caller # "Terminated", Start(t) PROVE FactoredInv'
  <2>1. UNCHANGED <<op, caller, bHasBeenReset, ci, piv, applied>>
    BY <1>1, <1>10, StartFrame DEF calls
  <2> QED
    BY <1>2, <1>3, <1>4, <2>1 DEF Working
<1>11. ASSUME NEW t \in Threads, caller # "Terminated", pnaivslv(t) PROVE FactoredInv'
  <2>1. UNCHANGED <<op, caller, bHasBeenReset, ci, piv, applied>>
    BY <1>1, <1>11, SolveFrame DEF calls
  <2> QED
    BY <1>2, <1>3, <1>4, <2>1 DEF Working
<1>12. ASSUME NEW t \in Threads, caller # "Terminated", pnaivfct(t), caller' # "Terminated"
       PROVE  FactoredInv'
  <2>1. UNCHANGED <<op, bHasBeenReset>> /\ op = "FACTOR" /\ caller' = caller
    BY <1>1, <1>12, FactorFrame, FactorMoves DEF Factoring
  <2>2. caller \notin {"Idle", "Solve", "Use"}
    BY <1>1, <1>12, <2>1 DEF PoolInv, PlacesOfOp
  <2> QED
    BY <1>2, <1>4, <2>1, <2>2
<1> QED
  BY <1>1, <1>5, <1>6, <1>7, <1>8, <1>9, <1>10, <1>11, <1>12, StepCases

-----------------------------------------------------------------------------
\* What the threads are done with.

(* Who is done with a row of a column has entered the column; who is done  *)
(* with the column is done with its rows.                                  *)
LEMMA FinishedMeans ==
  ASSUME NEW t, NEW d, NEW r
  PROVE  /\ Finished(t, d, r) => Entered(t, d)
         /\ Arrived(t, d) => Finished(t, d, r)
BY DEF Finished, Entered, Arrived, InColumn

(* Steps that leave a thread where it is.                                  *)
LEMMA FinishedKept ==
  ASSUME NEW u \in Threads, Begun(u)' <=> Begun(u), UNCHANGED <<pc[u], i[u], k[u]>>,
         ri' = ri \/ pc[u] \notin {"Rows", "Lock", "Fill"}, NEW d, NEW r
  PROVE  Finished(u, d, r)' <=> Finished(u, d, r)
<1>1. CASE ri' = ri
  BY <1>1 DEF Finished
<1>2. CASE pc[u] \notin {"Rows", "Lock", "Fill"}
  BY <1>2 DEF Finished
<1> QED
  BY <1>1, <1>2

(* A step of a factorization finishes a row at EliminateRow, or leaves     *)
(* what the threads are done with as it was.                               *)
LEMMA FinishedNext ==
  ASSUME FactorInv, caller # "Terminated", caller' # "Terminated",
         NEW t \in Threads, pnaivfct(t), ~ EliminateRow(t), ~ ArriveAtColumn(t),
         NEW u \in Threads, NEW d \in Rows, NEW r \in Rows
  PROVE  Finished(u, d, r)' <=> Finished(u, d, r)
<1>1. /\ PoolInv /\ PoolTypes /\ MatrixTypes /\ ThreadTypes /\ ColumnsInv /\ BarrierInv
      /\ PivotInv /\ ListsInv
  BY DEF FactorInv, PoolInv
<1>2. /\ Factoring /\ Begun(t) /\ Begun(t)' /\ (Begun(u)' <=> Begun(u))
      /\ u # t => pc'[u] = pc[u] /\ i'[u] = i[u] /\ k'[u] = k[u]
  BY <1>1, FactorFrame
<1>3. i[t] \in Rows
  BY <1>1, <1>2, FactorMoves DEF ColumnsInv
<1>4. ri' = ri \/ (t = 0 /\ Merge)
  BY FactorCases DEF ChoosePivot, PublishPivot, AwaitPivot, TestAndSet, Fill, LeaveColumn, lists
<1>5. \A v \in Threads : t = 0 /\ Merge => pc[v] \notin {"Rows", "Lock", "Fill"}
  BY QuietAtRows
<1>6. CASE u # t
  BY <1>2, <1>4, <1>5, <1>6, FinishedKept
<1>7. CASE u = t
  <2>1. CASE (t = 0 /\ ChoosePivot) \/ (t = 0 /\ PublishPivot) \/ AwaitPivot(t)
    <3>1. /\ i' = i /\ pc[t] \in {"Pivot", "Publish"}
          /\ pc'[t] = "Publish" \/ (pc'[t] = "Rows" /\ k'[t] = 1)
      BY <1>1, <2>1 DEF ChoosePivot, PublishPivot, AwaitPivot, PoolTypes, ThreadTypes
    <3>2. \A n \in DOMAIN ri'[d] : ri' = ri => ~ (n < 1)
      BY <1>1, Places
    <3>3. ri' = ri
      BY <2>1 DEF ChoosePivot, PublishPivot, AwaitPivot, lists
    <3> QED
      BY <1>2, <1>7, <3>1, <3>2, <3>3 DEF Finished
  <2>2. CASE TestAndSet(t)
    <3>1. /\ UNCHANGED <<ri, i, k>> /\ pc[t] = "Lock" /\ pc'[t] \in {"Lock", "Fill"}
      BY <1>1, <2>2 DEF TestAndSet, lists, locals, PoolTypes
    <3> QED
      BY <1>2, <1>7, <3>1 DEF Finished
  <2>3. CASE Fill(t)
    <3>1. UNCHANGED <<ri, i>> /\ pc[t] = "Fill"
      BY <2>3 DEF Fill
    <3>2. /\ k[t] \in 1 .. iSize
          /\ \/ pc'[t] = "Rows" /\ k'[t] = k[t] + 1
             \/ pc'[t] = "Lock" /\ k'[t] = k[t]
      BY <2>3, FillFacts DEF Filled
    <3>3. \A n \in DOMAIN ri[d] : n < k[t] + 1 <=> n <= k[t]
      BY <1>1, <3>2, Places
    <3> QED
      BY <1>2, <1>7, <3>1, <3>2, <3>3 DEF Finished
  <2>4. CASE LeaveColumn(t) \/ (t = 0 /\ Merge)
    <3>1. /\ pc[t] \in {"Column", "Merge"}
          /\ \/ i'[t] = i[t] /\ pc'[t] = "Merge"
             \/ i'[t] = i[t] + 1 /\ pc'[t] \in {"Pivot", "EndOfOp"}
      BY <1>1, <2>4 DEF LeaveColumn, Merge, NextColumn, PoolTypes, ThreadTypes
    <3>2. i[t] + 1 > d <=> (i[t] > d \/ i[t] = d)
      BY <1>3 DEF Rows
    <3>3. CASE i'[t] = i[t] /\ pc'[t] = "Merge"
      BY <1>2, <1>7, <3>1, <3>3 DEF Finished
    <3>4. CASE i'[t] = i[t] + 1 /\ pc'[t] \in {"Pivot", "EndOfOp"}
      BY <1>2, <1>7, <3>1, <3>2, <3>4 DEF Finished
    <3> QED
      BY <3>1, <3>3, <3>4
  <2> QED
    BY <2>1, <2>2, <2>3, <2>4, FactorCases
<1> QED
  BY <1>6, <1>7

(* The rows of a column that are not pivots are those in todo.             *)
LEMMA TodoInColumn ==
  ASSUME PivotInv, MatrixTypes, Factoring, pc[0] # "Publish"
  PROVE  \A r \in Rows : r \in todo <=> \A c \in Rows : piv[c] # r
BY DEF PivotInv, MatrixTypes

(* Who arrives at the end of a column was done with all of its rows.       *)
LEMMA FinishedAtArrival ==
  ASSUME FactorInv, caller # "Terminated", caller' # "Terminated",
         NEW t \in Threads, ArriveAtColumn(t),
         NEW d \in Rows, NEW r \in todo, r % nThreads = t, d = i[t] => r \in ToSet(ri[d])
  PROVE  Finished(t, d, r)' <=> Finished(t, d, r)
<1>1. /\ PoolInv /\ PoolTypes /\ MatrixTypes /\ ThreadTypes /\ ColumnsInv /\ BarrierInv
      /\ PivotInv /\ ListsInv
  BY DEF FactorInv, PoolInv
<1>2. Factoring /\ Begun(t) /\ Begun(t)' /\ i[t] \in Rows
  BY <1>1, FactorFrame, FactorMoves DEF pnaivfct, ColumnsInv
<1>3. pc[t] = "Rows" /\ pc'[t] = "Column" /\ UNCHANGED <<ri, i, k>> /\ Mine(t) = {}
  BY <1>1 DEF ArriveAtColumn, PoolTypes, lists, locals
<1>4. CASE d # i[t]
  BY <1>2, <1>3, <1>4 DEF Finished
<1>5. CASE d = i[t]
  <2>1. PICK n \in DOMAIN ri[d] : ri[d][n] = r
    BY <1>5 DEF ToSet
  <2>2. ~ (n >= k[t])
    BY <1>3, <1>5, <2>1 DEF Mine
  <2>3. n \in Nat /\ k[t] \in Nat
    BY <1>1, <2>1, Places DEF ThreadTypes
  <2>4. n < k[t]
    BY <2>2, <2>3
  <2> QED
    BY <1>2, <1>3, <1>5, <2>1, <2>4 DEF Finished
<1> QED
  BY <1>4, <1>5

(* A row that is subtracted from is finished with that, and no other is.   *)
LEMMA FinishedAtElimination ==
  ASSUME FactorInv, caller # "Terminated", caller' # "Terminated",
         NEW t \in Threads, EliminateRow(t), NEW n \in DOMAIN ri[i[t]], NEW p, NEW new,
         Subtracted(t, n, p, new)
  PROVE  /\ \A r \in todo, d \in Rows : r % nThreads = t =>
              (Finished(t, d, r)' <=> Finished(t, d, r) \/ (d = i[t] /\ r = p))
         /\ ~ Finished(t, i[t], p)
<1>0. /\ n >= k[t] /\ p = ri[i[t]][n]
      /\ \A m \in DOMAIN ri[i[t]] :
           m >= k[t] /\ m < n => ~ (ri[i[t]][m] \in todo /\ ri[i[t]][m] % nThreads = t)
      /\ k' = [k EXCEPT ![t] = IF new = <<>> THEN n + 1 ELSE n]
      /\ pc' = [pc EXCEPT ![t] = IF new = <<>> THEN @ ELSE "Lock"]
  BY DEF Subtracted
<1>1. /\ PoolInv /\ PoolTypes /\ MatrixTypes /\ ThreadTypes /\ ColumnsInv /\ BarrierInv
      /\ PivotInv /\ ListsInv
  BY DEF FactorInv, PoolInv
<1>2. /\ Factoring /\ Begun(t) /\ Begun(t)' /\ i[t] \in Rows
  BY <1>1, FactorFrame, FactorMoves DEF pnaivfct, ColumnsInv
<1>3. pc[t] = "Rows" /\ UNCHANGED <<ri, i>>
  BY DEF EliminateRow, lists
<1>4. \/ pc'[t] = "Rows" /\ k'[t] = n + 1
      \/ pc'[t] = "Lock" /\ k'[t] = n
  BY <1>0, <1>1, <1>3 DEF PoolTypes, ThreadTypes
<1>a. PICK j \in Rows : j = i[t]
  BY <1>2
<1>b. PICK q : q = ri[j]
  OBVIOUS
<1>c. n \in DOMAIN q /\ q = ri[i[t]] /\ q = ri'[j] /\ i'[t] = j
  BY <1>3, <1>a, <1>b
<1>5. /\ n \in Nat /\ k[t] \in Nat
      /\ \A m \in DOMAIN q : m \in Nat
  <2>1. \A m \in DOMAIN q : m \in Nat
    BY <1>1, <1>b, Places
  <2>2. k[t] \in Nat
    BY <1>1 DEF ThreadTypes
  <2> QED
    BY <2>1, <2>2, <1>c
<1>6. \A m, o \in DOMAIN q : q[m] = q[o] => m = o
  BY <1>1, <1>2, <1>c DEF ListsInv, IsInjective
<1>7. ~ (j > j)
  BY RowsOrder
<1>8. ~ Finished(t, j, q[n])
  <2>1. \A m \in DOMAIN q : q[m] = q[n] => ~ (m < k[t])
    BY <1>0, <1>5, <1>6, <1>c
  <2> QED
    BY <1>3, <1>7, <1>a, <1>b, <2>1 DEF Finished
<1>9. \A r, d : d # j => (Finished(t, d, r)' <=> Finished(t, d, r))
  BY <1>2, <1>3, <1>4, <1>a DEF Finished
<1>10. \A r : Finished(t, j, r)' <=> \E m \in DOMAIN q : q[m] = r /\ m <= n
  <2>1. \A m \in DOMAIN q : m < n + 1 <=> m <= n
    BY <1>5
  <2> QED
    BY <1>2, <1>4, <1>7, <1>c, <2>1 DEF Finished
<1>11. \A r : Finished(t, j, r) <=> \E m \in DOMAIN q : q[m] = r /\ m < k[t]
  BY <1>2, <1>3, <1>7, <1>a, <1>b DEF Finished
<1>12. ASSUME NEW r \in todo, r % nThreads = t
       PROVE  Finished(t, j, r)' <=> Finished(t, j, r) \/ r = q[n]
  <2>1. \A m \in DOMAIN q : m <= n => m < k[t] \/ m = n \/ (m >= k[t] /\ m < n)
    BY <1>5
  <2>2. \A m \in DOMAIN q : m < k[t] => m <= n
    BY <1>0, <1>5
  <2>3. \A m \in DOMAIN q : q[m] = r => ~ (m >= k[t] /\ m < n)
    BY <1>0, <1>12, <1>c
  <2>4. n <= n /\ n \in DOMAIN q
    BY <1>5, <1>c
  <2> DEFINE f == Finished(t, j, r)
             g == Finished(t, j, r)'
             h == k[t]
  <2>5. /\ g <=> \E m \in DOMAIN q : q[m] = r /\ m <= n
        /\ f <=> \E m \in DOMAIN q : q[m] = r /\ m < h
    BY <1>10, <1>11
  <2>6. g <=> f \/ r = q[n]
    <3> HIDE DEF f, g, h
    <3>1. ASSUME g PROVE f \/ r = q[n]
      BY <2>1, <2>3, <2>5, <3>1 DEF h
    <3>2. ASSUME f PROVE g
      BY <2>2, <2>5, <3>2 DEF h
    <3>3. ASSUME r = q[n] PROVE g
      BY <2>4, <2>5, <3>3
    <3> QED
      BY <3>1, <3>2, <3>3
  <2> QED
    BY <2>6
<1>13. ASSUME NEW r \in todo, NEW d \in Rows, r % nThreads = t
       PROVE  Finished(t, d, r)' <=> Finished(t, d, r) \/ (d = j /\ r = q[n])
  BY <1>9, <1>12, <1>13
<1> QED
  BY <1>0, <1>8, <1>13, <1>a, <1>c

-----------------------------------------------------------------------------
\* What is filled and what is applied.

\* Entry c of row r, which its thread is done with in the column in hand.
Has(r, c) ==
  \/ c \in ToSet(ci[r])
  \/ /\ pc[r % nThreads] \in {"Lock", "Fill"}
     /\ r = RowInHand(r % nThreads)
     /\ c \in ToSet(cols[r % nThreads])

(* A thread that stays where it is leaves its row in hand as it is, while  *)
(* rows do not lose entries.                                               *)
LEMMA HasKept ==
  ASSUME NEW r, NEW c, Has(r, c), ToSet(ci[r]) \subseteq ToSet(ci'[r]),
         NEW t, t = r % nThreads,
         \/ UNCHANGED <<pc[t], i[t], k[t], cols[t], ri>>
         \/ pc[t] \notin {"Lock", "Fill"}
  PROVE  Has(r, c)'
<1>1. CASE pc[t] \notin {"Lock", "Fill"}
  BY <1>1 DEF Has
<1>2. CASE UNCHANGED <<pc[t], i[t], k[t], cols[t], ri>>
  BY <1>2 DEF Has, RowInHand
<1> QED
  BY <1>1, <1>2

(* Every step preserves FilledInv: a thread is not done with a row before  *)
(* it has, or is getting, the entries of the pivot row.                    *)
LEMMA FilledNext ==
  ASSUME FactorInv, [Next]_vars
  PROVE  FilledInv'
<1>1. /\ PoolInv /\ PoolTypes /\ MatrixTypes /\ ThreadTypes /\ ColumnsInv /\ BarrierInv
      /\ PivotInv /\ ListsInv /\ FillInv /\ FilledInv
  BY DEF FactorInv, PoolInv
<1> DEFINE Goal(j) ==
      \A r \in todo : r \in ToSet(ri[j]) /\ Finished(r % nThreads, j, r) =>
        \A c \in ToSet(ci[piv[j]]) : c > j => Has(r, c)
<1>2. FilledInv <=> (Factoring /\ pc[0] \in InColumn => Goal(i[0]))
  BY DEF FilledInv, Has
<1>3. FilledInv' <=> (Factoring' /\ pc'[0] \in InColumn => Goal(i[0])')
  BY DEF FilledInv, Has, InColumn
<1>4. CASE (caller # "Terminated" /\ QuietStep) \/ UNCHANGED vars
  <2>1. /\ UNCHANGED <<ci, ri, piv, todo, i, k, cols>>
        /\ Factoring' => Factoring
        /\ Factoring' => \A t \in Threads : Begun(t)' <=> Begun(t)
        /\ \A t \in Threads :
              \/ pc'[t] = pc[t]
              \/ pc[t] \in {"EndOfOp", "Exit"} /\ pc'[t] \in {"Acquire", "Gone"}
    BY <1>1, <1>4, QuietFrame
  <2>2. pc'[0] \in InColumn => pc[0] \in InColumn
    BY <2>1, ThreadsFinite DEF InColumn
  <2>3. ASSUME Factoring', NEW t \in Threads, NEW d, NEW r, Finished(t, d, r)'
        PROVE  Finished(t, d, r)
    BY <2>1, <2>3 DEF Finished
  <2>4. \A r \in todo : \A c : Has(r, c) => Has(r, c)'
    <3>1. \A r \in todo : r % nThreads \in Threads
      BY <1>1, Owners DEF MatrixTypes
    <3> QED
      BY <2>1, <3>1, HasKept
  <2>5. ASSUME Factoring', pc'[0] \in InColumn PROVE Goal(i[0])'
    <3>1. Goal(i[0])
      BY <1>1, <1>2, <2>1, <2>2, <2>5
    <3>2. \A r \in todo : r % nThreads \in Threads
      BY <1>1, Owners DEF MatrixTypes
    <3> QED
      BY <2>1, <2>3, <2>4, <2>5, <3>1, <3>2
  <2> QED
    BY <1>3, <2>5
<1>5. CASE Assemble \/ Solve \/ CollectFactor
  <2>1. CASE Assemble
    BY <1>1, <2>1 DEF Assemble, Factoring, PoolInv, PlacesOfOp, pool, FilledInv
  <2>2. CASE CollectFactor
    BY <2>2 DEF CollectFactor, Substitute, Dispatch, Factoring, FilledInv
  <2>3. CASE Solve
    <3>1. pc' = pc /\ Pending = {}
      BY <1>1, <2>3 DEF Solve, PoolInv, Waiting
    <3> QED
      BY <3>1, ThreadsFinite DEF Pending, FilledInv, InColumn
  <2> QED
    BY <1>5, <2>1, <2>2, <2>3
<1>6. ASSUME NEW t \in Threads, caller # "Terminated", pnaivslv(t) PROVE FilledInv'
  BY <1>1, <1>6, SolveFrame DEF Factoring, FilledInv
<1>7. ASSUME NEW t \in Threads, caller # "Terminated", Start(t) PROVE FilledInv'
  <2>1. /\ pc'[t] \in {"Pivot", "First", "Exit"} /\ pc[t] = "Acquire" /\ i'[t] = 0
        /\ \A u \in Threads : u # t => /\ pc'[u] = pc[u] /\ i'[u] = i[u]
                                       /\ (Begun(u)' <=> Begun(u))
        /\ UNCHANGED <<op, caller, ci, ri, piv, todo, k, cols>>
    BY <1>1, <1>7, StartFrame
  <2>2. ASSUME Factoring', pc'[0] \in InColumn PROVE Goal(i[0])'
    <3>1. t # 0 /\ pc[0] \in InColumn /\ Factoring /\ i'[0] = i[0]
      BY <2>1, <2>2, ThreadsFinite DEF InColumn, Factoring
    <3>2. i[0] \in Rows
      <4>1. pc[0] \in FactorPlaces /\ pc[0] # "Acquire"
        BY <3>1 DEF InColumn, FactorPlaces
      <4> QED
        BY <1>1, <1>7, <3>1, <4>1, AtWork, ThreadsFinite DEF ColumnsInv
    <3>3. Goal(i[0])
      BY <1>1, <1>2, <3>1
    <3>4. ASSUME NEW u \in Threads, NEW d \in Rows, NEW r, Finished(u, d, r)'
          PROVE  Finished(u, d, r)
      <4>1. CASE u = t
        <5>1. ~ (0 > d)
          BY RowsOrder, RowsFacts
        <5> QED
          BY <2>1, <3>4, <4>1, <5>1 DEF Finished
      <4>2. CASE u # t
        BY <2>1, <3>4, <4>2 DEF Finished
      <4> QED
        BY <4>1, <4>2
    <3>5. \A r \in todo : r % nThreads \in Threads
      BY <1>1, Owners DEF MatrixTypes
    <3>6. \A r \in todo : \A c : Has(r, c) => Has(r, c)'
      <4> SUFFICES ASSUME NEW r \in todo, NEW c, Has(r, c) PROVE Has(r, c)'
        OBVIOUS
      <4>1. ToSet(ci[r]) \subseteq ToSet(ci'[r])
        BY <2>1
      <4>2. CASE r % nThreads = t
        BY <2>1, <4>1, <4>2, HasKept
      <4>3. CASE r % nThreads # t
        BY <2>1, <3>5, <4>1, <4>3, HasKept
      <4> QED
        BY <4>2, <4>3
    <3> QED
      BY <2>1, <3>1, <3>2, <3>3, <3>4, <3>5, <3>6
  <2> QED
    BY <1>3, <2>2
<1>8. ASSUME NEW t \in Threads, caller # "Terminated", pnaivfct(t), caller' # "Terminated"
      PROVE  FilledInv'
  <2>1. /\ Factoring /\ Begun(t) /\ 0 \in Threads
        /\ \A u \in Threads : Begun(u)' <=> Begun(u)
        /\ \A u \in Threads : u # t => /\ pc'[u] = pc[u] /\ i'[u] = i[u]
                                       /\ k'[u] = k[u] /\ cols'[u] = cols[u]
    BY <1>1, <1>8, FactorFrame, ThreadsFinite
  <2>2. i[t] \in Rows
    BY <1>1, <1>8, <2>1, FactorMoves DEF ColumnsInv
  <2>3. \A r \in todo : r \in Rows /\ r % nThreads \in Threads
    BY <1>1, Owners DEF MatrixTypes
  <2>4. CASE t = 0 /\ (ChoosePivot \/ Merge)
    <3>1. pc'[0] \notin InColumn
      BY <1>1, <2>1, <2>4 DEF ChoosePivot, Merge, NextColumn, PoolTypes, InColumn
    <3> QED
      BY <1>3, <3>1
  <2>5. CASE t = 0 /\ PublishPivot
    <3>1. PICK j \in Rows : j = i[0]
      BY <2>2, <2>5
    <3>2. pc[0] = "Publish" /\ i'[0] = j
      BY <2>5, <3>1 DEF PublishPivot
    <3>3. ~ EliminateRow(t) /\ ~ ArriveAtColumn(t)
      BY <2>5, <3>2 DEF EliminateRow, ArriveAtColumn
    <3>4. \A u \in Threads, r \in Rows : ~ Finished(u, j, r)
      BY <1>1, <1>8, <3>1, <3>2, BeforePivot, FinishedMeans, RowsOrder
    <3>5. \A u \in Threads, r \in Rows : ~ Finished(u, j, r)'
      BY <1>8, <3>3, <3>4, FinishedNext
    <3>6. todo' = todo
      BY <2>5 DEF PublishPivot
    <3>7. Goal(i[0])'
      BY <2>3, <3>2, <3>5, <3>6
    <3> QED
      BY <1>3, <3>7
  <2>6. CASE AwaitPivot(t) \/ LeaveColumn(t) \/ TestAndSet(t)
             \/ EliminateRow(t) \/ ArriveAtColumn(t) \/ Fill(t)
    <3> SUFFICES ASSUME pc'[0] \in InColumn PROVE Goal(i[0])'
      BY <1>3
    <3>1. UNCHANGED <<ri, todo, piv>>
      BY <2>6 DEF AwaitPivot, LeaveColumn, TestAndSet, EliminateRow, ArriveAtColumn, Fill, lists
    <3>2. pc[0] \in InColumn /\ i'[0] = i[0]
      <4>1. CASE t # 0
        BY <2>1, <4>1
      <4>2. CASE t = 0
        BY <1>1, <2>6, <4>2 DEF AwaitPivot, LeaveColumn, TestAndSet, EliminateRow, InColumn,
           ArriveAtColumn, Fill, PoolTypes, locals
      <4> QED
        BY <4>1, <4>2
    <3>3. PICK j \in Rows : j = i[0]
      <4>1. pc[0] \in FactorPlaces /\ pc[0] # "Acquire"
        BY <3>2 DEF InColumn, FactorPlaces
      <4> QED
        BY <1>1, <1>8, <2>1, <4>1, AtWork DEF ColumnsInv
    <3>4. /\ i[0] = j /\ i'[0] = j
          /\ \A r \in todo : r \in ToSet(ri[j]) /\ Finished(r % nThreads, j, r) =>
               \A c \in ToSet(ci[piv[j]]) : c > j => Has(r, c)
      BY <1>1, <1>2, <2>1, <3>2, <3>3
    <3> SUFFICES ASSUME NEW r \in todo, r \in ToSet(ri[j]), Finished(r % nThreads, j, r)',
                        NEW c \in ToSet(ci'[piv[j]]), c > j
                 PROVE  Has(r, c)'
      BY <3>1, <3>4
    <3>5. CASE r % nThreads # t \/ AwaitPivot(t) \/ LeaveColumn(t)
               \/ TestAndSet(t) \/ ArriveAtColumn(t)
      <4>1. Finished(r % nThreads, j, r)
        <5>1. CASE r % nThreads # t
          BY <2>1, <2>3, <3>1, <5>1, FinishedKept
        <5>2. CASE r % nThreads = t /\ ArriveAtColumn(t)
          <6>1. Finished(t, j, r)' <=> Finished(t, j, r)
            BY <1>8, <2>3, <3>3, <5>2, FinishedAtArrival
          <6> QED
            BY <5>2, <6>1
        <5>3. CASE AwaitPivot(t) \/ LeaveColumn(t) \/ TestAndSet(t)
          <6>1. ~ EliminateRow(t) /\ ~ ArriveAtColumn(t)
            BY <5>3 DEF AwaitPivot, LeaveColumn, TestAndSet, EliminateRow, ArriveAtColumn
          <6> QED
            BY <1>8, <2>3, <6>1, FinishedNext
        <5> QED
          BY <3>5, <5>1, <5>2, <5>3
      <4>2. CASE c \in ToSet(ci[piv[j]]) /\ ToSet(ci[r]) \subseteq ToSet(ci'[r])
        <5>1. Has(r, c)
          BY <3>4, <4>1, <4>2
        <5>2. CASE r % nThreads # t
          BY <2>1, <2>3, <3>1, <4>2, <5>1, <5>2, HasKept
        <5>3. CASE AwaitPivot(t) \/ LeaveColumn(t) \/ ArriveAtColumn(t)
          <6>1. pc[t] \notin {"Lock", "Fill"}
            BY <5>3 DEF AwaitPivot, LeaveColumn, ArriveAtColumn
          <6> QED
            BY <4>2, <5>1, <5>2, <6>1, HasKept
        <5>4. CASE r % nThreads = t /\ TestAndSet(t)
          <6>1. pc'[t] \in {"Lock", "Fill"} /\ UNCHANGED <<ci, ri, i, k, cols>>
            BY <1>1, <5>4 DEF TestAndSet, PoolTypes, lists, locals
          <6> QED
            BY <5>1, <5>4, <6>1 DEF Has, RowInHand
        <5> QED
          BY <3>5, <5>2, <5>3, <5>4
      <4>3. c \in ToSet(ci[piv[j]]) /\ ToSet(ci[r]) \subseteq ToSet(ci'[r])
        <5>1. CASE ~ Fill(t)
          BY <2>6, <5>1 DEF AwaitPivot, LeaveColumn, TestAndSet, EliminateRow, ArriveAtColumn,
             lists
        <5>2. CASE Fill(t)
          <6>1. PICK d \in Rows, q \in Rows : Filled(t, d, q)
            BY <1>8, <5>2, FillFacts
          <6>2. /\ q \in todo /\ ToSet(ci'[q]) = ToSet(ci[q]) \cup {d}
                /\ \A p \in Rows : p # q => ci'[p] = ci[p]
            BY <1>1, <6>1 DEF Filled, MatrixTypes
          <6>3. pc[t] = "Fill"
            BY <5>2 DEF Fill
          <6>4. i[t] = j /\ piv[j] \in Rows
            BY <1>1, <1>8, <3>3, <6>3, SameColumn
          <6>5. piv[j] # q
            BY <1>1, <2>1, <6>2, PivotIsDone
          <6> QED
            BY <2>3, <6>2, <6>4, <6>5
        <5> QED
          BY <5>1, <5>2
      <4> QED
        BY <4>2, <4>3
    <3>6. CASE r % nThreads = t /\ EliminateRow(t)
      <4>0. PICK n \in DOMAIN ri[i[t]], q \in Rows, new \in Seq(Rows) : Subtracted(t, n, q, new)
        BY <1>8, <3>6, EliminateRowFacts
      <4>1. /\ ri[i[t]][n] = q
            /\ ToSet(new) = {d \in ToSet(ci[piv[i[t]]]) : d > i[t] /\ d \notin ToSet(ci[q])}
            /\ cols' = [cols EXCEPT ![t] = new]
            /\ k' = [k EXCEPT ![t] = IF new = <<>> THEN n + 1 ELSE n]
            /\ pc' = [pc EXCEPT ![t] = IF new = <<>> THEN @ ELSE "Lock"]
        BY <4>0 DEF Subtracted
      <4>2. pc[t] = "Rows" /\ ci' = ci /\ i' = i
        BY <3>6 DEF EliminateRow, lists
      <4>3. i[t] = j
        BY <1>1, <1>8, <3>3, <4>2, SameColumn
      <4>4. Finished(t, j, r) \/ r = q
        <5>1. \A p \in todo, d \in Rows : p % nThreads = t =>
                (Finished(t, d, p)' <=> Finished(t, d, p) \/ (d = i[t] /\ p = q))
          BY <1>8, <3>6, <4>0, FinishedAtElimination
        <5>2. Finished(t, j, r)' <=> Finished(t, j, r) \/ (j = i[t] /\ r = q)
          BY <3>6, <5>1
        <5> QED
          BY <3>6, <5>2
      <4>5. CASE Finished(t, j, r)
        <5>1. Has(r, c)
          BY <3>4, <3>6, <4>2, <4>5
        <5> QED
          BY <3>6, <4>2, <5>1, HasKept
      <4>6. CASE r = q
        <5>1. c \in ToSet(ci[r]) \/ c \in ToSet(new)
          BY <4>1, <4>2, <4>3, <4>6
        <5>2. CASE c \in ToSet(ci[r])
          BY <4>2, <5>2 DEF Has
        <5>3. CASE c \in ToSet(new)
          <6>1. new # <<>>
            BY <5>3 DEF ToSet
          <6>2. pc'[t] = "Lock" /\ cols'[t] = new /\ k'[t] = n
            BY <1>1, <4>1, <6>1 DEF PoolTypes, ThreadTypes
          <6>3. RowInHand(t)' = r
            BY <3>1, <4>1, <4>2, <4>6, <6>2 DEF RowInHand
          <6> QED
            BY <3>6, <5>3, <6>2, <6>3 DEF Has
        <5> QED
          BY <5>1, <5>2, <5>3
      <4> QED
        BY <4>4, <4>5, <4>6
    <3>7. CASE r % nThreads = t /\ Fill(t)
      <4>1. PICK d \in Rows, q \in Rows : Filled(t, d, q)
        BY <1>8, <3>7, FillFacts
      <4>2. /\ q \in todo /\ q = RowInHand(t) /\ ToSet(ci'[q]) = ToSet(ci[q]) \cup {d}
            /\ \A p \in Rows : p # q => ci'[p] = ci[p]
            /\ ToSet(cols[t]) = {d} \cup ToSet(cols'[t])
            /\ \/ cols'[t] = <<>>
               \/ pc'[t] = "Lock" /\ k'[t] = k[t]
        BY <1>1, <4>1 DEF Filled, MatrixTypes
      <4>3. pc[t] = "Fill" /\ UNCHANGED <<ri, i>>
        BY <3>7 DEF Fill
      <4>4. i[t] = j /\ piv[j] \in Rows
        BY <1>1, <1>8, <3>3, <4>3, SameColumn
      <4>5. piv[j] # q
        BY <1>1, <2>1, <4>2, PivotIsDone
      <4>6. c \in ToSet(ci[piv[j]])
        BY <4>2, <4>4, <4>5
      <4>7. ~ EliminateRow(t) /\ ~ ArriveAtColumn(t)
        BY <4>3 DEF EliminateRow, ArriveAtColumn
      <4>8. Finished(r % nThreads, j, r)
        BY <1>8, <2>3, <4>7, FinishedNext
      <4>9. Has(r, c)
        BY <3>4, <4>6, <4>8
      <4>10. CASE c \in ToSet(ci'[r])
        BY <4>10 DEF Has
      <4>11. CASE c \notin ToSet(ci'[r])
        <5>1. c \notin ToSet(ci[r])
          BY <2>3, <4>2, <4>11
        <5>2. r = q /\ c \in ToSet(cols[t])
          BY <3>7, <4>2, <4>9, <5>1 DEF Has
        <5>3. c \in ToSet(cols'[t])
          BY <4>2, <4>11, <5>2
        <5>4. cols'[t] # <<>>
          BY <5>3 DEF ToSet
        <5>5. pc'[t] = "Lock" /\ RowInHand(t)' = r
          BY <4>2, <4>3, <5>2, <5>4 DEF RowInHand
        <5> QED
          BY <3>7, <5>3, <5>5 DEF Has
      <4> QED
        BY <4>10, <4>11
    <3> QED
      BY <2>6, <3>5, <3>6, <3>7
  <2> QED
    BY <1>8, <2>4, <2>5, <2>6, FactorCases
<1> QED
  BY <1>1, <1>4, <1>5, <1>6, <1>7, <1>8, StepCases

(* The columns of a row are columns.                                       *)
LEMMA InRows ==
  ASSUME MatrixTypes, NEW r \in Rows
  PROVE  /\ \A d \in ToSet(ci[r]) : d \in Rows
         /\ \A d \in ToSet(ri[r]) : d \in Rows
         /\ \A d \in ToSet(applied[r]) : d \in Rows
<1>1. ASSUME NEW q \in Seq(Rows) PROVE \A d \in ToSet(q) : d \in Rows
  BY DEF ToSet
<1>2. ci[r] \in Seq(Rows) /\ ri[r] \in Seq(Rows) /\ applied[r] \in Seq(Rows)
  BY DEF MatrixTypes
<1> QED
  BY <1>1, <1>2

(* Steps that apply no column and finish no entry keep AppliedInv.         *)
LEMMA AppliedKept ==
  ASSUME AppliedInv, MatrixTypes, MatrixTypes', Factoring' => Factoring,
         Factoring' =>
           /\ UNCHANGED <<applied, piv>>
           /\ \A c \in Rows : piv[c] \in Rows => ci'[piv[c]] = ci[piv[c]]
           /\ \A r, d \in Rows : (\A c \in Rows : piv[c] # r) =>
                (d \in ToSet(ci'[r]) /\ Finished(r % nThreads, d, r)'
                  <=> d \in ToSet(ci[r]) /\ Finished(r % nThreads, d, r))
  PROVE  AppliedInv'
<1> SUFFICES ASSUME Factoring'
             PROVE  /\ \A r \in Rows : (\A c \in Rows : piv'[c] # r) =>
                         /\ Ascending(applied'[r])
                         /\ ToSet(applied'[r]) =
                              {d \in ToSet(ci'[r]) : Finished(r % nThreads, d, r)'}
                    /\ \A c \in Rows : piv'[c] \in Rows =>
                         /\ Ascending(applied'[piv'[c]])
                         /\ ToSet(applied'[piv'[c]]) = Before(piv[c], c)'
  BY DEF AppliedInv
<1>1. /\ \A r \in Rows : (\A c \in Rows : piv[c] # r) =>
           /\ Ascending(applied[r])
           /\ ToSet(applied[r]) = {d \in ToSet(ci[r]) : Finished(r % nThreads, d, r)}
      /\ \A c \in Rows : piv[c] \in Rows =>
           /\ Ascending(applied[piv[c]])
           /\ ToSet(applied[piv[c]]) = Before(piv[c], c)
  BY DEF AppliedInv
<1>2. ASSUME NEW r \in Rows, \A c \in Rows : piv'[c] # r
      PROVE  /\ Ascending(applied'[r])
             /\ ToSet(applied'[r]) = {d \in ToSet(ci'[r]) : Finished(r % nThreads, d, r)'}
  <2>1. \A c \in Rows : piv[c] # r
    BY <1>2
  <2>2. /\ Ascending(applied[r])
        /\ ToSet(applied[r]) = {d \in ToSet(ci[r]) : Finished(r % nThreads, d, r)}
    BY <1>1, <2>1
  <2>3. {d \in ToSet(ci[r]) : Finished(r % nThreads, d, r)}
          = {d \in ToSet(ci'[r]) : Finished(r % nThreads, d, r)'}
    <3>1. (\A d \in ToSet(ci[r]) : d \in Rows)
      BY InRows
    <3>2. \A d \in ToSet(ci'[r]) : d \in Rows
      <4>1. ASSUME NEW q \in Seq(Rows) PROVE \A d \in ToSet(q) : d \in Rows
        BY DEF ToSet
      <4>2. ci'[r] \in Seq(Rows)
        BY DEF MatrixTypes
      <4> QED
        BY <4>1, <4>2
    <3> QED
      BY <2>1, <3>1, <3>2
  <2> QED
    BY <2>2, <2>3
<1>3. ASSUME NEW c \in Rows, piv'[c] \in Rows
      PROVE  /\ Ascending(applied'[piv'[c]])
             /\ ToSet(applied'[piv'[c]]) = Before(piv[c], c)'
  <2>1. piv'[c] = piv[c] /\ applied' = applied /\ ci'[piv[c]] = ci[piv[c]]
    BY <1>3
  <2>2. Before(piv[c], c)' = Before(piv[c], c)
    BY <2>1 DEF Before
  <2> QED
    BY <1>1, <1>3, <2>1, <2>2
<1> QED
  BY <1>2, <1>3

(* Every step preserves AppliedInv: a column is applied to a row at the    *)
(* step that finishes the row, and none twice; a row that becomes a pivot  *)
(* has had the columns before its own.                                     *)
LEMMA AppliedNext ==
  ASSUME FactorInv, MatrixTypes', [Next]_vars
  PROVE  AppliedInv'
<1>1. /\ PoolInv /\ PoolTypes /\ MatrixTypes /\ ThreadTypes /\ ColumnsInv /\ BarrierInv
      /\ PivotInv /\ ListsInv /\ FillInv /\ AppliedInv /\ FactoredInv
  BY DEF FactorInv, PoolInv
<1>2. CASE (caller # "Terminated" /\ QuietStep) \/ UNCHANGED vars
  <2>1. /\ UNCHANGED <<ci, ri, piv, applied, i, k>>
        /\ Factoring' => Factoring
        /\ Factoring' => \A t \in Threads : Begun(t)' <=> Begun(t)
        /\ \A t \in Threads :
              \/ pc'[t] = pc[t]
              \/ pc[t] \in {"EndOfOp", "Exit"} /\ pc'[t] \in {"Acquire", "Gone"}
    BY <1>1, <1>2, QuietFrame
  <2>2. ASSUME Factoring', NEW t \in Threads, NEW d, NEW r
        PROVE  Finished(t, d, r)' <=> Finished(t, d, r)
    BY <2>1, <2>2 DEF Finished
  <2>3. Factoring' => \A r, d \in Rows :
          Finished(r % nThreads, d, r)' <=> Finished(r % nThreads, d, r)
    BY <2>2, Owners
  <2> QED
    BY <1>1, <2>1, <2>3, AppliedKept
<1>3. CASE Assemble \/ CollectFactor
  BY <1>1, <1>3 DEF Assemble, CollectFactor, Substitute, Dispatch, Factoring, PoolInv,
     PlacesOfOp, pool, AppliedInv
<1>4. CASE Solve
  <2>1. CASE ~ bHasBeenReset
    BY <2>1, <1>4 DEF Solve, Substitute, Dispatch, Factoring, AppliedInv
  <2>2. CASE bHasBeenReset
    <3>1. /\ Factor /\ \A r \in Rows : applied'[r] = <<>>
      BY <1>1, <1>4, <2>2 DEF Solve, FactoredInv
    <3>2. \A c \in Rows : piv'[c] = -1
      BY <3>1 DEF Factor
    <3>3. \A r \in Rows : Ascending(applied'[r]) /\ ToSet(applied'[r]) = {}
      BY <3>1 DEF Ascending, ToSet
    <3>4. \A t \in Threads : ~ Begun(t)'
      BY <3>1, DispatchFrame DEF Factor
    <3>5. \A r, d \in Rows : ~ Finished(r % nThreads, d, r)'
      BY <3>4, Owners DEF Finished
    <3>6. -1 \notin Rows
      BY DEF Rows
    <3>7. \A r \in Rows : {d \in ToSet(ci'[r]) : Finished(r % nThreads, d, r)'} = {}
      <4>1. \A r \in Rows : \A d \in ToSet(ci'[r]) : d \in Rows
        <5>1. ASSUME NEW q \in Seq(Rows) PROVE \A d \in ToSet(q) : d \in Rows
          BY DEF ToSet
        <5>2. \A r \in Rows : ci'[r] \in Seq(Rows)
          BY DEF MatrixTypes
        <5> QED
          BY <5>1, <5>2
      <4> QED
        BY <3>5, <4>1
    <3> QED
      BY <3>2, <3>3, <3>6, <3>7 DEF AppliedInv
  <2> QED
    BY <2>1, <2>2
<1>5. ASSUME NEW t \in Threads, caller # "Terminated", pnaivslv(t) PROVE AppliedInv'
  BY <1>1, <1>5, SolveFrame DEF Factoring, AppliedInv
<1>6. ASSUME NEW t \in Threads, caller # "Terminated", Start(t) PROVE AppliedInv'
  <2>1. /\ ~ Begun(t) /\ pc'[t] \in {"Pivot", "First", "Exit"} /\ i'[t] = 0
        /\ pc[t] = "Acquire"
        /\ \A u \in Threads : u # t => /\ pc'[u] = pc[u] /\ i'[u] = i[u]
                                       /\ (Begun(u)' <=> Begun(u))
        /\ UNCHANGED <<op, caller, ci, ri, piv, applied, k>>
    BY <1>1, <1>6, StartFrame
  <2>2. \A r, d \in Rows : Finished(t, d, r)' <=> Finished(t, d, r)
    <3>1. \A d \in Rows : ~ (0 > d)
      BY RowsOrder, RowsFacts
    <3> QED
      BY <2>1, <3>1 DEF Finished
  <2>3. \A u \in Threads : u # t =>
          \A r, d \in Rows : Finished(u, d, r)' <=> Finished(u, d, r)
    BY <2>1, FinishedKept
  <2>4. \A r, d \in Rows : Finished(r % nThreads, d, r)' <=> Finished(r % nThreads, d, r)
    BY <2>2, <2>3, Owners
  <2>5. Factoring' => Factoring
    BY <2>1 DEF Factoring
  <2> QED
    BY <1>1, <2>1, <2>4, <2>5, AppliedKept

<1>7. ASSUME NEW t \in Threads, caller # "Terminated", pnaivfct(t), caller' # "Terminated"
      PROVE  AppliedInv'
  <2>1. Factoring /\ Factoring' /\ t \in Threads /\ caller # "Terminated"
    BY <1>1, <1>7, FactorFrame
  <2>2. \A r \in Rows : r % nThreads \in Threads
    BY Owners
  <2>3. \A r \in Rows : /\ \A d \in ToSet(ci[r]) : d \in Rows
                        /\ \A d \in ToSet(ci'[r]) : d \in Rows
    <3>1. ASSUME NEW q \in Seq(Rows) PROVE \A d \in ToSet(q) : d \in Rows
      BY DEF ToSet
    <3>2. \A r \in Rows : ci[r] \in Seq(Rows) /\ ci'[r] \in Seq(Rows)
      BY <1>1 DEF MatrixTypes
    <3> QED
      BY <3>1, <3>2
  <2>4. /\ \A r \in Rows : (\A c \in Rows : piv[c] # r) =>
             /\ Ascending(applied[r])
             /\ ToSet(applied[r]) = {d \in ToSet(ci[r]) : Finished(r % nThreads, d, r)}
        /\ \A c \in Rows : piv[c] \in Rows =>
             /\ Ascending(applied[piv[c]])
             /\ ToSet(applied[piv[c]]) = Before(piv[c], c)
    BY <1>1, <2>1 DEF AppliedInv
  <2>5. ~ EliminateRow(t) /\ ~ ArriveAtColumn(t) =>
          \A r, d \in Rows : Finished(r % nThreads, d, r)' <=> Finished(r % nThreads, d, r)
    BY <1>7, <2>2, FinishedNext
  <2>6. CASE \/ t = 0 /\ (ChoosePivot \/ Merge)
             \/ AwaitPivot(t) \/ TestAndSet(t) \/ LeaveColumn(t)
    <3>1. ~ EliminateRow(t) /\ ~ ArriveAtColumn(t)
      BY <2>6 DEF ChoosePivot, Merge, AwaitPivot, TestAndSet, LeaveColumn, EliminateRow,
         ArriveAtColumn
    <3>2. UNCHANGED <<ci, piv, applied>>
      BY <2>6 DEF ChoosePivot, Merge, AwaitPivot, TestAndSet, LeaveColumn, lists
    <3> QED
      BY <1>1, <2>1, <2>5, <3>1, <3>2, AppliedKept
  <2>7. CASE Fill(t)
    <3>1. PICK c \in Rows, q \in Rows : Filled(t, c, q)
      BY <1>7, <2>7, FillFacts
    <3>2. /\ q \in todo /\ q % nThreads = t /\ c > i[t] /\ c \notin ToSet(ci[q])
          /\ ToSet(ci'[q]) = ToSet(ci[q]) \cup {c}
          /\ \A r \in Rows : r # q => ci'[r] = ci[r]
      BY <1>1, <3>1 DEF Filled, MatrixTypes
    <3>3. UNCHANGED <<piv, applied>> /\ pc[t] = "Fill"
      BY <2>7 DEF Fill
    <3>4. i[t] \in Rows
      BY <1>1, <2>1, <3>3, SameColumn
    <3>5. ~ EliminateRow(t) /\ ~ ArriveAtColumn(t)
      BY <3>3 DEF EliminateRow, ArriveAtColumn
    <3>6. \A r, d \in Rows : Finished(r % nThreads, d, r)' <=> Finished(r % nThreads, d, r)
      BY <2>5, <3>5
    <3>7. ~ Finished(q % nThreads, c, q)
      <4>1. ~ (i[t] > c) /\ i[t] # c
        BY <3>2, <3>4, RowsOrder
      <4> QED
        BY <3>2, <4>1 DEF Finished
    <3>8. \A r, d \in Rows :
            d \in ToSet(ci'[r]) /\ Finished(r % nThreads, d, r)'
              <=> d \in ToSet(ci[r]) /\ Finished(r % nThreads, d, r)
      <4>1. ASSUME NEW r \in Rows, NEW d \in Rows
            PROVE  d \in ToSet(ci'[r]) /\ Finished(r % nThreads, d, r)
                     <=> d \in ToSet(ci[r]) /\ Finished(r % nThreads, d, r)
        <5>1. CASE r # q
          BY <3>2, <5>1
        <5>2. CASE r = q
          BY <3>2, <3>7, <5>2
        <5> QED
          BY <5>1, <5>2
      <4> QED
        BY <3>6, <4>1
    <3>9. \A d \in Rows : piv[d] \in Rows => ci'[piv[d]] = ci[piv[d]]
      BY <1>1, <2>1, <3>2, PivotIsDone
    <3> QED
      BY <1>1, <2>1, <3>3, <3>8, <3>9, AppliedKept

  <2>8. CASE t = 0 /\ PublishPivot
    <3>1. /\ pc[0] = "Publish" /\ UNCHANGED <<ci, applied>>
          /\ piv' = [piv EXCEPT ![i[0]] = pvr] /\ pvr \in Rows
      BY <1>1, <2>8 DEF PublishPivot, lists, MatrixTypes
    <3>2. PICK j \in Rows : j = i[0]
      BY <1>1, <2>1, <3>1, BeforePivot, ThreadsFinite
    <3>3. piv[j] \notin Rows /\ piv'[j] = pvr /\ \A c \in Rows : c # j => piv'[c] = piv[c]
      <4>1. j >= j
        BY RowsOrder
      <4>2. piv[j] \notin Rows
        BY <1>1, <2>1, <3>1, <3>2, <4>1, BeforePivot, ThreadsFinite
      <4> QED
        BY <1>1, <3>1, <3>2, <4>2 DEF MatrixTypes
    <3>4. ~ EliminateRow(t) /\ ~ ArriveAtColumn(t)
      BY <2>8, <3>1 DEF EliminateRow, ArriveAtColumn
    <3>5. \A r, d \in Rows : Finished(r % nThreads, d, r)' <=> Finished(r % nThreads, d, r)
      BY <2>5, <3>4
    <3>6. ASSUME NEW r \in Rows, \A c \in Rows : piv'[c] # r
          PROVE  /\ Ascending(applied'[r])
                 /\ ToSet(applied'[r]) = {d \in ToSet(ci'[r]) : Finished(r % nThreads, d, r)'}
      <4>1. \A c \in Rows : piv[c] # r
        BY <3>3, <3>6
      <4>2. {d \in ToSet(ci[r]) : Finished(r % nThreads, d, r)}
              = {d \in ToSet(ci'[r]) : Finished(r % nThreads, d, r)'}
        BY <2>3, <3>1, <3>5
      <4> QED
        BY <2>4, <3>1, <4>1, <4>2
    <3>7. ASSUME NEW c \in Rows, piv'[c] \in Rows
          PROVE  /\ Ascending(applied'[piv'[c]])
                 /\ ToSet(applied'[piv'[c]]) = Before(piv[c], c)'
      <4>1. CASE c # j
        <5>1. piv'[c] = piv[c] /\ Before(piv[c], c)' = Before(piv[c], c)
          BY <3>1, <3>3, <4>1 DEF Before
        <5> QED
          BY <2>4, <3>1, <3>7, <5>1
      <4>2. CASE c = j
        <5>1. \A d \in Rows : piv[d] # pvr
          BY <1>1, <2>1, <3>1 DEF PivotInv
        <5>2. /\ Ascending(applied[pvr])
              /\ ToSet(applied[pvr]) = {d \in ToSet(ci[pvr]) : Finished(pvr % nThreads, d, pvr)}
          BY <2>4, <3>1, <5>1
        <5>3. ASSUME NEW d \in Rows PROVE Finished(pvr % nThreads, d, pvr) <=> d < j
          <6>1. pvr % nThreads \in Threads
            BY <2>2, <3>1
          <6>2. /\ d < j => Arrived(pvr % nThreads, d)
                /\ d >= j => ~ Entered(pvr % nThreads, d)
            BY <1>1, <2>1, <3>1, <3>2, <6>1, BeforePivot
          <6>3. d < j \/ d >= j
            BY RowsOrder
          <6>4. ~ (d < j /\ d >= j)
            BY RowsOrder
          <6> QED
            BY <6>2, <6>3, <6>4, FinishedMeans
        <5>4. ToSet(applied[pvr]) = {d \in ToSet(ci[pvr]) : d < j}
          BY <2>3, <3>1, <5>2, <5>3
        <5>5. piv'[c] = pvr /\ Before(piv[c], c)' = {d \in ToSet(ci[pvr]) : d < j}
          BY <3>1, <3>3, <4>2 DEF Before
        <5> QED
          BY <3>1, <5>2, <5>4, <5>5
      <4> QED
        BY <4>1, <4>2
    <3> QED
      BY <3>6, <3>7 DEF AppliedInv
  <2>9. CASE ArriveAtColumn(t)
    <3>1. pc[t] = "Rows" /\ UNCHANGED <<ci, ri, piv, applied>>
      BY <2>9 DEF ArriveAtColumn, lists
    <3>2. i[t] \in Rows /\ i[0] = i[t] /\ pc[0] # "Publish"
      BY <1>1, <2>1, <3>1, SameColumn
    <3>3. ASSUME NEW r \in Rows, \A c \in Rows : piv[c] # r,
                 NEW d \in Rows, d \in ToSet(ci[r])
          PROVE  Finished(r % nThreads, d, r)' <=> Finished(r % nThreads, d, r)
      <4>1. r \in todo
        BY <1>1, <2>1, <3>2, <3>3, TodoInColumn
      <4>2. CASE r % nThreads # t
        <5> DEFINE u == r % nThreads
        <5>1. u \in Threads /\ u # t
          BY <2>2, <4>2
        <5>2. /\ Begun(u)' <=> Begun(u)
              /\ UNCHANGED <<pc[u], i[u], k[u]>>
          BY <1>1, <1>7, <5>1, FactorFrame
        <5> HIDE DEF u
        <5>3. Finished(u, d, r)' <=> Finished(u, d, r)
          BY <3>1, <5>1, <5>2, FinishedKept
        <5> QED
          BY <5>3 DEF u
      <4>3. CASE r % nThreads = t
        <5>1. d = i[t] => r \in ToSet(ri[d])
          <6>1. d = i[t] => ~ (d > i[0])
            BY <3>2, RowsOrder
          <6> QED
            BY <1>1, <3>3, <6>1 DEF ListsInv
        <5>2. Finished(t, d, r)' <=> Finished(t, d, r)
          BY <1>7, <2>9, <4>1, <4>3, <5>1, FinishedAtArrival
        <5> QED
          BY <4>3, <5>2
      <4> QED
        BY <4>2, <4>3
    <3>4. \A r, d \in Rows : (\A c \in Rows : piv[c] # r) =>
            (d \in ToSet(ci'[r]) /\ Finished(r % nThreads, d, r)'
              <=> d \in ToSet(ci[r]) /\ Finished(r % nThreads, d, r))
      BY <3>1, <3>3
    <3> QED
      BY <1>1, <2>1, <3>1, <3>4, AppliedKept
  <2>10. CASE EliminateRow(t)
    <3>1. PICK n \in DOMAIN ri[i[t]], q \in Rows, new \in Seq(Rows) : Subtracted(t, n, q, new)
      BY <1>7, <2>10, EliminateRowFacts
    <3>2. pc[t] = "Rows" /\ UNCHANGED <<ci, ri, piv>>
      BY <2>10 DEF EliminateRow, lists
    <3>3. PICK j \in Rows : j = i[t]
      BY <1>1, <2>1, <3>2, SameColumn
    <3>4. /\ i[0] = j /\ pc[0] # "Publish"
      BY <1>1, <2>1, <3>2, <3>3, SameColumn
    <3>5. /\ ri[j][n] = q /\ q \in todo /\ q % nThreads = t
          /\ applied'[q] = Append(applied[q], j)
          /\ \A r \in Rows : r # q => applied'[r] = applied[r]
      BY <1>1, <3>1, <3>3 DEF Subtracted, MatrixTypes
    <3>6. /\ \A r \in todo, d \in Rows : r % nThreads = t =>
               (Finished(t, d, r)' <=> Finished(t, d, r) \/ (d = j /\ r = q))
          /\ ~ Finished(t, j, q)
      BY <1>7, <2>10, <3>1, <3>3, FinishedAtElimination
    <3>7. ASSUME NEW r \in Rows, \A c \in Rows : piv[c] # r, NEW d \in Rows
          PROVE  Finished(r % nThreads, d, r)'
                   <=> Finished(r % nThreads, d, r) \/ (d = j /\ r = q)
      <4>1. r \in todo
        BY <1>1, <2>1, <3>4, <3>7, TodoInColumn
      <4>2. CASE r % nThreads # t
        <5> DEFINE u == r % nThreads
        <5>1. u \in Threads /\ u # t
          BY <2>2, <4>2
        <5>2. /\ Begun(u)' <=> Begun(u)
              /\ UNCHANGED <<pc[u], i[u], k[u]>>
          BY <1>1, <1>7, <5>1, FactorFrame
        <5> HIDE DEF u
        <5>3. Finished(u, d, r)' <=> Finished(u, d, r)
          BY <3>2, <5>1, <5>2, FinishedKept
        <5> QED
          BY <3>5, <4>2, <5>3 DEF u
      <4>3. CASE r % nThreads = t
        BY <3>6, <4>1, <4>3
      <4> QED
        BY <4>2, <4>3
    <3>8. \A c \in Rows : piv[c] # q
      BY <1>1, <2>1, <3>5, PivotIsDone
    <3>9. j \in ToSet(ci[q])
      <4>1. q \in ToSet(ri[j])
        <5>1. n \in DOMAIN ri[j]
          BY <3>3
        <5> QED
          BY <3>5, <5>1 DEF ToSet
      <4> QED
        BY <1>1, <4>1 DEF ListsInv
    <3>10. ASSUME NEW r \in Rows, \A c \in Rows : piv[c] # r
           PROVE  /\ Ascending(applied'[r])
                  /\ ToSet(applied'[r])
                       = {d \in ToSet(ci'[r]) : Finished(r % nThreads, d, r)'}
      <4>1. /\ Ascending(applied[r])
            /\ ToSet(applied[r]) = {d \in ToSet(ci[r]) : Finished(r % nThreads, d, r)}
        BY <2>4, <3>10
      <4>2. {d \in ToSet(ci'[r]) : Finished(r % nThreads, d, r)'}
              = {d \in ToSet(ci[r]) : Finished(r % nThreads, d, r) \/ (d = j /\ r = q)}
        BY <2>3, <3>2, <3>7, <3>10
      <4>3. CASE r # q
        BY <3>5, <4>1, <4>2, <4>3
      <4>4. CASE r = q
        <5>1. applied[q] \in Seq(Rows) /\ Rows \subseteq Nat
          BY <1>1, RowsFacts DEF MatrixTypes
        <5>2. \A y \in ToSet(applied[q]) : y < j
          <6>1. ASSUME NEW y \in ToSet(applied[q]) PROVE y < j
            <7>1. y \in Rows /\ Finished(t, y, q)
              BY <2>3, <3>5, <4>1, <4>4
            <7>2. j > y \/ j = y
              BY <3>3, <7>1 DEF Finished
            <7>3. y # j
              BY <3>6, <7>1
            <7> QED
              BY <7>1, <7>2, <7>3, RowsOrder
          <6> QED
            BY <6>1
        <5>3. /\ ToSet(applied'[q]) = ToSet(applied[q]) \cup {j}
              /\ Ascending(applied'[q])
          BY <3>5, <4>1, <4>4, <5>1, <5>2, AppendToList
        <5> QED
          BY <3>9, <4>1, <4>2, <4>4, <5>3
      <4> QED
        BY <4>3, <4>4
    <3>11. ASSUME NEW c \in Rows, piv'[c] \in Rows
           PROVE  /\ Ascending(applied'[piv'[c]])
                  /\ ToSet(applied'[piv'[c]]) = Before(piv[c], c)'
      <4>1. /\ piv'[c] = piv[c] /\ Before(piv[c], c)' = Before(piv[c], c)
            /\ applied'[piv[c]] = applied[piv[c]]
        BY <3>2, <3>5, <3>8, <3>11 DEF Before
      <4> QED
        BY <2>4, <3>11, <4>1
    <3> QED
      BY <3>2, <3>10, <3>11 DEF AppliedInv
  <2> QED
    BY <1>7, <2>6, <2>7, <2>8, <2>9, <2>10, FactorCases
<1> QED
  BY <1>1, <1>2, <1>3, <1>4, <1>5, <1>6, <1>7, StepCases

-----------------------------------------------------------------------------
\* The invariant and what it implies.

(* The invariant of the factorization is inductive.                        *)
LEMMA FactorNext == FactorInv /\ [Next]_vars => FactorInv'
<1> SUFFICES ASSUME FactorInv, [Next]_vars PROVE FactorInv'
  OBVIOUS
<1>1. PoolInv'
  BY PoolNext DEF FactorInv
<1>2. CallTypes' /\ MatrixTypes' /\ ThreadTypes'
  BY CallTypesNext, MatrixTypesNext, ThreadTypesNext
<1>3. ColumnsInv' /\ BarrierInv' /\ PivotInv'
  <2>1. ColumnsInv'
    BY ColumnsNext DEF FactorInv
  <2> QED
    BY <2>1, BarrierNext, PivotNext
<1>4. ListsInv' /\ FillInv' /\ FilledInv'
  BY ListsNext, FillNext, FilledNext
<1>5. AppliedInv'
  BY <1>2, AppliedNext
<1>6. FactoredInv' /\ LocksInv'
  BY FactoredNext, LocksNext
<1> QED
  BY <1>1, <1>2, <1>3, <1>4, <1>5, <1>6 DEF FactorInv

(* Threads arrive at a column together, pivots are published in order,     *)
(* lists by row and by column agree, and rows have had the columns their   *)
(* threads are done with: at all times.                                    *)
THEOREM FactorInvariant == Spec => []FactorInv
BY FactorInit, FactorNext, PTL DEF Spec

(* A row that was made a pivot is not written any more: what the other     *)
(* threads subtract is complete.                                           *)
LEMMA PivotRowsKept ==
  ASSUME FactorInv, [Next]_vars, NEW c \in Rows,
         piv[c] >= 0, piv'[c] = piv[c], UNCHANGED bHasBeenReset
  PROVE  UNCHANGED <<ci[piv[c]], applied[piv[c]]>>
<1>1. /\ PoolInv /\ PoolTypes /\ MatrixTypes /\ ThreadTypes /\ PivotInv /\ FactoredInv
  BY DEF FactorInv, PoolInv
<1>2. piv[c] \in Rows
  <2>1. -1 \notin Rows /\ ~ (-1 >= 0)
    BY DEF Rows
  <2> QED
    BY <1>1, <2>1 DEF MatrixTypes
<1>3. SUFFICES ci'[piv[c]] = ci[piv[c]] /\ applied'[piv[c]] = applied[piv[c]]
  OBVIOUS
<1>4. CASE (caller # "Terminated" /\ QuietStep) \/ UNCHANGED vars
  BY <1>1, <1>4, QuietFrame
<1>5. CASE Assemble
  <2>1. CASE UNCHANGED <<ci, applied>>
    BY <2>1
  <2>2. CASE MatrReset
    <3>1. bHasBeenReset /\ caller = "Idle"
      BY <1>5, <2>2 DEF Assemble, MatrReset
    <3> QED
      BY <1>1, <1>2, <3>1 DEF FactoredInv, Rows
  <2> QED
    BY <1>5, <2>1, <2>2 DEF Assemble
<1>6. CASE Solve \/ CollectFactor
  BY <1>6 DEF Solve, CollectFactor, lists
<1>7. ASSUME NEW t \in Threads, caller # "Terminated", Start(t) \/ pnaivslv(t)
      PROVE  UNCHANGED <<ci, applied>>
  BY <1>1, <1>7, StartFrame, SolveFrame
<1>8. ASSUME NEW t \in Threads, caller # "Terminated", pnaivfct(t), caller' # "Terminated"
      PROVE  ci'[piv[c]] = ci[piv[c]] /\ applied'[piv[c]] = applied[piv[c]]
  <2>1. Factoring
    BY <1>1, <1>8, FactorFrame
  <2>2. CASE Fill(t)
    <3>1. PICK d \in Rows, q \in Rows : Filled(t, d, q)
      BY <1>8, <2>2, FillFacts
    <3>2. q \in todo /\ \A r \in Rows : r # q => ci'[r] = ci[r]
      BY <1>1, <3>1 DEF Filled, MatrixTypes
    <3>3. applied' = applied
      BY <2>2 DEF Fill
    <3> QED
      BY <1>1, <1>2, <2>1, <3>2, <3>3, PivotIsDone
  <2>3. CASE EliminateRow(t)
    <3>1. PICK n \in DOMAIN ri[i[t]], q \in Rows, new \in Seq(Rows) : Subtracted(t, n, q, new)
      BY <1>8, <2>3, EliminateRowFacts
    <3>2. q \in todo /\ \A r \in Rows : r # q => applied'[r] = applied[r]
      BY <1>1, <3>1 DEF Subtracted, MatrixTypes
    <3>3. ci' = ci
      BY <2>3 DEF EliminateRow, lists
    <3> QED
      BY <1>1, <1>2, <2>1, <3>2, <3>3, PivotIsDone
  <2>4. CASE \/ t = 0 /\ (ChoosePivot \/ PublishPivot \/ Merge)
             \/ AwaitPivot(t) \/ TestAndSet(t) \/ ArriveAtColumn(t) \/ LeaveColumn(t)
    BY <2>4 DEF ChoosePivot, PublishPivot, Merge, AwaitPivot, TestAndSet, ArriveAtColumn,
       LeaveColumn, lists
  <2> QED
    BY <1>8, <2>2, <2>3, <2>4, FactorCases
<1> QED
  BY <1>1, <1>4, <1>5, <1>6, <1>7, <1>8, StepCases

(* The spinning on row_locks and the order in which todo and piv are       *)
(* written in pnaivfct keep every thread off the rows of the pivots.       *)
THEOREM PivotsAreFinal == Spec => PivotRowsAreFinal
<1>1. FactorInv /\ [Next]_vars =>
        [\A c \in Rows :
           piv[c] >= 0 /\ piv'[c] = piv[c] /\ UNCHANGED bHasBeenReset
             => UNCHANGED <<ci[piv[c]], applied[piv[c]]>>]_vars
  BY PivotRowsKept
<1> QED
  BY <1>1, FactorInvariant, PTL DEF Spec, PivotRowsAreFinal

(* After a factorization every row is a pivot, and had the columns before  *)
(* its own eliminated, once and in order.                                  *)
LEMMA InvInOrder == FactorInv => EliminatedInOrder
<1> SUFFICES ASSUME FactorInv, ~ bHasBeenReset PROVE
      /\ {piv[c] : c \in Rows} = Rows
      /\ \A c \in Rows : applied[piv[c]] = ListOf({d \in ToSet(ci[piv[c]]) : d < c})
  BY DEF EliminatedInOrder
<1>1. /\ MatrixTypes
      /\ \A c \in Rows : piv[c] \in Rows
      /\ \A c, d \in Rows : piv[c] = piv[d] => c = d
      /\ \A c \in Rows : /\ Ascending(applied[piv[c]])
                         /\ ToSet(applied[piv[c]]) = Before(piv[c], c)
  BY DEF FactorInv, FactoredInv
<1>2. {piv[c] : c \in Rows} = Rows
  <2>1. IsFiniteSet(Rows)
    BY FS_Interval, NaiveAssumption DEF Rows
  <2>2. piv \in Injection(Rows, Rows)
    BY <1>1 DEF MatrixTypes, Injection, IsInjective
  <2>3. piv \in Surjection(Rows, Rows)
    BY <2>1, <2>2, FS_Injection
  <2> QED
    BY <1>1, <2>3 DEF Surjection
<1>3. ASSUME NEW c \in Rows
      PROVE  applied[piv[c]] = ListOf({d \in ToSet(ci[piv[c]]) : d < c})
  <2>1. PICK S : S = Before(piv[c], c)
    OBVIOUS
  <2>2. PICK g : g = applied[piv[c]]
    OBVIOUS
  <2>3. g \in Seq(Rows) /\ ToSet(g) = S /\ Ascending(g)
    BY <1>1, <2>1, <2>2 DEF MatrixTypes
  <2>4. S \in SUBSET (0 .. iSize)
    BY <1>1, <2>1, InRows, RowsFacts DEF Before
  <2>5. g \in Seq(S)
    <3>1. \A n \in 1 .. Len(g) : g[n] \in S
      BY <2>3 DEF ToSet
    <3> QED
      BY <2>3, <3>1
  <2>6. g = ListOf(S)
    BY <2>3, <2>4, <2>5, ListOfUnique, RowsFacts
  <2> QED
    BY <2>1, <2>2, <2>6 DEF Before
<1> QED
  BY <1>2, <1>3

(* The factors are those of an elimination column by column, for any       *)
(* number of threads.                                                      *)
THEOREM FactorizationInOrder == Spec => []EliminatedInOrder
BY InvInOrder, FactorInvariant, PTL

(* The lists by row and by column describe the same entries, and the new   *)
(* entries are all merged when the factorization is over.                  *)
LEMMA InvLists == FactorInv => ListsAgree
<1> SUFFICES ASSUME FactorInv PROVE ListsAgree
  OBVIOUS
<1>1. PoolInv /\ ListsInv /\ MatrixTypes
  BY DEF FactorInv
<1>2. ASSUME caller \in {"Idle", "Solve"} PROVE \A n \in DOMAIN ril : ril[n] = {}
  <2>1. pc[0] \in {"Acquire", "Gone"}
    BY <1>1, <1>2, ThreadsFinite DEF PoolInv, Waiting, Pending
  <2>2. pc[0] \notin InColumn /\ DOMAIN ril = 1 .. iSize
    BY <1>1, <2>1 DEF InColumn, MatrixTypes
  <2> QED
    BY <1>1, <2>2, NothingNew
<1> QED
  BY <1>1, <1>2 DEF ListsInv, ListsAgree

(* In every reachable state the lists by row and by column that pnaivfct    *)
(* extends with the new entries describe the same matrix, each entry once.  *)
THEOREM ListsAlwaysAgree == Spec => []ListsAgree
BY InvLists, FactorInvariant, PTL

(* A lock of a column is held by the thread that adds an entry to it only: *)
(* Factor may rely on finding them clear.                                  *)
LEMMA InvColLocks == FactorInv => ColLocksAreLeftClear
<1> SUFFICES ASSUME FactorInv, caller \in {"Idle", "Solve", "Use"}, NEW c \in Rows
             PROVE  ~ col_locks[c]
  BY DEF ColLocksAreLeftClear
<1>1. \A t \in Threads : pc[t] \notin {"Lock", "Fill"}
  BY DEF FactorInv, PoolInv, Waiting, Pending
<1> QED
  BY <1>1 DEF FactorInv, LocksInv

(* The locks by column are clear between two operations, although no call   *)
(* of the manager resets them: each thread of pnaivfct clears what it took. *)
THEOREM ColumnLocksClear == Spec => []ColLocksAreLeftClear
BY InvColLocks, FactorInvariant, PTL
=============================================================================
