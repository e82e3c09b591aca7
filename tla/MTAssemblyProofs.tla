-------------------------- MODULE MTAssemblyProofs --------------------------
(***************************************************************************)
(* Proofs about MTAssembly, for every number of threads, elements and rows *)
(* and every sequence of assemblies, if no wait ends without a             *)
(* notification.                                                           *)
(***************************************************************************)
EXTENDS MTAssembly, FiniteSetTheorems, WellFoundedInduction, TLAPS

-----------------------------------------------------------------------------
\* The state of the pool, without the matrices.

CallerPlaces ==
  {"Idle", "Alone", "Release", "Assemble", "Sum", "Wait", "Blocked", "Collect",
   "Join", "Gone"}
WorkerPlaces == {"Acquire", "Assemble", "Sum", "EndOfOp", "Exit", "Gone"}

\* The types of the variables of the pool.
PoolTypes ==
  /\ pc \in [Threads -> CallerPlaces \cup WorkerPlaces]
  /\ pc[0] \in CallerPlaces
  /\ \A w \in Workers : pc[w] \in WorkerPlaces
  /\ op \in Ops
  /\ next \in Workers
  /\ thread_count \in Nat
  /\ sem \in [Workers -> {0, 1}]
  /\ notified \in BOOLEAN

Ready(w) == pc[w] = "Acquire" /\ sem[w] = 0

\* The workers that are not released yet wait for it; all of them do so
\* outside an operation.
WaitingToBeReleased ==
  /\ pc[0] \in {"Idle", "Alone", "Collect"} => \A w \in Workers : Ready(w)
  /\ pc[0] = "Release" => \A w \in Workers : w >= next => Ready(w)
  /\ pc[0] = "Join" => \A w \in Workers : w > next => Ready(w)
  /\ \A w \in Workers : sem[w] = 1 => pc[w] = "Acquire"

\* Every thread is where the operation in hand takes it.
PlacesOfOp ==
  /\ \A t \in Threads : pc[t] = "Assemble" => op \in AssJacOps
  /\ \A t \in Threads : pc[t] = "Sum" => op = "OP_SUM_NAIVE"
  /\ \A w \in Workers : pc[w] \in {"Exit", "Gone"} => op = "OP_EXIT"
  /\ op = "OP_EXIT" => pc[0] \in {"Release", "Join", "Gone"}
  /\ pc[0] \in {"Join", "Gone"} => op = "OP_EXIT"
  /\ op = "OP_UNKNOWN" => pc[0] \in {"Idle", "Alone"}

\* A notification is for a caller that waits when nobody is pending.
NotifiedAtEnd == notified => pc[0] = "Blocked" /\ Pending = {}

PoolInv ==
  PoolTypes /\ WaitingToBeReleased /\ PlacesOfOp /\ CountIsOfPending /\ NotifiedAtEnd

(* Facts about the identities of the threads.                              *)
LEMMA Ids ==
  /\ Workers \subseteq Threads /\ 0 \in Threads /\ 0 \notin Workers
  /\ Threads = {0} \cup Workers
  /\ nThreads - 1 \in Workers /\ 1 \in Workers
  /\ Workers \subseteq Nat
  /\ \A w \in Workers : w <= nThreads - 1 /\ (w # nThreads - 1 => w + 1 \in Workers)
BY PoolAssumption DEF Workers, Threads

(* The workers are finitely many.                                          *)
LEMMA WorkersFinite ==
  /\ IsFiniteSet(Workers) /\ Cardinality(Workers) = nThreads - 1
  /\ IsFiniteSet(Pending) /\ Cardinality(Pending) \in 0 .. nThreads - 1
<1>1. IsFiniteSet(Workers) /\ Cardinality(Workers) = nThreads - 1
  BY FS_Interval, PoolAssumption DEF Workers
<1>2. Pending \subseteq Workers
  BY DEF Pending
<1>3. IsFiniteSet(Pending) /\ Cardinality(Pending) <= nThreads - 1
  BY <1>1, <1>2, FS_Subset
<1>4. Cardinality(Pending) \in Nat
  BY <1>3, FS_CardinalityType
<1> QED
  BY <1>1, <1>3, <1>4, PoolAssumption

(* The invariant holds before the first assembly.                          *)
LEMMA PoolInit == Init => PoolInv
<1> SUFFICES ASSUME Init PROVE PoolInv
  OBVIOUS
<1> USE DEF Init
<1>1. PoolTypes
  BY Ids DEF PoolTypes, CallerPlaces, WorkerPlaces, Ops, AssJacOps
<1>2. WaitingToBeReleased
  BY Ids DEF WaitingToBeReleased, Ready
<1>3. PlacesOfOp
  BY Ids DEF PlacesOfOp
<1>4. Pending = {}
  BY Ids DEF Pending
<1>5. CountIsOfPending
  BY <1>4, FS_EmptySet DEF CountIsOfPending
<1>6. NotifiedAtEnd
  BY DEF NotifiedAtEnd
<1> QED
  BY <1>1, <1>2, <1>3, <1>5, <1>6 DEF PoolInv

-----------------------------------------------------------------------------
\* Every step preserves the invariant.

(* Steps that do not touch the pool preserve the invariant.                *)
LEMMA PoolStutter ==
  PoolInv /\ UNCHANGED <<pc, next, op, thread_count, sem, notified>> => PoolInv'
<1> SUFFICES ASSUME PoolInv, UNCHANGED <<pc, next, op, thread_count, sem, notified>>
             PROVE  PoolInv'
  OBVIOUS
<1>1. Pending' = Pending
  BY DEF Pending
<1> QED
  BY <1>1 DEF PoolInv, PoolTypes, WaitingToBeReleased, PlacesOfOp, CountIsOfPending,
     NotifiedAtEnd, Ready

(* The caller hands an operation to workers that are all ready: all are    *)
(* pending.                                                                *)
LEMMA PoolDispatch ==
  ASSUME PoolInv, \A w \in Workers : Ready(w), pc[0] \in {"Idle", "Collect"},
         op' \in Ops \ {"OP_UNKNOWN"}, thread_count' = nThreads - 1,
         pc' = [pc EXCEPT ![0] = "Release"], next' = 1,
         UNCHANGED <<sem, notified>>
  PROVE  PoolInv'
<1> USE Ids DEF PoolInv
<1>1. PoolTypes'
  BY PoolAssumption DEF PoolTypes, CallerPlaces, WorkerPlaces
<1>2. \A w \in Workers : Ready(w)' /\ pc'[w] = "Acquire" /\ w >= next'
  BY DEF Ready, PoolTypes, Workers
<1>3. pc'[0] = "Release"
  BY DEF PoolTypes
<1>4. WaitingToBeReleased'
  BY <1>2, <1>3 DEF WaitingToBeReleased, Ready
<1>5. PlacesOfOp'
  <2>1. \A t \in Threads : pc'[t] \in {"Release", "Acquire"}
    BY <1>2, <1>3
  <2> QED
    BY <2>1, <1>2, <1>3 DEF PlacesOfOp
<1>6. Pending' = Workers
  BY <1>2, <1>3 DEF Pending, Workers
<1>7. CountIsOfPending'
  BY <1>6, WorkersFinite DEF CountIsOfPending
<1>8. NotifiedAtEnd'
  BY DEF NotifiedAtEnd
<1> QED
  BY <1>1, <1>4, <1>5, <1>7, <1>8

(* A move of the caller that leaves the same workers pending, and every    *)
(* worker ready if it goes where all of them have to be.                   *)
LEMMA PoolCallerMoves ==
  ASSUME PoolInv, NEW place \in CallerPlaces \ {"Release", "Join", "Gone"},
         pc' = [pc EXCEPT ![0] = place],
         pc[0] \notin {"Release", "Join", "Gone"},
         place \in {"Idle", "Alone", "Collect"} => \A w \in Workers : Ready(w),
         place = "Assemble" => op \in AssJacOps,
         place = "Sum" => op = "OP_SUM_NAIVE",
         op = "OP_UNKNOWN" => place \in {"Idle", "Alone"},
         notified' = FALSE \/ (notified' = notified /\ pc[0] # "Blocked"),
         UNCHANGED <<next, op, thread_count, sem>>
  PROVE  PoolInv'
<1> USE Ids DEF PoolInv
<1>1. pc'[0] = place /\ \A w \in Workers : pc'[w] = pc[w]
  BY DEF PoolTypes
<1>2. PoolTypes'
  BY <1>1 DEF PoolTypes
<1>3. WaitingToBeReleased'
  BY <1>1 DEF WaitingToBeReleased, Ready
<1>4. PlacesOfOp'
  BY <1>1 DEF PlacesOfOp
<1>5. Pending' = Pending
  BY <1>1 DEF Pending
<1>6. CountIsOfPending'
  BY <1>5 DEF CountIsOfPending
<1>7. NotifiedAtEnd'
  BY DEF NotifiedAtEnd
<1> QED
  BY <1>2, <1>3, <1>4, <1>6, <1>7

(* A worker that goes from one place at work to another stays pending.     *)
LEMMA PoolWorkerMoves ==
  ASSUME PoolInv, NEW w \in Workers, pc[w] \in {"Assemble", "Sum"},
         pc' = [pc EXCEPT ![w] = "EndOfOp"],
         UNCHANGED <<next, op, thread_count, sem, notified>>
  PROVE  PoolInv'
<1> USE Ids DEF PoolInv
<1>1. pc'[0] = pc[0] /\ pc'[w] = "EndOfOp"
      /\ \A v \in Workers \ {w} : pc'[v] = pc[v]
  BY DEF PoolTypes
<1>2. PoolTypes'
  BY <1>1 DEF PoolTypes, WorkerPlaces
<1>3. WaitingToBeReleased'
  BY <1>1 DEF WaitingToBeReleased, Ready
<1>4. PlacesOfOp'
  BY <1>1 DEF PlacesOfOp
<1>5. Pending' = Pending
  BY <1>1 DEF Pending
<1>6. CountIsOfPending'
  BY <1>5 DEF CountIsOfPending
<1>7. NotifiedAtEnd'
  BY <1>1, <1>5 DEF NotifiedAtEnd
<1> QED
  BY <1>2, <1>3, <1>4, <1>6, <1>7

(* A thread that ends its part of an operation.                            *)
LEMMA PoolFinished ==
  ASSUME PoolInv, NEW t \in Threads, pc[t] \in {"Assemble", "Sum"},
         pc' = Finished(t), UNCHANGED <<next, op, thread_count, sem, notified>>
  PROVE  PoolInv'
<1>1. CASE t = 0
  <2>1. op # "OP_UNKNOWN"
    BY <1>1 DEF PoolInv, PlacesOfOp
  <2>2. notified = FALSE
    BY <1>1 DEF PoolInv, NotifiedAtEnd, PoolTypes
  <2>3. pc' = [pc EXCEPT ![0] = "Wait"]
    BY <1>1 DEF Finished
  <2>4. "Wait" \in CallerPlaces \ {"Release", "Join", "Gone"}
    BY DEF CallerPlaces
  <2> QED
    BY <1>1, <2>1, <2>2, <2>3, <2>4, PoolCallerMoves
<1>2. CASE t \in Workers
  BY <1>2, Ids, PoolWorkerMoves DEF Finished
<1> QED
  BY <1>1, <1>2, Ids

(* The part of a thread in an operation.                                   *)
LEMMA PoolAssemble ==
  ASSUME PoolInv, NEW t \in Threads, Assemble(t)
  PROVE  PoolInv'
<1>1. CASE Claim(t) \/ AddElement(t) \/ LockRow(t) \/ AddRow(t)
  BY <1>1, PoolStutter DEF Claim, AddElement, LockRow, AddRow, pool
<1>2. CASE LastElement(t) \/ FailElement(t) \/ SumRows(t)
  BY <1>2, PoolFinished DEF LastElement, FailElement, SumRows, pool
<1> QED
  BY <1>1, <1>2 DEF Assemble

(* A worker that begins an operation stays pending.                        *)
LEMMA PoolAcquire ==
  ASSUME PoolInv, NEW w \in Workers, Acquire(w)
  PROVE  PoolInv'
<1> USE Ids DEF PoolInv, Acquire
<1> DEFINE place == CASE op = "OP_EXIT" -> "Exit"
                      [] op = "OP_SUM_NAIVE" -> "Sum"
                      [] OTHER -> "Assemble"
<1>1. /\ pc'[w] = place /\ pc'[0] = pc[0] /\ place \in {"Exit", "Sum", "Assemble"}
      /\ \A v \in Workers \ {w} : pc'[v] = pc[v] /\ sem'[v] = sem[v]
      /\ sem[w] = 1 /\ sem'[w] = 0
  BY DEF PoolTypes
<1>2. PoolTypes'
  BY <1>1 DEF PoolTypes, WorkerPlaces
<1>3. ~Ready(w)
  BY <1>1 DEF Ready
<1>4. WaitingToBeReleased'
  BY <1>1, <1>3 DEF WaitingToBeReleased, Ready
<1>5. op # "OP_UNKNOWN"
  BY <1>3 DEF PlacesOfOp, WaitingToBeReleased
<1>6. PlacesOfOp'
  BY <1>1, <1>5 DEF PlacesOfOp, PoolTypes, Ops
<1>7. Pending' = Pending
  BY <1>1 DEF Pending
<1>8. CountIsOfPending' /\ NotifiedAtEnd'
  BY <1>1, <1>7 DEF CountIsOfPending, NotifiedAtEnd
<1> QED
  BY <1>2, <1>4, <1>6, <1>8

(* A worker that reports its end is pending no more, and is counted once.  *)
LEMMA PoolEndOfOp ==
  ASSUME PoolInv, NEW w \in Workers, EndOfOp(w)
  PROVE  PoolInv'
<1> USE Ids DEF PoolInv, EndOfOp
<1>1. /\ pc'[w] = (IF pc[w] = "Exit" THEN "Gone" ELSE "Acquire")
      /\ pc'[0] = pc[0]
      /\ \A v \in Workers \ {w} : pc'[v] = pc[v]
  BY DEF PoolTypes
<1>2. sem[w] = 0 /\ ~Ready(w)
  BY DEF PoolTypes, WaitingToBeReleased, Ready
<1>3. w \in Pending /\ Pending' = Pending \ {w}
  <2>1. w \in Pending
    BY DEF Pending
  <2>2. w \notin Pending'
    BY <1>1, <1>2 DEF Pending, WaitingToBeReleased, PoolTypes
  <2>3. \A v \in Workers \ {w} : v \in Pending' <=> v \in Pending
    BY <1>1 DEF Pending
  <2> QED
    BY <2>1, <2>2, <2>3 DEF Pending
<1>4. /\ Cardinality(Pending') = thread_count - 1
      /\ thread_count > 0 /\ thread_count' = thread_count - 1
  BY <1>3, WorkersFinite, FS_RemoveElement, FS_EmptySet, PoolAssumption
  DEF CountIsOfPending, PoolTypes
<1>5. PoolTypes'
  BY <1>1, <1>4 DEF PoolTypes, WorkerPlaces
<1>6. WaitingToBeReleased'
  BY <1>1, <1>2 DEF WaitingToBeReleased, Ready
<1>7. PlacesOfOp'
  BY <1>1 DEF PlacesOfOp
<1>8. CountIsOfPending'
  BY <1>4 DEF CountIsOfPending
<1>9. NotifiedAtEnd'
  <2>1. ~notified
    BY <1>3 DEF NotifiedAtEnd
  <2>2. IsFiniteSet(Pending')
    BY <1>3, WorkersFinite, FS_RemoveElement
  <2>3. thread_count' = 0 => Pending' = {}
    BY <1>4, <2>2, FS_EmptySet
  <2> QED
    BY <1>1, <2>1, <2>3 DEF NotifiedAtEnd
<1> QED
  BY <1>5, <1>6, <1>7, <1>8, <1>9

(* The release of a worker does not change who is pending.                 *)
LEMMA PoolRelease ==
  ASSUME PoolInv, Release
  PROVE  PoolInv'
<1> USE Ids DEF PoolInv, Release
<1>1. Ready(next) /\ next \in Workers
  BY DEF WaitingToBeReleased, PoolTypes
<1>2. /\ pc'[0] \in {"Release", "Join", "Sum", "Assemble"}
      /\ \A w \in Workers : pc'[w] = pc[w]
      /\ sem'[next] = 1
      /\ \A w \in Workers \ {next} : sem'[w] = sem[w]
  BY <1>1 DEF PoolTypes, Ready
<1>3. /\ pc'[0] = "Join" <=> op = "OP_EXIT"
      /\ pc'[0] = "Release" <=> op # "OP_EXIT" /\ next # nThreads - 1
      /\ pc'[0] = "Sum" => op = "OP_SUM_NAIVE"
      /\ pc'[0] = "Assemble" => op \notin {"OP_EXIT", "OP_SUM_NAIVE"}
      /\ next' = IF pc'[0] = "Release" THEN next + 1 ELSE next
      /\ next' \in Workers
  BY <1>1 DEF PoolTypes
<1>4. PoolTypes'
  BY <1>2, <1>3 DEF PoolTypes, CallerPlaces
<1>5. WaitingToBeReleased'
  BY <1>1, <1>2, <1>3 DEF WaitingToBeReleased, Ready, PoolTypes
<1>6. PlacesOfOp'
  BY <1>2, <1>3 DEF PlacesOfOp, PoolTypes, Ops
<1>7. Pending' = Pending
  <2>1. \A w \in Workers : w \in Pending' <=> w \in Pending
    BY <1>1, <1>2, <1>3 DEF Pending, Ready, Workers
  <2> QED
    BY <2>1 DEF Pending
<1>8. CountIsOfPending' /\ NotifiedAtEnd'
  BY <1>7 DEF CountIsOfPending, NotifiedAtEnd
<1> QED
  BY <1>4, <1>5, <1>6, <1>8

(* The caller's wait: it ends when nobody is pending.                      *)
LEMMA PoolWait ==
  ASSUME PoolInv, ~SpuriousWakeups, Wait \/ WakeUp
  PROVE  PoolInv'
<1> USE Ids DEF PoolInv
<1>1. op # "OP_UNKNOWN"
  BY DEF Wait, WakeUp, PlacesOfOp
<1>2. Pending = {} => \A w \in Workers : Ready(w)
  BY DEF Wait, WakeUp, Pending, Ready, PoolTypes, PlacesOfOp
<1>3. CASE Wait /\ thread_count > 0
  <2>1. /\ pc' = [pc EXCEPT ![0] = "Blocked"] /\ ~notified
        /\ "Blocked" \in CallerPlaces \ {"Release", "Join", "Gone"}
    BY <1>3 DEF Wait, NotifiedAtEnd, CallerPlaces
  <2>2. UNCHANGED <<next, op, thread_count, sem, notified>>
    BY <1>3 DEF Wait, pool
  <2> QED
    BY <1>1, <1>3, <2>1, <2>2, PoolCallerMoves DEF Wait
<1>4. CASE Wait /\ ~(thread_count > 0)
  <2>1. Pending = {}
    BY <1>4, WorkersFinite, FS_EmptySet DEF CountIsOfPending
  <2>2. /\ pc' = [pc EXCEPT ![0] = "Collect"] /\ pc[0] = "Wait"
        /\ "Collect" \in CallerPlaces \ {"Release", "Join", "Gone"}
    BY <1>4 DEF Wait, CallerPlaces
  <2>3. UNCHANGED <<next, op, thread_count, sem, notified>>
    BY <1>4 DEF Wait, pool
  <2> QED
    BY <1>1, <1>2, <2>1, <2>2, <2>3, PoolCallerMoves
<1>5. CASE WakeUp
  <2>1. Pending = {}
    BY <1>5 DEF WakeUp, NotifiedAtEnd
  <2>2. /\ pc' = [pc EXCEPT ![0] = "Collect"] /\ pc[0] = "Blocked"
        /\ "Collect" \in CallerPlaces \ {"Release", "Join", "Gone"}
    BY <1>5 DEF WakeUp, CallerPlaces
  <2>3. notified' = FALSE /\ UNCHANGED <<next, op, thread_count, sem>>
    BY <1>5 DEF WakeUp
  <2> QED
    BY <1>1, <1>2, <2>1, <2>2, <2>3, PoolCallerMoves
<1> QED
  BY <1>3, <1>4, <1>5

(* The return of an assembly finds every worker ready.                     *)
LEMMA PoolReturn ==
  ASSUME PoolInv, pc[0] \in {"Alone", "Collect"}, NEW o, ReturnWith(o),
         UNCHANGED <<next, pool>>
  PROVE  PoolInv'
<1>1. \A w \in Workers : Ready(w)
  BY DEF PoolInv, WaitingToBeReleased
<1>2. /\ pc' = [pc EXCEPT ![0] = "Idle"]
      /\ "Idle" \in CallerPlaces \ {"Release", "Join", "Gone"}
  BY DEF ReturnWith, CallerPlaces
<1>3. UNCHANGED <<next, op, thread_count, sem, notified>>
  BY DEF pool
<1> QED
  BY <1>1, <1>2, <1>3, PoolCallerMoves

(* A call begins with an operation, or with the caller alone.              *)
LEMMA PoolCall ==
  ASSUME PoolInv, NEW k \in Kinds, AssJac(k)
  PROVE  PoolInv'
<1>1. pc[0] = "Idle" /\ \A w \in Workers : Ready(w)
  BY DEF AssJac, MayCall, PoolInv, WaitingToBeReleased
<1>2. UNCHANGED <<sem, notified>>
  BY DEF AssJac
<1>3. CASE \E o \in AssJacOps : Dispatch(o)
  BY <1>1, <1>2, <1>3, PoolDispatch DEF Dispatch, Ops, AssJacOps
<1>4. CASE pc' = [pc EXCEPT ![0] = "Alone"] /\ UNCHANGED <<op, thread_count, next>>
  <2>1. "Alone" \in CallerPlaces \ {"Release", "Join", "Gone"}
    BY DEF CallerPlaces
  <2> QED
    BY <1>1, <1>2, <1>4, <2>1, PoolCallerMoves
<1> QED
  BY <1>3, <1>4 DEF AssJac, CCAssJac, OpOf, AssJacOps

(* The end of the pool: a worker that was joined is gone.                  *)
LEMMA PoolJoin ==
  ASSUME PoolInv, Join
  PROVE  PoolInv'
<1> USE Ids DEF PoolInv, Join
<1>1. /\ pc[next] = "Gone" /\ next \in Workers /\ sem[next] = 0
  BY DEF PoolTypes, WaitingToBeReleased
<1>2. /\ pc'[0] = IF next = nThreads - 1 THEN "Gone" ELSE "Release"
      /\ \A w \in Workers : pc'[w] = pc[w]
      /\ next' \in Workers
  BY <1>1 DEF PoolTypes
<1>3. UNCHANGED <<op, thread_count, sem, notified>>
  BY DEF pool
<1>4. PoolTypes'
  BY <1>2, <1>3 DEF PoolTypes, CallerPlaces
<1>5. WaitingToBeReleased'
  BY <1>1, <1>2, <1>3 DEF WaitingToBeReleased, Ready, PoolTypes
<1>6. PlacesOfOp'
  BY <1>2, <1>3 DEF PlacesOfOp
<1>7. Pending' = Pending
  <2>1. \A w \in Workers : w \in Pending' <=> w \in Pending
    BY <1>1, <1>2, <1>3 DEF Pending, Workers
  <2> QED
    BY <2>1 DEF Pending
<1>8. CountIsOfPending' /\ NotifiedAtEnd'
  BY <1>3, <1>7 DEF CountIsOfPending, NotifiedAtEnd
<1> QED
  BY <1>4, <1>5, <1>6, <1>8

(* Every step of the system preserves the invariant.                       *)
LEMMA PoolStep ==
  ASSUME PoolInv, ~SpuriousWakeups, [Next]_vars
  PROVE  PoolInv'
<1>1. CASE \E k \in Kinds : AssJac(k)
  BY <1>1, PoolCall
<1>2. CASE Factor \/ MatrInitialize \/ UNCHANGED vars
  BY <1>2, PoolStutter DEF Factor, MatrInitialize, vars, pool
<1>3. CASE ThreadDestroy
  <2>1. \A w \in Workers : Ready(w)
    BY <1>3 DEF ThreadDestroy, PoolInv, WaitingToBeReleased
  <2> QED
    BY <1>3, <2>1, PoolDispatch DEF ThreadDestroy, Ops
<1>4. CASE Release
  BY <1>4, PoolRelease
<1>5. CASE \E t \in Threads : Assemble(t)
  BY <1>5, PoolAssemble
<1>6. CASE Wait \/ WakeUp
  BY <1>6, PoolWait
<1>7. CASE CollectRebuild \/ CollectError \/ Collect \/ AssembleAlone
  BY <1>7, PoolReturn DEF CollectRebuild, CollectError, Collect, AssembleAlone
<1>8. CASE CollectNaive
  <2>1. \A w \in Workers : Ready(w)
    BY <1>8 DEF CollectNaive, PoolInv, WaitingToBeReleased
  <2> QED
    BY <1>8, <2>1, PoolDispatch DEF CollectNaive, Ops
<1>9. CASE Join
  BY <1>9, PoolJoin
<1>10. CASE \E w \in Workers : Acquire(w) \/ EndOfOp(w)
  BY <1>10, PoolAcquire, PoolEndOfOp
<1> QED
  BY <1>1, <1>2, <1>3, <1>4, <1>5, <1>6, <1>7, <1>8, <1>9, <1>10, Ids
  DEF Next, Caller, Worker

-----------------------------------------------------------------------------
\* What follows of the count and of the condition variable.

(* The invariant always holds.                                             *)
THEOREM PoolInvariant ==
  ASSUME ~SpuriousWakeups
  PROVE  Spec => []PoolInv
BY PoolInit, PoolStep, PTL DEF Spec

(* thread_count is always the number of workers that have not reported the *)
(* end of the operation in hand: it never wraps and no assembly sets it    *)
(* while it is in use.                                                     *)
THEOREM CountIsRight ==
  ASSUME ~SpuriousWakeups
  PROVE  Spec => []CountIsOfPending
<1>1. PoolInv => CountIsOfPending
  BY DEF PoolInv
<1> QED
  BY <1>1, PoolInvariant, PTL

(* The caller goes on after its wait only when every worker is back.       *)
THEOREM GoesOnAfterLast ==
  ASSUME ~SpuriousWakeups
  PROVE  Spec => []RestartsAfterLast
<1>1. PoolInv => RestartsAfterLast
  BY DEF PoolInv, WaitingToBeReleased, Ready, RestartsAfterLast, Pending
<1> QED
  BY <1>1, PoolInvariant, PTL

(* The matrices of the naive assembly are summed when no thread assembles. *)
THEOREM SumsWhenAllAssembled ==
  ASSUME ~SpuriousWakeups
  PROVE  Spec => []SumsAreQuiet
<1>1. PoolInv => SumsAreQuiet
  BY DEF PoolInv, PlacesOfOp, SumsAreQuiet, AssJacOps
<1> QED
  BY <1>1, PoolInvariant, PTL

-----------------------------------------------------------------------------
\* The column-compressed matrix and the workers' copies of it.

InParallel == {"Release", "Assemble", "Sum", "Wait", "Blocked", "Collect"}

CCInv ==
  /\ CCReady \in {"CC_NO", "CC_FIRST", "CC_YES"}
  /\ pc[0] = "Idle" => kind = "NONE"
  /\ pc[0] = "Alone" /\ kind # "DEFAULT" => CCReady = "CC_NO"
  /\ kind = "CC" /\ pc[0] # "Alone" => matrix = "Compact" /\ CCReady = "CC_YES"
  /\ pc[0] \in InParallel /\ op = "OP_ASSJAC_CC" => kind = "CC"
  /\ CCReady = "CC_YES" => /\ matrix # "Assembled"
                           /\ matrix = "Compact" => copies = "current"

(* A step of a parallel assembly that does not touch the matrix preserves  *)
(* the invariant.                                                          *)
LEMMA CCSame ==
  ASSUME CCInv, UNCHANGED <<kind, op, cc, matrix>>,
         \/ pc'[0] = pc[0]
         \/ pc[0] \in InParallel /\ pc'[0] \in InParallel
  PROVE  CCInv'
BY DEF CCInv, cc, InParallel

(* The caller makes the call.                                              *)
LEMMA CCCall ==
  ASSUME PoolInv, CCInv, NEW k \in Kinds, AssJac(k)
  PROVE  CCInv'
<1> USE Ids DEF AssJac, MayCall
<1>1. pc[0] = "Idle" /\ kind' = k /\ pc \in [Threads -> CallerPlaces \cup WorkerPlaces]
  BY DEF PoolInv, PoolTypes
<1>2. CASE k \in {"CC", "EIG"} /\ CCReady # "CC_NO" /\ Compact(k)
  <2>1. /\ k = "CC" /\ matrix = "Compact" /\ matrix' = matrix
        /\ CCReady' = "CC_YES" /\ op' = "OP_ASSJAC_CC"
        /\ copies' = IF CCReady = "CC_FIRST" THEN "current" ELSE copies
        /\ pc'[0] = "Release"
    BY <1>1, <1>2 DEF CCAssJac, Compact, Dispatch
  <2>2. CCReady = "CC_YES" => copies = "current"
    BY <2>1 DEF CCInv
  <2>3. copies' = "current"
    BY <1>2, <2>1, <2>2 DEF CCInv
  <2> QED
    BY <2>1, <2>3 DEF CCInv, InParallel
<1>3. CASE k \in {"CC", "EIG"} /\ ~(CCReady # "CC_NO" /\ Compact(k))
  <2>1. CCReady' = "CC_NO" /\ pc'[0] = "Alone"
    BY <1>1, <1>3 DEF CCAssJac
  <2> QED
    BY <2>1 DEF CCInv, InParallel
<1>4. CASE k \in {"NAIVE", "GRAD", "PROD"}
  <2>1. /\ op' = OpOf(k) /\ UNCHANGED <<cc, matrix>>
        /\ pc'[0] = "Release"
    BY <1>1, <1>4 DEF Dispatch
  <2>2. op' # "OP_ASSJAC_CC"
    BY <1>4, <2>1 DEF OpOf
  <2> QED
    BY <1>1, <1>4, <2>1, <2>2 DEF CCInv, InParallel, cc
<1>5. CASE k = "DEFAULT"
  <2>1. pc'[0] = "Alone" /\ UNCHANGED <<op, cc, matrix>>
    BY <1>1, <1>5
  <2> QED
    BY <1>1, <1>5, <2>1 DEF CCInv, InParallel, cc
<1> QED
  BY <1>2, <1>3, <1>4, <1>5

(* The steps in which a thread works leave the caller where the matrix is  *)
(* not touched.                                                            *)
LEMMA CCWork ==
  ASSUME PoolInv, CCInv,
         \/ Release \/ Wait \/ WakeUp
         \/ \E t \in Threads : Assemble(t)
         \/ \E w \in Workers : Acquire(w) \/ EndOfOp(w)
  PROVE  CCInv'
<1> USE Ids
<1>0. pc \in [Threads -> CallerPlaces \cup WorkerPlaces]
  BY DEF PoolInv, PoolTypes
<1>1. CASE Release /\ op # "OP_EXIT"
  <2>1. pc[0] \in InParallel /\ pc'[0] \in InParallel
    BY <1>0, <1>1 DEF Release, InParallel
  <2> QED
    BY <1>1, <2>1, CCSame DEF Release
<1>2. CASE Release /\ op = "OP_EXIT"
  <2>1. pc[0] = "Release" /\ pc'[0] = "Join" /\ UNCHANGED <<kind, op, cc, matrix>>
    BY <1>0, <1>2 DEF Release
  <2> QED
    BY <2>1 DEF CCInv, cc, InParallel
<1>3. CASE Wait
  <2>1. pc[0] \in InParallel /\ pc'[0] \in InParallel
    BY <1>0, <1>3 DEF Wait, InParallel
  <2> QED
    BY <1>3, <2>1, CCSame DEF Wait, pool
<1>4. CASE WakeUp
  <2>1. pc[0] \in InParallel /\ pc'[0] \in InParallel
    BY <1>0, <1>4 DEF WakeUp, InParallel
  <2> QED
    BY <1>4, <2>1, CCSame DEF WakeUp
<1>5. ASSUME NEW t \in Threads, Assemble(t)
      PROVE  CCInv'
  <2>1. UNCHANGED <<kind, op, cc, matrix>>
    BY <1>5 DEF Assemble, Claim, LastElement, AddElement, LockRow, AddRow, FailElement,
       SumRows, pool
  <2>2. pc' = pc \/ (pc[t] \in {"Assemble", "Sum"} /\ pc' = Finished(t))
    BY <1>5 DEF Assemble, Claim, LastElement, AddElement, LockRow, AddRow, FailElement,
       SumRows
  <2>3. \/ pc'[0] = pc[0]
        \/ pc[0] \in InParallel /\ pc'[0] \in InParallel
    BY <1>0, <2>2 DEF Finished, InParallel
  <2> QED
    BY <2>1, <2>3, CCSame
<1>6. ASSUME NEW w \in Workers, Acquire(w) \/ EndOfOp(w)
      PROVE  CCInv'
  <2>1. UNCHANGED <<kind, op, cc, matrix>>
    BY <1>6 DEF Acquire, EndOfOp
  <2>2. pc'[0] = pc[0]
    BY <1>0, <1>6 DEF Acquire, EndOfOp
  <2> QED
    BY <2>1, <2>2, CCSame
<1> QED
  BY <1>1, <1>2, <1>3, <1>4, <1>5, <1>6

(* The assembly returns, or goes on to the sum.                            *)
LEMMA CCReturn ==
  ASSUME PoolInv, CCInv,
         CollectRebuild \/ CollectError \/ CollectNaive \/ Collect \/ AssembleAlone
  PROVE  CCInv'
<1> USE Ids
<1>0. pc \in [Threads -> CallerPlaces \cup WorkerPlaces]
  BY DEF PoolInv, PoolTypes
<1>1. CASE CollectRebuild
  <2>1. pc'[0] = "Idle" /\ kind' = "NONE" /\ CCReady' = "CC_NO"
    BY <1>0, <1>1 DEF CollectRebuild, ReturnWith
  <2> QED
    BY <2>1 DEF CCInv, InParallel
<1>2. CASE CollectError \/ Collect
  <2>1. /\ pc[0] = "Collect" /\ pc'[0] = "Idle" /\ kind' = "NONE"
        /\ UNCHANGED cc
        /\ matrix' = IF kind = "CC" /\ outcome' = "ok" /\ matrix = "Initialized"
                     THEN "Assembled" ELSE matrix
    BY <1>0, <1>2 DEF CollectError, Collect, ReturnWith
  <2>2. matrix' = matrix
    BY <2>1 DEF CCInv
  <2> QED
    BY <2>1, <2>2 DEF CCInv, cc, InParallel
<1>3. CASE CollectNaive
  <2>1. /\ pc[0] = "Collect" /\ pc'[0] = "Release" /\ op' = "OP_SUM_NAIVE"
        /\ UNCHANGED <<kind, cc, matrix>>
    BY <1>0, <1>3 DEF CollectNaive
  <2> QED
    BY <2>1 DEF CCInv, cc, InParallel
<1>4. CASE AssembleAlone
  <2>1. /\ pc[0] = "Alone" /\ pc'[0] = "Idle" /\ kind' = "NONE"
        /\ copies' = copies
        /\ CCReady' \in {CCReady, "CC_FIRST"}
        /\ matrix' \in {matrix, "Assembled"}
        /\ matrix' # matrix => kind = "CC"
    BY <1>0, <1>4 DEF AssembleAlone, ReturnWith
  <2>2. matrix' # matrix => CCReady' # "CC_YES"
    BY <2>1 DEF CCInv
  <2> QED
    BY <2>1, <2>2 DEF CCInv, InParallel
<1> QED
  BY <1>1, <1>2, <1>3, <1>4

(* Every step of the system preserves the invariant of the copies.         *)
LEMMA CCStep ==
  ASSUME PoolInv, CCInv, [Next]_vars
  PROVE  CCInv'
<1> USE Ids
<1>0. pc \in [Threads -> CallerPlaces \cup WorkerPlaces]
  BY DEF PoolInv, PoolTypes
<1>1. CASE \E k \in Kinds : AssJac(k)
  BY <1>1, CCCall
<1>2. CASE UNCHANGED vars
  BY <1>2, CCSame DEF vars, pool
<1>3. CASE Factor
  <2>1. /\ UNCHANGED <<pc, kind, op, CCReady>> /\ CCReady # "CC_YES"
        /\ pc[0] = "Idle"
    BY <1>3 DEF Factor, CCInv, pool
  <2> QED
    BY <2>1 DEF CCInv, InParallel
<1>4. CASE MatrInitialize
  <2>1. UNCHANGED <<pc, kind, op, CCReady>> /\ matrix' = "Initialized" /\ pc[0] = "Idle"
    BY <1>4 DEF MatrInitialize, cc, pool
  <2> QED
    BY <2>1 DEF CCInv, InParallel
<1>5. CASE ThreadDestroy
  <2>1. /\ pc[0] = "Idle" /\ pc'[0] = "Release" /\ op' = "OP_EXIT"
        /\ UNCHANGED <<kind, cc, matrix>>
    BY <1>0, <1>5 DEF ThreadDestroy
  <2> QED
    BY <2>1 DEF CCInv, cc, InParallel
<1>6. CASE Join
  <2>1. /\ pc[0] = "Join" /\ pc'[0] \in {"Gone", "Release"}
        /\ UNCHANGED <<kind, op, cc, matrix>>
    BY <1>0, <1>6 DEF Join, pool
  <2>2. op = "OP_EXIT"
    BY <2>1 DEF PoolInv, PlacesOfOp
  <2> QED
    BY <2>1, <2>2 DEF CCInv, cc, InParallel
<1> QED
  BY <1>1, <1>2, <1>3, <1>4, <1>5, <1>6, CCWork, CCReturn DEF Next, Caller, Worker

(* The invariant of the copies always holds.                               *)
THEOREM CopiesInvariant ==
  ASSUME ~SpuriousWakeups
  PROVE  Spec => []CCInv
<1>1. Init => CCInv
  BY Ids DEF Init, CCInv, InParallel
<1> QED
  BY <1>1, CCStep, PoolInvariant, PTL DEF Spec

(* When the workers assemble a compact matrix they do it in copies of the  *)
(* matrix in the caller's hands.                                           *)
THEOREM CopiesAreCurrent ==
  ASSUME ~SpuriousWakeups
  PROVE  Spec => []CopiesCorrespond
<1>1. CCInv => CopiesCorrespond
  BY DEF CCInv, CopiesCorrespond
<1> QED
  BY <1>1, CopiesInvariant, PTL

(* The caller is told to rebuild the matrix only when it is compact, so a  *)
(* matrix that was just rebuilt is not rebuilt again.                      *)
THEOREM RebuildsOnlyCompact ==
  ASSUME ~SpuriousWakeups
  PROVE  Spec => RebuildsOnce
<1>1. ASSUME CCInv, [Next]_vars, outcome = "running", outcome' = "rebuild"
      PROVE  matrix = "Compact"
  <2>1. CollectRebuild \/ AssembleAlone
    BY <1>1 DEF Next, vars, AssJac, Factor, MatrInitialize, ThreadDestroy, Caller, Worker,
       Release, Assemble, Claim, LastElement, AddElement, LockRow, AddRow, FailElement,
       SumRows, Wait, WakeUp, CollectError, CollectNaive, Collect, Join, Acquire, EndOfOp,
       ReturnWith
  <2>2. CASE CollectRebuild
    BY <1>1, <2>2 DEF CollectRebuild, CCInv, InParallel
  <2>3. CASE AssembleAlone
    BY <1>1, <2>3 DEF AssembleAlone, ReturnWith, Compact
  <2> QED
    BY <2>1, <2>2, <2>3
<1>2. CCInv /\ [Next]_vars =>
        [outcome = "running" /\ outcome' = "rebuild" => matrix = "Compact"]_vars
  BY <1>1
<1> QED
  BY <1>2, CopiesInvariant, PTL DEF Spec, RebuildsOnce

-----------------------------------------------------------------------------
\* The types of what the pool works on.

CallTypes ==
  /\ kind \in Kinds \cup {"NONE"}
  /\ except \subseteq Threads
  /\ propagate_ErrMatrixRebuild \in BOOLEAN
  /\ CCReady \in {"CC_NO", "CC_FIRST", "CC_YES"}
  /\ copies \in {"none", "current", "stale"}
  /\ matrix \in {"Initialized", "Assembled", "Compact"}
  /\ outcome \in {"none", "running", "ok", "error", "rebuild", "over"}

ClaimTypes ==
  /\ inuse \in [Elems -> BOOLEAN]
  /\ held \in [Threads -> SUBSET Elems]
  /\ todo \in [Threads -> SUBSET Rows]

RowType == [Threads -> [Elems -> Nat]]

MatrixTypes ==
  /\ adding \in [Threads -> SUBSET [row : Rows, was : RowType]]
  /\ JacHdl \in [Rows -> RowType]
  /\ own \in [Workers -> [Elems -> Nat]]

(* Every step keeps the types of the call.                                 *)
LEMMA CallTypesStep ==
  ASSUME PoolInv, CallTypes, [Next]_vars
  PROVE  CallTypes'
<1> USE Ids DEF CallTypes
<1>1. ASSUME NEW k \in Kinds, AssJac(k) PROVE CallTypes'
  <2>1. kind' = k /\ outcome' = "running"
    BY <1>1 DEF AssJac
  <2>2. CASE k \in {"CC", "EIG"} /\ CCAssJac(k)
    BY <2>1, <2>2 DEF CCAssJac, Dispatch
  <2>3. CASE /\ Dispatch(OpOf(k))
             /\ UNCHANGED <<propagate_ErrMatrixRebuild, cc, matrix>>
    BY <2>1, <2>3 DEF Dispatch, cc
  <2>4. CASE UNCHANGED <<inuse, op, thread_count, except, next,
                         propagate_ErrMatrixRebuild, cc, matrix>>
    BY <2>1, <2>4 DEF cc
  <2> QED
    BY <1>1, <2>2, <2>3, <2>4 DEF AssJac
<1>2. CASE Factor \/ MatrInitialize \/ ThreadDestroy \/ UNCHANGED vars
  BY <1>2 DEF Factor, MatrInitialize, ThreadDestroy, vars, cc
<1>3. ASSUME NEW t \in Threads, Assemble(t) PROVE CallTypes'
  BY <1>3 DEF Assemble, Claim, LastElement, AddElement, LockRow, AddRow, FailElement,
     SumRows, cc
<1>4. CASE Release \/ Wait \/ WakeUp \/ Join
  BY <1>4 DEF Release, Wait, WakeUp, Join, cc
<1>5. CASE CollectRebuild \/ CollectError \/ CollectNaive \/ Collect \/ AssembleAlone
  BY <1>5 DEF CollectRebuild, CollectError, CollectNaive, Collect, AssembleAlone,
     ReturnWith, cc
<1>6. ASSUME NEW w \in Workers, Acquire(w) \/ EndOfOp(w) PROVE CallTypes'
  BY <1>6 DEF Acquire, EndOfOp, cc
<1> QED
  BY <1>1, <1>2, <1>3, <1>4, <1>5, <1>6 DEF Next, Caller, Worker

(* Every step keeps the types of the claims.                               *)
LEMMA ClaimTypesStep ==
  ASSUME ClaimTypes, [Next]_vars
  PROVE  ClaimTypes'
<1> USE Ids DEF ClaimTypes
<1>1. ASSUME NEW k \in Kinds, AssJac(k) PROVE ClaimTypes'
  <2>1. UNCHANGED <<held, todo>> /\ inuse' \in {inuse, [e \in Elems |-> FALSE]}
    BY <1>1 DEF AssJac, CCAssJac, Dispatch
  <2> QED
    BY <2>1
<1>2. ASSUME NEW t \in Threads, Assemble(t) PROVE ClaimTypes'
  <2>1. CASE Claim(t)
    BY <2>1 DEF Claim, Free
  <2>2. CASE LastElement(t) \/ SumRows(t)
    BY <2>2 DEF LastElement, SumRows, claims
  <2>3. CASE AddElement(t) \/ LockRow(t) \/ AddRow(t) \/ FailElement(t)
    BY <2>3 DEF AddElement, LockRow, AddRow, FailElement
  <2> QED
    BY <1>2, <2>1, <2>2, <2>3 DEF Assemble
<1>3. CASE UNCHANGED claims
  BY <1>3 DEF claims
<1>4. CASE \/ Factor \/ MatrInitialize \/ ThreadDestroy \/ UNCHANGED vars
           \/ Release \/ Wait \/ WakeUp \/ Join
           \/ CollectRebuild \/ CollectError \/ CollectNaive \/ Collect \/ AssembleAlone
           \/ \E w \in Workers : Acquire(w) \/ EndOfOp(w)
  BY <1>3, <1>4 DEF Factor, MatrInitialize, ThreadDestroy, vars, Release, Wait, WakeUp,
     Join, CollectRebuild, CollectError, CollectNaive, Collect, AssembleAlone, Acquire,
     EndOfOp
<1> QED
  BY <1>1, <1>2, <1>4 DEF Next, Caller, Worker

(* Every step keeps the types of the matrices.                             *)
LEMMA MatrixTypesStep ==
  ASSUME ClaimTypes, MatrixTypes, [Next]_vars
  PROVE  MatrixTypes'
<1> USE Ids DEF MatrixTypes
<1>1. /\ Zero \in [Elems -> Nat] /\ Left \in [Elems -> Nat]
      /\ ZeroMatrix \in [Rows -> RowType] /\ LeftMatrix \in [Rows -> RowType]
      /\ MatrixOfCaller \in [Rows -> RowType]
  BY DEF Zero, Left, ZeroMatrix, LeftMatrix, MatrixOfCaller, RowType
<1>2. ASSUME NEW row \in RowType PROVE Added(row) \in RowType
  <2>1. ASSUME NEW t \in Workers, NEW e \in Elems PROVE row[t][e] + own[t][e] \in Nat
    <3>1. row[t][e] \in Nat /\ own[t][e] \in Nat
      BY <1>2 DEF RowType
    <3> QED
      BY <3>1
  <2> QED
    BY <1>2, <2>1 DEF Added, RowType
<1>3. ASSUME NEW row \in RowType, NEW t \in Threads, NEW e \in Elems
      PROVE  [row EXCEPT ![t][e] = @ + 1] \in RowType
  <2>1. row[t] \in [Elems -> Nat] /\ row[t][e] + 1 \in Nat
    BY <1>3 DEF RowType
  <2>2. [row[t] EXCEPT ![e] = @ + 1] \in [Elems -> Nat]
    BY <2>1
  <2> QED
    BY <1>3, <2>2 DEF RowType
<1>4. ASSUME NEW k \in Kinds, AssJac(k) PROVE MatrixTypes'
  BY <1>1, <1>4 DEF AssJac
<1>5. CASE Release \/ \E w \in Workers : Acquire(w)
  BY <1>1, <1>5 DEF Release, Acquire, claims
<1>6. ASSUME NEW t \in Threads, Assemble(t) PROVE MatrixTypes'
  <2>1. CASE Claim(t) \/ LastElement(t) \/ FailElement(t)
    BY <2>1 DEF Claim, LastElement, FailElement, claims
  <2>2. CASE AddElement(t)
    <3>1. UNCHANGED adding
      BY <2>2 DEF AddElement
    <3>2. PICK e \in held[t] :
            IF t = 0
            THEN /\ JacHdl' = [r \in Rows |-> [JacHdl[r] EXCEPT ![0][e] = @ + 1]]
                 /\ UNCHANGED own
            ELSE /\ own' = [own EXCEPT ![t][e] = @ + 1]
                 /\ UNCHANGED JacHdl
      BY <2>2 DEF AddElement
    <3>3. e \in Elems
      BY DEF ClaimTypes
    <3>4. CASE t = 0
      <4>1. \A r \in Rows : [JacHdl[r] EXCEPT ![0][e] = @ + 1] \in RowType
        BY <1>3, <3>3
      <4>2. JacHdl' \in [Rows -> RowType]
        BY <3>2, <3>4, <4>1
      <4> QED
        BY <3>1, <3>2, <3>4, <4>2
    <3>5. CASE t # 0
      <4>1. t \in Workers /\ own[t] \in [Elems -> Nat]
        BY <3>5
      <4>2. [own[t] EXCEPT ![e] = @ + 1] \in [Elems -> Nat]
        BY <3>3, <4>1
      <4>3. own' \in [Workers -> [Elems -> Nat]]
        BY <3>2, <3>5, <4>1, <4>2
      <4> QED
        BY <3>1, <3>2, <3>5, <4>3
    <3> QED
      BY <3>4, <3>5
  <2>3. CASE LockRow(t)
    <3>1. PICK r \in Rows :
            adding' = [adding EXCEPT ![t] = {[row |-> r, was |-> JacHdl[r]]}]
      BY <2>3 DEF LockRow, ClaimTypes
    <3>2. [row |-> r, was |-> JacHdl[r]] \in [row : Rows, was : RowType]
      OBVIOUS
    <3>3. {[row |-> r, was |-> JacHdl[r]]} \in SUBSET [row : Rows, was : RowType]
      BY <3>2
    <3>4. adding' \in [Threads -> SUBSET [row : Rows, was : RowType]]
      BY <3>1, <3>3
    <3> QED
      BY <2>3, <3>4 DEF LockRow
  <2>4. CASE AddRow(t)
    <3>1. PICK a \in adding[t], e \in held[t] :
            JacHdl' = [JacHdl EXCEPT ![a.row] = [a.was EXCEPT ![t][e] = @ + 1]]
      BY <2>4 DEF AddRow
    <3>2. a \in [row : Rows, was : RowType] /\ e \in Elems
      BY DEF ClaimTypes
    <3>3. [a.was EXCEPT ![t][e] = @ + 1] \in RowType
      BY <1>3, <3>2
    <3>4. JacHdl' \in [Rows -> RowType]
      BY <3>1, <3>2, <3>3
    <3> QED
      BY <2>4, <3>4 DEF AddRow
  <2>5. CASE SumRows(t)
    BY <1>2, <2>5 DEF SumRows, claims
  <2> QED
    BY <1>6, <2>1, <2>2, <2>3, <2>4, <2>5 DEF Assemble
<1>7. CASE Collect \/ AssembleAlone
  BY <1>1, <1>2, <1>7 DEF Collect, AssembleAlone, claims
<1>8. CASE \/ Factor \/ MatrInitialize \/ ThreadDestroy \/ UNCHANGED vars
           \/ Wait \/ WakeUp \/ Join \/ CollectRebuild \/ CollectError \/ CollectNaive
           \/ \E w \in Workers : EndOfOp(w)
  BY <1>8 DEF Factor, MatrInitialize, ThreadDestroy, vars, Wait, WakeUp, Join,
     CollectRebuild, CollectError, CollectNaive, EndOfOp, claims
<1> QED
  BY <1>4, <1>5, <1>6, <1>7, <1>8 DEF Next, Caller, Worker

(* Every reachable state of the pool and of the assembly is well typed;    *)
(* the count and the semaphores stay in their small ranges.                *)
THEOREM TypeCorrect ==
  ASSUME ~SpuriousWakeups
  PROVE  Spec => []TypeOK
<1>1. Init => CallTypes /\ ClaimTypes /\ MatrixTypes
  <2> SUFFICES ASSUME Init PROVE CallTypes /\ ClaimTypes /\ MatrixTypes
    OBVIOUS
  <2>1. CallTypes
    BY DEF Init, CallTypes
  <2>2. ClaimTypes
    BY DEF Init, ClaimTypes
  <2>3. Left \in [Elems -> Nat]
    BY DEF Left
  <2>4. LeftMatrix \in [Rows -> RowType]
    BY <2>3 DEF LeftMatrix, RowType
  <2>5. MatrixTypes
    BY <2>3, <2>4 DEF Init, MatrixTypes
  <2> QED
    BY <2>1, <2>2, <2>5
<1>2. ASSUME PoolInv, CallTypes, ClaimTypes, MatrixTypes
      PROVE  TypeOK
  <2>1. pc \in [Threads -> {"Idle", "Alone", "Release", "Join", "Wait", "Blocked",
                            "Collect", "Acquire", "Assemble", "Sum", "EndOfOp",
                            "Exit", "Gone"}]
    BY <1>2 DEF PoolInv, PoolTypes, CallerPlaces, WorkerPlaces
  <2>2. thread_count \in 0 .. nThreads - 1
    BY <1>2, WorkersFinite DEF PoolInv, CountIsOfPending
  <2>3. sem \in [Workers -> 0 .. 1] /\ op \in Ops /\ next \in Workers /\ notified \in BOOLEAN
    <3>1. {0, 1} = 0 .. 1
      OBVIOUS
    <3> QED
      BY <1>2, <3>1 DEF PoolInv, PoolTypes
  <2> QED
    BY <1>2, <2>1, <2>2, <2>3 DEF TypeOK, CallTypes, ClaimTypes, MatrixTypes, RowType
<1> QED
  BY <1>1, <1>2, CallTypesStep, ClaimTypesStep, MatrixTypesStep, PoolInvariant, PTL DEF Spec

-----------------------------------------------------------------------------
\* What each thread adds to the matrix.

Assembling == pc[0] \in InParallel /\ op \in AssJacOps
Summing == pc[0] \in InParallel /\ op = "OP_SUM_NAIVE"

\* A thread that has taken up the operation in hand.
Active(t) ==
  IF t = 0 THEN pc[0] \in InParallel \ {"Release"}
  ELSE sem[t] = 0 /\ ~ (pc[0] = "Release" /\ t >= next)

\* What thread t has added to row r for element e: to the caller's matrix, or to
\* its own.
Amount(r, t, e) ==
  IF t = 0 \/ op = "OP_ASSJAC_GRAD" THEN JacHdl[r][t][e] ELSE own[t][e]

Nothing(t, e) == \A r \in Rows : Amount(r, t, e) = 0
Whole(t, e) == \A r \in Rows : Amount(r, t, e) = 1

\* The rows that the thread still has to add.
Owed(t) == todo[t] \cup {a.row : a \in adding[t]}

\* The element is the thread's.
Has(t, e) == e \in held[t] \/ Whole(t, e)

Failed == except # {} \/ (op = "OP_ASSJAC_CC" /\ propagate_ErrMatrixRebuild)

\* A thread has one element in hand at a time, and one row of a matrix that is
\* shared; what it read of the row is what there is.
InHand(t) ==
  /\ \A e, f \in held[t] : e = f
  /\ held[t] # {} => pc[t] = "Assemble"
  /\ held[t] = {} => todo[t] = {} /\ adding[t] = {}
  /\ held[t] # {} /\ op # "OP_ASSJAC_GRAD" => todo[t] = Rows /\ adding[t] = {}
  /\ \A a, b \in adding[t] : a = b
  /\ \A a \in adding[t] : a.row \notin todo[t] /\ a.was = JacHdl[a.row]

HeldInv ==
  /\ \A t \in Threads : InHand(t)
  /\ \A t, u \in Threads : t # u =>
       \A a \in adding[t], b \in adding[u] : a.row # b.row

\* Of an element in hand the rows are added that are not owed; any other element
\* is added to all rows or to none.
Given(t, e) ==
  IF e \in held[t]
  THEN inuse[e] /\ \A r \in Rows : Amount(r, t, e) = IF r \in Owed(t) THEN 0 ELSE 1
  ELSE Nothing(t, e) \/ (Whole(t, e) /\ inuse[e])

AmountsInv ==
  Assembling =>
    /\ \A t \in Threads : Active(t) => \A e \in Elems : Given(t, e)
    /\ op = "OP_ASSJAC_GRAD" =>
         \A t \in Threads : ~ Active(t) => \A e \in Elems : Nothing(t, e)
    /\ op # "OP_ASSJAC_GRAD" /\ Active(0) =>
         \A r \in Rows, w \in Workers, e \in Elems : JacHdl[r][w][e] = 0

\* No element is of two threads; if nothing failed each that is in use is of one,
\* and a thread that is done found all in use.
ElementsInv ==
  Assembling =>
    /\ \A t, u \in Threads, e \in Elems :
         Active(t) /\ Active(u) /\ Has(t, e) /\ Has(u, e) => t = u
    /\ ~ Failed => \A e \in Elems : inuse[e] =>
         \E t \in Threads : Active(t) /\ Has(t, e)
    /\ ~ Failed => \A t \in Threads : Active(t) /\ pc[t] # "Assemble" =>
         \A e \in Elems : inuse[e]

\* Each element is added by one thread, once to each row.
AllAdded ==
  \A e \in Elems : \E t \in Threads :
    \A u \in Threads, r \in Rows : Amount(r, u, e) = IF u = t THEN 1 ELSE 0

\* The rows that are a thread's share have what the workers added once the
\* thread has summed them.
SumInv ==
  Summing =>
    /\ except = {} /\ AllAdded
    /\ \A t \in Threads, w \in Workers, e \in Elems : \A r \in Share(t) \cap Rows :
         JacHdl[r][w][e] = IF Active(t) /\ pc[t] # "Sum" THEN own[w][e] ELSE 0

\* What the caller knows of the assembly.
OutcomeInv ==
  /\ pc[0] = "Idle" <=> outcome \in {"none", "ok", "error", "rebuild"}
  /\ pc[0] = "Alone" => outcome = "running"
  /\ pc[0] # "Idle" /\ pc[0] # "Alone" =>
       outcome = IF op = "OP_EXIT" THEN "over" ELSE "running"

(* Who is at work has taken up the operation.                              *)
LEMMA AtWork ==
  ASSUME PoolInv, NEW t \in Threads, pc[t] \in {"Assemble", "Sum"}
  PROVE  /\ Active(t) /\ pc[0] \in InParallel \ {"Collect"}
         /\ pc[t] = "Assemble" => op \in AssJacOps
         /\ pc[t] = "Sum" => op = "OP_SUM_NAIVE"
<1> USE Ids
<1>1. /\ pc[0] \in CallerPlaces
      /\ pc[0] \in {"Idle", "Alone", "Collect"} => \A w \in Workers : Ready(w)
      /\ pc[0] = "Release" => \A w \in Workers : w >= next => Ready(w)
      /\ \A w \in Workers : sem[w] = 1 => pc[w] = "Acquire"
      /\ \A w \in Workers : sem[w] \in {0, 1}
  BY DEF PoolInv, PoolTypes, WaitingToBeReleased
<1>2. /\ pc[t] = "Assemble" => op \in AssJacOps
      /\ pc[t] = "Sum" => op = "OP_SUM_NAIVE"
      /\ pc[0] \notin {"Join", "Gone"}
  BY DEF PoolInv, PlacesOfOp, AssJacOps
<1>3. pc[0] \in InParallel \ {"Collect"}
  <2>1. pc[0] \notin {"Idle", "Alone", "Collect"}
    <3>1. CASE t = 0
      BY <3>1
    <3>2. CASE t # 0
      BY <1>1, <3>2 DEF Ready
    <3> QED
      BY <3>1, <3>2
  <2> QED
    BY <1>1, <1>2, <2>1 DEF CallerPlaces, InParallel
<1>4. Active(t)
  <2>1. CASE t = 0
    BY <1>3, <2>1 DEF Active, InParallel
  <2>2. CASE t # 0
    <3>1. sem[t] = 0 /\ ~ (pc[0] = "Release" /\ t >= next)
      BY <1>1, <2>2 DEF Ready
    <3> QED
      BY <2>2, <3>1 DEF Active
  <2> QED
    BY <2>1, <2>2
<1> QED
  BY <1>2, <1>3, <1>4

(* Whoever has something in hand is assembling.                            *)
LEMMA EmptyHands ==
  ASSUME HeldInv, NEW t \in Threads, pc[t] # "Assemble"
  PROVE  held[t] = {} /\ todo[t] = {} /\ adding[t] = {}
BY DEF HeldInv, InHand

LEMMA NoneAdding ==
  ASSUME HeldInv, op # "OP_ASSJAC_GRAD", NEW t \in Threads
  PROVE  adding[t] = {}
BY DEF HeldInv, InHand

(* What a thread has in hand stays so when others move.                    *)
LEMMA InHandKept ==
  ASSUME NEW u \in Threads, InHand(u), op' = op, held'[u] = held[u], todo'[u] = todo[u],
         adding'[u] = adding[u], held[u] # {} => pc'[u] = "Assemble",
         \A a \in adding[u] : JacHdl'[a.row] = JacHdl[a.row]
  PROVE  InHand(u)'
BY DEF InHand

LEMMA NothingInHand ==
  ASSUME UNCHANGED <<held, todo, adding>>,
         \A t \in Threads : held[t] = {} /\ todo[t] = {} /\ adding[t] = {}
  PROVE  HeldInv'
BY DEF HeldInv, InHand

(* The steps of a thread at work keep what the threads have in hand.       *)
LEMMA HeldWork ==
  ASSUME PoolInv, ClaimTypes, MatrixTypes, HeldInv, NEW t \in Threads, Assemble(t)
  PROVE  HeldInv'
<1>1. /\ pc \in [Threads -> CallerPlaces \cup WorkerPlaces]
      /\ held \in [Threads -> SUBSET Elems] /\ todo \in [Threads -> SUBSET Rows]
      /\ adding \in [Threads -> SUBSET [row : Rows, was : RowType]]
      /\ JacHdl \in [Rows -> RowType]
  BY DEF PoolInv, PoolTypes, ClaimTypes, MatrixTypes
<1>2. \A u \in Threads : InHand(u)
  BY DEF HeldInv
<1>3. UNCHANGED op /\ \A u \in Threads : u # t =>
         /\ held'[u] = held[u] /\ todo'[u] = todo[u] /\ adding'[u] = adding[u]
         /\ pc'[u] = pc[u]
  BY <1>1 DEF Assemble, Claim, LastElement, AddElement, LockRow, AddRow, FailElement, SumRows,
     Finished, pool, claims
<1>4. \A u \in Threads : u # t =>
        \A a \in adding[u] : JacHdl'[a.row] = JacHdl[a.row]
  <2>1. CASE UNCHANGED JacHdl
    BY <2>1
  <2>2. CASE AddElement(t) \/ SumRows(t)
    <3>1. op # "OP_ASSJAC_GRAD"
      BY <2>2, AtWork DEF AddElement, SumRows
    <3> QED
      BY <3>1, NoneAdding
  <2>3. CASE AddRow(t)
    <3>1. PICK a \in adding[t], e \in held[t] :
            JacHdl' = [JacHdl EXCEPT ![a.row] = [a.was EXCEPT ![t][e] = @ + 1]]
      BY <2>3 DEF AddRow
    <3>2. \A u \in Threads : u # t => \A b \in adding[u] : b.row # a.row /\ b.row \in Rows
      BY <1>1, <3>1 DEF HeldInv
    <3> QED
      BY <1>1, <3>1, <3>2
  <2> QED
    BY <2>1, <2>2, <2>3 DEF Assemble, Claim, LastElement, LockRow, FailElement
<1>5. \A u \in Threads : u # t => InHand(u)'
  <2> SUFFICES ASSUME NEW u \in Threads, u # t PROVE InHand(u)'
    OBVIOUS
  <2>1. held[u] # {} => pc[u] = "Assemble"
    BY <1>2 DEF InHand
  <2> QED
    BY <1>2, <1>3, <1>4, <2>1, InHandKept
<1>6. ASSUME InHand(t)', \A a \in adding'[t], u \in Threads : u # t =>
                            \A b \in adding[u] : a.row # b.row
      PROVE  HeldInv'
  <2>1. \A u \in Threads : InHand(u)'
    BY <1>5, <1>6
  <2>2. \A u, v \in Threads : u # v => \A a \in adding'[u], b \in adding'[v] : a.row # b.row
    BY <1>3, <1>6 DEF HeldInv
  <2> QED
    BY <2>1, <2>2 DEF HeldInv
<1>7. ASSUME adding'[t] \subseteq adding[t], InHand(t)' PROVE HeldInv'
  BY <1>6, <1>7 DEF HeldInv
<1>8. InHand(t) /\ (pc[t] = "Assemble" => op \in AssJacOps)
  BY <1>2, AtWork
<1>9. CASE Claim(t)
  <2>1. PICK e \in Free(t) : held' = [held EXCEPT ![t] = {e}]
    BY <1>9 DEF Claim
  <2>2. /\ held'[t] = {e} /\ todo'[t] = Rows /\ adding'[t] = {} /\ pc'[t] = "Assemble"
    BY <1>1, <1>8, <1>9, <2>1 DEF Claim, InHand
  <2>3. InHand(t)'
    BY <2>2 DEF InHand
  <2> QED
    BY <1>7, <2>2, <2>3
<1>10. CASE LastElement(t)
  <2>1. /\ held'[t] = {} /\ todo'[t] = {} /\ adding'[t] = {}
    BY <1>8, <1>10 DEF LastElement, claims, InHand
  <2>2. InHand(t)'
    BY <2>1 DEF InHand
  <2> QED
    BY <1>7, <2>1, <2>2
<1>11. CASE AddElement(t) \/ FailElement(t)
  <2>1. adding'[t] = {} /\ held'[t] = {} /\ todo'[t] = {}
    BY <1>1, <1>11, NoneAdding DEF AddElement, FailElement
  <2>2. InHand(t)'
    BY <2>1 DEF InHand
  <2> QED
    BY <1>7, <2>1, <2>2
<1>12. CASE LockRow(t)
  <2>1. PICK r \in todo[t] \ Locked :
          /\ adding' = [adding EXCEPT ![t] = {[row |-> r, was |-> JacHdl[r]]}]
          /\ todo' = [todo EXCEPT ![t] = @ \ {r}]
    BY <1>12 DEF LockRow
  <2>2. /\ adding'[t] = {[row |-> r, was |-> JacHdl[r]]} /\ todo'[t] = todo[t] \ {r}
        /\ UNCHANGED <<held, pc, JacHdl>> /\ op = "OP_ASSJAC_GRAD" /\ op' = op
        /\ pc[t] = "Assemble" /\ held[t] # {}
    BY <1>1, <1>8, <1>12, <2>1 DEF LockRow, pool, InHand
  <2>3. \A a \in adding'[t] : a.row = r /\ a.was = JacHdl[r]
    BY <2>2
  <2>4. InHand(t)'
    BY <1>8, <2>2, <2>3 DEF InHand
  <2>5. \A a \in adding'[t], u \in Threads : u # t => \A b \in adding[u] : a.row # b.row
    BY <2>1, <2>3 DEF Locked
  <2> QED
    BY <1>6, <2>4, <2>5
<1>13. CASE AddRow(t)
  <2>1. /\ adding'[t] = {} /\ UNCHANGED <<todo, pc, op>>
        /\ held'[t] = IF todo[t] = {} THEN {} ELSE held[t]
        /\ op = "OP_ASSJAC_GRAD" /\ held[t] # {}
    <3>1. op = "OP_ASSJAC_GRAD" /\ held[t] # {}
      BY <1>13, NoneAdding DEF AddRow
    <3> QED
      BY <1>1, <1>13, <3>1 DEF AddRow, pool
  <2>2. InHand(t)'
    BY <1>8, <2>1 DEF InHand
  <2> QED
    BY <1>7, <2>1, <2>2
<1>14. CASE SumRows(t)
  <2>1. held'[t] = {} /\ todo'[t] = {} /\ adding'[t] = {}
    BY <1>14, EmptyHands DEF SumRows, claims
  <2>2. InHand(t)'
    BY <2>1 DEF InHand
  <2> QED
    BY <1>7, <2>1, <2>2
<1> QED
  BY <1>9, <1>10, <1>11, <1>12, <1>13, <1>14 DEF Assemble

(* Every step does.                                                        *)
LEMMA HeldStep ==
  ASSUME PoolInv, ClaimTypes, MatrixTypes, HeldInv, [Next]_vars
  PROVE  HeldInv'
<1> USE Ids
<1>1. pc \in [Threads -> CallerPlaces \cup WorkerPlaces]
  BY DEF PoolInv, PoolTypes
<1>2. ASSUME \A t \in Threads : pc[t] # "Assemble", UNCHANGED <<held, todo, adding>>
      PROVE  HeldInv'
  BY <1>2, EmptyHands, NothingInHand
<1>3. ASSUME UNCHANGED <<held, todo, adding, op>>,
             \A t \in Threads : pc[t] = "Assemble" => pc'[t] = "Assemble",
             UNCHANGED JacHdl \/ op # "OP_ASSJAC_GRAD"
      PROVE  HeldInv'
  <2>1. \A u \in Threads : InHand(u)'
    <3> SUFFICES ASSUME NEW u \in Threads PROVE InHand(u)'
      OBVIOUS
    <3>1. InHand(u) /\ \A a \in adding[u] : JacHdl'[a.row] = JacHdl[a.row]
      BY <1>3, NoneAdding DEF HeldInv
    <3>2. held[u] # {} => pc'[u] = "Assemble"
      BY <1>3, <3>1 DEF InHand
    <3> QED
      BY <1>3, <3>1, <3>2, InHandKept
  <2> QED
    BY <1>3, <2>1 DEF HeldInv
<1>4. pc[0] \in {"Idle", "Alone", "Collect"} => \A t \in Threads : pc[t] # "Assemble"
  BY DEF PoolInv, WaitingToBeReleased, Ready
<1>5. CASE (\E k \in Kinds : AssJac(k)) \/ ThreadDestroy
  <2>1. pc[0] = "Idle" /\ UNCHANGED <<held, todo, adding>>
    BY <1>5 DEF AssJac, MayCall, ThreadDestroy, claims
  <2> QED
    BY <1>2, <1>4, <2>1
<1>6. CASE CollectRebuild \/ CollectError \/ CollectNaive \/ Collect \/ AssembleAlone
  <2>1. pc[0] \in {"Alone", "Collect"} /\ UNCHANGED <<held, todo, adding>>
    BY <1>6 DEF CollectRebuild, CollectError, CollectNaive, Collect, AssembleAlone, claims
  <2> QED
    BY <1>2, <1>4, <2>1
<1>7. CASE Factor \/ MatrInitialize \/ UNCHANGED vars
  BY <1>3, <1>7 DEF Factor, MatrInitialize, vars, claims, pool
<1>8. CASE Wait \/ WakeUp \/ Join
  <2>1. /\ UNCHANGED <<held, todo, adding, op, JacHdl>> /\ pc[0] # "Assemble"
        /\ \A w \in Workers : pc'[w] = pc[w]
    BY <1>1, <1>8 DEF Wait, WakeUp, Join, claims, pool
  <2> QED
    BY <1>3, <2>1
<1>9. CASE Release
  <2>1. /\ UNCHANGED <<held, todo, adding, op>> /\ pc[0] # "Assemble"
        /\ \A w \in Workers : pc'[w] = pc[w]
        /\ op = "OP_ASSJAC_GRAD" => UNCHANGED JacHdl
    BY <1>1, <1>9 DEF Release, claims
  <2> QED
    BY <1>3, <2>1
<1>10. ASSUME NEW w \in Workers, Acquire(w) \/ EndOfOp(w) PROVE HeldInv'
  <2>1. /\ UNCHANGED <<held, todo, adding, op, JacHdl>> /\ pc[w] # "Assemble"
        /\ \A t \in Threads : t # w => pc'[t] = pc[t]
    BY <1>1, <1>10 DEF Acquire, EndOfOp, claims
  <2> QED
    BY <1>3, <2>1
<1> QED
  BY <1>5, <1>6, <1>7, <1>8, <1>9, <1>10, HeldWork DEF Next, Caller, Worker

(* A thread at work stays with the operation in hand.                      *)
LEMMA WorkFrame ==
  ASSUME PoolInv, HeldInv, NEW t \in Threads, Assemble(t)
  PROVE  /\ pc[t] \in {"Assemble", "Sum"} /\ Active(t)
         /\ UNCHANGED <<op, outcome, kind>>
         /\ \A u \in Threads : Active(u)' <=> Active(u)
         /\ Assembling' <=> Assembling
         /\ Summing' <=> Summing
         /\ \A u \in Threads : u # t => pc'[u] = pc[u]
         /\ pc'[t] = pc[t] \/ (pc' = Finished(t) /\ pc'[t] \notin {"Assemble", "Sum"})
<1> USE Ids
<1>1. pc \in [Threads -> CallerPlaces \cup WorkerPlaces]
  BY DEF PoolInv, PoolTypes
<1>2. pc[t] \in {"Assemble", "Sum"}
  <2>1. CASE AddRow(t)
    BY <2>1, EmptyHands DEF AddRow
  <2> QED
    BY <2>1 DEF Assemble, Claim, LastElement, AddElement, LockRow, FailElement, SumRows
<1>3. UNCHANGED <<op, outcome, sem, next, kind>> /\ (pc' = pc \/ pc' = Finished(t))
  BY DEF Assemble, Claim, LastElement, AddElement, LockRow, AddRow, FailElement, SumRows, pool
<1>4. pc' = Finished(t) => pc'[t] = IF t = 0 THEN "Wait" ELSE "EndOfOp"
  BY <1>1 DEF Finished
<1>5. \A u \in Threads : u # t => pc'[u] = pc[u]
  BY <1>1, <1>3 DEF Finished
<1>6. pc'[0] = pc[0] \/ (pc[0] \in {"Assemble", "Sum"} /\ pc'[0] = "Wait")
  BY <1>2, <1>3, <1>4, <1>5
<1>7. \A u \in Threads : Active(u)' <=> Active(u)
  BY <1>3, <1>6 DEF Active, InParallel
<1>8. (Assembling' <=> Assembling) /\ (Summing' <=> Summing)
  BY <1>3, <1>6 DEF Assembling, Summing, InParallel
<1> QED
  BY <1>2, <1>3, <1>4, <1>5, <1>7, <1>8, AtWork

(* Nothing changes of an element of a thread that does not touch it.       *)
LEMMA GivenKept ==
  ASSUME NEW u, NEW f, held'[u] = held[u], Owed(u)' = Owed(u), inuse[f] => inuse'[f],
         \A r \in Rows : Amount(r, u, f)' = Amount(r, u, f)
  PROVE  /\ Given(u, f) => Given(u, f)'
         /\ Has(u, f)' <=> Has(u, f)
<1>1. (Nothing(u, f)' <=> Nothing(u, f)) /\ (Whole(u, f)' <=> Whole(u, f))
  BY DEF Nothing, Whole
<1> QED
  BY <1>1 DEF Given, Has

(* Who has an element uses it.                                             *)
LEMMA HasInUse ==
  ASSUME NEW u, NEW f, Given(u, f)
  PROVE  Has(u, f) => inuse[f]
<1>1. 0 \in Rows
  BY PoolAssumption DEF Rows
<1>2. ~ (Nothing(u, f) /\ Whole(u, f))
  BY <1>1 DEF Nothing, Whole
<1> QED
  BY <1>2 DEF Given, Has

(* What is added with an element, and with a row.                          *)
LEMMA AddedElement ==
  ASSUME PoolInv, ClaimTypes, MatrixTypes, HeldInv, NEW t \in Threads, AddElement(t)
  PROVE  \E e \in held[t] :
           /\ held[t] = {e} /\ e \in Elems
           /\ \A r \in Rows, u \in Threads, f \in Elems :
                Amount(r, u, f)' = IF u = t /\ f = e THEN Amount(r, u, f) + 1
                                                     ELSE Amount(r, u, f)
           /\ \A r \in Rows, w \in Workers : JacHdl'[r][w] = JacHdl[r][w]
<1> USE Ids
<1>1. op # "OP_ASSJAC_GRAD" /\ UNCHANGED op
  BY DEF AddElement, pool
<1>2. PICK e \in held[t] :
        IF t = 0
        THEN /\ JacHdl' = [r \in Rows |-> [JacHdl[r] EXCEPT ![0][e] = @ + 1]]
             /\ UNCHANGED own
        ELSE /\ own' = [own EXCEPT ![t][e] = @ + 1]
             /\ UNCHANGED JacHdl
  BY DEF AddElement
<1>3. held[t] = {e} /\ e \in Elems
  BY <1>2 DEF HeldInv, InHand, ClaimTypes
<1>4. /\ \A r \in Rows : JacHdl[r] \in RowType
      /\ own \in [Workers -> [Elems -> Nat]]
  BY DEF MatrixTypes
<1>5. CASE t = 0
  <2>1. \A r \in Rows : /\ JacHdl'[r][0] = [JacHdl[r][0] EXCEPT ![e] = @ + 1]
                        /\ JacHdl[r][0] \in [Elems -> Nat]
                        /\ \A w \in Workers : JacHdl'[r][w] = JacHdl[r][w]
    BY <1>2, <1>4, <1>5 DEF RowType
  <2>2. ASSUME NEW r \in Rows, NEW f \in Elems
        PROVE  JacHdl'[r][0][f] = IF f = e THEN JacHdl[r][0][f] + 1 ELSE JacHdl[r][0][f]
    <3> DEFINE old == JacHdl[r][0]
               new == JacHdl'[r][0]
    <3>1. new = [old EXCEPT ![e] = @ + 1] /\ old \in [Elems -> Nat]
      BY <2>1
    <3> HIDE DEF old, new
    <3>2. new[f] = IF f = e THEN old[f] + 1 ELSE old[f]
      BY <1>3, <3>1
    <3> QED
      BY <3>2 DEF old, new
  <2>3. ASSUME NEW r \in Rows, NEW u \in Threads, NEW f \in Elems
        PROVE  Amount(r, u, f)' = IF u = t /\ f = e THEN Amount(r, u, f) + 1
                                                    ELSE Amount(r, u, f)
    <3>1. CASE u = 0
      BY <1>5, <2>2, <3>1 DEF Amount
    <3>2. CASE u # 0
      BY <1>1, <1>2, <1>5, <3>2 DEF Amount
    <3> QED
      BY <3>1, <3>2
  <2> QED
    BY <1>2, <1>3, <2>1, <2>3
<1>6. CASE t # 0
  <2>1. /\ own'[t] = [own[t] EXCEPT ![e] = @ + 1] /\ own[t] \in [Elems -> Nat]
        /\ \A w \in Workers : w # t => own'[w] = own[w]
    BY <1>2, <1>4, <1>6
  <2>2. \A f \in Elems : own'[t][f] = IF f = e THEN own[t][f] + 1 ELSE own[t][f]
    BY <1>3, <2>1
  <2> QED
    BY <1>1, <1>2, <1>3, <1>6, <2>1, <2>2 DEF Amount
<1> QED
  BY <1>5, <1>6

LEMMA AddedRow ==
  ASSUME PoolInv, ClaimTypes, MatrixTypes, HeldInv, NEW t \in Threads, AddRow(t)
  PROVE  /\ op = "OP_ASSJAC_GRAD"
         /\ \E e \in held[t], a \in adding[t] :
              /\ held[t] = {e} /\ e \in Elems /\ adding[t] = {a} /\ a.row \in Rows
              /\ \A r \in Rows, u \in Threads, f \in Elems :
                   Amount(r, u, f)' = IF r = a.row /\ u = t /\ f = e
                                      THEN Amount(r, u, f) + 1 ELSE Amount(r, u, f)
<1>1. op = "OP_ASSJAC_GRAD" /\ UNCHANGED op
  BY NoneAdding DEF AddRow, pool
<1>2. PICK a \in adding[t], e \in held[t] :
        JacHdl' = [JacHdl EXCEPT ![a.row] = [a.was EXCEPT ![t][e] = @ + 1]]
  BY DEF AddRow
<1>3. /\ held[t] = {e} /\ e \in Elems /\ adding[t] = {a} /\ a.row \in Rows
      /\ a.was = JacHdl[a.row]
  BY <1>2 DEF HeldInv, InHand, ClaimTypes, MatrixTypes
<1>4. \A r \in Rows : JacHdl[r] \in RowType
  BY DEF MatrixTypes
<1>5. /\ JacHdl'[a.row] = [JacHdl[a.row] EXCEPT ![t][e] = @ + 1]
      /\ \A r \in Rows : r # a.row => JacHdl'[r] = JacHdl[r]
  BY <1>2, <1>3 DEF MatrixTypes
<1>6. /\ JacHdl'[a.row][t] = [JacHdl[a.row][t] EXCEPT ![e] = @ + 1]
      /\ JacHdl[a.row][t] \in [Elems -> Nat]
      /\ \A u \in Threads : u # t => JacHdl'[a.row][u] = JacHdl[a.row][u]
  BY <1>3, <1>4, <1>5 DEF RowType
<1>7. \A f \in Elems : JacHdl'[a.row][t][f] =
        IF f = e THEN JacHdl[a.row][t][f] + 1 ELSE JacHdl[a.row][t][f]
  BY <1>3, <1>6
<1>8. \A r \in Rows, u \in Threads, f \in Elems :
        Amount(r, u, f)' = IF r = a.row /\ u = t /\ f = e
                           THEN Amount(r, u, f) + 1 ELSE Amount(r, u, f)
  BY <1>1, <1>5, <1>6, <1>7 DEF Amount
<1> QED
  BY <1>1, <1>2, <1>3, <1>8

(* What a step of a thread at work does to what is added and to whose the  *)
(* elements are: no element is lost, and one is claimed that was nobody's. *)
LEMMA WorkAmounts ==
  ASSUME PoolInv, ClaimTypes, MatrixTypes, HeldInv, AmountsInv, Assembling,
         NEW t \in Threads, Assemble(t)
  PROVE  /\ AmountsInv'
         /\ ~ Claim(t) =>
              /\ UNCHANGED inuse
              /\ \A u \in Threads, f \in Elems : Active(u) =>
                   /\ Has(u, f)' => Has(u, f)
                   /\ ~ FailElement(t) => (Has(u, f) => Has(u, f)')
         /\ Claim(t) => \E e \in Elems :
              /\ ~ inuse[e] /\ Has(t, e)'
              /\ \A f \in Elems : f # e => inuse'[f] = inuse[f]
              /\ \A u \in Threads, f \in Elems : Active(u) /\ (u # t \/ f # e) =>
                   (Has(u, f)' <=> Has(u, f))
<1> DEFINE Kept == \A u \in Threads, f \in Elems :
                     Active(u) => (Has(u, f)' <=> Has(u, f))
<1>1. /\ held \in [Threads -> SUBSET Elems] /\ todo \in [Threads -> SUBSET Rows]
      /\ adding \in [Threads -> SUBSET [row : Rows, was : RowType]]
      /\ inuse \in [Elems -> BOOLEAN]
  BY DEF ClaimTypes, MatrixTypes
<1>2. /\ Active(t) /\ UNCHANGED op /\ (\A u \in Threads : Active(u)' <=> Active(u))
      /\ op \in AssJacOps /\ ~ SumRows(t)
  BY WorkFrame, AtWork DEF Assembling, SumRows, AssJacOps
<1>3. \A u \in Threads : u # t =>
        /\ held'[u] = held[u] /\ todo'[u] = todo[u] /\ adding'[u] = adding[u]
        /\ Owed(u)' = Owed(u)
  <2>1. \A u \in Threads : u # t =>
          held'[u] = held[u] /\ todo'[u] = todo[u] /\ adding'[u] = adding[u]
    BY <1>1, <1>2 DEF Assemble, Claim, LastElement, AddElement, LockRow, AddRow, FailElement,
       claims
  <2> QED
    BY <2>1 DEF Owed
<1>4. \A e \in Elems : inuse[e] => inuse'[e]
  <2>1. CASE Claim(t)
    BY <1>1, <2>1 DEF Claim
  <2> QED
    BY <1>2, <2>1 DEF Assemble, LastElement, AddElement, LockRow, AddRow, FailElement, claims
<1>5. \A u \in Threads, f \in Elems : u # t =>
        \A r \in Rows : Amount(r, u, f)' = Amount(r, u, f)
  <2>1. CASE UNCHANGED <<JacHdl, own>>
    BY <1>2, <2>1 DEF Amount
  <2>2. CASE AddElement(t)
    BY <2>2, AddedElement
  <2>3. CASE AddRow(t)
    BY <2>3, AddedRow
  <2> QED
    BY <1>2, <2>1, <2>2, <2>3 DEF Assemble, Claim, LastElement, LockRow, FailElement
<1>6. \A u \in Threads, f \in Elems : u # t =>
        (Given(u, f) => Given(u, f)') /\ (Has(u, f)' <=> Has(u, f))
  BY <1>3, <1>4, <1>5, GivenKept
<1>7. /\ \A u \in Threads, f \in Elems : Active(u) => Given(u, f)
      /\ op = "OP_ASSJAC_GRAD" => \A u \in Threads, f \in Elems : ~ Active(u) => Nothing(u, f)
      /\ op # "OP_ASSJAC_GRAD" /\ Active(0) =>
           \A r \in Rows, w \in Workers, e \in Elems : JacHdl[r][w][e] = 0
  BY DEF AmountsInv
<1>8. ASSUME \A f \in Elems : Given(t, f)' PROVE AmountsInv'
  <2>1. \A u \in Threads, f \in Elems : Active(u)' => Given(u, f)'
    BY <1>2, <1>6, <1>7, <1>8
  <2>2. op = "OP_ASSJAC_GRAD" => \A u \in Threads, f \in Elems : ~ Active(u)' => Nothing(u, f)'
    <3> SUFFICES ASSUME op = "OP_ASSJAC_GRAD", NEW u \in Threads, NEW f \in Elems, ~ Active(u)
                 PROVE  Nothing(u, f)'
      BY <1>2
    <3>1. Nothing(u, f) /\ u # t
      BY <1>2, <1>7
    <3> QED
      BY <1>5, <3>1 DEF Nothing
  <2>3. op # "OP_ASSJAC_GRAD" /\ Active(0) =>
          \A r \in Rows, w \in Workers, e \in Elems : JacHdl'[r][w][e] = 0
    <3>1. CASE UNCHANGED JacHdl
      BY <1>7, <3>1
    <3>2. CASE AddElement(t)
      BY <1>7, <3>2, AddedElement
    <3>3. CASE AddRow(t)
      BY <3>3, AddedRow
    <3> QED
      BY <1>2, <3>1, <3>2, <3>3 DEF Assemble, Claim, LastElement, LockRow, FailElement
  <2>4. Active(0)' <=> Active(0)
    BY <1>2, Ids
  <2> QED
    BY <1>2, <2>1, <2>2, <2>3, <2>4 DEF AmountsInv
<1>9. ASSUME \A f \in Elems : Given(t, f)' /\ (Has(t, f)' <=> Has(t, f))
      PROVE  AmountsInv' /\ Kept
  BY <1>6, <1>8, <1>9
<1>10. CASE Claim(t)
  <2>1. PICK e \in Free(t) :
          /\ inuse' = [inuse EXCEPT ![e] = TRUE] /\ held' = [held EXCEPT ![t] = {e}]
          /\ todo' = [todo EXCEPT ![t] = Rows] /\ UNCHANGED <<adding, JacHdl, own>>
          /\ held[t] = {}
    BY <1>10 DEF Claim
  <2>2. e \in Elems /\ ~ inuse[e]
    BY DEF Free
  <2>3. held'[t] = {e} /\ todo'[t] = Rows /\ adding[t] = {} /\ inuse'[e]
    BY <1>1, <2>1, <2>2 DEF HeldInv, InHand
  <2>4. \A r \in Rows, f \in Elems : Amount(r, t, f)' = Amount(r, t, f)
    BY <1>2, <2>1 DEF Amount
  <2>5. Nothing(t, e)
    BY <1>2, <1>7, <2>1, <2>2 DEF Given
  <2>6. Owed(t)' = Rows
    BY <2>1, <2>3 DEF Owed
  <2>7. Given(t, e)' /\ Has(t, e)'
    BY <2>3, <2>4, <2>5, <2>6, <2>2 DEF Given, Has, Nothing
  <2>8. ASSUME NEW f \in Elems, f # e PROVE Given(t, f)' /\ (Has(t, f)' <=> Has(t, f))
    <3>1. f \notin held[t] /\ f \notin held'[t]
      BY <2>1, <2>3, <2>8
    <3>2. (Nothing(t, f)' <=> Nothing(t, f)) /\ (Whole(t, f)' <=> Whole(t, f))
      BY <2>4 DEF Nothing, Whole
    <3>3. Given(t, f)
      BY <1>2, <1>7
    <3> QED
      BY <1>4, <3>1, <3>2, <3>3 DEF Given, Has
  <2>9. \A f \in Elems : Given(t, f)'
    BY <2>7, <2>8
  <2>10. \A f \in Elems : f # e => inuse'[f] = inuse[f]
    BY <1>1, <2>1, <2>2
  <2>11. \A u \in Threads, f \in Elems : Active(u) /\ (u # t \/ f # e) =>
           (Has(u, f)' <=> Has(u, f))
    BY <1>6, <2>8
  <2> QED
    BY <1>8, <1>10, <2>2, <2>7, <2>9, <2>10, <2>11
<1>11. CASE LastElement(t)
  <2>1. UNCHANGED <<held, todo, adding, inuse, JacHdl, own>>
    BY <1>11 DEF LastElement, claims
  <2>2. \A r \in Rows, f \in Elems : Amount(r, t, f)' = Amount(r, t, f)
    BY <1>2, <2>1 DEF Amount
  <2>3. Owed(t)' = Owed(t)
    BY <2>1 DEF Owed
  <2>4. \A f \in Elems : Given(t, f)' /\ (Has(t, f)' <=> Has(t, f))
    BY <1>2, <1>7, <2>1, <2>2, <2>3, GivenKept
  <2>5. AmountsInv' /\ Kept
    BY <1>9, <2>4
  <2>6. ~ Claim(t)
    BY <1>11 DEF Claim, LastElement
  <2> QED
    BY <2>1, <2>5, <2>6
<1>12. CASE AddElement(t)
  <2>1. PICK e \in held[t] :
          /\ held[t] = {e} /\ e \in Elems
          /\ \A r \in Rows, f \in Elems :
               Amount(r, t, f)' = IF f = e THEN Amount(r, t, f) + 1 ELSE Amount(r, t, f)
    BY <1>12, AddedElement
  <2>2. /\ held'[t] = {} /\ todo'[t] = {} /\ adding'[t] = {} /\ UNCHANGED inuse
        /\ todo[t] = Rows /\ adding[t] = {}
    BY <1>1, <1>12, <2>1 DEF AddElement, HeldInv, InHand
  <2>3. Given(t, e)' /\ Has(t, e) /\ Has(t, e)'
    <3>1. inuse[e] /\ \A r \in Rows : Amount(r, t, e) = 0
      BY <1>2, <1>7, <2>1, <2>2 DEF Given, Owed
    <3>2. Whole(t, e)'
      BY <2>1, <3>1 DEF Whole
    <3> QED
      BY <2>1, <2>2, <3>1, <3>2 DEF Given, Has
  <2>4. ASSUME NEW f \in Elems, f # e PROVE Given(t, f)' /\ (Has(t, f)' <=> Has(t, f))
    <3>1. f \notin held[t] /\ f \notin held'[t]
      BY <2>1, <2>2, <2>4
    <3>2. (Nothing(t, f)' <=> Nothing(t, f)) /\ (Whole(t, f)' <=> Whole(t, f))
      BY <2>1, <2>4 DEF Nothing, Whole
    <3>3. Given(t, f)
      BY <1>2, <1>7
    <3> QED
      BY <2>2, <3>1, <3>2, <3>3 DEF Given, Has
  <2>5. AmountsInv' /\ Kept
    BY <1>9, <2>3, <2>4
  <2>6. ~ Claim(t)
    BY <2>1 DEF Claim
  <2> QED
    BY <2>2, <2>5, <2>6
<1>13. CASE LockRow(t)
  <2>1. PICK r \in todo[t] :
          /\ adding' = [adding EXCEPT ![t] = {[row |-> r, was |-> JacHdl[r]]}]
          /\ todo' = [todo EXCEPT ![t] = @ \ {r}] /\ UNCHANGED <<held, inuse, JacHdl, own>>
          /\ adding[t] = {}
    BY <1>13 DEF LockRow
  <2>2. adding'[t] = {[row |-> r, was |-> JacHdl[r]]} /\ todo'[t] = todo[t] \ {r}
    BY <1>1, <2>1
  <2>3. \A a \in adding'[t] : a.row = r
    BY <2>2
  <2>4. {a.row : a \in adding'[t]} = {r} /\ {a.row : a \in adding[t]} = {}
    BY <2>1, <2>2, <2>3
  <2>5. Owed(t)' = Owed(t)
    BY <2>1, <2>2, <2>4 DEF Owed
  <2>6. \A q \in Rows, f \in Elems : Amount(q, t, f)' = Amount(q, t, f)
    BY <1>2, <2>1 DEF Amount
  <2>7. \A f \in Elems : Given(t, f)' /\ (Has(t, f)' <=> Has(t, f))
    BY <1>2, <1>7, <2>1, <2>5, <2>6, GivenKept
  <2>8. AmountsInv' /\ Kept
    BY <1>9, <2>7
  <2>9. ~ Claim(t)
    BY <2>1 DEF Claim, HeldInv, InHand
  <2> QED
    BY <2>1, <2>8, <2>9
<1>14. CASE AddRow(t)
  <2>1. PICK e \in held[t], a \in adding[t] :
          /\ held[t] = {e} /\ e \in Elems /\ adding[t] = {a} /\ a.row \in Rows
          /\ \A r \in Rows, f \in Elems :
               Amount(r, t, f)' = IF r = a.row /\ f = e THEN Amount(r, t, f) + 1
                                                        ELSE Amount(r, t, f)
    BY <1>14, AddedRow
  <2>2. /\ adding'[t] = {} /\ UNCHANGED <<todo, inuse>>
        /\ held'[t] = IF todo[t] = {} THEN {} ELSE {e}
        /\ a.row \notin todo[t]
    BY <1>1, <1>14, <2>1 DEF AddRow, HeldInv, InHand
  <2>3. Owed(t) = todo[t] \cup {a.row} /\ Owed(t)' = todo[t]
    BY <2>1, <2>2 DEF Owed
  <2>4. inuse[e] /\ \A r \in Rows : Amount(r, t, e) = IF r \in Owed(t) THEN 0 ELSE 1
    BY <1>2, <1>7, <2>1 DEF Given
  <2>5. \A r \in Rows : Amount(r, t, e)' = IF r \in todo[t] THEN 0 ELSE 1
    BY <2>1, <2>2, <2>3, <2>4
  <2>6. Given(t, e)' /\ Has(t, e) /\ Has(t, e)'
    <3>1. CASE todo[t] = {}
      <4>1. Whole(t, e)'
        BY <2>5, <3>1 DEF Whole
      <4> QED
        BY <2>1, <2>2, <2>4, <3>1, <4>1 DEF Given, Has
    <3>2. CASE todo[t] # {}
      BY <2>1, <2>2, <2>3, <2>4, <2>5, <3>2 DEF Given, Has
    <3> QED
      BY <3>1, <3>2
  <2>7. ASSUME NEW f \in Elems, f # e PROVE Given(t, f)' /\ (Has(t, f)' <=> Has(t, f))
    <3>1. f \notin held[t] /\ f \notin held'[t]
      BY <2>1, <2>2, <2>7
    <3>2. (Nothing(t, f)' <=> Nothing(t, f)) /\ (Whole(t, f)' <=> Whole(t, f))
      BY <2>1, <2>7 DEF Nothing, Whole
    <3>3. Given(t, f)
      BY <1>2, <1>7
    <3> QED
      BY <2>2, <3>1, <3>2, <3>3 DEF Given, Has
  <2>8. AmountsInv' /\ Kept
    BY <1>9, <2>6, <2>7
  <2>9. ~ Claim(t)
    BY <2>1 DEF Claim
  <2> QED
    BY <2>2, <2>8, <2>9
<1>15. CASE FailElement(t)
  <2>1. /\ held'[t] = {} /\ todo'[t] = {} /\ UNCHANGED <<adding, inuse, JacHdl, own>>
        /\ held[t] # {} /\ todo[t] = Rows /\ adding[t] = {}
    BY <1>1, <1>15 DEF FailElement
  <2>2. \A r \in Rows, f \in Elems : Amount(r, t, f)' = Amount(r, t, f)
    BY <1>2, <2>1 DEF Amount
  <2>3. ASSUME NEW f \in Elems PROVE Given(t, f)' /\ (Has(t, f)' => Has(t, f))
    <3>1. (Nothing(t, f)' <=> Nothing(t, f)) /\ (Whole(t, f)' <=> Whole(t, f))
      BY <2>2 DEF Nothing, Whole
    <3>2. Given(t, f)
      BY <1>2, <1>7
    <3>3. f \in held[t] => Nothing(t, f)
      BY <2>1, <3>2 DEF Given, Owed, Nothing
    <3> QED
      BY <2>1, <3>1, <3>2, <3>3 DEF Given, Has
  <2>4. AmountsInv'
    BY <1>8, <2>3
  <2>5. \A u \in Threads, f \in Elems : Active(u) => (Has(u, f)' => Has(u, f))
    BY <1>6, <2>3
  <2>6. ~ Claim(t)
    BY <2>1 DEF Claim
  <2> QED
    BY <1>15, <2>1, <2>4, <2>5, <2>6
<1> QED
  BY <1>2, <1>10, <1>11, <1>12, <1>13, <1>14, <1>15 DEF Assemble

(* A step that touches no element and lets nobody take up the operation.   *)
LEMMA SameElements ==
  ASSUME UNCHANGED <<op, inuse, held, todo, adding, except, propagate_ErrMatrixRebuild,
                     JacHdl, own>>,
         Assembling,
         \A t \in Threads : /\ Active(t)' <=> Active(t)
                            /\ pc'[t] = "Assemble" <=> pc[t] = "Assemble",
         AmountsInv, ElementsInv
  PROVE  AmountsInv' /\ ElementsInv'
<1>1. \A t, e : (Nothing(t, e)' <=> Nothing(t, e)) /\ (Whole(t, e)' <=> Whole(t, e))
  BY DEF Nothing, Whole, Amount
<1>2. \A t, e : (Given(t, e)' <=> Given(t, e)) /\ (Has(t, e)' <=> Has(t, e))
  <2>1. \A t : Owed(t)' = Owed(t)
    BY DEF Owed
  <2>2. \A t, e, r : Amount(r, t, e)' = Amount(r, t, e)
    BY DEF Amount
  <2> QED
    BY <1>1, <2>1, <2>2 DEF Given, Has
<1>3. AmountsInv'
  BY <1>1, <1>2, Ids DEF AmountsInv
<1>4. Failed' <=> Failed
  BY DEF Failed
<1>5. ElementsInv'
  BY <1>2, <1>4 DEF ElementsInv
<1> QED
  BY <1>3, <1>5

(* A thread that takes up the operation begins with nothing.               *)
LEMMA NewThread ==
  ASSUME NEW t \in Threads, held[t] = {}, ~ Active(t), pc'[t] = "Assemble",
         UNCHANGED <<op, inuse, held, todo, adding, except, propagate_ErrMatrixRebuild>>,
         Assembling,
         \A e \in Elems : Nothing(t, e)',
         \A u \in Threads : u # t =>
           /\ Active(u)' <=> Active(u)
           /\ pc'[u] = "Assemble" <=> pc[u] = "Assemble"
           /\ \A r \in Rows, e \in Elems : Amount(r, u, e)' = Amount(r, u, e),
         op # "OP_ASSJAC_GRAD" =>
           IF t = 0 THEN \A r \in Rows, w \in Workers, e \in Elems : JacHdl'[r][w][e] = 0
                    ELSE UNCHANGED JacHdl,
         AmountsInv, ElementsInv
  PROVE  AmountsInv' /\ ElementsInv'
<1>1. \A u \in Threads, e \in Elems : u # t =>
        (Given(u, e) => Given(u, e)') /\ (Has(u, e)' <=> Has(u, e))
  <2>1. \A u : Owed(u)' = Owed(u)
    BY DEF Owed
  <2> QED
    BY <2>1, GivenKept
<1>2. \A e \in Elems : Given(t, e)' /\ ~ Has(t, e)'
  <2>1. 0 \in Rows
    BY PoolAssumption DEF Rows
  <2> QED
    BY <2>1 DEF Given, Has, Nothing, Whole
<1>3. AmountsInv'
  <2>1. \A u \in Threads : Active(u)' => \A e \in Elems : Given(u, e)'
    BY <1>1, <1>2 DEF AmountsInv
  <2>2. op = "OP_ASSJAC_GRAD" =>
          \A u \in Threads : ~ Active(u)' => \A e \in Elems : Nothing(u, e)'
    <3>1. SUFFICES ASSUME op = "OP_ASSJAC_GRAD", NEW u \in Threads, ~ Active(u)',
                          NEW e \in Elems
                   PROVE  Nothing(u, e)'
      OBVIOUS
    <3>2. CASE u = t
      BY <3>2
    <3>3. CASE u # t
      <4>1. Nothing(u, e)
        BY <3>1, <3>3 DEF AmountsInv
      <4> QED
        BY <3>3, <4>1 DEF Nothing
    <3> QED
      BY <3>2, <3>3
  <2>3. op # "OP_ASSJAC_GRAD" /\ Active(0)' =>
          \A r \in Rows, w \in Workers, e \in Elems : JacHdl'[r][w][e] = 0
    <3>1. CASE t = 0
      BY <3>1
    <3>2. CASE t # 0
      BY <3>2, Ids DEF AmountsInv
    <3> QED
      BY <3>1, <3>2
  <2> QED
    BY <2>1, <2>2, <2>3 DEF AmountsInv
<1>4. ElementsInv'
  <2>1. Failed' <=> Failed
    BY DEF Failed
  <2>2. \A u, v \in Threads, e \in Elems :
          Active(u)' /\ Active(v)' /\ Has(u, e)' /\ Has(v, e)' => u = v
    BY <1>1, <1>2 DEF ElementsInv
  <2>3. ~ Failed => \A e \in Elems : inuse[e] =>
          \E u \in Threads : Active(u)' /\ Has(u, e)'
    BY <1>1 DEF ElementsInv
  <2>4. ~ Failed => \A u \in Threads : Active(u)' /\ pc'[u] # "Assemble" =>
          \A e \in Elems : inuse[e]
    BY DEF ElementsInv
  <2> QED
    BY <2>1, <2>2, <2>3, <2>4 DEF ElementsInv
<1> QED
  BY <1>3, <1>4

(* The steps of a thread at work keep the elements the threads'.           *)
LEMMA WorkElements ==
  ASSUME PoolInv, ClaimTypes, MatrixTypes, HeldInv, AmountsInv, ElementsInv, Assembling,
         NEW t \in Threads, Assemble(t)
  PROVE  ElementsInv'
<1>1. /\ Active(t) /\ UNCHANGED op /\ (\A u \in Threads : Active(u)' <=> Active(u))
      /\ ~ SumRows(t) /\ \A u \in Threads : u # t => pc'[u] = pc[u]
  BY WorkFrame, AtWork DEF Assembling, SumRows, AssJacOps
<1>2. /\ inuse \in [Elems -> BOOLEAN] /\ pc \in [Threads -> CallerPlaces \cup WorkerPlaces]
  BY DEF ClaimTypes, PoolInv, PoolTypes
<1>3. /\ \A u, v \in Threads, e \in Elems :
           Active(u) /\ Active(v) /\ Has(u, e) /\ Has(v, e) => u = v
      /\ ~ Failed => \A e \in Elems : inuse[e] =>
           \E u \in Threads : Active(u) /\ Has(u, e)
      /\ ~ Failed => \A u \in Threads : Active(u) /\ pc[u] # "Assemble" =>
           \A e \in Elems : inuse[e]
  BY DEF ElementsInv
<1>4. CASE Claim(t)
  <2>1. PICK e \in Elems :
          /\ ~ inuse[e] /\ Has(t, e)'
          /\ \A f \in Elems : f # e => inuse'[f] = inuse[f]
          /\ \A u \in Threads, f \in Elems : Active(u) /\ (u # t \/ f # e) =>
               (Has(u, f)' <=> Has(u, f))
    BY <1>4, WorkAmounts
  <2>2. UNCHANGED pc /\ (Failed' <=> Failed) /\ pc[t] = "Assemble"
    BY <1>1, <1>4 DEF Claim, Failed
  <2>3. \A u \in Threads : Active(u) => ~ Has(u, e)
    <3>1. \A u \in Threads : Active(u) => Given(u, e)
      BY DEF AmountsInv
    <3> QED
      BY <2>1, <3>1, HasInUse
  <2>4. \A u, v \in Threads, f \in Elems :
          Active(u)' /\ Active(v)' /\ Has(u, f)' /\ Has(v, f)' => u = v
    <3> SUFFICES ASSUME NEW u \in Threads, NEW v \in Threads, NEW f \in Elems,
                        Active(u), Active(v), Has(u, f)', Has(v, f)'
                 PROVE  u = v
      BY <1>1
    <3>1. CASE f = e
      BY <2>1, <2>3, <3>1
    <3>2. CASE f # e
      BY <1>3, <2>1, <3>2
    <3> QED
      BY <3>1, <3>2
  <2>5. ~ Failed => \A f \in Elems : inuse'[f] =>
          \E u \in Threads : Active(u)' /\ Has(u, f)'
    <3> SUFFICES ASSUME ~ Failed, NEW f \in Elems, inuse'[f]
                 PROVE  \E u \in Threads : Active(u) /\ Has(u, f)'
      BY <1>1
    <3>1. CASE f = e
      BY <1>1, <2>1, <3>1
    <3>2. CASE f # e
      BY <1>3, <2>1, <3>2
    <3> QED
      BY <3>1, <3>2
  <2>6. ~ Failed => \A u \in Threads : Active(u)' /\ pc'[u] # "Assemble" =>
          \A f \in Elems : inuse'[f]
    BY <1>1, <1>3, <2>1, <2>2
  <2> QED
    BY <2>2, <2>4, <2>5, <2>6 DEF ElementsInv
<1>5. CASE ~ Claim(t)
  <2>1. /\ UNCHANGED inuse
        /\ \A u \in Threads, f \in Elems : Active(u) =>
             /\ Has(u, f)' => Has(u, f)
             /\ ~ FailElement(t) => (Has(u, f) => Has(u, f)')
    BY <1>5, WorkAmounts
  <2>2. \A u, v \in Threads, f \in Elems :
          Active(u)' /\ Active(v)' /\ Has(u, f)' /\ Has(v, f)' => u = v
    BY <1>1, <1>3, <2>1
  <2>3. CASE FailElement(t)
    <3>1. Failed'
      BY <1>1, <2>3 DEF FailElement, Failed
    <3> QED
      BY <2>2, <3>1 DEF ElementsInv
  <2>4. CASE ~ FailElement(t)
    <3>1. Failed' <=> Failed
      BY <1>1, <1>5, <2>4 DEF Assemble, LastElement, AddElement, LockRow, AddRow, Failed
    <3>2. ~ Failed => \A f \in Elems : inuse'[f] =>
            \E u \in Threads : Active(u)' /\ Has(u, f)'
      BY <1>1, <1>3, <2>1, <2>4
    <3>3. ~ Failed => \A u \in Threads : Active(u)' /\ pc'[u] # "Assemble" =>
            \A f \in Elems : inuse'[f]
      <4>1. CASE LastElement(t)
        <5>1. \A f \in Elems : inuse[f]
          BY <1>2, <4>1 DEF LastElement, Free
        <5> QED
          BY <2>1, <5>1
      <4>2. CASE ~ LastElement(t)
        <5>1. UNCHANGED pc
          BY <1>1, <1>5, <2>4, <4>2 DEF Assemble, AddElement, LockRow, AddRow
        <5> QED
          BY <1>1, <1>3, <2>1, <5>1
      <4> QED
        BY <4>1, <4>2
    <3> QED
      BY <2>2, <3>1, <3>2, <3>3 DEF ElementsInv
  <2> QED
    BY <2>3, <2>4
<1> QED
  BY <1>4, <1>5

(* Every step keeps what is added and whose the elements are.              *)
LEMMA ElementsStep ==
  ASSUME PoolInv, ClaimTypes, MatrixTypes, HeldInv, AmountsInv, ElementsInv,
         [Next]_vars
  PROVE  AmountsInv' /\ ElementsInv'
<1> USE Ids
<1>1. /\ pc \in [Threads -> CallerPlaces \cup WorkerPlaces]
      /\ pc[0] \in CallerPlaces /\ next \in Workers /\ op \in Ops
      /\ sem \in [Workers -> {0, 1}]
      /\ pc[0] = "Release" => \A w \in Workers : w >= next => Ready(w)
      /\ pc[0] \in {"Join", "Gone"} => op = "OP_EXIT"
  BY DEF PoolInv, PoolTypes, WaitingToBeReleased, PlacesOfOp
<1>2. ASSUME ~ Assembling' PROVE AmountsInv' /\ ElementsInv'
  BY <1>2 DEF AmountsInv, ElementsInv
<1>3. ASSUME NEW k \in Kinds, AssJac(k) PROVE AmountsInv' /\ ElementsInv'
  <2>1. CASE pc'[0] = "Alone"
    BY <1>2, <2>1 DEF Assembling, InParallel
  <2>2. CASE pc'[0] # "Alone"
    <3>1. /\ pc[0] = "Idle"
          /\ pc' = [pc EXCEPT ![0] = "Release"] /\ next' = 1
          /\ inuse' = [e \in Elems |-> FALSE] /\ except' = {}
          /\ op' = OpOf(k)
          /\ UNCHANGED <<sem, held, todo, adding>>
      BY <1>1, <1>3, <2>2 DEF AssJac, MayCall, CCAssJac, Dispatch, OpOf
    <3>2. /\ pc'[0] = "Release" /\ \A t \in Threads : ~ Active(t)'
      BY <1>1, <3>1 DEF Active, Workers
    <3>3. op' = "OP_ASSJAC_GRAD" => k = "GRAD"
      BY <3>1 DEF OpOf
    <3>4. k = "GRAD" => JacHdl' = ZeroMatrix
      BY <1>3 DEF AssJac
    <3>5. op' = "OP_ASSJAC_GRAD" => \A t \in Threads, e \in Elems : Nothing(t, e)'
      BY <3>3, <3>4 DEF Nothing, Amount, ZeroMatrix, Zero
    <3>6. AmountsInv'
      BY <3>2, <3>5 DEF AmountsInv
    <3>7. ElementsInv'
      BY <3>1, <3>2 DEF ElementsInv
    <3> QED
      BY <3>6, <3>7
  <2> QED
    BY <2>1, <2>2
<1>4. CASE Factor \/ MatrInitialize \/ ThreadDestroy \/ Join
  <2>1. pc'[0] = "Idle" \/ op' = "OP_EXIT"
    BY <1>1, <1>4 DEF Factor, MatrInitialize, ThreadDestroy, Join, pool
  <2> QED
    BY <1>2, <2>1 DEF Assembling, InParallel, AssJacOps
<1>5. CASE CollectRebuild \/ CollectError \/ CollectNaive \/ Collect \/ AssembleAlone
  <2>1. pc'[0] = "Idle" \/ op' = "OP_SUM_NAIVE"
    BY <1>1, <1>5 DEF CollectRebuild, CollectError, CollectNaive, Collect, AssembleAlone,
       ReturnWith
  <2> QED
    BY <1>2, <2>1 DEF Assembling, InParallel, AssJacOps
<1>6. CASE UNCHANGED vars
  BY <1>2, <1>6, SameElements DEF vars, pool, claims, Assembling, Active
<1>7. ASSUME NEW t \in Threads, Assemble(t) PROVE AmountsInv' /\ ElementsInv'
  <2>1. CASE Assembling
    BY <1>7, <2>1, WorkAmounts, WorkElements
  <2>2. CASE ~ Assembling
    BY <1>2, <1>7, <2>2, WorkFrame
  <2> QED
    BY <2>1, <2>2
<1>8. CASE Wait \/ WakeUp
  <2>1. /\ UNCHANGED <<op, inuse, held, todo, adding, except, propagate_ErrMatrixRebuild,
                       JacHdl, own, sem, next>>
        /\ pc[0] \in {"Wait", "Blocked"} /\ pc'[0] \in {"Blocked", "Collect"}
        /\ \A w \in Workers : pc'[w] = pc[w]
    BY <1>1, <1>8 DEF Wait, WakeUp, pool, claims
  <2>2. \A t \in Threads : /\ Active(t)' <=> Active(t)
                           /\ pc'[t] = "Assemble" <=> pc[t] = "Assemble"
    BY <2>1 DEF Active, InParallel
  <2>3. Assembling' <=> Assembling
    BY <2>1 DEF Assembling, InParallel
  <2> QED
    BY <1>2, <2>1, <2>2, <2>3, SameElements
<1>9. ASSUME NEW w \in Workers, EndOfOp(w) PROVE AmountsInv' /\ ElementsInv'
  <2>1. /\ UNCHANGED <<op, inuse, held, todo, adding, except, propagate_ErrMatrixRebuild,
                       JacHdl, own, sem, next>>
        /\ pc[w] # "Assemble" /\ pc'[w] # "Assemble" /\ pc'[0] = pc[0]
        /\ \A u \in Threads : u # w => pc'[u] = pc[u]
    BY <1>1, <1>9 DEF EndOfOp, claims
  <2>2. \A t \in Threads : /\ Active(t)' <=> Active(t)
                           /\ pc'[t] = "Assemble" <=> pc[t] = "Assemble"
    BY <2>1 DEF Active
  <2>3. Assembling' <=> Assembling
    BY <2>1 DEF Assembling
  <2> QED
    BY <1>2, <2>1, <2>2, <2>3, SameElements
<1>10. ASSUME NEW w \in Workers, Acquire(w) PROVE AmountsInv' /\ ElementsInv'
  <2>1. /\ UNCHANGED <<op, inuse, held, todo, adding, except, propagate_ErrMatrixRebuild,
                       JacHdl, next>>
        /\ pc[w] = "Acquire" /\ sem[w] = 1 /\ sem'[w] = 0 /\ pc'[0] = pc[0]
        /\ \A u \in Threads : u # w => pc'[u] = pc[u]
        /\ \A u \in Workers : u # w => sem'[u] = sem[u]
        /\ op \in AssJacOps => pc'[w] = "Assemble"
    BY <1>1, <1>10 DEF Acquire, claims, AssJacOps
  <2>2. Assembling' <=> Assembling
    BY <2>1 DEF Assembling
  <2>3. SUFFICES ASSUME Assembling PROVE AmountsInv' /\ ElementsInv'
    BY <1>2, <2>2
  <2>4. held[w] = {} /\ ~ Active(w) /\ pc'[w] = "Assemble"
    BY <2>1, <2>3, EmptyHands DEF Active, Assembling
  <2>5. \A u \in Threads : u # w =>
          /\ Active(u)' <=> Active(u)
          /\ pc'[u] = "Assemble" <=> pc[u] = "Assemble"
    BY <2>1 DEF Active
  <2>6. \A u \in Workers : u # w => own'[u] = own[u]
    BY <1>10 DEF Acquire, MatrixTypes
  <2>7. \A u \in Threads : u # w =>
          \A r \in Rows, e \in Elems : Amount(r, u, e)' = Amount(r, u, e)
    BY <2>1, <2>6 DEF Amount
  <2>8. \A e \in Elems : Nothing(w, e)'
    <3>1. CASE op = "OP_ASSJAC_GRAD"
      <4>1. \A e \in Elems : Nothing(w, e)
        BY <2>3, <2>4, <3>1 DEF AmountsInv
      <4> QED
        BY <2>1, <3>1, <4>1 DEF Nothing, Amount
    <3>2. CASE op # "OP_ASSJAC_GRAD"
      <4>1. own'[w] = Zero
        BY <1>10, <2>3, <3>2 DEF Acquire, MatrixTypes, Assembling
      <4> QED
        BY <2>1, <3>2, <4>1 DEF Nothing, Amount, Zero
    <3> QED
      BY <3>1, <3>2
  <2> QED
    BY <2>1, <2>3, <2>4, <2>5, <2>7, <2>8, NewThread
<1>11. CASE Release
  <2>1. /\ UNCHANGED <<op, inuse, held, todo, adding, except, propagate_ErrMatrixRebuild,
                       own>>
        /\ pc[0] = "Release" /\ \A w \in Workers : pc'[w] = pc[w]
        /\ sem'[next] = 1
        /\ \A w \in Workers : w # next => sem'[w] = sem[w]
    <3>1. sem[next] = 0
      BY <1>1, <1>11 DEF Release, Ready
    <3> QED
      BY <1>1, <1>11, <3>1 DEF Release, claims
  <2>2. SUFFICES ASSUME Assembling' PROVE AmountsInv' /\ ElementsInv'
    BY <1>2
  <2>3. Assembling
    BY <2>1, <2>2 DEF Assembling, InParallel
  <2>4. \A w \in Workers : /\ w >= next => ~ Active(w) /\ (next' = next \/ next' = next + 1)
    BY <1>11, <2>1 DEF Release, Active
  <2>5. CASE next # nThreads - 1
    <3>1. pc'[0] = "Release" /\ next' = next + 1 /\ UNCHANGED JacHdl
      BY <1>1, <1>11, <2>3, <2>5 DEF Release, Assembling, AssJacOps
    <3>2. \A w \in Workers : w # next => (w >= next <=> w >= next + 1)
      BY <1>1
    <3>3. \A w \in Workers : Active(w)' <=> Active(w)
      BY <2>1, <3>1, <3>2 DEF Active
    <3>4. ~ Active(0)' /\ ~ Active(0)
      BY <2>1, <3>1 DEF Active
    <3>5. \A t \in Threads : Active(t)' <=> Active(t)
      BY <3>3, <3>4
    <3> QED
      BY <2>1, <2>3, <3>1, <3>5, SameElements
  <2>6. CASE next = nThreads - 1
    <3>1. /\ pc'[0] = "Assemble"
          /\ op # "OP_ASSJAC_GRAD" => JacHdl' = ZeroMatrix
          /\ op = "OP_ASSJAC_GRAD" => UNCHANGED JacHdl
      BY <1>1, <1>11, <2>3, <2>6 DEF Release, Assembling, AssJacOps
    <3>2. \A w \in Workers : w # next => ~ (w >= next)
      BY <1>1, <2>6
    <3>3. \A w \in Workers : Active(w)' <=> Active(w)
      BY <2>1, <3>1, <3>2 DEF Active
    <3>4. ~ Active(0) /\ held[0] = {}
      BY <2>1, EmptyHands DEF Active
    <3>5. \A e \in Elems : Nothing(0, e)'
      <4>1. CASE op = "OP_ASSJAC_GRAD"
        <5>1. \A e \in Elems : Nothing(0, e)
          BY <2>3, <3>4, <4>1 DEF AmountsInv
        <5> QED
          BY <2>1, <3>1, <4>1, <5>1 DEF Nothing, Amount
      <4>2. CASE op # "OP_ASSJAC_GRAD"
        BY <3>1, <4>2 DEF Nothing, Amount, ZeroMatrix, Zero
      <4> QED
        BY <4>1, <4>2
    <3>6. \A u \in Threads : u # 0 =>
            \A r \in Rows, e \in Elems : Amount(r, u, e)' = Amount(r, u, e)
      BY <2>1, <3>1 DEF Amount
    <3>7. op # "OP_ASSJAC_GRAD" =>
            \A r \in Rows, w \in Workers, e \in Elems : JacHdl'[r][w][e] = 0
      BY <3>1 DEF ZeroMatrix, Zero
    <3>8. \A u \in Threads : u # 0 =>
            /\ Active(u)' <=> Active(u)
            /\ pc'[u] = "Assemble" <=> pc[u] = "Assemble"
            /\ \A r \in Rows, e \in Elems : Amount(r, u, e)' = Amount(r, u, e)
      BY <2>1, <3>3, <3>6
    <3> QED
      BY <2>1, <2>3, <3>1, <3>4, <3>5, <3>7, <3>8, NewThread
  <2> QED
    BY <2>5, <2>6
<1> QED
  BY <1>3, <1>4, <1>5, <1>6, <1>7, <1>8, <1>9, <1>10, <1>11 DEF Next, Caller, Worker

-----------------------------------------------------------------------------
\* The sum of the matrices.

Cut(t) == (iNumRows * t) \div nThreads

LEMMA DivIsMonotone ==
  ASSUME NEW n \in Nat \ {0}, NEW a \in Nat, NEW b \in Nat, a <= b
  PROVE  a \div n <= b \div n /\ a \div n \in Nat
OBVIOUS

(* Every row is the share of exactly one thread.                           *)
LEMMA Shares ==
  ASSUME NEW r \in Rows
  PROVE  /\ \E t \in Threads : r \in Share(t)
         /\ \A t, u \in Threads : r \in Share(t) /\ r \in Share(u) => t = u
<1>1. ASSUME NEW a \in Nat, NEW b \in Nat, a <= b
      PROVE  Cut(a) <= Cut(b) /\ Cut(a) \in Nat /\ Cut(b) \in Nat
  <2>1. iNumRows \in Nat /\ nThreads \in Nat \ {0}
    BY PoolAssumption
  <2>2. iNumRows * a <= iNumRows * b /\ iNumRows * a \in Nat /\ iNumRows * b \in Nat
    BY <1>1, <2>1
  <2> QED
    BY <2>1, <2>2, DivIsMonotone DEF Cut
<1>2. Cut(nThreads) = iNumRows
  BY PoolAssumption DEF Cut
<1>3. Cut(0) = 0
  BY PoolAssumption DEF Cut
<1>4. \A t \in Threads : r \in Share(t) <=> Cut(t) <= r /\ r < Cut(t + 1)
  <2> SUFFICES ASSUME NEW t \in Threads
               PROVE  r \in Share(t) <=> Cut(t) <= r /\ r < Cut(t + 1)
    OBVIOUS
  <2>1. t \in Nat /\ t + 1 \in Nat /\ t <= t + 1
    BY DEF Threads
  <2>2. Cut(t) \in Nat /\ Cut(t + 1) \in Nat
    BY <1>1, <2>1
  <2>3. Share(t) = Cut(t) .. Cut(t + 1) - 1
    BY DEF Share, Cut
  <2> HIDE DEF Cut
  <2> QED
    BY <2>2, <2>3 DEF Rows
<1>5. \E t \in Threads : r \in Share(t)
  <2> DEFINE Beyond == {n \in Nat : r < Cut(n + 1)}
  <2>1. nThreads - 1 \in Beyond
    <3>1. nThreads - 1 \in Nat /\ (nThreads - 1) + 1 = nThreads /\ r < iNumRows
      BY PoolAssumption DEF Rows
    <3> HIDE DEF Cut
    <3> QED
      BY <1>2, <3>1
  <2>2. PICK m \in Beyond : \A n \in Beyond : ~ (n < m)
    <3>1. IsWellFoundedOn(OpToRel(<, Nat), Nat)
      BY NatLessThanWellFounded
    <3>2. Beyond \in SUBSET Nat /\ Beyond # {}
      BY <2>1
    <3> HIDE DEF Beyond
    <3>3. PICK m \in Beyond : \A n \in Beyond : ~ (<<n, m>> \in OpToRel(<, Nat))
      BY <3>1, <3>2, WFMin
    <3> QED
      BY <3>2, <3>3 DEF OpToRel
  <2>3. m \in Nat /\ r < Cut(m + 1) /\ m \in Threads
    <3>1. m \in Nat /\ r < Cut(m + 1)
      BY <2>2
    <3>2. ~ (nThreads - 1 < m)
      <4> HIDE DEF Beyond
      <4> QED
        BY <2>1, <2>2
    <3> QED
      BY <3>1, <3>2, PoolAssumption DEF Threads
  <2>4. Cut(m) <= r
    <3>1. CASE m = 0
      BY <1>3, <3>1 DEF Rows
    <3>2. CASE m # 0
      <4> DEFINE n == m - 1
      <4>1. n \in Nat /\ n + 1 = m /\ n < m
        BY <2>3, <3>2
      <4>2. n \notin Beyond
        <5> HIDE DEF Beyond, n
        <5> QED
          BY <2>2, <4>1
      <4>3. ~ (r < Cut(n + 1))
        <5> HIDE DEF n
        <5> QED
          BY <4>1, <4>2
      <4>4. ~ (r < Cut(m))
        <5> HIDE DEF n, Cut
        <5> QED
          BY <4>1, <4>3
      <4>5. Cut(m) \in Nat
        BY <1>1, <2>3
      <4> HIDE DEF n, Cut
      <4> QED
        BY <4>4, <4>5 DEF Rows
    <3> QED
      BY <3>1, <3>2
  <2> HIDE DEF Cut, Beyond
  <2> QED
    BY <1>4, <2>3, <2>4
<1>6. ASSUME NEW t \in Threads, NEW u \in Threads, r \in Share(t), r \in Share(u), t < u
      PROVE  FALSE
  <2>1. t \in Nat /\ u \in Nat /\ t + 1 \in Nat /\ t + 1 <= u
    BY <1>6 DEF Threads
  <2>2. Cut(t + 1) <= Cut(u) /\ Cut(t + 1) \in Nat /\ Cut(u) \in Nat
    BY <1>1, <2>1
  <2>3. r < Cut(t + 1) /\ Cut(u) <= r /\ r \in Nat
    BY <1>4, <1>6 DEF Rows
  <2> HIDE DEF Cut
  <2> QED
    BY <2>2, <2>3
<1>7. \A t, u \in Threads : t < u \/ t = u \/ u < t
  BY DEF Threads
<1> QED
  BY <1>5, <1>6, <1>7

(* When the threads are done and none failed, every element is added.      *)
LEMMA AllAreAdded ==
  ASSUME PoolInv, HeldInv, AmountsInv, ElementsInv, pc[0] = "Collect", op \in AssJacOps,
         ~ Failed
  PROVE  /\ AllAdded
         /\ op # "OP_ASSJAC_GRAD" =>
              \A r \in Rows, w \in Workers, e \in Elems : JacHdl[r][w][e] = 0
<1>1. Assembling /\ \A t \in Threads : Active(t) /\ pc[t] # "Assemble"
  <2>1. \A w \in Workers : Ready(w)
    BY DEF PoolInv, WaitingToBeReleased
  <2> QED
    BY <2>1, Ids DEF Assembling, InParallel, Active, Ready
<1>2. \A t \in Threads : held[t] = {}
  BY <1>1, EmptyHands
<1>3. \A t \in Threads, e \in Elems : Nothing(t, e) \/ Whole(t, e)
  BY <1>1, <1>2 DEF AmountsInv, Given
<1>4. ASSUME NEW e \in Elems
      PROVE  \E t \in Threads : \A u \in Threads, r \in Rows :
               Amount(r, u, e) = IF u = t THEN 1 ELSE 0
  <2>1. inuse[e]
    BY <1>1, Ids DEF ElementsInv
  <2>2. PICK t \in Threads : Whole(t, e)
    BY <1>1, <1>2, <2>1 DEF ElementsInv, Has
  <2>3. \A u \in Threads : u # t => Nothing(u, e)
    BY <1>1, <1>3, <2>2 DEF ElementsInv, Has
  <2>4. \A u \in Threads, r \in Rows : Amount(r, u, e) = IF u = t THEN 1 ELSE 0
    BY <2>2, <2>3 DEF Whole, Nothing
  <2> QED
    BY <2>4
<1> QED
  BY <1>1, <1>4, Ids DEF AllAdded, AmountsInv

(* A step that no thread sums in.                                          *)
LEMMA SameSums ==
  ASSUME SumInv, Summing, UNCHANGED <<op, JacHdl, own, except>>,
         \A t \in Threads : (Active(t) /\ pc[t] # "Sum")' <=> (Active(t) /\ pc[t] # "Sum")
  PROVE  SumInv'
<1>1. AllAdded' <=> AllAdded
  <2>1. \A r, t, e : Amount(r, t, e)' = Amount(r, t, e)
    BY DEF Amount
  <2> QED
    BY <2>1 DEF AllAdded
<1> QED
  BY <1>1 DEF SumInv

(* A thread sums the rows that are its share.                              *)
LEMMA SumRowsStep ==
  ASSUME PoolInv, MatrixTypes, HeldInv, SumInv, Summing, NEW t \in Threads, SumRows(t)
  PROVE  SumInv'
<1> USE Ids
<1>1. /\ Active(t) /\ UNCHANGED <<op, own, except>>
      /\ (\A u \in Threads : Active(u)' <=> Active(u))
      /\ (\A u \in Threads : u # t => pc'[u] = pc[u])
      /\ pc[t] = "Sum" /\ pc'[t] # "Sum" /\ op = "OP_SUM_NAIVE"
  <2>1. pc' = Finished(t) /\ pc[t] = "Sum" /\ UNCHANGED <<op, own, except>>
    BY DEF SumRows, pool
  <2>2. pc'[t] # "Sum"
    BY <2>1 DEF PoolInv, PoolTypes, Finished
  <2>3. Assemble(t)
    BY DEF Assemble
  <2> QED
    BY <2>1, <2>2, <2>3, WorkFrame DEF Summing
<1>2. /\ except = {} /\ AllAdded
      /\ \A u \in Threads, w \in Workers, e \in Elems : \A r \in Share(u) \cap Rows :
           JacHdl[r][w][e] = IF Active(u) /\ pc[u] # "Sum" THEN own[w][e] ELSE 0
  BY DEF SumInv
<1>3. \A r \in Rows :
        /\ r \notin Share(t) => JacHdl'[r] = JacHdl[r]
        /\ JacHdl'[r][0] = JacHdl[r][0]
        /\ r \in Share(t) => \A w \in Workers, e \in Elems :
             JacHdl'[r][w][e] = JacHdl[r][w][e] + own[w][e]
  BY DEF SumRows, Added
<1>4. AllAdded'
  <2>1. \A r \in Rows, u \in Threads, e \in Elems : Amount(r, u, e)' = Amount(r, u, e)
    BY <1>1, <1>3 DEF Amount
  <2> QED
    BY <1>2, <2>1 DEF AllAdded
<1>5. ASSUME NEW u \in Threads, NEW w \in Workers, NEW e \in Elems,
             NEW r \in Share(u) \cap Rows
      PROVE  JacHdl'[r][w][e] = IF Active(u)' /\ pc'[u] # "Sum" THEN own[w][e] ELSE 0
  <2>1. CASE u = t
    <3>1. JacHdl[r][w][e] = 0 /\ JacHdl'[r][w][e] = JacHdl[r][w][e] + own[w][e]
      BY <1>1, <1>2, <1>3, <1>5, <2>1
    <3>2. own[w][e] \in Nat
      BY DEF MatrixTypes
    <3>3. JacHdl'[r][w][e] = own[w][e]
      BY <3>1, <3>2
    <3> QED
      BY <1>1, <2>1, <3>3
  <2>2. CASE u # t
    <3>1. r \notin Share(t)
      BY <1>5, <2>2, Shares
    <3>2. JacHdl'[r][w][e] = JacHdl[r][w][e]
      BY <1>3, <1>5, <3>1
    <3> QED
      BY <1>1, <1>2, <1>5, <2>2, <3>2
  <2> QED
    BY <2>1, <2>2
<1>6. except' = {}
  BY <1>1, <1>2
<1> QED
  BY <1>1, <1>4, <1>5, <1>6 DEF SumInv

(* Every step keeps what is known of the sum.                              *)
LEMMA SumStep ==
  ASSUME PoolInv, MatrixTypes, HeldInv, AmountsInv, ElementsInv, SumInv, [Next]_vars
  PROVE  SumInv'
<1> USE Ids
<1>1. /\ pc \in [Threads -> CallerPlaces \cup WorkerPlaces]
      /\ pc[0] \in CallerPlaces /\ next \in Workers /\ op \in Ops
      /\ sem \in [Workers -> {0, 1}]
      /\ pc[0] = "Release" => \A w \in Workers : w >= next => Ready(w)
      /\ pc[0] \in {"Join", "Gone"} => op = "OP_EXIT"
  BY DEF PoolInv, PoolTypes, WaitingToBeReleased, PlacesOfOp
<1>2. ASSUME ~ Summing' PROVE SumInv'
  BY <1>2 DEF SumInv
<1>3. ASSUME NEW k \in Kinds, AssJac(k) PROVE SumInv'
  <2>1. pc'[0] = "Alone" \/ op' = OpOf(k)
    BY <1>1, <1>3 DEF AssJac, CCAssJac, Dispatch, OpOf
  <2> QED
    BY <1>2, <2>1 DEF Summing, InParallel, OpOf
<1>4. CASE Factor \/ MatrInitialize \/ ThreadDestroy \/ Join
  <2>1. pc'[0] = "Idle" \/ op' = "OP_EXIT"
    BY <1>1, <1>4 DEF Factor, MatrInitialize, ThreadDestroy, Join, pool
  <2> QED
    BY <1>2, <2>1 DEF Summing, InParallel
<1>5. CASE CollectRebuild \/ CollectError \/ Collect \/ AssembleAlone
  <2>1. pc'[0] = "Idle"
    BY <1>1, <1>5 DEF CollectRebuild, CollectError, Collect, AssembleAlone, ReturnWith
  <2> QED
    BY <1>2, <2>1 DEF Summing, InParallel
<1>6. CASE CollectNaive
  <2>1. /\ pc[0] = "Collect" /\ op = "OP_ASSJAC_NAIVE" /\ except = {}
        /\ op' = "OP_SUM_NAIVE" /\ pc'[0] = "Release" /\ next' = 1
        /\ UNCHANGED <<JacHdl, own, except>>
    BY <1>1, <1>6 DEF CollectNaive
  <2>2. /\ AllAdded
        /\ \A r \in Rows, w \in Workers, e \in Elems : JacHdl[r][w][e] = 0
    BY <2>1, AllAreAdded DEF Failed, AssJacOps
  <2>3. AllAdded'
    <3>1. \A r, t, e : Amount(r, t, e)' = Amount(r, t, e)
      BY <2>1 DEF Amount
    <3> QED
      BY <2>2, <3>1 DEF AllAdded
  <2>4. \A t \in Threads : ~ Active(t)'
    BY <2>1 DEF Active, Workers
  <2>5. \A t \in Threads, w \in Workers, e \in Elems : \A r \in Share(t) \cap Rows :
          JacHdl'[r][w][e] = IF Active(t)' /\ pc'[t] # "Sum" THEN own'[w][e] ELSE 0
    <3> SUFFICES ASSUME NEW t \in Threads, NEW w \in Workers, NEW e \in Elems,
                        NEW r \in Share(t) \cap Rows
                 PROVE  JacHdl'[r][w][e] = IF Active(t)' /\ pc'[t] # "Sum"
                                           THEN own'[w][e] ELSE 0
      OBVIOUS
    <3>1. JacHdl'[r][w][e] = 0
      BY <2>1, <2>2
    <3> QED
      BY <2>4, <3>1
  <2>6. except' = {}
    BY <2>1
  <2> QED
    BY <2>3, <2>5, <2>6 DEF SumInv
<1>7. CASE UNCHANGED vars
  BY <1>2, <1>7, SameSums DEF vars, pool, Summing, Active
<1>8. ASSUME NEW t \in Threads, Assemble(t) PROVE SumInv'
  <2>1. CASE Summing
    <3>1. SumRows(t)
      <4>1. pc[t] # "Assemble" /\ adding[t] = {}
        BY <1>8, <2>1, WorkFrame, AtWork, NoneAdding DEF Summing, AssJacOps
      <4> QED
        BY <1>8, <4>1 DEF Assemble, Claim, LastElement, AddElement, LockRow, AddRow, FailElement
    <3> QED
      BY <2>1, <3>1, SumRowsStep
  <2>2. CASE ~ Summing
    BY <1>2, <1>8, <2>2, WorkFrame
  <2> QED
    BY <2>1, <2>2
<1>9. CASE Wait \/ WakeUp
  <2>1. /\ UNCHANGED <<op, except, JacHdl, own, sem, next>>
        /\ pc[0] \in {"Wait", "Blocked"} /\ pc'[0] \in {"Blocked", "Collect"}
        /\ \A w \in Workers : pc'[w] = pc[w]
    BY <1>1, <1>9 DEF Wait, WakeUp, pool
  <2>2. \A t \in Threads : Active(t)' <=> Active(t)
    BY <2>1 DEF Active, InParallel
  <2>3. \A t \in Threads : pc'[t] = "Sum" <=> pc[t] = "Sum"
    BY <2>1
  <2>4. Summing' <=> Summing
    BY <2>1 DEF Summing, InParallel
  <2> QED
    BY <1>2, <2>1, <2>2, <2>3, <2>4, SameSums
<1>10. ASSUME NEW w \in Workers, EndOfOp(w) PROVE SumInv'
  <2>1. /\ UNCHANGED <<op, except, JacHdl, own, sem, next>>
        /\ pc[w] # "Sum" /\ pc'[w] # "Sum" /\ pc'[0] = pc[0]
        /\ \A u \in Threads : u # w => pc'[u] = pc[u]
    BY <1>1, <1>10 DEF EndOfOp
  <2>2. \A t \in Threads : Active(t)' <=> Active(t)
    BY <2>1 DEF Active
  <2>3. \A t \in Threads : pc'[t] = "Sum" <=> pc[t] = "Sum"
    BY <2>1
  <2>4. Summing' <=> Summing
    BY <2>1 DEF Summing
  <2> QED
    BY <1>2, <2>1, <2>2, <2>3, <2>4, SameSums
<1>11. ASSUME NEW w \in Workers, Acquire(w) PROVE SumInv'
  <2>1. SUFFICES ASSUME Summing' PROVE SumInv'
    BY <1>2
  <2>2. /\ UNCHANGED <<op, except, JacHdl, next>>
        /\ pc[w] = "Acquire" /\ sem[w] = 1 /\ pc'[0] = pc[0]
        /\ \A u \in Threads : u # w => pc'[u] = pc[u]
        /\ \A u \in Workers : u # w => sem'[u] = sem[u]
    BY <1>1, <1>11 DEF Acquire
  <2>3. Summing /\ op = "OP_SUM_NAIVE"
    BY <2>1, <2>2 DEF Summing
  <2>4. pc'[w] = "Sum" /\ UNCHANGED own
    BY <1>1, <1>11, <2>3 DEF Acquire, AssJacOps
  <2>5. ~ Active(w) /\ \A u \in Threads : u # w => (Active(u)' <=> Active(u))
    BY <2>2 DEF Active
  <2>6. \A u \in Threads : (Active(u)' /\ pc'[u] # "Sum") <=> (Active(u) /\ pc[u] # "Sum")
    BY <2>2, <2>4, <2>5
  <2> QED
    BY <2>2, <2>3, <2>4, <2>6, SameSums
<1>12. CASE Release
  <2>1. SUFFICES ASSUME Summing' PROVE SumInv'
    BY <1>2
  <2>2. /\ UNCHANGED <<op, except, own>>
        /\ pc[0] = "Release" /\ \A w \in Workers : pc'[w] = pc[w]
        /\ sem'[next] = 1
        /\ \A w \in Workers : w # next => sem'[w] = sem[w]
    <3>1. sem[next] = 0
      BY <1>1, <1>12 DEF Release, Ready
    <3> QED
      BY <1>1, <1>12, <3>1 DEF Release
  <2>3. Summing /\ op = "OP_SUM_NAIVE"
    BY <2>1, <2>2 DEF Summing, InParallel
  <2>4. UNCHANGED JacHdl
    BY <1>12, <2>3 DEF Release, AssJacOps
  <2>5. ~ Active(0) /\ ~ (Active(0)' /\ pc'[0] # "Sum")
    BY <1>1, <1>12, <2>2, <2>3 DEF Active, Release
  <2>6. \A w \in Workers : Active(w)' <=> Active(w)
    <3>1. \A w \in Workers : w >= next => ~ Active(w)
      BY <2>2 DEF Active
    <3>2. CASE next # nThreads - 1
      <4>1. pc'[0] = "Release" /\ next' = next + 1
        BY <1>1, <1>12, <2>3, <3>2 DEF Release
      <4>2. \A w \in Workers : w # next => (w >= next <=> w >= next + 1)
        BY <1>1
      <4> QED
        BY <2>2, <4>1, <4>2 DEF Active
    <3>3. CASE next = nThreads - 1
      <4>1. pc'[0] = "Sum"
        BY <1>1, <1>12, <2>3, <3>3 DEF Release
      <4>2. \A w \in Workers : w # next => ~ (w >= next)
        BY <1>1, <3>3
      <4> QED
        BY <2>2, <4>1, <4>2 DEF Active
    <3> QED
      BY <3>2, <3>3
  <2>7. \A t \in Threads : (Active(t)' /\ pc'[t] # "Sum") <=> (Active(t) /\ pc[t] # "Sum")
    BY <2>2, <2>5, <2>6
  <2> QED
    BY <2>2, <2>3, <2>4, <2>7, SameSums
<1> QED
  BY <1>3, <1>4, <1>5, <1>6, <1>7, <1>8, <1>9, <1>10, <1>11, <1>12 DEF Next, Caller, Worker

(* Every step keeps what the caller knows of the assembly.                 *)
LEMMA OutcomeStep ==
  ASSUME PoolInv, OutcomeInv, [Next]_vars
  PROVE  OutcomeInv'
<1> USE Ids DEF OutcomeInv
<1>1. /\ pc \in [Threads -> CallerPlaces \cup WorkerPlaces] /\ op \in Ops
      /\ op = "OP_EXIT" => pc[0] \in {"Release", "Join", "Gone"}
      /\ pc[0] \in {"Join", "Gone"} => op = "OP_EXIT"
  BY DEF PoolInv, PoolTypes, PlacesOfOp
<1>2. ASSUME NEW k \in Kinds, AssJac(k) PROVE OutcomeInv'
  <2>1. /\ outcome' = "running"
        /\ pc'[0] = "Alone" \/ (pc'[0] = "Release" /\ op' = OpOf(k))
    BY <1>1, <1>2 DEF AssJac, CCAssJac, Dispatch, OpOf
  <2> QED
    BY <2>1 DEF OpOf
<1>3. CASE Factor \/ MatrInitialize \/ UNCHANGED vars
  BY <1>3 DEF Factor, MatrInitialize, vars, pool
<1>4. CASE ThreadDestroy
  BY <1>1, <1>4 DEF ThreadDestroy
<1>5. CASE CollectRebuild \/ CollectError \/ Collect \/ AssembleAlone
  <2>1. pc'[0] = "Idle" /\ outcome' \in {"ok", "error", "rebuild"}
    BY <1>1, <1>5 DEF CollectRebuild, CollectError, Collect, AssembleAlone, ReturnWith
  <2> QED
    BY <2>1
<1>6. CASE CollectNaive \/ Release \/ Wait \/ WakeUp \/ Join
  <2>1. /\ UNCHANGED outcome
        /\ pc[0] \notin {"Idle", "Alone"} /\ pc'[0] \notin {"Idle", "Alone"}
        /\ op' = "OP_EXIT" <=> op = "OP_EXIT"
    BY <1>1, <1>6 DEF CollectNaive, Release, Wait, WakeUp, Join, pool
  <2> QED
    BY <2>1
<1>7. ASSUME NEW t \in Threads, Assemble(t) PROVE OutcomeInv'
  <2>1. UNCHANGED <<op, outcome>> /\ (pc' = pc \/ pc' = Finished(t))
    BY <1>7 DEF Assemble, Claim, LastElement, AddElement, LockRow, AddRow, FailElement,
       SumRows, pool
  <2>2. pc'[0] = pc[0] \/ (t = 0 /\ pc'[0] = "Wait")
    BY <1>1, <2>1 DEF Finished
  <2>3. CASE t = 0 /\ pc'[0] = "Wait"
    <3>1. pc[0] \in {"Assemble", "Sum"} \/ AddRow(0)
      BY <1>7, <2>3 DEF Assemble, Claim, LastElement, AddElement, LockRow, FailElement, SumRows
    <3> QED
      BY <1>1, <2>1, <2>3, <3>1 DEF AddRow
  <2> QED
    BY <2>1, <2>2, <2>3
<1>8. ASSUME NEW w \in Workers, Acquire(w) \/ EndOfOp(w) PROVE OutcomeInv'
  BY <1>1, <1>8 DEF Acquire, EndOfOp
<1> QED
  BY <1>2, <1>3, <1>4, <1>5, <1>6, <1>7, <1>8 DEF Next, Caller, Worker

-----------------------------------------------------------------------------
\* The pool implements Assembly.

AssemblyInv ==
  /\ PoolInv /\ CallTypes /\ ClaimTypes /\ MatrixTypes
  /\ HeldInv /\ AmountsInv /\ ElementsInv /\ SumInv /\ OutcomeInv

LEMMA AssemblyInit == Init => AssemblyInv
<1> USE Ids
<1>1. SUFFICES ASSUME Init PROVE AssemblyInv
  OBVIOUS
<1>2. PoolInv
  BY <1>1, PoolInit
<1>3. CallTypes /\ ClaimTypes
  BY <1>1 DEF Init, CallTypes, ClaimTypes
<1>4. MatrixTypes
  <2>1. Left \in [Elems -> Nat]
    BY DEF Left
  <2>2. LeftMatrix \in [Rows -> RowType]
    BY <2>1 DEF LeftMatrix, RowType
  <2> QED
    BY <1>1, <2>1, <2>2 DEF Init, MatrixTypes
<1>5. HeldInv
  BY <1>1 DEF Init, HeldInv, InHand
<1>6. pc[0] = "Idle" /\ outcome = "none"
  BY <1>1 DEF Init
<1>7. AmountsInv /\ ElementsInv /\ SumInv /\ OutcomeInv
  BY <1>6 DEF AmountsInv, ElementsInv, SumInv, OutcomeInv, Assembling, Summing, InParallel
<1> QED
  BY <1>2, <1>3, <1>4, <1>5, <1>7 DEF AssemblyInv

LEMMA AssemblyStep ==
  ASSUME ~ SpuriousWakeups, AssemblyInv, [Next]_vars
  PROVE  AssemblyInv'
<1> USE DEF AssemblyInv
<1>1. PoolInv' /\ CallTypes'
  BY PoolStep, CallTypesStep
<1>2. ClaimTypes' /\ MatrixTypes'
  BY ClaimTypesStep, MatrixTypesStep
<1>3. HeldInv'
  BY HeldStep
<1>4. AmountsInv' /\ ElementsInv'
  BY ElementsStep
<1>5. SumInv' /\ OutcomeInv'
  BY SumStep, OutcomeStep
<1> QED
  BY <1>1, <1>2, <1>3, <1>4, <1>5

LEMMA AddedAt ==
  ASSUME NEW row
  PROVE  /\ Added(row)[0] = row[0]
         /\ \A w \in Workers, e \in Elems : Added(row)[w][e] = row[w][e] + own[w][e]
BY Ids DEF Added

(* A matrix with what was added, and nothing else, is complete.            *)
LEMMA CompleteIfAdded ==
  ASSUME AllAdded, NEW m,
         \A r \in Rows, u \in Threads, e \in Elems : m[r][u][e] = Amount(r, u, e)
  PROVE  Complete(m)
BY DEF AllAdded, Complete

LEMMA CallerIsComplete == Complete(MatrixOfCaller)
<1>1. \A r \in Rows, u \in Threads, e \in Elems :
        MatrixOfCaller[r][u][e] = IF u = 0 THEN 1 ELSE 0
  BY DEF MatrixOfCaller
<1> QED
  BY <1>1, Ids DEF Complete

(* An assembly that returns normally leaves a complete matrix.             *)
LEMMA CollectsAll ==
  ASSUME AssemblyInv, Collect
  PROVE  Complete(JacHdl)' /\ except = {}
<1> USE Ids DEF AssemblyInv
<1>1. /\ pc[0] = "Collect" /\ op \in Ops /\ UNCHANGED <<op, own>>
      /\ op = "OP_ASSJAC_CC" => ~ propagate_ErrMatrixRebuild
      /\ op # "OP_ASSJAC_NAIVE"
      /\ op = "OP_SUM_NAIVE" \/ except = {}
      /\ JacHdl' = IF op \in {"OP_ASSJAC_CC", "OP_ASSJAC_PROD"}
                   THEN [r \in Rows |-> Added(JacHdl[r])] ELSE JacHdl
  BY DEF Collect, pool, PoolInv, PoolTypes
<1>2. op \in AssJacOps \cup {"OP_SUM_NAIVE"}
  BY <1>1 DEF PoolInv, PlacesOfOp, Ops
<1>3. SUFFICES ASSUME except = {} /\ AllAdded
               PROVE  \A r \in Rows, u \in Threads, e \in Elems :
                        JacHdl'[r][u][e] = Amount(r, u, e)
  <2>1. except = {} /\ AllAdded
    <3>1. CASE op = "OP_SUM_NAIVE"
      BY <1>1, <3>1 DEF SumInv, Summing, InParallel
    <3>2. CASE op # "OP_SUM_NAIVE"
      BY <1>1, <1>2, <3>2, AllAreAdded DEF Failed
    <3> QED
      BY <3>1, <3>2
  <2>2. \A m : (\A r \in Rows, u \in Threads, e \in Elems : m[r][u][e] = Amount(r, u, e))
                 => Complete(m)
    BY <2>1, CompleteIfAdded
  <2> HIDE DEF AssemblyInv
  <2>3. Complete(JacHdl') => Complete(JacHdl)'
    BY DEF Complete
  <2> QED
    BY <1>3, <2>1, <2>2, <2>3
<1>4. ASSUME NEW r \in Rows, NEW e \in Elems, NEW w \in Workers
      PROVE  own[w][e] \in Nat
  BY DEF MatrixTypes
<1>5. CASE op \in {"OP_ASSJAC_CC", "OP_ASSJAC_PROD"}
  <2>1. \A r \in Rows, w \in Workers, e \in Elems : JacHdl[r][w][e] = 0
    BY <1>1, <1>2, <1>3, <1>5, AllAreAdded DEF Failed
  <2>2. \A r \in Rows : JacHdl'[r] = Added(JacHdl[r])
    BY <1>1, <1>5
  <2> HIDE DEF AssemblyInv
  <2>3. \A r \in Rows, e \in Elems : JacHdl'[r][0][e] = JacHdl[r][0][e]
    BY <2>2, AddedAt
  <2>4. \A r \in Rows, w \in Workers, e \in Elems :
          JacHdl'[r][w][e] = JacHdl[r][w][e] + own[w][e]
    BY <2>2, AddedAt
  <2>5. \A r \in Rows, w \in Workers, e \in Elems : JacHdl'[r][w][e] = own[w][e]
    BY <1>4, <2>1, <2>4
  <2> QED
    BY <1>5, <2>3, <2>5 DEF Amount
<1>6. CASE op = "OP_ASSJAC_GRAD"
  BY <1>1, <1>6 DEF Amount
<1>7. CASE op = "OP_SUM_NAIVE"
  <2>1. \A t \in Threads : Active(t) /\ pc[t] # "Sum"
    <3>1. \A w \in Workers : Ready(w)
      BY <1>1 DEF PoolInv, WaitingToBeReleased
    <3> QED
      BY <1>1, <3>1 DEF InParallel, Active, Ready
  <2>2. \A t \in Threads, w \in Workers, e \in Elems : \A r \in Share(t) \cap Rows :
          JacHdl[r][w][e] = own[w][e]
    BY <1>1, <1>7, <2>1 DEF SumInv, Summing, InParallel
  <2>3. \A r \in Rows, w \in Workers, e \in Elems : JacHdl[r][w][e] = own[w][e]
    BY <2>2, Shares
  <2> QED
    BY <1>1, <1>7, <2>3 DEF Amount
<1> QED
  BY <1>1, <1>2, <1>5, <1>6, <1>7 DEF AssJacOps

(* Every step is one of Assembly, or the caller does not see it.           *)
LEMMA PoolRefines ==
  ASSUME AssemblyInv, AssemblyInv', [Next]_vars
  PROVE  [Abstract!Next]_Abstract!vars
<1> USE Ids
<1>1. /\ pc \in [Threads -> CallerPlaces \cup WorkerPlaces] /\ pc[0] \in CallerPlaces
      /\ op \in Ops
      /\ op = "OP_EXIT" => pc[0] \in {"Release", "Join", "Gone"}
      /\ pc[0] \in {"Join", "Gone"} => op = "OP_EXIT"
      /\ pc[0] = "Idle" <=> outcome \in {"none", "ok", "error", "rebuild"}
      /\ pc[0] = "Alone" => outcome = "running"
      /\ pc[0] # "Idle" /\ pc[0] # "Alone" =>
           outcome = IF op = "OP_EXIT" THEN "over" ELSE "running"
      /\ except \subseteq Threads /\ propagate_ErrMatrixRebuild \in BOOLEAN
  BY DEF AssemblyInv, PoolInv, PoolTypes, PlacesOfOp, OutcomeInv, CallTypes
<1>2. /\ outcome # "ok" => ~ Delivered
      /\ outcome' # "ok" => ~ Delivered'
      /\ outcome # "running" => Stored = {}
      /\ outcome' # "running" => Stored' = {}
      /\ pc[0] = "Alone" => Stored = {}
      /\ pc'[0] = "Alone" => Stored' = {}
      /\ except = {} /\ ~ (op = "OP_ASSJAC_CC" /\ propagate_ErrMatrixRebuild)
           => Stored = {}
      /\ except' = {} /\ ~ (op' = "OP_ASSJAC_CC" /\ propagate_ErrMatrixRebuild')
           => Stored' = {}
      /\ Stored \subseteq {"error", "rebuild"}
      /\ Delivered \in BOOLEAN
  BY DEF Delivered, Stored
<1>3. ASSUME UNCHANGED <<outcome, Stored, Delivered>>
      PROVE  [Abstract!Next]_Abstract!vars
  BY <1>3 DEF Abstract!vars
<1>4. ASSUME UNCHANGED outcome, outcome # "ok", UNCHANGED except,
             pc[0] = "Alone" <=> pc'[0] = "Alone",
             (op = "OP_ASSJAC_CC" /\ propagate_ErrMatrixRebuild)
               <=> (op' = "OP_ASSJAC_CC" /\ propagate_ErrMatrixRebuild')
      PROVE  [Abstract!Next]_Abstract!vars
  <2>1. UNCHANGED Stored
    BY <1>4 DEF Stored
  <2>2. UNCHANGED Delivered
    BY <1>2, <1>4 DEF Delivered
  <2> QED
    BY <1>3, <1>4, <2>1, <2>2
<1>5. ASSUME UNCHANGED <<outcome, JacHdl, except, op, propagate_ErrMatrixRebuild>>,
             pc[0] = "Alone" <=> pc'[0] = "Alone"
      PROVE  [Abstract!Next]_Abstract!vars
  <2>1. UNCHANGED Stored
    BY <1>5 DEF Stored
  <2>2. UNCHANGED Delivered
    BY <1>5 DEF Delivered, Complete
  <2> QED
    BY <1>3, <1>5, <2>1, <2>2
<1>6. ASSUME outcome = "running", NEW f \in SUBSET {"error", "rebuild"}, Stored \subseteq f,
             outcome' = IF f = {} THEN "ok" ELSE IF "rebuild" \in f THEN "rebuild" ELSE "error",
             outcome' = "ok" => Complete(JacHdl)'
      PROVE  [Abstract!Next]_Abstract!vars
  <2>1. Stored' = {}
    BY <1>2, <1>6
  <2>2. Delivered' = (f = {})
    BY <1>6 DEF Delivered
  <2>3. Abstract!Return
    BY <1>6, <2>1, <2>2 DEF Abstract!Return, Abstract!OutcomeOf, Abstract!Failures
  <2> QED
    BY <2>3 DEF Abstract!Next
<1>7. ASSUME NEW k \in Kinds, AssJac(k) PROVE [Abstract!Next]_Abstract!vars
  <2>1. /\ pc[0] = "Idle" /\ outcome' = "running"
        /\ \/ pc'[0] = "Alone"
           \/ /\ except' = {}
              /\ op' = "OP_ASSJAC_CC" => propagate_ErrMatrixRebuild' = FALSE
    BY <1>1, <1>7 DEF AssJac, MayCall, CCAssJac, Dispatch, OpOf
  <2>2. outcome \notin {"running", "over"} /\ Stored = {} /\ Stored' = {} /\ ~ Delivered'
    BY <1>1, <1>2, <2>1
  <2>3. Abstract!Call
    BY <2>1, <2>2 DEF Abstract!Call
  <2> QED
    BY <2>3 DEF Abstract!Next
<1>8. CASE ThreadDestroy
  <2>1. pc[0] = "Idle" /\ outcome' = "over"
    BY <1>8 DEF ThreadDestroy
  <2>2. outcome \notin {"running", "over"} /\ Stored = {} /\ Stored' = {} /\ ~ Delivered'
    BY <1>1, <1>2, <2>1
  <2>3. Abstract!Destroy
    BY <2>1, <2>2 DEF Abstract!Destroy
  <2> QED
    BY <2>3 DEF Abstract!Next
<1>9. CASE Factor \/ MatrInitialize \/ UNCHANGED vars
  BY <1>5, <1>9 DEF Factor, MatrInitialize, vars, pool
<1>10. ASSUME NEW w \in Workers, Acquire(w) \/ EndOfOp(w)
       PROVE  [Abstract!Next]_Abstract!vars
  BY <1>1, <1>5, <1>10 DEF Acquire, EndOfOp
<1>11. CASE Release \/ Wait \/ WakeUp \/ Join \/ CollectNaive
  <2>1. /\ pc[0] \notin {"Idle", "Alone"} /\ pc'[0] # "Alone"
        /\ UNCHANGED <<outcome, except, propagate_ErrMatrixRebuild>>
        /\ op = "OP_ASSJAC_CC" <=> op' = "OP_ASSJAC_CC"
    BY <1>1, <1>11 DEF Release, Wait, WakeUp, Join, CollectNaive, pool
  <2> QED
    BY <1>1, <1>4, <2>1
<1>12. ASSUME NEW t \in Threads, Assemble(t) PROVE [Abstract!Next]_Abstract!vars
  <2>1. /\ pc[t] \in {"Assemble", "Sum"} /\ UNCHANGED <<op, outcome>>
        /\ pc' = pc \/ pc' = Finished(t)
    <3>1. pc' = pc \/ pc' = Finished(t)
      BY <1>12 DEF Assemble, Claim, LastElement, AddElement, LockRow, AddRow, FailElement,
         SumRows
    <3> QED
      BY <1>12, <3>1, WorkFrame DEF AssemblyInv
  <2>2. pc[0] \in InParallel /\ outcome = "running"
    <3>1. pc[0] \in InParallel \ {"Collect"} /\ op # "OP_EXIT"
      BY <2>1, AtWork DEF AssemblyInv, AssJacOps
    <3> QED
      BY <1>1, <3>1 DEF InParallel
  <2>3. pc[0] # "Alone" /\ pc'[0] # "Alone"
    BY <1>1, <2>1, <2>2 DEF InParallel, Finished
  <2>4. CASE UNCHANGED <<except, propagate_ErrMatrixRebuild>>
    BY <1>4, <2>1, <2>2, <2>3, <2>4
  <2>5. CASE FailElement(t)
    <3>1. PICK f \in {"error", "rebuild"} : Stored' = Stored \cup {f}
      <4>1. CASE except' = except \cup {t} /\ UNCHANGED propagate_ErrMatrixRebuild
        <5>1. Stored' = Stored \cup {"error"}
          BY <2>1, <2>2, <2>3, <4>1 DEF Stored
        <5> QED
          BY <5>1
      <4>2. CASE /\ op = "OP_ASSJAC_CC" /\ propagate_ErrMatrixRebuild' = TRUE
                 /\ UNCHANGED except
        <5>1. Stored' = Stored \cup {"rebuild"}
          BY <2>1, <2>2, <2>3, <4>2 DEF Stored
        <5> QED
          BY <5>1
      <4> QED
        BY <2>5, <4>1, <4>2 DEF FailElement
    <3>2. UNCHANGED <<outcome, Delivered>>
      BY <1>2, <2>1, <2>2 DEF Delivered
    <3>3. Abstract!ElementFails
      BY <2>2, <3>1, <3>2 DEF Abstract!ElementFails, Abstract!Failures
    <3> QED
      BY <3>3 DEF Abstract!Next
  <2> QED
    BY <1>12, <2>4, <2>5 DEF Assemble, Claim, LastElement, AddElement, LockRow, AddRow, SumRows
<1>13. CASE CollectRebuild
  <2>1. pc[0] = "Collect" /\ outcome' = "rebuild" /\ op = "OP_ASSJAC_CC"
    BY <1>13 DEF CollectRebuild, ReturnWith
  <2>2. outcome = "running"
    BY <1>1, <2>1
  <2> DEFINE f == {"error", "rebuild"}
  <2>3. f \in SUBSET {"error", "rebuild"} /\ Stored \subseteq f /\ f # {} /\ "rebuild" \in f
    BY <1>2
  <2> QED
    BY <1>6, <2>1, <2>2, <2>3
<1>14. CASE CollectError
  <2>1. /\ pc[0] = "Collect" /\ outcome' = "error"
        /\ ~ (op = "OP_ASSJAC_CC" /\ propagate_ErrMatrixRebuild)
        /\ except # {}
    BY <1>14 DEF CollectError, ReturnWith
  <2>2. outcome = "running"
    BY <1>1, <1>14, <2>1 DEF CollectError
  <2> DEFINE f == {"error"}
  <2>3. f \in SUBSET {"error", "rebuild"} /\ Stored \subseteq f /\ f # {} /\ "rebuild" \notin f
    BY <2>1 DEF Stored
  <2> QED
    BY <1>6, <2>1, <2>2, <2>3
<1>15. CASE Collect
  <2>1. /\ pc[0] = "Collect" /\ outcome' = "ok"
        /\ ~ (op = "OP_ASSJAC_CC" /\ propagate_ErrMatrixRebuild)
    BY <1>15 DEF Collect, ReturnWith
  <2>2. outcome = "running"
    BY <1>1, <2>1
  <2>3. Complete(JacHdl)' /\ Stored = {}
    BY <1>2, <1>15, <2>1, CollectsAll
  <2> DEFINE f == {}
  <2>4. f \in SUBSET {"error", "rebuild"} /\ Stored \subseteq f
    BY <2>3
  <2> QED
    BY <1>6, <2>1, <2>2, <2>3, <2>4
<1>16. CASE AssembleAlone
  <2>1. pc[0] = "Alone"
    BY <1>16 DEF AssembleAlone
  <2>2. outcome = "running" /\ Stored = {}
    BY <1>1, <1>2, <2>1
  <2>3. CASE outcome' = "ok" /\ JacHdl' = MatrixOfCaller
    <3>1. Complete(JacHdl)'
      BY <2>3, CallerIsComplete DEF Complete, MatrixOfCaller
    <3> DEFINE f == {}
    <3>2. f \in SUBSET {"error", "rebuild"} /\ Stored \subseteq f
      BY <2>2
    <3> QED
      BY <1>6, <2>2, <2>3, <3>1, <3>2
  <2>4. CASE outcome' = "error"
    <3> DEFINE f == {"error"}
    <3>1. f \in SUBSET {"error", "rebuild"} /\ Stored \subseteq f /\ f # {} /\ "rebuild" \notin f
      BY <2>2
    <3> QED
      BY <1>6, <2>2, <2>4, <3>1
  <2>5. CASE outcome' = "rebuild"
    <3> DEFINE f == {"rebuild"}
    <3>1. f \in SUBSET {"error", "rebuild"} /\ Stored \subseteq f /\ f # {} /\ "rebuild" \in f
      BY <2>2
    <3> QED
      BY <1>6, <2>2, <2>5, <3>1
  <2> QED
    BY <1>16, <2>3, <2>4, <2>5 DEF AssembleAlone, ReturnWith
<1> QED
  BY <1>7, <1>8, <1>9, <1>10, <1>11, <1>12, <1>13, <1>14, <1>15, <1>16
     DEF Next, Caller, Worker

(* The safety part of KeepsPromise, for every number of threads, elements  *)
(* and rows: an assembly by the pool returns normally only if no thread    *)
(* failed, and then every element is in every row exactly once; a request  *)
(* to rebuild is what the caller is told, and an exception that any thread *)
(* stored is not lost (CCAssJac, NaiveAssJac, GradAssJac, the vector       *)
(* product, and what their workers do).                                    *)
THEOREM PoolAssembles ==
  ASSUME ~SpuriousWakeups
  PROVE  Spec => Abstract!Init /\ [][Abstract!Next]_Abstract!vars
<1>1. Init => Abstract!Init
  BY DEF Init, Abstract!Init, Stored, Delivered
<1>2. AssemblyInv /\ [Next]_vars => AssemblyInv'
  BY AssemblyStep
<1>3. AssemblyInv /\ AssemblyInv' /\ [Next]_vars => [Abstract!Next]_Abstract!vars
  BY PoolRefines
<1> QED
  BY <1>1, <1>2, <1>3, AssemblyInit, PTL DEF Spec
=============================================================================
