----------------------------- MODULE MTAssembly -----------------------------
(* The assembly of the Jacobian matrix by MultiThreadDataManager            *)
(* (mbdyn/base/mtdataman.cc): the calling thread, number 0, hands an        *)
(* operation to the workers of the pool, takes part in it, waits for them   *)
(* and collects what they did.                                              *)
(*                                                                          *)
(* What is in a row of a matrix or vector is, for each thread and element,  *)
(* how often the contribution the thread computed for the element was added *)
(* to the row; every element contributes to every row.                      *)
EXTENDS Naturals, FiniteSets

CONSTANTS
  nThreads,         \* the caller's thread and the workers
  iSize,            \* number of elements (Elems.size())
  iNumRows,         \* rows of the matrix
  Kinds,            \* the kinds of assembly the caller asks for
  MaxUnsigned,      \* the largest unsigned int
  SpuriousWakeups   \* whether a wait on a condition variable may end by itself

ASSUME PoolAssumption ==
  /\ nThreads \in Nat /\ nThreads > 1
  /\ iSize \in Nat \ {0}
  /\ iNumRows \in Nat \ {0}
  /\ Kinds \subseteq {"DEFAULT", "EIG", "CC", "NAIVE", "GRAD", "PROD"}
  /\ MaxUnsigned \in Nat /\ nThreads <= MaxUnsigned
  /\ SpuriousWakeups \in BOOLEAN

Threads == 0 .. nThreads - 1
Workers == 1 .. nThreads - 1
Elems == 0 .. iSize - 1
Rows == 0 .. iNumRows - 1

VARIABLES
  pc,             \* where each thread is
  kind,           \* the call in progress on the caller's stack
  op,             \* the operation the workers are to do
  next,           \* the worker the caller is about to release or to join
  thread_count,
  sem,            \* the semaphore of each worker
  notified,       \* thread_cond was notified during the wait
  inuse,          \* the flag of each element
  held,           \* the element each thread assembles, in a set
  todo,           \* GRAD: the rows the thread still has to add
  adding,         \* GRAD: the row each thread has locked and what it read, in a set
  except,         \* the threads with a stored exception
  propagate_ErrMatrixRebuild,
  CCReady,
  copies,         \* pJacHdl of the workers: copies of which compact matrix
  matrix,         \* the caller's own matrix
  JacHdl,         \* what is in the matrix (or JacY) that is being assembled
  own,            \* what is in each worker's own matrix, or pJacProd
  outcome         \* how the last assembly ended

pool == <<op, thread_count, sem, notified>>
claims == <<inuse, held, todo, adding>>
cc == <<CCReady, copies>>
vars == <<pc, kind, next, pool, claims, except, propagate_ErrMatrixRebuild, cc,
          matrix, JacHdl, own, outcome>>

Zero == [e \in Elems |-> 0]
(* What an earlier assembly left behind is not told apart; it is nothing an *)
(* assembly may return.                                                     *)
Left == [e \in Elems |-> 2]

ZeroMatrix == [r \in Rows |-> [t \in Threads |-> Zero]]
LeftMatrix == [r \in Rows |-> [t \in Threads |-> Left]]
MatrixOfCaller ==
  [r \in Rows |-> [t \in Threads |-> [e \in Elems |-> IF t = 0 THEN 1 ELSE 0]]]

Complete(m) ==
  \A r \in Rows, e \in Elems :
    \E t \in Threads : \A u \in Threads : m[r][u][e] = IF u = t THEN 1 ELSE 0

AssJacOps == {"OP_ASSJAC_CC", "OP_ASSJAC_NAIVE", "OP_ASSJAC_GRAD", "OP_ASSJAC_PROD"}
Ops == AssJacOps \cup {"OP_UNKNOWN", "OP_SUM_NAIVE", "OP_EXIT"}

(* The operation each kind of assembly begins with.  "EIG" is a call with   *)
(* an uncompressed matrix that is not the caller's own (an eigenanalysis).  *)
OpOf(k) ==
  CASE k = "NAIVE" -> "OP_ASSJAC_NAIVE" [] k = "GRAD" -> "OP_ASSJAC_GRAD"
    [] k = "PROD" -> "OP_ASSJAC_PROD" [] OTHER -> "OP_ASSJAC_CC"

Init ==
  /\ pc = [t \in Threads |-> IF t = 0 THEN "Idle" ELSE "Acquire"]
  /\ kind = "NONE" /\ op = "OP_UNKNOWN" /\ next = 1 /\ thread_count = 0
  /\ sem = [w \in Workers |-> 0] /\ notified = FALSE
  /\ inuse = [e \in Elems |-> FALSE]
  /\ held = [t \in Threads |-> {}] /\ todo = [t \in Threads |-> {}]
  /\ adding = [t \in Threads |-> {}]
  /\ except = {} /\ propagate_ErrMatrixRebuild = FALSE
  /\ CCReady = "CC_NO" /\ copies = "none" /\ matrix = "Initialized"
  /\ JacHdl = LeftMatrix /\ own = [w \in Workers |-> Left]
  /\ outcome = "none"

-----------------------------------------------------------------------------
(* Between two assemblies.                                                  *)

(* The solution manager makes the assembled matrix compact to factor it.    *)
Factor ==
  /\ pc[0] = "Idle" /\ matrix = "Assembled"
  /\ matrix' = "Compact"
  /\ copies' = IF copies = "current" THEN "stale" ELSE copies
  /\ UNCHANGED <<pc, kind, next, pool, claims, except, propagate_ErrMatrixRebuild,
                 CCReady, JacHdl, own, outcome>>

(* The solution manager is set up anew, or the caller caught                *)
(* ErrRebuildMatrix: the matrix is an empty uncompressed one.               *)
MatrInitialize ==
  /\ pc[0] = "Idle" /\ matrix # "Initialized"
  /\ matrix' = "Initialized"
  /\ UNCHANGED <<pc, kind, next, pool, claims, except, propagate_ErrMatrixRebuild,
                 cc, JacHdl, own, outcome>>

(* The caller of an assembly.  Whoever catches ErrRebuildMatrix initializes *)
(* the matrix before trying again.                                          *)
MayCall ==
  /\ pc[0] = "Idle"
  /\ outcome = "rebuild" => matrix # "Compact"

-----------------------------------------------------------------------------
(* The caller hands out an operation.                                       *)

(* A mutation of Dispatch that counts the caller among the workers.         *)
DispatchCountsCaller(o) ==
  /\ inuse' = [e \in Elems |-> FALSE]
  /\ op' = o
  /\ thread_count' = nThreads
  /\ except' = {}
  /\ pc' = [pc EXCEPT ![0] = "Release"]
  /\ next' = 1

(* ResetAccessData, op, thread_count, and no stored exception.              *)
Dispatch(o) ==
  /\ inuse' = [e \in Elems |-> FALSE]
  /\ op' = o
  /\ thread_count' = nThreads - 1
  /\ except' = {}
  /\ pc' = [pc EXCEPT ![0] = "Release"]
  /\ next' = 1

Compact(k) == k = "CC" /\ matrix = "Compact"

(* A mutation of CCAssJac that does not go back to CC_NO when the matrix is *)
(* not compact.                                                             *)
CCAssJacNoRetry(k) ==
  /\ propagate_ErrMatrixRebuild' = FALSE
  /\ IF CCReady # "CC_NO" /\ (CCReady = "CC_YES" \/ Compact(k))
     THEN /\ CCReady' = "CC_YES"
          /\ copies' = IF CCReady = "CC_FIRST" THEN "current" ELSE copies
          /\ Dispatch("OP_ASSJAC_CC")
          /\ UNCHANGED matrix
     ELSE /\ CCReady' = "CC_NO"
          /\ copies' = "none"
          /\ matrix' = IF k = "CC" /\ ~Compact(k) THEN "Initialized" ELSE matrix
          /\ pc' = [pc EXCEPT ![0] = "Alone"]
          /\ UNCHANGED <<inuse, op, thread_count, except, next>>

(* A mutation of CCAssJac that makes the copies once and for all.           *)
CCAssJacCopiesOnce(k) ==
  /\ propagate_ErrMatrixRebuild' = FALSE
  /\ IF CCReady # "CC_NO" /\ Compact(k)
     THEN /\ CCReady' = "CC_YES"
          /\ copies' = IF copies = "none" THEN "current" ELSE copies
          /\ Dispatch("OP_ASSJAC_CC")
          /\ UNCHANGED matrix
     ELSE /\ CCReady' = "CC_NO"
          /\ UNCHANGED copies
          /\ matrix' = IF k = "CC" /\ ~Compact(k) THEN "Initialized" ELSE matrix
          /\ pc' = [pc EXCEPT ![0] = "Alone"]
          /\ UNCHANGED <<inuse, op, thread_count, except, next>>

(* CCAssJac up to the release of the workers: in CC_NO, or with a matrix    *)
(* that is not compact, the caller is to assemble alone; the copies for the *)
(* workers are made the second time (CC_FIRST) and kept.                    *)
CCAssJac(k) ==
  /\ propagate_ErrMatrixRebuild' = FALSE
  /\ IF CCReady # "CC_NO" /\ Compact(k)
     THEN /\ CCReady' = "CC_YES"
          /\ copies' = IF CCReady = "CC_FIRST" THEN "current" ELSE copies
          /\ Dispatch("OP_ASSJAC_CC")
          /\ UNCHANGED matrix
     ELSE /\ CCReady' = "CC_NO"
          /\ copies' = "none"
          /\ matrix' = IF k = "CC" /\ ~Compact(k) THEN "Initialized" ELSE matrix
          /\ pc' = [pc EXCEPT ![0] = "Alone"]
          /\ UNCHANGED <<inuse, op, thread_count, except, next>>

AssJac(k) ==
  /\ MayCall
  /\ kind' = k
  /\ outcome' = "running"
  /\ JacHdl' = IF k = "GRAD" THEN ZeroMatrix ELSE LeftMatrix
  /\ own' = [w \in Workers |-> Left]
  /\ \/ k \in {"CC", "EIG"} /\ CCAssJac(k)
     \/ /\ k \in {"NAIVE", "GRAD", "PROD"}
        /\ Dispatch(OpOf(k))
        /\ UNCHANGED <<propagate_ErrMatrixRebuild, cc, matrix>>
     \/ /\ k = "DEFAULT"
        /\ pc' = [pc EXCEPT ![0] = "Alone"]
        /\ UNCHANGED <<inuse, op, thread_count, except, next,
                       propagate_ErrMatrixRebuild, cc, matrix>>
  /\ UNCHANGED <<sem, notified, held, todo, adding>>

(* sem.release(), then the caller does its own part; DataManager::AssJac    *)
(* begins by resetting the matrix, except through the wrapper of GRAD.      *)
Release ==
  /\ pc[0] = "Release"
  /\ sem' = [sem EXCEPT ![next] = @ + 1]
  /\ LET last == next = nThreads - 1 IN
     /\ pc' = [pc EXCEPT ![0] = IF op = "OP_EXIT" THEN "Join"
                                ELSE IF ~last THEN "Release"
                                ELSE IF op = "OP_SUM_NAIVE" THEN "Sum"
                                ELSE "Assemble"]
     /\ next' = IF last \/ op = "OP_EXIT" THEN next ELSE next + 1
     /\ JacHdl' = IF last /\ op \in AssJacOps \ {"OP_ASSJAC_GRAD"}
                  THEN ZeroMatrix ELSE JacHdl
  /\ UNCHANGED <<kind, op, thread_count, notified, claims, except,
                 propagate_ErrMatrixRebuild, cc, matrix, own, outcome>>

-----------------------------------------------------------------------------
(* A worker starts: what it does is decided by op.                          *)
Acquire(w) ==
  /\ pc[w] = "Acquire" /\ sem[w] > 0
  /\ sem' = [sem EXCEPT ![w] = @ - 1]
  /\ pc' = [pc EXCEPT ![w] = CASE op = "OP_EXIT" -> "Exit"
                               [] op = "OP_SUM_NAIVE" -> "Sum"
                               [] OTHER -> "Assemble"]
  /\ own' = IF op \in AssJacOps \ {"OP_ASSJAC_GRAD"}
            THEN [own EXCEPT ![w] = Zero] ELSE own
  /\ UNCHANGED <<kind, next, op, thread_count, notified, claims, except,
                 propagate_ErrMatrixRebuild, cc, matrix, JacHdl, outcome>>

(* After its part the caller goes on to wait, a worker to EndOfOp.          *)
Finished(t) == [pc EXCEPT ![t] = IF t = 0 THEN "Wait" ELSE "EndOfOp"]

(* bGetNext: first the elements t, t + nThreads, ..., then, in the second   *)
(* round, all.  The elements behind the iterator are in use and stay so     *)
(* while the threads assemble: the next one is the first that is not.       *)
Free(t) ==
  LET free == {e \in Elems : ~inuse[e]}
      mine == {e \in free : e % nThreads = t}
  IN IF mine # {} THEN mine ELSE free

(* An element is claimed with a compare-and-swap on its flag.               *)
Claim(t) ==
  /\ pc[t] = "Assemble" /\ held[t] = {}
  /\ \E e \in Free(t) :
     /\ \A f \in Free(t) : e <= f
     /\ inuse' = [inuse EXCEPT ![e] = TRUE]
     /\ held' = [held EXCEPT ![t] = {e}]
     /\ todo' = [todo EXCEPT ![t] = Rows]
  /\ UNCHANGED <<pc, kind, next, pool, adding, except,
                 propagate_ErrMatrixRebuild, cc, matrix, JacHdl, own, outcome>>

(* No element is left.                                                      *)
LastElement(t) ==
  /\ pc[t] = "Assemble" /\ held[t] = {}
  /\ Free(t) = {}
  /\ pc' = Finished(t)
  /\ UNCHANGED <<kind, next, pool, claims, except, propagate_ErrMatrixRebuild, cc,
                 matrix, JacHdl, own, outcome>>

(* The contribution of the element goes to the thread's own matrix.         *)
AddElement(t) ==
  /\ pc[t] = "Assemble" /\ op # "OP_ASSJAC_GRAD"
  /\ \E e \in held[t] :
       IF t = 0
       THEN /\ JacHdl' = [r \in Rows |-> [JacHdl[r] EXCEPT ![0][e] = @ + 1]]
            /\ UNCHANGED own
       ELSE /\ own' = [own EXCEPT ![t][e] = @ + 1]
            /\ UNCHANGED JacHdl
  /\ held' = [held EXCEPT ![t] = {}]
  /\ todo' = [todo EXCEPT ![t] = {}]
  /\ UNCHANGED <<pc, kind, next, pool, inuse, adding, except,
                 propagate_ErrMatrixRebuild, cc, matrix, outcome>>

(* GRAD: the threads add to one matrix, row by row.  A row that is locked   *)
(* (bLocked) is skipped and tried again later.                              *)
Locked == UNION {{a.row : a \in adding[t]} : t \in Threads}

(* A mutation of LockRow without the lock.                                  *)
LockRowAnyway(t) ==
  /\ pc[t] = "Assemble" /\ op = "OP_ASSJAC_GRAD"
  /\ adding[t] = {}
  /\ \E r \in todo[t] :
       /\ adding' = [adding EXCEPT ![t] = {[row |-> r, was |-> JacHdl[r]]}]
       /\ todo' = [todo EXCEPT ![t] = @ \ {r}]
  /\ UNCHANGED <<pc, kind, next, pool, inuse, held, except,
                 propagate_ErrMatrixRebuild, cc, matrix, JacHdl, own, outcome>>

LockRow(t) ==
  /\ pc[t] = "Assemble" /\ op = "OP_ASSJAC_GRAD"
  /\ adding[t] = {}
  /\ \E r \in todo[t] \ Locked :
       /\ adding' = [adding EXCEPT ![t] = {[row |-> r, was |-> JacHdl[r]]}]
       /\ todo' = [todo EXCEPT ![t] = @ \ {r}]
  /\ UNCHANGED <<pc, kind, next, pool, inuse, held, except,
                 propagate_ErrMatrixRebuild, cc, matrix, JacHdl, own, outcome>>

AddRow(t) ==
  /\ \E a \in adding[t], e \in held[t] :
       JacHdl' = [JacHdl EXCEPT ![a.row] = [a.was EXCEPT ![t][e] = @ + 1]]
  /\ adding' = [adding EXCEPT ![t] = {}]
  /\ held' = IF todo[t] = {} THEN [held EXCEPT ![t] = {}] ELSE held
  /\ UNCHANGED <<pc, kind, next, pool, inuse, todo, except,
                 propagate_ErrMatrixRebuild, cc, matrix, own, outcome>>

(* The element throws, or, in a compact matrix, needs an entry that the     *)
(* matrix does not have.                                                    *)
FailElement(t) ==
  /\ pc[t] = "Assemble" /\ held[t] # {}
  /\ todo[t] = Rows /\ adding[t] = {}
  /\ \/ /\ except' = except \cup {t}
        /\ UNCHANGED propagate_ErrMatrixRebuild
     \/ /\ op = "OP_ASSJAC_CC"
        /\ propagate_ErrMatrixRebuild' = TRUE
        /\ UNCHANGED except
  /\ held' = [held EXCEPT ![t] = {}]
  /\ todo' = [todo EXCEPT ![t] = {}]
  /\ pc' = Finished(t)
  /\ UNCHANGED <<kind, next, pool, inuse, adding, cc, matrix, JacHdl, own, outcome>>

(* OP_SUM_NAIVE: thread t adds the workers' matrices to the caller's in the *)
(* rows that are its share.                                                 *)
Share(t) == (iNumRows * t) \div nThreads .. (iNumRows * (t + 1)) \div nThreads - 1

Added(row) ==
  [t \in Threads |->
     IF t \in Workers THEN [e \in Elems |-> row[t][e] + own[t][e]] ELSE row[t]]

SumRows(t) ==
  /\ pc[t] = "Sum"
  /\ JacHdl' = [r \in Rows |-> IF r \in Share(t) THEN Added(JacHdl[r]) ELSE JacHdl[r]]
  /\ pc' = Finished(t)
  /\ UNCHANGED <<kind, next, pool, claims, except, propagate_ErrMatrixRebuild, cc,
                 matrix, own, outcome>>

(* Mutations of EndOfOp: every worker signals the end; a worker waits for   *)
(* work after OP_EXIT.                                                      *)
EndOfOpNotifiesAlways(w) ==
  /\ pc[w] \in {"EndOfOp", "Exit"}
  /\ thread_count' = IF thread_count = 0 THEN MaxUnsigned ELSE thread_count - 1
  /\ notified' = (notified \/ pc[0] = "Blocked")
  /\ pc' = [pc EXCEPT ![w] = IF @ = "Exit" THEN "Gone" ELSE "Acquire"]
  /\ UNCHANGED <<kind, next, op, sem, claims, except, propagate_ErrMatrixRebuild,
                 cc, matrix, JacHdl, own, outcome>>

EndOfOpKeepsGoing(w) ==
  /\ pc[w] \in {"EndOfOp", "Exit"}
  /\ thread_count' = IF thread_count = 0 THEN MaxUnsigned ELSE thread_count - 1
  /\ notified' = (notified \/ (thread_count' = 0 /\ pc[0] = "Blocked"))
  /\ pc' = [pc EXCEPT ![w] = "Acquire"]
  /\ UNCHANGED <<kind, next, op, sem, claims, except, propagate_ErrMatrixRebuild,
                 cc, matrix, JacHdl, own, outcome>>

(* EndOfOp, with thread_mutex locked; after OP_EXIT the worker ends.        *)
EndOfOp(w) ==
  /\ pc[w] \in {"EndOfOp", "Exit"}
  /\ thread_count' = IF thread_count = 0 THEN MaxUnsigned ELSE thread_count - 1
  /\ notified' = (notified \/ (thread_count' = 0 /\ pc[0] = "Blocked"))
  /\ pc' = [pc EXCEPT ![w] = IF @ = "Exit" THEN "Gone" ELSE "Acquire"]
  /\ UNCHANGED <<kind, next, op, sem, claims, except, propagate_ErrMatrixRebuild,
                 cc, matrix, JacHdl, own, outcome>>

-----------------------------------------------------------------------------
(* The caller waits, once and only if the count is not zero.                *)
(* A mutation of Wait that tests for the wrong count.                       *)
WaitForMoreThanOne ==
  /\ pc[0] = "Wait"
  /\ pc' = [pc EXCEPT ![0] = IF thread_count > 1 THEN "Blocked" ELSE "Collect"]
  /\ UNCHANGED <<kind, next, pool, claims, except, propagate_ErrMatrixRebuild, cc,
                 matrix, JacHdl, own, outcome>>

Wait ==
  /\ pc[0] = "Wait"
  /\ pc' = [pc EXCEPT ![0] = IF thread_count > 0 THEN "Blocked" ELSE "Collect"]
  /\ UNCHANGED <<kind, next, pool, claims, except, propagate_ErrMatrixRebuild, cc,
                 matrix, JacHdl, own, outcome>>

WakeUp ==
  /\ pc[0] = "Blocked"
  /\ notified \/ SpuriousWakeups
  /\ notified' = FALSE
  /\ pc' = [pc EXCEPT ![0] = "Collect"]
  /\ UNCHANGED <<kind, next, op, thread_count, sem, claims, except,
                 propagate_ErrMatrixRebuild, cc, matrix, JacHdl, own, outcome>>

ReturnWith(o) ==
  /\ outcome' = o
  /\ kind' = "NONE"
  /\ matrix' = IF kind = "CC" /\ o = "ok" /\ matrix = "Initialized"
               THEN "Assembled" ELSE matrix
  /\ pc' = [pc EXCEPT ![0] = "Idle"]

(* After the wait a request to rebuild goes before a stored exception, and  *)
(* both before the sum of what the workers did.                             *)
CollectRebuild ==
  /\ pc[0] = "Collect"
  /\ op = "OP_ASSJAC_CC" /\ propagate_ErrMatrixRebuild
  /\ CCReady' = "CC_NO" /\ copies' = "none"
  /\ ReturnWith("rebuild")
  /\ UNCHANGED <<next, pool, claims, except, propagate_ErrMatrixRebuild, JacHdl, own>>

CollectError ==
  /\ pc[0] = "Collect"
  /\ op = "OP_ASSJAC_CC" => ~propagate_ErrMatrixRebuild
  /\ op # "OP_SUM_NAIVE" /\ except # {}
  /\ ReturnWith("error")
  /\ UNCHANGED <<next, pool, claims, except, propagate_ErrMatrixRebuild, cc, JacHdl, own>>

(* NAIVE: a second operation sums the matrices.                             *)
(* A mutation of CollectNaive that does not set thread_count again.         *)
CollectNaiveKeepsCount ==
  /\ pc[0] = "Collect" /\ op = "OP_ASSJAC_NAIVE" /\ except = {}
  /\ op' = "OP_SUM_NAIVE"
  /\ next' = 1
  /\ pc' = [pc EXCEPT ![0] = "Release"]
  /\ UNCHANGED <<kind, thread_count, sem, notified, claims, except,
                 propagate_ErrMatrixRebuild, cc, matrix, JacHdl, own, outcome>>

CollectNaive ==
  /\ pc[0] = "Collect" /\ op = "OP_ASSJAC_NAIVE" /\ except = {}
  /\ op' = "OP_SUM_NAIVE"
  /\ thread_count' = nThreads - 1
  /\ next' = 1
  /\ pc' = [pc EXCEPT ![0] = "Release"]
  /\ UNCHANGED <<kind, sem, notified, claims, except, propagate_ErrMatrixRebuild, cc,
                 matrix, JacHdl, own, outcome>>

Collect ==
  /\ pc[0] = "Collect"
  /\ op = "OP_ASSJAC_CC" => ~propagate_ErrMatrixRebuild
  /\ op # "OP_ASSJAC_NAIVE"
  /\ op = "OP_SUM_NAIVE" \/ except = {}
  /\ JacHdl' = IF op \in {"OP_ASSJAC_CC", "OP_ASSJAC_PROD"}
               THEN [r \in Rows |-> Added(JacHdl[r])] ELSE JacHdl
  /\ ReturnWith("ok")
  /\ UNCHANGED <<next, pool, claims, except, propagate_ErrMatrixRebuild, cc, own>>

(* The caller assembles every element by itself.  It does not catch what    *)
(* the elements throw, or a compact matrix that lacks an entry.             *)
AssembleAlone ==
  /\ pc[0] = "Alone"
  /\ \/ /\ JacHdl' = MatrixOfCaller
        /\ CCReady' = IF kind = "DEFAULT" THEN CCReady ELSE "CC_FIRST"
        /\ ReturnWith("ok")
     \/ /\ ReturnWith("error")
        /\ UNCHANGED <<JacHdl, CCReady>>
     \/ /\ Compact(kind)
        /\ ReturnWith("rebuild")
        /\ UNCHANGED <<JacHdl, CCReady>>
  /\ UNCHANGED <<next, pool, claims, except, propagate_ErrMatrixRebuild, copies, own>>

-----------------------------------------------------------------------------
(* ThreadDestroy: the workers are released and joined one by one.           *)
ThreadDestroy ==
  /\ pc[0] = "Idle"
  /\ op' = "OP_EXIT"
  /\ thread_count' = nThreads - 1
  /\ next' = 1
  /\ pc' = [pc EXCEPT ![0] = "Release"]
  /\ outcome' = "over"
  /\ UNCHANGED <<kind, sem, notified, claims, except, propagate_ErrMatrixRebuild, cc,
                 matrix, JacHdl, own>>

Join ==
  /\ pc[0] = "Join" /\ pc[next] = "Gone"
  /\ pc' = [pc EXCEPT ![0] = IF next = nThreads - 1 THEN "Gone" ELSE "Release"]
  /\ next' = IF next = nThreads - 1 THEN next ELSE next + 1
  /\ UNCHANGED <<kind, pool, claims, except, propagate_ErrMatrixRebuild, cc, matrix,
                 JacHdl, own, outcome>>

Assemble(t) ==
  Claim(t) \/ LastElement(t) \/ AddElement(t) \/ LockRow(t) \/ AddRow(t)
    \/ FailElement(t) \/ SumRows(t)

Caller ==
  Release \/ Assemble(0) \/ Wait \/ WakeUp \/ CollectRebuild \/ CollectError
    \/ CollectNaive \/ Collect \/ AssembleAlone \/ Join

Worker(w) == Acquire(w) \/ Assemble(w) \/ EndOfOp(w)

Next ==
  \/ \E k \in Kinds : AssJac(k)
  \/ Factor \/ MatrInitialize \/ ThreadDestroy
  \/ Caller
  \/ \E w \in Workers : Worker(w)

Spec == Init /\ [][Next]_vars

FairSpec == Spec /\ WF_vars(Caller) /\ \A w \in Workers : WF_vars(Worker(w))

-----------------------------------------------------------------------------
(* Types.                                                                   *)
TypeOK ==
  /\ pc \in [Threads -> {"Idle", "Alone", "Release", "Join", "Wait", "Blocked", "Collect",
                         "Acquire", "Assemble", "Sum", "EndOfOp", "Exit", "Gone"}]
  /\ kind \in Kinds \cup {"NONE"}
  /\ op \in Ops
  /\ next \in Workers
  /\ thread_count \in 0 .. nThreads - 1
  /\ sem \in [Workers -> 0 .. 1]
  /\ notified \in BOOLEAN
  /\ inuse \in [Elems -> BOOLEAN]
  /\ held \in [Threads -> SUBSET Elems]
  /\ todo \in [Threads -> SUBSET Rows]
  /\ adding \in [Threads -> SUBSET [row : Rows, was : [Threads -> [Elems -> Nat]]]]
  /\ except \subseteq Threads
  /\ propagate_ErrMatrixRebuild \in BOOLEAN
  /\ CCReady \in {"CC_NO", "CC_FIRST", "CC_YES"}
  /\ copies \in {"none", "current", "stale"}
  /\ matrix \in {"Initialized", "Assembled", "Compact"}
  /\ JacHdl \in [Rows -> [Threads -> [Elems -> Nat]]]
  /\ own \in [Workers -> [Elems -> Nat]]
  /\ outcome \in {"none", "running", "ok", "error", "rebuild", "over"}

(* The workers that have not reported the end of the operation in hand:     *)
(* those still to be released, those released and those at work.            *)
Pending ==
  {w \in Workers : \/ pc[0] \in {"Release", "Join"} /\ w > next
                   \/ pc[0] = "Release" /\ w = next
                   \/ sem[w] > 0
                   \/ pc[w] \notin {"Acquire", "Gone"}}

(* thread_count is the number of workers that have not reported the end of  *)
(* the operation: it never wraps and is never set while it is in use        *)
(* (ThreadDestroy, EndOfOp, the dispatch of every assembly).                *)
CountIsOfPending == thread_count = Cardinality(Pending)

(* EndOfOp: the caller goes on after its wait only if the last worker has   *)
(* finished; when it does, and between two assemblies, no worker is at      *)
(* work or about to be.                                                     *)
RestartsAfterLast == pc[0] \in {"Collect", "Idle", "Alone"} => Pending = {}

(* OP_SUM_NAIVE: no matrix is summed while a thread still assembles into    *)
(* it, and no thread writes to the rows of another.                         *)
SumsAreQuiet ==
  \A t \in Threads :
    pc[t] = "Sum" => \A u \in Threads : pc[u] # "Assemble"

(* CCAssJac: when the workers assemble, they do so in copies of the matrix  *)
(* in the caller's hands; AddUnchecked does not check that the entries      *)
(* correspond.                                                              *)
CopiesCorrespond ==
  (outcome = "running" /\ op = "OP_ASSJAC_CC" /\ kind = "CC" /\ pc[0] # "Alone")
    => matrix = "Compact" /\ copies = "current"

(* A rebuild is asked only of a compact matrix.  After MatrInitialize the   *)
(* next assembly of the matrix cannot ask for another, so the loops on      *)
(* ErrRebuildMatrix (NewtonRaphsonSolver::Solve, "could loop forever") end. *)
RebuildsOnce ==
  [][outcome = "running" /\ outcome' = "rebuild" => matrix = "Compact"]_vars

(* What the caller of an assembly sees (module Assembly).                   *)
Delivered == outcome = "ok" /\ Complete(JacHdl)
Stored ==
  IF outcome = "running" /\ pc[0] # "Alone"
  THEN {f \in {"error", "rebuild"} :
          \/ f = "error" /\ except # {}
          \/ f = "rebuild" /\ op = "OP_ASSJAC_CC" /\ propagate_ErrMatrixRebuild}
  ELSE {}

Abstract == INSTANCE Assembly WITH complete <- Delivered, failures <- Stored

(* The pool keeps the promise of Assembly: every assembly returns; normally *)
(* only if no thread failed, and then every element is in every row once;   *)
(* no request to rebuild and no exception of any thread is lost.            *)
KeepsPromise == Abstract!Spec

(* ThreadDestroy ends, with every worker gone.                              *)
PoolEnds == outcome = "over" ~> \A t \in Threads : pc[t] = "Gone"
=============================================================================
