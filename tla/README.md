# A verification project for MBDyn

MBDyn integrates the equations of motion of multibody systems in time. What it
computes is floating-point mechanics; how it decides *when* and *how often* to
compute it is a program of its own: a time stepping loop with retries, step
size strategies, stop requests from signals and peers, a pool of assembly
threads, a pipelined parallel factorization, and protocols with external
programs. This project models that program in TLA+, checks it with TLC on small
instances and proves its main properties with TLAPS.

All paths are relative to the root of the repository.

## 1. Inventory

| component | source | state | operations | interacts by |
|---|---|---|---|---|
| time stepping | `mbdyn/base/solver.cc` | phase (`eStatus`), `dTime`, `dRefTimeStep`, `dCurrTimeStep`, `lStep`, `CurrStep`, `bSolConv`, `EigAn` | `Prepare`, `Start`, `Advance`, `Run`, `bReduceTimeStep`, `EigAll` | calls to the integrators and to the data manager, exceptions |
| step strategies | `mbdyn/base/TimeStepControl.cc` | current and minimum step, last-chance flag, two counters | `Init`, `dGetNewStepTime` | virtual calls from `Solver` |
| signals | `solver.cc:105-270` | `mbdyn_keep_going`, the installed handlers | three handlers, `mbdyn_set_stop_*` | a shared variable, asynchronously |
| parallel assembly | `mbdyn/base/mtdataman.cc`, `libraries/libmbutil/veciter.h` | operation code, thread count, per-element claim flags, per-thread matrices, rebuild flag | `AssRes`, `AssJac` (CC, naive, gradient), `ThreadSpawn`, `ThreadDestroy` | semaphores, a mutex and a condition variable, atomics |
| parallel factorization | `libraries/libmbwrap/parnaivewrap.cc`, `libraries/libnaive/pmthrdslv.c` | row counters, column locks, task record | `Factor`, `Solve` | spinning on counters, semaphores |
| step integrators | `mbdyn/base/*stepsol*` | queues of previous states | `Advance`, `Predict`, `Residual`, `Update` | called by `Solver`, call the nonlinear solver |
| nonlinear solvers | `mbdyn/base/nr.cc`, `linesearch.cc`, `gmres.cc`, `bicg.cc` | iteration counters, age of the Jacobian | `Solve` | exceptions |
| external coupling | `mbdyn/base/extforce.cc`, `extsocket.cc`, `libraries/libmbc/mbc.c` | coupling counter, first-send and first-receive flags, read-forces flags of both peers | `AfterPredict`, `Update`, `AfterConvergence`, `Send`, `Recv` | messages over a stream socket, or files |
| stream drives and outputs | `mbdyn/base/socketstream*.cc`, `usesock.cc` | input/output counters, abandoned flag | `ServePending`, `AfterConvergence` | packets |
| data manager | `mbdyn/base/dataman*.cc`, `elman.cc` | model, output counters | `Output`, `SetTime`, `EndOfSimulation` | called by `Solver` |
| real-time solver | `mbdyn/base/rt*solver.cc` | stop flag, overrun counters | `Wait`, `IsStopCommanded` | shared memory, semaphores |
| everything else | elements, nodes, parser, linear algebra, modules, MPI, inverse dynamics | | | see `PROJECT.json` |

What is hard in this code, and what correctness means for each part:

* *time stepping*: a step may fail at any point of the phases `Prepare`,
  `Start` and `Advance` and be repeated with another step; the bookkeeping of
  time, output and reference step, written four times in `solver.cc`, must not
  notice. A request to stop may come at any point. The run must end.
* *strategies*: the minimum step, the last chance and the counters of "factor"
  form a small state machine driven by failures and iteration counts.
* *parallel assembly*: every element is assembled exactly once, by whichever
  thread; nothing is added to the Jacobian before every thread is done; a
  request to rebuild the matrix or an exception of one thread is not lost.
* *parallel factorization*: no row is used before it is complete, no two
  threads write one entry, no thread is left spinning.
* *integrators*: a repeated step starts from the state of the last accepted one.
* *coupling and streams*: the two programs agree on the step they are at, and
  never wait for each other.

`PROJECT.json` lists these hazards line by line, with the properties that cover
them or the module planned to.

## 2. Modules

| module | models | status |
|---|---|---|
| `TimeStepControl` | `TimeStepControl.cc`: the three strategies as operators on a record | done |
| `Solver` (extends `TimeStepControl`) | `Solver::Run`, signals, eigenanalyses | done |
| `MCSolver` | small instances of `Solver` | done |
| `SolverProofs` | theorems about `Solver` | done |
| `Assembly` | abstract: what an assembly of the Jacobian promises to its caller | done |
| `MTAssembly` (implements `Assembly`) | `MultiThreadDataManager`: the pool of assembly threads | done |
| `MCMTAssembly` | small instances of `MTAssembly` | done |
| `MTAssemblyProofs` | theorems about `MTAssembly` | done |
| `Exchange` | abstract: what a coupling with an external program promises | done |
| `ExternalCoupling` (implements `Exchange`) | `ExtForce` over a socket and its `libmbc` peer | done |
| `MCExternalCoupling` | small instances of `ExternalCoupling` | done |
| `ExternalCouplingProofs` | theorems about `ExternalCoupling` | done |
| `NaiveElimination` | abstract: what the naive sparse solver promises to its caller | done |
| `ParNaive` (implements `NaiveElimination`) | `ParNaiveSolver` and the threads of `pmthrdslv.c` | done |
| `MCParNaive` | small instances of `ParNaive` | done |
| `ParNaiveLists` | facts about the lists of `ParNaive` that the proofs use | done |
| `ParNaiveProofs` | theorems about `ParNaive`: the pool and the factorization | done |
| `ParNaiveSolveProofs` | theorems about `ParNaive`: the substitution, the managers, the refinement | done |
| `StepIntegration` | the integrators, `Flip` and the orientations of a node | done |
| `MCStepIntegration` | instances of `StepIntegration` | done |
| `StepIntegrationProofs` | theorems about `StepIntegration` | done |
| `Streams` (extends `StepIntegration`, implements `Exchange`) | a stream drive, a stream output element and their peer, driven by the steps | done |
| `MCStreams` | instances of `Streams` | done |
| `StreamsProofs` (extends `StepIntegrationProofs`) | theorems about `Streams` | done |

### 2.1 `TimeStepControl`

A strategy object is a record (`Controllers`); `InitController` and
`dGetNewStepTime` are its two methods. Time is in integer ticks. The only
arithmetic on a step is the product with `dReductionFactor` or `dRaiseFactor`;
the products are the functions `Reduced` and `Raised`, of which
`FactorAssumption` assumes what `FactorTSR::Read` enforces on the factors: a
reduction does not lengthen, a raise does not shorten, and a reduction is
monotonic. The results of the drive callers (`max time step`, the drive of the
"change" strategy) are arguments, chosen anew at every call by the caller. The
counters saturate just above their thresholds, which no comparison can see.

### 2.2 `Solver`

`pc` is the phase: `Read`, `Derivatives`, `Dummy`, `Initial` (the phases of
`Prepare`), `Start`, `Step` (between two steps), `Attempt` (a step is being
solved) and `Done`. The three copies of the start-up step in `Start` and the
loop body in `Advance` differ in what they test on their way in and out; the
variable `stage` (the number of the start-up step) tells them apart:
`BeginFirstStep` tests nothing, the second and third start-up step test for the
end of simulation but perform no remaining eigenanalyses (`EndSimulation`), only
the first tests for a stop after its output (`FirstStepInterrupted`).

`StepIntegrator::Advance` is one action. It ends as the `catch` clauses
distinguish: convergence on the residual, on the solution
(`ConvergenceOnSolution`), `NoConvergence`, `ErrSimulationDiverged`,
`ErrFactor`, `EndOfSimulation`, `ErrInterrupted`. Which one is a free choice,
except where the code forbids it: the hard limit on the time step throws at
every residual (`OverHardLimit`), and an interruption needs a request.

`bReduceTimeStep` is `AskReduction` with the test after it: the step is repeated
(`RetryStep`) or the run aborts (`AbortRun`).

A signal runs its handler between any two actions (`Signal`), with the handler
installed for that signal, as the escalation is per signal while
`mbdyn_keep_going` is shared. `mbdyn_set_stop` is what elements do.

`EigAll` is the loop on `EigNext`: one analysis for all the times due together.

`lastOutput` is the last record written; the variables `afterStop` and `eigDone`
are history: they record what happened and influence nothing.

Left out: parsing, the numbers written, restart files, the output meter, the
log of the real-time solver, and the MPI and `USE_EXTERNAL` branches.

### 2.3 `MTAssembly` and `Assembly`

Thread 0 is the caller, the others are the workers that `ThreadSpawn` starts.
`pc[t]` is where a thread is: the caller is outside an assembly (`Idle`),
assembles by itself (`Alone`), releases the workers one by one (`Release`), does
its own part (`Assemble`, `Sum`), tests the count (`Wait`), is in the condition
wait (`Blocked`), has the results (`Collect`) or is destroying the pool (`Join`);
a worker waits for its semaphore (`Acquire`), works, reports (`EndOfOp`, `Exit`).

`kind` is the call in progress: `AssJac` of the base class for a matrix of any
other type (`DEFAULT`), the column-compressed matrix (`CC`), the same with another matrix, as an eigenanalysis passes
(`EIG`), the naive matrix (`NAIVE`), the gradient matrix all threads share
(`GRAD`), and the product with a vector of the matrix-free solvers (`PROD`).

*Elements*. `Claim` is the compare-and-swap in `MT_VecIter::bGetNext`. During an
assembly the flags only rise, so the position of an iterator follows from the
flags and is not a variable: in the first round the next element is the first
free one of the thread's own stride, in the second the first free one of all.

*Matrices*. An entry counts how often the contribution of an element as computed
by one thread was added to a row (`JacHdl`: rows, threads, elements; `own`: the
matrix of a worker). `Complete` says that each element is in each row once,
from one thread. What an earlier assembly left is one value (`Left`) that no
complete matrix contains. In the gradient assembly a thread locks a row, reads
it and writes it back: two actions (`LockRow`, `AddRow`), between which others
run; a locked row is skipped and tried again.

*The compact matrix*. `CCReady` and `copies` are the state the class keeps;
`matrix` is the state of the caller's own matrix, which its solution manager
changes between assemblies (`Factor` makes it compact, `MatrInitialize` empties
it), as `umfpackwrap.cc` does. `ErrRebuildMatrix` is caught by the nonlinear
solver, which initializes the matrix before it calls again (`MayCall`).

*Failures*. An element may throw at any thread (`except`), or, in a compact
matrix, ask for a rebuild (`propagate_ErrMatrixRebuild`).

`Assembly` has one call, failures of elements and a return; `KeepsPromise` is
its specification under the mapping at the end of `MTAssembly` (`Delivered`,
`Stored`), with its fairness: every assembly returns.

Left out: `NaiveAssJacInit`'s comparison of addresses to decide whether the
workers' naive matrices still fit; the column lists of the naive sum, whose locks
are in `naivepsad`; `AssRes` in parallel, a build option that is off and a
simpler dispatch of the same kind; the profiling of threads.

### 2.4 `ExternalCoupling` and `Exchange`

Two programs. MBDyn's side is the force element (`Send`, `UpdateForce`,
`AfterPredict`, `Recv` with `ActOnCmd`, named after `extforce.cc` and
`extsocket.cc`) inside the solver that calls it: the derivatives, then steps,
each attempt a sequence of Newton iterations. `at` is where MBDyn is: the
negotiation (`SetValue`), assembling and testing the residual (`Residual`),
solving, updating and testing the solution (`Update`), after an attempt
(`Converged`, `Failed`, `Interrupted`), in the two assemblies of an
eigenanalysis (`Eig...`), between two steps, at the end. Whether a residual or a
solution is small, whether an attempt fails and whether an eigenanalysis is due
is left open; `iIterCnt` and `retries` are bounded as in the code.

The peer is `libmbc` under the loop of `utils/test_strext_socket_lib.c`: it
negotiates, begins a step, gets a motion and puts forces as often as it iterates,
declares the end of the step with the last forces, and may leave before any step,
with or without an `ES_ABORT`.

`toPeer` and `toMBDyn` are what was sent and not read. A message is a command
with the number of the motion it carries or answers; `sent`, `seen` and `answered`
are those numbers at either end. They stand for the kinematics and the forces,
and nothing depends on them. `bLastReadForce` has no variable: `Recv_post` uses it in
the call that sets it. `IsConverged` is the entry of the force in
`DataManager::m_IsConverged`; a force in loose or staggered coupling has none,
which is as good as `TRUE`.

`Exchange` is the promise: one motion at a time, the next answer is the answer
to it, and comes unless the run ends. `KeepsPromise` is its specification with
the motions sent and answered for its variables.

Left out: coupling `none` (MBDyn never reads: the peer's forces pile up), the
file and EDGE communicators, MBDyn as the client (its negotiation cannot succeed:
see the hazards), signals during a wait, a message cut in two by a crash,
nonlinear solvers other than Newton-Raphson, and `max iterations, ..., at most`.

### 2.5 `ParNaive` and `NaiveElimination`

The caller is one Newton-Raphson solver with one solution manager: a record with
two flags, whether the manager permutes the columns
(`ParNaiveSparsePermSolutionManager`) and whether the caller may solve again
without a new matrix (modified Newton-Raphson). `caller` is where it is:
`Assemble` (residual, and `MatrReset` with a new matrix unless the last one is
kept), `Solve` (the manager's, up to the release of the threads), `Release`,
`Wait`, `Blocked`, `Collect` (after `Factor`, after the substitution or in the
destructor), `Use` (the update from `pSolHdl`).

Each thread is a program counter and the locals of `pnaivfct` and `pnaivslv`. One
action is one access to what the threads share: the choice of the pivot, its
publication, the elimination of one row, one turn of the spin on a column lock,
one new entry, the arrival at a column's counter, and so on. The elimination of a
row is one action, as a row belongs to one thread (`row % nThreads`) and the
pivot row is no longer written: `PivotRowsAreFinal` checks that it is not.

Numbers are abstracted to whether they are right. Of a matrix, `ci` and `ri` are
the lists of entries by row and by column, and `applied` the columns that were
eliminated from each row, in order; a vector is the set of its right entries
(`fwd`, `sol`), where an entry is right if everything it was computed from was.
Which pivot is large enough is left open, and so whether a column has one.
`pdSol`, `VH` and `XH` say which of the two vectors the solver writes to and what
is in each (an old solution, one in permuted order, ...).

A column without pivot makes `thread_op` throw out of the thread: the program
ends (`NoPivot`). The sequential solver, whose specification is
`NaiveElimination`, reports it to its caller.

Left out: the numbers, `SetAffinity`, spurious wake-ups (`mt_spurious` is about the
same wait), `MatrInitialize` after `ErrRebuildMatrix`, which no naive matrix throws.

### 2.6 `StepIntegration`

A solution is known by the step, the attempt and the stage it was computed for.
Vectors are not numbers but labels: whose positions a vector holds, and from and to
which solution its rotation parameters are measured, since the parameters of a node
are relative to an orientation the node keeps elsewhere (`qPrev`, which is
`qRPrev` and `qWPrev`). `X`, `XPrime`, `qX` and `qXPrime` are `Solver`'s; `mX`, `mXP`
and `mqX` the stages of a multistage integrator and their queue, `inte` the
intermediate variables of a single-step one, `bStep` the alternation of HOPE.

A step is `BeginStep` (`BeforePredict` and `Flip`), `SetTime`, one of
`AdvanceStepN`, `AdvanceSingleStep` and `AdvanceStages` (`Advance` up to the
nonlinear solver), then its ways to end: `StageConverges` and `NextStage`,
`ConvergesOnSolution`, `RepeatStep`, `EndRun`. `VariableStep` is the switch at
`solver.cc:5487` that leaves only some integrators to a time step control strategy:
with the others no step is repeated. `read`, `accepted` and `thrown` are history:
what the last prediction was made from, the solutions accepted, and where
`ConvergenceOnSolution` skipped the rest of `Advance`.

Left out: the third order integrator, whose unknowns belong to two times at once; the
coefficients and formulas; which integrator of HYBRID serves which degree of
freedom; eigenanalyses, which leave the queues alone.

### 2.7 `Streams`

`Streams` extends `StepIntegration`: the steps are those actions, joined with what
they call. `ServePending` of the drive runs in every `SetTime`, at the initial
time, at every attempt, at every stage; `Send_` of the element after every
prediction or after every convergence. The drive's state is its counter, its
buffer, its values and whether it was abandoned; the element's its counter and
whether it was abandoned. A packet is its number in two parts, which may arrive
one by one; `toMBDyn` and `toPeer` are what was sent and not read. `recvn` is `RecvAll`,
`RecvRest` and `RecvNothing`; a drive that blocks is an action that is not enabled.

The peer is the loop of `tests/stream/spring.py`: it sends, waits for an output, and
sends the answer. The file's sockets are datagram sockets now and its stream sockets
are commented out; the model is of the latter. The other peer, `source`, sends and
reads whenever it likes. Both may leave between two
messages, the source also between two parts of a packet.

Left out: connecting, datagrams (which may be lost), a full send buffer, more than
one drive or element, memory buffers, RTAI mailboxes.

## 3. Runs

| run | question | result |
|---|---|---|
| `solver` | do the rules below hold for every strategy, start-up, place to stop? | pass |
| `mt` | does the pool keep the promise of `Assembly`, for every kind of assembly in any order? | pass |
| `mt_spurious` | does it if a wait may end without a notification? | violated |
| `coupling` | do MBDyn and its peer exchange one motion for one answer, and end, whatever fails? | pass |
| `coupling_staggered` | are the kinematics sent at the end of a staggered step (comment)? | violated |
| `naive` | do the threads together do what the sequential solver does, and return? | pass |
| `naive_modified` | is the solution where `pSolHdl` says, with a permutation and modified Newton-Raphson? | violated |
| `steps` | is every prediction made from the accepted history, of whatever integrators, steps and attempts? | pass |
| `steps_on_solution` | are the elements told of every accepted step (comment)? | violated |
| `steps_single_twice` | does the queue keep a state for the node (assertion)? | violated |
| `streams` | do inputs and outputs keep pace with each other and with the steps, and do both programs end? | pass |
| `streams_repeated` | is a drive read once per step (comment, manual)? | violated |

Properties of `solver`:

* `TypeOK`, and that "factor" never works without a minimum step.
* `SameTimeStep`: solver and strategy hold the same step whenever one is read.
* `OutputFollowsTime`: rejected attempts leave no trace in output, time, step
  number or reference step, nor does the one that aborts the run: the record that
  the first step writes then has step number 0 and the time before the step.
* `AtMostOneStepAfterStop`: a request to stop is heeded after one step.
* `UndershootBounded`: how far below the minimum "factor" can get.
* `EigOnTime`: analyses in order, at the first step that reaches their time.
* `AbortOnlyAtMinimum`: "factor" aborts only with a step at or below the minimum.
* `Terminates`: under weak fairness of the solver's own actions, every run ends.

Bounds. Steps of up to 8 ticks, halved by a reduction and doubled by a raise, and
a final time of 9 leave room for a raise, two reductions below a minimum of 4,
several steps with the same length and a last step past the end; the maximum
time step moves between 6 and 8 under the solver's feet; iteration counts 1, 2
and 4 are below, between and above the two thresholds 1 and 3; the five
eigenanalysis times lie before the start, at it, on adjacent ticks that one step
passes together, and after the end; two signals are enough for every order in
which handlers escalate. The inputs (`AllInputs` in `MCSolver`) have every
strategy, 0 to 3 start-up steps, dummy steps or none, every `abort after`,
minimum steps given or not. `CHECK_DEADLOCK FALSE` is right because a run ends.

Fairness: `WF_vars(Run)`, the weakest that says that the process keeps running:
an attempt returns because the nonlinear solvers count their iterations. No
fairness is assumed of signals or elements.

Properties of `mt`:

* `TypeOK`.
* `CountIsOfPending`: `thread_count` is the number of workers that have not
  reported; it never wraps and no dispatch overwrites one in use.
* `RestartsAfterLast`: after its wait, and between assemblies, the caller finds
  every worker back.
* `SumsAreQuiet`: no naive matrix is summed while a thread assembles.
* `CopiesCorrespond`: workers assemble a compact matrix in copies of that matrix.
* `RebuildsOnce`: a rebuild is asked only of a compact matrix, so the callers'
  loops on `ErrRebuildMatrix` end.
* `KeepsPromise`: the refinement of `Assembly`.
* `PoolEnds`: destroying the pool ends, with every worker gone.

Bounds. Three threads are the fewest with two workers that can end in either
order while the caller waits; three elements and a stride of three give every
thread one of its own and leave some to be taken over by a faster one; two rows
allow two threads in different rows of one matrix, and a row with no share in
the sum. `MaxUnsigned` 7 makes a count that wraps visible. The number of
assemblies, factorizations and initializations is not bounded: the states
repeat. `CHECK_DEADLOCK FALSE`, as a destroyed pool stops.

Fairness: weak, for the caller inside an assembly or inside the destructor, and
for each worker. Each is a thread of its own that the operating system schedules.
When the next assembly comes is not assumed.

`mt` assumes that a condition wait ends only when notified
(`SpuriousWakeups = FALSE`); `mt_spurious` shows what happens otherwise, since
the wait is not in a loop as POSIX asks.

Properties of `coupling`:

* `TypeOK`.
* `ForceIsOfLatestMotion`: what MBDyn is about to read answers the last motion it
  sent.
* `TightWaitsForPeer`: a step of a tight coupling is accepted only when the peer
  is between two steps of its own and every motion was answered and read. An
  `ES_ABORT` counts as the answer to everything that was sent.
* `CoupledRunEnds`: neither program waits for the other forever.
* `KeepsPromise`: the refinement of `Exchange`.

The patterns (`WorkingPatterns` in `MCExternalCoupling`) are those for which the
exchange works, and which they are is itself a result:

* tight coupling, sending after predict or not, and coupling every second
  iteration, sending after predict, without a test on the solution;
* loose coupling, sending after predict, with a peer that iterates once per step;
* staggered coupling with a peer that never declares the end of a step and a
  strategy that never repeats one.

`coupling_staggered` takes a peer that does declare: `Send_pre` then refuses to
send at the end of the step, MBDyn waits for forces in the next one and the peer
for a motion. Loose coupling without sending after predict does the same.
With a test on the solution the derivatives of a tight coupling converge after a
motion that nobody reads the answer of, and `ForceIsOfLatestMotion` does not hold;
a coupling every second iteration without sending after predict fails in the same
way, by the motion `AfterConvergence` sends after the derivatives.

Bounds. Two steps, so that what one leaves over meets the next; up to three
iterations, so that a peer of one or two iterations declares before, at or after
the last of them; one repetition of the derivatives and of each step. One external
force and one peer. Deadlock is checked: only the end of both programs
(`Ended`) may last.

Fairness: weak, for MBDyn and for the peer, each a process that runs until it has
to wait for a message. The choice to leave, to fail or to converge is open.

Properties of `naive`:

* `TypeOK`.
* `EliminatedInOrder`: after a factorization every row is a pivot, and of each row
  exactly the columns before its own where it has an entry were eliminated.
* `ListsAgree`: the lists by row and by column describe the same entries, each once,
  but for what waits to be merged.
* `ColLocksAreLeftClear`: the locks by column, which nobody resets, are clear
  between two operations.
* `SolutionIsAvailable`: the caller finds the solution of the last residual.
* `PivotRowsAreFinal`: no step of any thread writes a row that is a pivot.
* `KeepsPromise`: the refinement of `NaiveElimination`, with its fairness: a call
  returns, or the program ends.
* `ThreadsEnd`: destroying the solver ends, with every thread gone.

Bounds. Three threads, so that two can be a column behind or ahead of the third;
three rows, so that a column is eliminated from two rows by two threads, which both
add entries; seven patterns of entries (`MCPatterns`), among them a permuted matrix,
matrices with fill-in that depends on the pivot and singular ones. With two threads
all 512 patterns were checked. The number of iterations is not bounded. A solver
that was destroyed stops, so deadlock is not checked; the liveness properties say
that nothing stops before. `naive_modified` has both flags of the manager set.

Fairness: weak, for the caller outside `Idle` and for each thread, all of them
threads of the operating system; a spin is a loop that ends when its condition holds.

Properties of `steps`:

* `TypeOK`.
* `PredictsFromHistory`: what an integrator predicts from are the last accepted
  solutions in order, with rotations relative to the one the node predicts from.
* `IntermediatesAreOfLastStep`: those that a single-step integrator reads.
* `HopeAlternates`: from one step to the next, not from one attempt to the next.
* `AttemptsBeginAlike`: a repeated attempt finds queues, nodes, elements, stages and
  time as the first one did.
* `AcceptedStepIsComplete`: vectors, nodes, elements and drives are at the end of an
  accepted step.
* `QueueFitsNode`: the queue of `Solver` keeps a state and is not longer than what a
  node remembers.

Bounds. Five regular steps after the dummy ones: one more than the longest start-up
and history (four); two attempts, one of them repeated. The inputs
(`WorkingInputs`) have every implicit and single-step integrator and multistage ones
of two to five stages, alone and after dummy steps of another kind, with and without a
nonlinear solver that throws `ConvergenceOnSolution`. What such an exception breaks
is in the premises of the properties (`thrown`) and in `steps_on_solution`; two
single-step integrators are in `steps_single_twice`. A run ends, so deadlock is not
checked.

Properties of `streams`:

* `StreamTypeOK`, with the range of the counters.
* `OutputsFollowSteps`: with integrators of one stage, one output is sent after
  convergence for every `output every` accepted steps; derivatives and failed
  attempts do not count. A multistage integrator calls `AfterConvergence` at the end
  of every stage, so that the element counts stages, while its comment
  (socketstream_out_elem.cc:148) and the manual (elemout.tex:88) speak of steps: with
  Bathe and `output every, 2` it sends at every step. The property leaves these
  integrators out (`OneStageSteps`).
* `KeepsPromise`: MBDyn and spring.py refine `Exchange`: one output, one whole input
  computed from it, in turn.
* `StreamedRunEnds`: neither waits for the other forever, whoever leaves or fails.

The configurations (`Spring` and `Source` in `MCStreams`) are those that fit. In
lock-step with spring.py: no repeated steps and no dummy loop, `input every` as many
calls of `SetTime` as `output every` has convergences, and, sending after predict,
only from the second call on, as the first output would follow the second input.
The source meets repeated steps, dummy steps and stages. A drive that does not
block gets whole packets only: what it has read of a part is lost and the rest is
taken for the beginning of the next packet, which nothing repairs.
A part that is left when the source has gone is taken for a packet: `recvn` gives what
there is, and the drive does not compare the length.
`streams_repeated` has a step that is repeated: the second attempt reads a second
packet, and with spring.py waits for ever.

Bounds. Four steps, so that a counter of two comes round twice; two attempts; one
packet on its way to MBDyn, as spring.py is never further ahead. A run ends, so
deadlock is not checked; `StreamedRunEnds` says that it does not stop before.

Fairness: weak, for MBDyn and for the peer, each a process that runs until it has to
wait. Which choice a process makes is not assumed.

Of the six violated properties `PROJECT.json` explains each, with the line of the
manual, comment or assertion it disagrees with, under "findings".

## 4. Proofs

Every invariant and every action property that a passing run checks is also a
theorem, for every value of the constants; so is the safety part of the four
refinements. The theorems are about the modules as the runs check them; `PROJECT.json`
lists them with the property each states. What each is proved from:

### 4.1 `SolverProofs`

For every input file, drive, factor, final time, list of eigenanalyses and set of
signals that the assumptions allow:

* `TypeCorrect`: `Spec => []TypeOK`. Inductive as it stands once it says that
  "factor" has a minimum in every phase that uses it (`MinimumIsSet`).
* `StepsAgree`, `OutputAndTimeAgree`, `StopIsHeeded`: corollaries of
  `StepInvariant`. `SameTimeStep` and `OutputFollowsTime` alone are not
  inductive: `Start` needs to know that the record of the initial conditions was
  written at the time where the first step begins (`StartsClean`), the first
  start-up step that nothing was tried before it (`NothingTried`), an abort that the
  run had no outcome before (`StatusFollows`), and the count of steps after a stop
  that a request, once made, is never withdrawn (`StopHeeded`): `mbdyn_keep_going` may be lowered, but not to zero.
* `UndershootIsBounded`, if the minimum is not above the initial step and the
  maximum (`SensibleLimits`). It needs that the strategy's minimum stays the one
  of the input (`MinimumKept`).
* `AbortsOnlyAtMinimum`, if a reduction shortens every step longer than one tick
  (`ReductionReduces`). It is a property of steps, proved from the invariants.
* `AnalysesAreOnTime`: `EigOnTime` for any list of times, in any order. What is
  recorded about analyses already performed stays true by itself; that none is
  overdue between two steps (`NoneOverdue`) has to be carried through the attempts
  of a step (`EigInv`), since the next analysis that `EigNext` performs was due
  later than the time from which the step began only because of it. The first step
  is the exception: nothing is known of the times before the start.

### 4.2 `MTAssemblyProofs`

For every number of threads, elements and rows, if no wait ends without a
notification (`~SpuriousWakeups`, an explicit hypothesis of the theorems; `mt_spurious`
shows that it is needed):

* `PoolInvariant`, from which `CountIsRight`, `GoesOnAfterLast` and
  `SumsWhenAllAssembled` follow. That the caller goes on only after the last
  worker is inductive only together with the count being that of the pending
  workers (`CountIsOfPending`), a notification being raised only when the last
  of them reports (`NotifiedAtEnd`), the workers not yet released being at their
  semaphores (`WaitingToBeReleased`), and every thread being where the operation
  in hand takes it (`PlacesOfOp`). The number of pending workers is that of a
  finite set, from the library's theorems on cardinality.
* `CopiesAreCurrent` and `RebuildsOnlyCompact`, from `CCInv`: between assemblies
  `CC_YES` means that the matrix is either compact with current copies or empty,
  so that it can only become compact through an assembly by the caller alone,
  which leaves `CC_YES`.
* `TypeCorrect`: types of all variables, with the ranges of the count and of the
  semaphores from `PoolInvariant`.
* `PoolAssembles`: the pool implements the safety part of `Assembly`. The invariant
  (`AssemblyInv`) says, for each thread that has taken up the operation (`Active`),
  what it added: an element it has in hand is in the rows it no longer owes, any other
  element in all rows or in none (`AmountsInv`); the row it locked is as it read it,
  and no two threads hold one row (`HeldInv`); no two threads have one element, and,
  as long as nothing failed, an element in use is somebody's and a thread that is done
  found all of them in use (`ElementsInv`). It is the last that makes the matrix
  complete when the caller collects: bGetNext's second round, over all elements, is
  what it rests on. While the naive matrices are summed, a row has what the workers
  added exactly if the thread whose share it is has been there (`SumInv`); that
  the shares divide the rows, for any number of rows and threads, is `Shares`.

### 4.3 `ExternalCouplingProofs`

For every set of inputs, number of steps, iterations and repetitions the assumptions
allow:

* `TypeCorrect`. That the counter of iterations stays bounded is part of it.
* `ForcesAreOfLatestMotion`, `StepsWaitForPeer` and `ExchangeIsInTurn`, under the
  hypothesis `EveryInputInTurn`: every input is one of the patterns of `InTurn`
  (coupling not tight, with no send after predict or a peer of one iteration; tight
  without a test on the solution, at every iteration or sent after predict), which
  contain `WorkingPatterns`, and also the staggered ones that are in turn and do not
  end. They follow from `TurnInv`. `ExchangeInv` says what the channels hold: one
  motion with the latest number, or the answer to it, or neither. `Waiting` says
  where MBDyn may be while a motion is not answered; `Convergence`, that the entry
  of the force is `TRUE` only if the peer is between two of its steps. None of the
  three properties is inductive alone: each speaks of one moment, `Waiting` and
  `Convergence` of all those before. `ExchangeIsInTurn` is the refinement of
  `Exchange` as far as it is safety: the initial states are its initial states,
  each step is one of its steps or leaves its variables alone.

### 4.4 `StepIntegrationProofs`

For every set of inputs, number of dummy steps, regular steps and attempts:

* `TypeCorrect`, from `ControlInv` (where a step may be, which integrator is in
  charge, how many steps it has had) and `TypeInv`.
* `HopeTakesTurns`: `bStep` is the parity of the steps of the integrator in charge
  (`HopeInv`), which a repeated attempt does not count again.
* `AttemptsBegin` and `AcceptedIsComplete`, from `PresentInv`: where the present
  solution is at every point of a step, as far as no exception has skipped the rest of
  `Advance`. `BeforePredict` and `Flip` run once for a step and nothing undoes a failed
  attempt: the invariant says, of every attempt, that the one before left in queues and
  nodes what it found (`AtBeginning`).
* `QueuesFit`, from `QueueInv`, under `NoSingleStepTwice`: no input has single-step
  integrators both for the dummy and for the regular steps. With both, the second
  takes a state more out of the queue than it keeps (`steps_single_twice`).
* `PredictionsAreFromHistory`, under the same hypothesis. The n-th entry of each queue
  is the n-th accepted solution, with rotations relative to the last one, for as many
  as the integrator in charge has accepted (`LagInv`), of which there are enough for
  what it reads (`Enough`: an integrator of four steps has had its start-up steps);
  and the stages of a multistage integrator are in the nodes in the order in which its
  own queue names them (`StageInv`).
* `IntermediatesAreOfLast`, if moreover a single-step integrator shares its queues only
  with an integrator that asks for at most two states (`SingleStepOfTwo`), so that the
  state it takes out, the oldest, leaves one in the queue.

### 4.5 `StreamsProofs`

For every configuration of drive, element and peer, and every set of inputs. `MaxAhead`,
the number of packets on their way, bounds the runs; the theorems hold for any:

* `StreamTypeCorrect`, with the ranges of the counters and the lengths of the channels.
* `OutputsFollow`: with integrators of one stage, the outputs are one per
  `OutputEvery` accepted steps. The invariant behind it (`OutputInv`) is of every
  integrator: outputs and counter are quotient and rest of the convergences so far,
  one per stage, compared convergence by convergence; with one stage these are the
  steps (`ConvergencesAreSteps`).
* `StreamsAreAnExchange`: the safety part of the refinement of `Exchange`, if every
  configuration with a peer like spring.py is in turn (`ExchangesAreInTurn`; `InTurn`
  is the prose of section 3: it contains the configurations of the run). `ExchangeInv`
  says that there is one token (`Token`): the packet is with MBDyn, on its way, or
  with the peer, and the counters of drive and element say which of them moves next
  (`CountersInTurn`). The counters alone do not say it: that the drive reads when the
  packet is there and the element sends when MBDyn has it is one invariant.

### 4.6 `ParNaiveLists`, `ParNaiveProofs` and `ParNaiveSolveProofs`

For every size of the matrix, number of threads, set of patterns and of managers:

* `PoolInvariant`: as in 4.2, except that the caller's wait is for as many threads
  as it released.
* `FactorInvariant`, from which `PivotsAreFinal`, `FactorizationInOrder`,
  `ListsAlwaysAgree` and `ColumnLocksClear` follow. Its base is the barrier: the
  counter of a column is the number of threads that are done with its rows, and none
  is beyond it before all are (`BarrierInv`). It keeps the threads one column apart
  at most, so that pivots are published before they are used, in order, and none twice
  (`PivotInv`). A row that is not a pivot has had eliminated what its thread is done
  with (`AppliedInv`), and has, or is getting, the entries of the pivot row
  (`FilledInv`, `FillInv`); new entries are in the lists by row before they are in
  those by column, and are merged once (`ListsInv`). `PivotsAreFinal` is a property of
  steps. For `FactorizationInOrder` all of them are needed, since a fill-in that
  comes late would be an elimination that never happens.
* `ThreadsInvariant`: during the substitution an entry of `fwd` or `sol` is there
  exactly if the thread it belongs to has passed it, and the lock of the row says so
  (`VectorsInv`); no thread begins backward before all are done forward
  (`HalfWayInv`), which is what lets one lock serve for both; so sums are right
  (`SumsInv`).
* `NaiveTypeCorrect`.
* `SolutionIsThere`, if no manager has both a permutation and the modified method
  (`ManagersMatch`; `naive_modified` shows that it is needed): which of the two vectors
  is swapped with which, through the intermediate state of the permutation
  (`ManagerInv`).
* `ThreadsEliminate`, under the same hypothesis: the safety part of the refinement of
  `NaiveElimination`. `Merge` is the step that the sequential solver sees; the
  choices, eliminations and new entries of all threads before it are invisible, as the
  mapping (`Phase`, `Entries`, `Pivots`, `Solved`) shows the entries as they were when
  the column began plus what was merged.

The lists of `ParNaive` are of unknown length, and what holds of them is proved without
induction: a least counterexample, from the library's theorem that the order of the
naturals is well-founded, has none smaller (`Least`, `ListExists`). This is why
`ParNaive` defines the ascending list of a set by `CHOOSE` (`ListOf`) and
part of a list by its places (`Selection`).

### 4.7 What is only model-checked

* Liveness: `Terminates`, `PoolEnds`, `CoupledRunEnds`, `ThreadsEnd`,
  `StreamedRunEnds`, and the fairness in the four `KeepsPromise`. `ENABLED` and
  the rules of fairness are beyond the prover. So is the absence of deadlock.
* The hypotheses named above (`EveryInputInTurn`, `NoSingleStepTwice`,
  `SingleStepOfTwo`, `ExchangesAreInTurn`, `ManagersMatch`, `~SpuriousWakeups`) hold of
  every instance of a passing run. Outside them are the configurations of
  `mt_spurious`, `naive_modified`, `steps_single_twice` and `streams_repeated`, and
  others of which section 3 says how they fail.
* That the definitions do what the code does is nobody's theorem; each mutation in the
  modules, of which TLC finds the consequences, shows what a property is sensitive to.

## 5. Plan

What is left, in order:

1. Progress without fairness: an invariant per component that says that somebody can
   move (as a disjunction of guards, without `ENABLED`), and measures that each
   step of an operation lowers: of the pool, of the column barrier, of the coupling.
2. A property on the order of signals: a request to stop at the end of the
   iteration is not lowered; the instance of `Solver` with `UseMultithread`.
3. `NewtonRaphson`: the age of the Jacobian and the counters of the nonlinear solvers.

## 6. Not modelled

* The mechanics: elements, nodes, constitutive laws, drives, aerodynamics, modal
  elements and the modules under `src/modules` are functions of floating-point
  states without control of their own. They are most of the lines; a model of
  them would say nothing that TLC or TLAPS can decide.
* Linear algebra and the wrappers of solvers, except the parallel naive solver:
  numerical code; a singular matrix is one way an attempt fails. The parallel SuperLU
  wrapper dispatches as `ParNaive` does, the factorization is in a library.
* The input and math parsers, the output formats, the restart files: conversions of
  text and files. The models start from the inputs `ReadData` accepts.
* The MPI solver: its exchanges are collective and fixed by the partition; it is
  built only with MPI.
* The inverse dynamics solver: a fixed sequence of solves without retries.
* The induced velocity thread: a pool of one worker with the wait of `mt_spurious`.
* Real-time scheduling: overruns and the log task depend on the clock and on RTAI.
* The pieces of modelled components left out are listed at the end of each part of
  section 2.
