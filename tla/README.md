# A verification project for the DAG compiler runtime

The repository parallelises a blocked Cholesky factorisation. An LLVM pass
(`submission/pass/dag_pass.cpp`) recognises the loop nest and replaces calls of
the operators `trsm` and `madd` by submissions of tasks; a C++ runtime
(`submission/runtime/dag_runtime.cpp`) runs those tasks on a pool of threads.
What is hardest to test is in the runtime: it has three schedulers, four kinds
of blocking, a lock-free path, and a submitting thread that also works. The pass
has to place every wait, name every dependency and cut every range so that the
parallel program computes what the sequential one does. This project models
both: the three schedulers, each against the contract they owe the generated
code, and the generated code, on that contract, against the sequential program.
TLC checks them on small instances. TLAPS proves the main results about each
scheduler, about the instructions of the Pass and about the compiled program for
every value of the constants.

Source lines below are those of `dag_runtime.cpp` unless another file is named.

| module | what it is |
| --- | --- |
| `TaskGraph` | what any scheduler promises to the generated code |
| `DagScheduler` | the ready queue and dependency graph (sections of `mutex_`) |
| `DagSchedulerProperties` | its properties, inductive invariant and refinement mapping |
| `DagGraphProofs`, `DagSchedulerProofs` | the proofs |
| `FastPhase` | the default path: lock-free phases, parking, call lifecycle |
| `FastPhaseProperties` | its properties, inductive invariant and refinement mapping |
| `FastPhaseProofs`, `FastPhaseContractProofs` | the proofs |
| `WorkStealing` | the opt-in work-stealing scheduler |
| `WorkStealingProperties` | its properties, inductive invariant and refinement mapping |
| `WorkStealingProofs`, `WorkStealingTaskProofs` | the proofs |
| `SizingPolicy` | how many threads a call gets, and how ranges are cut |
| `OperatorCalls`, `BlockCholesky` | the baseline, and what any transformation of it owes |
| `PassLowering` | the instructions the Pass emits for each panel |
| `LoweringProperties` | when such instructions are a parallel form of the loop nest (`Sound`) |
| `LoweringProofs` | the proof that those of the Pass are, and that ranges are cut without gap or overlap |
| `CompiledCholesky`, `CompiledCholeskyProperties` | the compiled program running on `TaskGraph`, its properties and inductive invariant |
| `CompiledCholeskyProofs` | the proofs about the sizing policy and the compiled program |
| `MCDagScheduler`, `MCFastPhase`, `MCWorkStealing`, `MCCompiledCholesky` | instances for TLC |

## 1. Inventory

### The runtime's interface

Generated code calls `compiler2026_runtime_begin(n, b)`, then any number of
`submit`, `submit_range`, `submit_deps`, `submit_deps3[_priority]`, `wait` and
`wait_key`, then `compiler2026_runtime_end`. One thread makes all these calls;
it is *Main* in the modules. A key is a tile's linear block index. A task reads
up to three keys and produces at most one. `wait` is a barrier over everything
submitted, `wait_key` over the last producer of one key. An exception of a task
is rethrown by a later wait.

### Components

**Ready queue and dependency graph.** State: four ready FIFOs (normal and
priority 1 to 3), `dag_nodes_`, `successor_edges_`, `latest_producer_`, the
staging buffers `pending_tasks_` and `dag_staging_`, the counters
`active_tasks_`, `pending_dag_tasks_` and `key_waiters_`, `worker_error_`.
Operations: `submit`, `submitWithDeps` (resolves keys to node indices *before*
the nodes exist and outside `mutex_`), `flushDagStaging` and
`flushPendingTasks` (publish under `mutex_`, notify after it), `wait`,
`waitForKey`, the live window (Main helps when too many nodes are live), the
worker loop. Hard: the predicted node index must stay right across publishes,
key waits and clearings; a producer may complete between the staging of its
consumer and the wiring of the edge; fewer workers are woken than tasks become
ready; Main sleeps on `done_cv_` without a predicate.
Correct when: tasks run once and in order, counters match what they count, a
ready task never finds everybody asleep, waits return and return only when they
should, the first exception of a drain (the one the code keeps) reaches the
client.

**Lock-free phases and call lifecycle.** State: `fast_phase_epoch_`,
`fast_session_active_`, `fast_task_count_`, `fast_worker_count_`, per-worker
acknowledgements, `active_workers_`, `fast_phase_enabled_`, `stopping_`.
Operations: `tryRunPendingFastPhase` (publish an epoch, work, spin for the
acknowledgements), `runFastSession` of a worker, `endFastSession`,
`resetForCall` (another number of workers and another mode for each call),
parking on `park_cv_`, the spin window before `work_cv_`, the destructor.
Hard: workers read the staging buffer with no lock; the epoch is published with
no lock; three kinds of waiting (spin, `work_cv_`, `park_cv_`) and a set of
participants that changes between calls.
Correct when: a wait is a barrier, the buffer is stable under its readers, a
session is over before the queue is used, a worker that takes part in a session
serves its epoch, nobody runs a task twice, and a worker that a call counts on is
not left at the park gate.

**Work stealing.** State: a deque per participant, atomic counters
`ws_pending_` and `ws_outstanding_`, an epoch, a push sequence, sleepers.
Operations: `submitWorkStealing`, `waitWorkStealing`, `driveWorkStealing`,
`releaseWorkStealingSuccessors`, local pop, steal with `try_lock`, sleep with a
time-out of two milliseconds. Hard: no lock around the whole; termination is
read from one counter; sleepers depend on a sequence number; a `try_lock` may
hide work. Correct when: the drain ends exactly when everything ran, nobody
sleeps without somebody awake, and the graph is cleared only after the last
worker left.

**Range partition** (`submitRange`, `rangeChunkLength`,
`compiler2026_runtime_range_group_width`; range bodies in the pass): cuts
`[0, count)` into chunks, and the lower triangle of tiles into groups. Correct
when the chunks tile the range for every count, worker count and grain, and the
groups make every `madd` call exactly once. Pure.

**Sizing policy** (`resolveThreadCount`, `participantCapForTile`,
`compiler2026_runtime_should_async`, `selectTaskBatchSize`, ...): pure functions
of `n`, `b`, the hardware and the environment. Hard: `should_async` (asked at the
entry of the compiled function) and `compiler2026_runtime_begin` decide one
after the other, with conditions of their own, and must agree: an asynchronous
call without a worker runs its tasks inline and loses their exceptions.
`docs/design.md:225` still gives 12 as the smallest tile that runs in
parallel where the code has 8 (2322); the number has no effect on any property
here.

**Arena**: bump allocation of task contexts, reset at the end of a call.

**Pool growth and prewarm** (`PoolPrewarm`, construction of `AsyncRuntime`,
`compiler2026_runtime_begin`): builds the threads once, usually at load time.

**Profiling**: counters and text on stderr; no decision reads them.

**Pass**: recognises `block_cholesky`, outlines task bodies, inserts submits
and waits in one of three shapes: per-panel phases with waits between them
(default), a cross-panel graph with the `cholesky` operator as a task, and a
cross-panel graph with `cholesky` kept synchronous behind `wait_key`. Within the
phases, ranges are submitted as tasks of one tile, one column or one group of
tiles, depending on what could be recovered from the loops. Hard: the dependency
keys are computed from pointers, a task body recomputes the pointers of its
operands from a logical index, and one missing wait is a data race that seldom
shows. Correct when each operator call finds in its operands exactly what the
sequential program finds there.

**Baseline** (`src/baseline/block_cholesky.cpp`): the sequential order that the
three shapes have to respect. **SDK**, **scheduler benchmark**, **scripts**:
numeric kernels, offline prototypes and orchestration.

### How they interact

Main calls the runtime; the runtime calls task bodies on Main and on the
workers. Main and workers share state under `mutex_`, through condition
variables (`work_cv_`, `done_cv_`, `park_cv_`, `ws_*_cv_`), and, on the
lock-free path, through acquire and release atomics. The three schedulers
exclude one another within a call: `COMPILER2026_DAG_WORK_STEALING` is read
once; otherwise the tile size chooses between lock-free phases and the queue at
each `begin`. That is why each scheduler has a module of its own, and why
`FastPhase` contains the part of the queue that a lock-free session hands over
to. The three are tied together by `TaskGraph`: each is shown to implement it,
`FastPhase` for the generated code it serves, which uses waits instead of
dependencies, and for calls that use the whole pool. The generated code meets the
schedulers there too: `CompiledCholesky` runs the instructions of the Pass on
`TaskGraph`. What it shows of safety holds on `DagScheduler` and `WorkStealing`,
and on `FastPhase` as long as every call uses the whole pool: when a larger call
promotes a worker, a task may run twice (finding 2), which `TaskGraph` forbids.
That a call ends is claimed for the ready queue only, since in the lock-free lane
it may not (findings 1 to 3).

## 2. Plan

In the order of importance; all of it is in this project.

1. `TaskGraph` and `DagScheduler` with its properties, four runs.
2. `FastPhase`, seven runs.
3. The inductive invariant of `DagScheduler`, its consequences and the
   refinement of `TaskGraph`, for every value of the constants.
4. `WorkStealing`, one run.
5. `CompiledCholesky`: the sequential program as a specification, the three
   shapes the Pass emits, the range partition and the sizing policy, composed
   with the contract of the runtime; the cut of a range and the agreement of the
   two sizing decisions proved.
6. The inductive invariant of `WorkStealing`, its consequences and the
   refinement of `TaskGraph`.
7. The inductive invariant of `FastPhase`, its consequences and the refinement
   of `TaskGraph`.
8. What the instructions of the Pass have to be like (`Sound`), the proof that
   they are, and from it the inductive invariant of `CompiledCholesky`, its
   consequences and the refinement of `BlockCholesky`.

What could follow: the ordering of the two atomics of the session handshake
under weak memory, a model of inline work stealing without workers, and
changes of the number of participants between work-stealing calls.

## 3. The modules and the code

### TaskGraph

The contract. A submission names keys; `after[t]` is the set of tasks that were
the last submitted writers of those keys. Participants start and finish sets of
tasks (a batch); a batch may start only if everything its tasks come after is
finished. A wait returns when its goal is reached: everything submitted is
finished, or the last writer of a key is. There are no queues, indices or
threads in it.

### DagScheduler

One action is one critical section of `mutex_`. What a thread does to state
that only it touches is merged with its neighbouring section. Notifications are
issued after the lock is released, and are actions of their own: `owed` counts
the `notify_one` calls that a publish still has to make.

| code | action or operator |
| --- | --- |
| `submit` 412, `enqueueTask` 761 | `Submit` (staged), `EnqueueTask` (staging off) |
| `submitWithDeps` 567 | `SubmitWithDeps` |
| `flushDagStaging` 657 | `FlushDagStaging`, with `LiveProducers`, `PublishedNodes` |
| `flushPendingTasks` 1537 | `FlushPendingTasks` |
| `notifyWorkers` 796 | `Owed`, `Woken`, `NotifyWorkers`, `NotifyOne` |
| `takeReadyTasksLocked` 1585, `chooseBatchCount` 1750 | `TakeReadyTasksLocked`, `TopLevel`, `BatchCount` |
| `runBatch` 1764 | `Throw`, once for each body that raises |
| `completeDagTasksLocked` 1667 | `Complete`, with `NodesAfter`, `ReleasedBy` |
| `wait` 814 | `Wait`, `WaitReturn` |
| `waitForKey` 892 | `WaitForKey`, `RegisterKeyWaiter`, `KeyReturn` |
| live window in `submitWithDeps` 646 | `LoopOf`, `WindowReturn` |
| helping and sleeping of Main | `MainTake`, `MainComplete`, `MainSleep`, `MainSpuriousWake` |
| `workerLoop` 1131 | `WorkerTake`, `WorkerComplete`, `WorkerSleep`, `WorkerSpuriousWake` |

A ready FIFO is a set of entries of one priority level, so a participant may
take any of them; the code takes the oldest, so every behaviour of the code is
a behaviour of the model.

Every name that begins with `Bug` is a plausible slip in the definition that
follows it. None is part of a specification: each is put in the place of the
correct definition to see that a property notices.

### FastPhase

Here every access to an atomic is a step, because the path's correctness rests
on their order. A worker's `wpc` follows the two lanes of `workerLoop`: the
lock-free session (`admit`, `enter`, `session`, `epoch`, `begin`, `phase`) and
the queue (`gate`, `parked`, `spin`, `relock`, `blocking`, `asleep`, `run`).
`blocking` is the moment between the false predicate of `work_cv_` and the
block, during which the worker still holds `mutex_`. Main's `mpc` follows
`tryRunPendingFastPhase`, `endFastSession`, `flushPendingTasks`, the drain loop
of `wait`, `resetForCall`, and the destructor. The client makes calls in the
order the generated code does: begin, submissions and waits, end. It never
leaves staged tasks behind, and submits no dependency-aware task on this path.
`FastPhaseProperties` holds what the module promises, the inductive invariant
`IInv` and the liveness properties.

### WorkStealing

Participant 0 is Main. Each atomic access and each critical section is a step;
the sleeper's section is cut between its loads, since `ws_outstanding_` and
`ws_push_sequence_` change without `ws_idle_mutex_`. A failing `try_lock` needs
somebody in a critical section on that deque: the model records who it was and
lets nobody else in before. `ws_epoch_` and `ws_push_sequence_` only grow and
are only compared with a remembered value, so each is the set of the
participants whose remembered value is current. The decrement of a predecessor
counter and the push that follows the last one are one step: only the
participant that reached zero looks at that counter again. `TimeOut` stands for
the end of the two milliseconds and for spurious wakeups, and may happen at any
time. The client submits the constant `Program` in order and may wait after any
prefix of it.

A batch and the successors of a node are sets: in which order the tasks of a
batch run, and in which order a participant pushes what it released, is left
open, so the model has every order, that of the code among them. Which
participant's deque gets a released task, and the order of the deques
themselves, are kept, since the thief's end and the owner's end differ.

Without workers the code runs a submission inline; that, range tasks, shutdown,
and calls with different numbers of participants are left out here.

### SizingPolicy, OperatorCalls, BlockCholesky, PassLowering

`SizingPolicy` has one operator for each function of the runtime that decides
whether a matrix runs in parallel (`ShouldAsync`), with how many participants
(`ResolveThreadCount`, `TotalThreads`, `PoolThreads`), and in what pieces
(`ChunkLength`, `Chunks`, `RangeGroupWidth`). They are functions of `n`, `b` and
a record `env` of what the environment and the hardware say.

`OperatorCalls` names the calls of `block_cholesky.cpp`: an operator and the
offsets of its tiles in the matrix. `BlockCholesky` makes a specification of
it. The content of a tile is the number of calls that wrote it; running the
loop nest in order determines what every call finds in its operands
(`SerialOperands`), and the specification lets a call happen only when it finds
exactly that. It leaves open everything the data flow leaves open, and nothing
else. That an operator reads the tiles it is given and writes the last of them
is external: it is what the call sites in `src/` and the dependency lists of the
Pass take for granted.

| code of `dag_pass.cpp` | operator of `PassLowering` |
| --- | --- |
| `transformAsyncFunction`, choice of the shape | `Shape`, `Panel` |
| `buildBlockCoordinate`, block keys | `BlockRow`, `BlockCol`, `BlockKey` |
| submissions with dependencies | `DagSubmit`, `DependencyArgs`, `UpdatesOf`, `TaskPanel`, `SyncPanel` |
| range body of `trsm` | `TrsmRange` |
| range body of a column of `madd` | `MaddRange` |
| range body of a group of tiles | `Group`, `GroupCalls`, `MaddTileRange` |
| waits of the phases | `PhasedPanel`, `AfterPanels` |
| all of it, in order | `Lowering` |

`PassLowering` gives the instructions of the submitting thread for one panel:
inline calls, submissions with the calls of the task body and its keys, waits.
The bodies recompute their pointers from the logical index as the emitted code
does. Recognising the function and its induction variables in LLVM IR is an
input (the switches of a matrix say what was recovered), and scheduling
priorities are left out: they choose among tasks that may all start.

`LoweringProperties` says of a sequence of instructions, without running it, that
it is a parallel form of the loop nest (`Sound`). It names the calls of the
factorisation by coordinates of tiles (`Place`, `CallAt`): a panel, and the row
and the column of the tile it writes. The program makes each of them once
(`Makes`); a call whose result another one uses stands before it, and is a call
of the submitting thread or covered by a wait or by a key whose last writer it is
(`SourcesPrecede`); a key stands for one tile (`KeysAreSound`); and every task is
awaited before the triangle is cleared (`EndsInOrder`).

### CompiledCholesky

The composition. A task is the place of its submission in `Code`, so that two
matrices may use the same numbers. `Dispatch` is the decision at the entry and the sizing in
`compiler2026_runtime_begin`, where the pool may grow; the submitting thread
then executes `Code`, and the participants start any task that `TaskGraph` lets
start, in any order. A running task makes its calls one after the other; calls
of different tasks interleave. The submitting thread counts as a participant
throughout, although it helps only while it waits: that allows one task more
at a time than the code, and so every schedule of the code. A range with no index
submits nothing, and its context, which the code builds all the same, is left
out. The waits in the exit blocks of the outlined loops are modelled once
(`AfterPanels`): a second wait right behind a wait returns at once.

The schedulers' modules rely on what the client does, and `KeepsProtocol`
discharges it for the generated code: a call does not mix submissions with and
without keys, so that none with keys arrives while a lock-free session is open,
and when the program has ended nothing is submitted that has not finished, so
that the destructor finds no staged task.

## 4. The runs

Deadlock is checked in the runs of `DagScheduler`, where the client can always
make another call. It is not checked in `FastPhase` (a destroyed runtime stops,
and the runs with a violation hang), in `WorkStealing` (the client stops after
its last call) or in `CompiledCholesky` (the program returns).

| run | instance | states | shows |
| --- | --- | --- | --- |
| `dag_order` | 4 tasks, 2 workers, 2 keys, stages of 2, no window | 360,774 | order, exact counters, predicted indices, no unresolved graph, refinement of `TaskGraph` |
| `dag_batches` | 5 tasks, 1 worker, batches of 2, two priorities | 207,778 | the inductive invariant when queues are deep; at most once |
| `dag_errors` | 3 tasks, all may throw, 2 workers | 568,778 | the first exception of a drain stays recorded until it is rethrown; a wait that returns has drained |
| `dag_liveness` | 3 tasks, 2 workers, every stage and batch 1, window 1 | 124,377 | no stranded work; every call returns; every ready task is taken |
| `fast_resize` | pool of 2, 0 to 2 active, both modes, late start, 3 tasks, 3 calls | 1,007,199 | the inductive invariant; buffer, session and configuration are never used under somebody's feet; no active worker stays parked; waits are barriers |
| `fast_progress` | pool of 2, both active, both modes, late start, two throwing tasks, 3 tasks, 2 calls, fair threads | 107,260 | at most once; the first exception of a drain is kept; refinement of `TaskGraph`; sessions, phases whose workers are in the session, and queue waits make progress |
| `work_stealing` | 4 tasks (fork and join), 2 workers, batches of 2, a throwing task | 984,560 | termination by one counter, at most once, exact counters, no deque overlooked, sleepers, stable graph, refinement of `TaskGraph` |
| `compiled_cholesky` | 13 matrices of 2 to 6 blocks: every shape, fall-back and group width, two of them not parallel, one rejected | 64,581 | the inductive invariant; each call finds the serial operands; no needless order; workers for every asynchronous call; the submissions keep the runtime's protocol; the compiled program implements `block_cholesky`; the calls outside the lock-free lane end |

Four runs look for one violation each and find it; see "Findings".

Why the bounds are enough for the interesting cases:

- Two workers and Main are three participants: enough for a completion, a
  publish and a third party that sleeps, and for two thieves and an owner at
  one deque. More workers add symmetric copies; the theorems cover them.
- Stages of 2 with 4 tasks give full stages, half-full stages flushed by a
  wait, and consumers staged with their producers or after them. Stages of 1
  make the staging operations publish at once.
- `chooseBatchCount` gives more than one task only when the queue is deeper
  than twice the participants. Two participants and five tasks reach that.
- The two priorities of `PairRequests` use the normal queue and an urgent one;
  the levels between are treated alike.
- Three calls let the number of workers fall and rise again; three tasks over
  stages of two leave one phase with a worker that has nothing to do.
- The matrices of `SmallInputs` have real sizes, since the policy runs nothing in
  parallel below `n = 192`; the number of blocks is what the properties depend
  on. Two blocks have a panel with one tile behind it; four blocks have a `madd`
  that depends on two `trsm` of its panel and an earlier `madd`; five and six give
  groups that are cut off at the edge. `GroupsMakeEachCallOnce`, an assumption
  that TLC evaluates, tries the group arithmetic for 2 to 7 blocks and every
  width up to 8.
- `Diamond` has a task with two successors (one release pushes two), and a task
  with two predecessors (two participants race for the last decrement).

Each property of a passing run has a mutation of the code model that breaks it
(`PROJECT.json`, "mutants").

### Fairness

`DagScheduler`: weak fairness of Main inside a call and of each worker that is
not asleep. Nothing makes the client call, nor time pass: spurious wakeups are
allowed but not counted upon, which matters because both `wait` and the worker
loop would hide a lost notification behind one.

`FastPhase`: weak fairness of Main inside a call and of each worker's steps,
among them the first step of a thread. Besides, spurious wakeups of workers are
assumed to stop at some time: a worker that is woken for ever takes `mutex_`
for ever, and weak fairness does not give Main the mutex. A real system has
neither.

`WorkStealing`: only safety is checked. `SleepersAreWoken` states what liveness
would rest on: whoever sleeps, somebody is awake to finish or to notify. It
does not count upon the time-out. Neither does `QueuesAreWatched`, which says why
nobody misses a task: whoever is in the drain and may still look at the deque,
because its round is not over or because it must look again.

`CompiledCholesky`: weak fairness of the submitting thread, and of the
participants as a whole while that thread waits and the call does not use the
lock-free lane (`HelpedStep`). The contract of `TaskGraph` alone promises no
progress. On the ready queue the waiting thread takes tasks itself, until nothing
is queued, and sleeps only while a worker runs a batch; so tasks are taken and
finished even if no worker wakes. That such waits return is what `CallsReturn`
shows of the dependency graph in `DagScheduler`, and `QueueWaitReturns` of the
phases of large tiles in `FastPhase`, where the number of workers changes too. For
the phases of small tiles (`UsesLockFreeLane`) nothing is assumed and nothing
claimed: by findings 1 to 3 a worker may never acknowledge a phase, or be promoted
at a bad moment, and Main then spins. With work stealing only safety is shown.

## 5. Findings

Each is a violation that TLC finds, together with the line of the repository
that says otherwise.

1. `fast_lost_wakeup`: line 1084 publishes `fast_phase_epoch_` and notifies
   `work_cv_` without `mutex_`. A worker that has found its predicate false and
   not yet blocked misses both and sleeps while Main spins on its
   acknowledgement. The comment at 1174-1175 says that no publisher can change
   the epoch until the lock is released; this publisher does not take it.
2. `fast_promoted_twice`: `fast_session_active_` is set (1075) before the epoch
   is increased. A worker that sat out earlier epochs and was promoted by a
   larger call holds an old epoch, enters in the gap, runs its slots under the
   old epoch, and again under the new one.
3. `fast_late_start`: a thread reads the epoch when it first runs (1137). If
   that is after the first publish it takes the epoch for one it has served.
   The comment at 2444-2445 says that lazy construction is only slower, never
   wrong.
4. `queue_surplus_worker`: `resetForCall` (280) notifies `park_cv_` only. A
   worker asleep on `work_cv_` that a smaller call makes surplus stays there
   and can consume a `notify_one`; `docs/design.md:232-233` explains why that
   must not happen.

The passing runs of `FastPhase` hold in spite of them because they state what the
code does keep. `fast_resize` checks safety with every race included, and that a
missed epoch makes Main spin rather than return early. `fast_progress` has the
races of findings 1 and 3 too, but `SessionPhaseCompletes` speaks of workers that are
already in the session, and the other two liveness properties of waits that need no
acknowledgement. It keeps the number of workers constant, which excludes finding 2; in
the instance of `fast_promoted_twice`, where a call promotes a worker, `AtMostOnce`
fails and `RefinesContract` with it.

Finding 4 also bounds what two properties of `DagScheduler` mean. `NoStrandedWork`
and `ReadyTaskIsTaken` are about a pool whose workers all take part in the call.
With a surplus worker asleep on `work_cv_` a notification may be lost on it, and a
ready task then waits for Main's next wait; the calls return all the same, since
Main takes tasks itself.

## 6. What is proved

### DagScheduler

These theorems hold for every set of tasks and keys, any positive number of
workers, and every staging, batch and window size. The assumptions are those of
`DagScheduler`: tasks and workers are finite sets, at least one worker, at most
three dependencies in a request, positive sizes.

| theorem | says |
| --- | --- |
| `Invariance` | `IInv` holds always |
| `TypeCorrect` | no counter underflows, no key waiter registers twice |
| `ErrorKept` | if a task has thrown since the last rethrow an exception is recorded, the first of the drain |
| `NoWorkIsStranded` | with a task ready, some worker is awake or a notification is on its way |
| `CountersExact` | counters count what they stand for |
| `ProducerCorrect` | a key leads to the task that last wrote it |
| `NoTaskRunsTwice` | a task is taken at most once |
| `OrderRespected` | a taken task comes after everything it has to |
| `NoUnresolvedGraph` | the "unresolved dependencies" exceptions are never thrown |
| `WaitLeavesNothing` | a wait that returns has drained, and rethrows exactly when a task has thrown since the last rethrow |
| `ImplementsContract` | `Spec => Contract!Spec`: the scheduler implements `TaskGraph` |

**The inductive invariant.** None of the properties is inductive. `IInv`
(`DagSchedulerProperties`) has five parts: types; `ControlInv`, which says
which of Main's variables mean something where; `GraphInv`; `NoStrandedWork`;
`ErrorInv`. `GraphInv` is the heart. It describes a node index, published or
only predicted, as a name for one submitted task (`NodesAreTasks`), what queue
entries are (`EntriesAreTasks`, `BatchesAreDisjoint`), that every task is
somewhere (`NothingIsLost`), that edges point forward, and that a node is
queued exactly when no incomplete node holds it back (`ReleasedAreQueued`).
`OrderIsWired` and `OrderIsStaged` connect the client's order with edges and
with staged indices; `CountersAreExact` and `ProducerIsLastWriter` are needed
to keep the others and are the properties themselves. `dag_batches` checks `IInv` on an
instance.

**The argument.** `DagGraphProofs` has one lemma for each critical section
(publish of staged nodes, publish of plain tasks, the two submissions, take,
complete, clear): the section preserves `GraphInv`. The lemmas about completion
and publication first describe the new nodes (`NodesAfterCompletion`,
`NodesAfterPublish`) and then go through the conjuncts. `DagSchedulerProofs`
has the lemmas for the other four parts, assembles `Invariance`, and draws the
consequences. `NoDagDeadlock` needs one more idea: with
incomplete nodes, the least one has no incomplete predecessor since edges point
forward, so it is queued, so the queue is not empty. The refinement maps
`started` to the tasks that were taken and `goal` to the wait Main is in; a
take is `Start`, a completion `Finish`, a wait's return `Return`, and every
other step but the client's is a stutter.

### WorkStealing

For every program of submissions, any number of workers, any batch size and any
set of tasks that may throw.

| theorem | says |
| --- | --- |
| `Invariance` | `IInv` holds always |
| `TypeCorrect` | no atomic counter underflows |
| `ErrorKept` | the first exception of a drain stays recorded until the wait rethrows it |
| `TasksRunOnce` | owners and thieves never take a task twice |
| `CountersExact` | the predecessor counters and `ws_outstanding_` agree with the graph; the deques hold exactly the released nodes that nobody took |
| `ZeroIsDone` | `ws_outstanding_` is zero only when every task was run |
| `QueuesWatched` | a deque with a task is not overlooked by everybody |
| `GraphStable` | the graph is written only while every worker is parked |
| `SleepersWoken` | with somebody asleep in a drain, somebody is awake in it |
| `ImplementsContract` | `Spec => Contract!Spec` |

The invariant of `WorkStealingProperties` has these parts. `GraphInv`: nodes
are the submitted tasks, edges point forward, and the counter of a node is the
number of its unreleased predecessors. `BatchInv` and `BetweenDrains`: where a
released task is (one deque, one batch, or run), and that nothing is anywhere
between drains. `DrainInv`: `ws_outstanding_` is what is not run plus what is run
and not yet subtracted. `WakeInv`: a participant that looked at a deque before a
push has a remembered sequence number that is no longer current, so it will not
sleep on what it saw. The step of a thief needs arithmetic: a thief that begins
with offset one has every other deque ahead of it (`RoundRobin`), so giving up
after the last offset has looked at all of them. For `SleepersWoken`, outstanding
tasks mean a least incomplete node; all its predecessors are run, so a deque or
a batch holds it, and `WakeInv` gives somebody awake. The refinement maps a pop
or steal to `Start`, the subtraction of a batch to `Finish`, and the end of the
drain to `Return`.

### FastPhase

For every pool, every sequence of calls with any number of active workers
and either mode, any stage size and any batch size greater than one, and whether
threads start late or not.

| theorem | says |
| --- | --- |
| `Invariance` | `IInv` holds always |
| `TypeCorrect` | no slot, epoch or counter leaves its range |
| `BufferStable` | the buffer is neither refilled nor moved under a worker in a phase |
| `SessionOver` | after `endFastSession` nobody is in the lock-free lane |
| `DrainedBeforeReconfigure` | the configuration changes over an empty queue and no batch |
| `ActiveUnparked` | once a call is set up, no worker that it counts on is parked |
| `Barrier` | when a wait returns, every submitted task has run |
| `ErrorKept` | the first exception of a drain stays recorded until it is rethrown, if every call has an active worker |
| `RunsOnce` | no task runs twice, whichever lane takes it, if every call uses the whole pool |
| `ImplementsContract` | `Spec => Contract!Spec`, if every call uses the whole pool |

The races under "Findings" are all in these behaviours; the theorems say what
survives them. The invariant rests on one fact about the handshake
(`LaneInv`): an epoch a worker acknowledged is one it has seen, and outside a
phase each worker of the session has acknowledged the current epoch. So a worker
that runs slots has seen an epoch that it did not acknowledge, which puts Main
between the activation and the last acknowledgement. That is `BufferIsStable`,
and with `endFastSession`'s loop over the flags it is `SessionIsOver`. For the
barrier, `ShareInv` says that a participant has run its slots below its cursor.
Slots of one participant are congruent modulo the number of participants, two
of them less than a round apart are equal (`SameSlot`), and every slot belongs
to Main or to a worker of the session (`PhaseCovers`); the rest of the barrier is
counting: a task is staged, queued, in one batch, or has run (`TasksInv`,
`BatchesInv`). `EpochInv` bounds the epochs, since each publishes a task.
`ErrorKept` needs its assumption: without an active worker `wait` returns before
it looks at the record and the next call clears it (a hazard in
`PROJECT.json`).

`ActiveUnparked`: before the first call a worker may park although it is active,
because it read `active_workers_` before the constructor stored it. The first
`resetForCall` frees it, provided that it gets to its notification: nothing was
submitted, so its wait has nothing to rethrow (`FirstCallInv`). Later a worker
parks only when it is surplus, under the mutex under which the number changes, and
each change is followed by a notification. A worker left there would not stop a
wait on the queue, which Main drains alone, but would stop every lock-free phase
for good.

`RunsOnce` needs its assumption too: finding 2 is a task that runs twice. Its
invariant is `OnceInv`. With a constant pool (`PoolInv`) every worker has
acknowledged the last epoch whenever Main is outside a phase, so nobody can
enter a session with an old one. `RunsInv`, `StagedOnce` and `AheadInv` then say
that whatever is still to be taken has not run: queued tasks and batches, an
unpublished buffer, and of a published one the slots from each participant's
cursor on. A step of one participant leaves the slots of the others alone, since
slots of different participants differ modulo the number of participants.

`ImplementsContract` maps a task to `started` when a participant's cursor or a
batch has reached it, or it has run, and to `finished` when it has run exactly
once; the slots that a participant has left are computed from its cursor (`Left`,
`InHand`). So a second run would take the task out of `finished`, which no step of
`TaskGraph` does: with finding 2 the refinement fails, and the assumption of
`RunsOnce` is needed. It also excludes calls without a worker, whose submissions
run their task at once, which `TaskGraph` does not describe. A phase that Main
counts short would return before its goal; that this cannot be is `Barrier`.

### The sizing of a call

`AsyncCallsHaveWorkers` (`CompiledCholeskyProofs`), for every matrix, environment
and pool: an asynchronous call has as many workers as the policy counts on, at
least one.

### The instructions of the Pass

For every matrix of whole tiles, every environment and every combination of the
build's switches.

| theorem | says |
| --- | --- |
| `RangesAreTiled` | the tasks of `submitRange` are not empty, stay in the range, and contain every index exactly once |
| `LoweringIsSound` | what the Pass emits is `Sound`, for the loop nest as it was and for each of the three shapes |

The proof of `LoweringIsSound` gives each call a rank: in panel `p`, the
`cholesky` call has `3p`, the `trsm` calls `3p + 1`, the `madd` calls `3p + 2`. The
calls a call depends on have a lower rank (`SourcesAre`), and each loop of the
nest goes through the ranks upwards (`PanelInOrder`). A piece of a program `Runs`
a set of places when it makes the calls of exactly these places once and in an
order that never goes down in rank; pieces are put together by `RunsConcat`
and `PanelsRun`. What is left is why a later call cannot overtake. In the phases, a
wait stands between submissions of different ranks (`Separated`,
`PhaseProgramSound`). In the graphs across panels, a task lists the keys of all its
operands, different tiles have different keys (`KeyFacts`), and between a call and
the one that wrote its operand before there is no other writer of that tile
(`NoWriterBetween`), so the key leads to that one (`KeyedProgramSound`). For the
ranges, `Indices` says that the logical indices stand for disjoint sets of places
whose bodies make their calls, and `RangeRuns` that then the range makes all
of them, however it is cut. The groups of tiles need two more facts: the packed
index of a group and the loop that unpacks it are inverse to each other
(`GroupIs`, `GroupOfIndex`; the loop is a recursive function, and the proof takes
the least index where it would differ from its closed form), and a group makes
the calls of its tiles, cut off at the edge of the matrix and at the diagonal
(`GroupCallsList`).

### CompiledCholesky

For every set of inputs that satisfies `InputAssumption` (positive sizes; the
environment in its range), and every behaviour that `TaskGraph` allows.

| theorem | says |
| --- | --- |
| `CodeIsSound` | the program of every accepted input is `Sound` |
| `CompiledInvariant` | `IInv` holds always |
| `CallsFindSerialOperands` | a call under way finds in its operands what the sequential program finds there |
| `GraphOrdersConflictsOnly` | two tasks are ordered only if one writes what the other uses |
| `CompiledKeepsProtocol` | keys on all submissions of a call or on none; no task is left when the triangle is cleared |
| `CompiledImplementsSequential` | `Spec => RefinesSequential`: every step is a step of `BlockCholesky` or a stutter |

The inductive invariant (`IInv` of `CompiledCholeskyProperties`) is not about a
particular shape: of the program it only uses `Sound`. `ControlInv` says that the
tasks submitted are those behind the instruction pointer; `ProgressInv` how far
each has come; `OrderInv` that `after` and `last_writer` are the order of the keys
in the program; `WaitInv` that what a passed wait covers is finished; and
`TileInv`, the heart, that a tile has been written once for each of the first so
many panels, and a call was made exactly if its panel is among them. For a call
under way, `Precedes` and these parts show that the calls it depends on were
made, and that the calls which depend on it were not; so `TileInv` gives the
number of writes of each operand, and that number is what the sequential program
finds, which the proof computes from the loop nest once (`SerialOperands`).

### Only model-checked

- Liveness: `CallsReturn`, `ReadyTaskIsTaken`, those of `FastPhase`, and
  `CallsEnd`, since fairness is out of the prover's reach.
- `GroupsMakeEachCallOnce` is still evaluated by TLC; `LoweringIsSound` covers it.

The library's induction theorems cannot be used with the installed provers. Where
a proof needs induction over a number it takes the least counterexample
(`LeastElement`, `NoFirst`), which is a statement about sets of numbers.

## 7. What is not modelled

- In the schedulers a chunk of a range is a dependency-free task; what its body
  does is in `CompiledCholesky`.
- Of the sizing policy, `reserveTaskCount` (only reserves memory), and the batch,
  stage and window sizes, which are constants of `DagScheduler` and `FastPhase`:
  their results hold for every value.
- The arena, profiling, thread pinning: no scheduling decision reads them. The
  arena is reset behind a wait that drained every task; the reset itself is
  memory layout.
- Of the pool's growth, the teardown of the smaller pool: it is the destructor,
  which `FastPhase` has.
- Of the Pass, the recognition of the function, of its induction variables and
  of the GEP chains in LLVM IR; what was recovered is an input. Scheduling
  priorities.
- Work stealing without workers, on ranges, and its shutdown.
- The SDK's kernels, the benchmark tools and the scripts: numerics and I/O.
- Memory ordering: the modules interleave atomic steps. Work stealing uses
  sequentially consistent atomics, so nothing is lost there. The lock-free path
  uses acquire and release. There a worker's store to `in_session` (1029) could
  become visible after its load of `fast_session_active_` (1030), but Main ends
  a session only after it acquired each worker's acknowledgement, a release
  store that follows the store to `in_session`; so Main sees every worker of the
  session. Only a worker that never acknowledged an epoch of the session (the
  late and the promoted one of findings 2 and 3) is outside this argument.
- A client other than the generated code. The runtime does not check that a call
  keeps to one kind of submission while a session is open (1061), nor that
  nothing is staged when the destructor runs (257), and without a worker `wait`
  returns before it looks at the exception of an inline task (830). The
  properties `KeepsProtocol` and `AsyncHasWorkers` show that the generated code
  never gets there.
