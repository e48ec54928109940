----------------------------- MODULE FastPhase -----------------------------
(***************************************************************************)
(* The default path of AsyncRuntime: dependency-free phases.               *)
(*                                                                         *)
(* Main stages the tasks of a phase in pending_tasks_ and calls wait().    *)
(* For b < 128 the phase is run by a lock-free session: Main publishes an  *)
(* epoch, every active worker runs the tasks of its slots straight from    *)
(* the buffer and acknowledges the epoch, and the workers then stay in the *)
(* session until Main ends it.  For larger tiles the buffer is moved to    *)
(* the ready queue under mutex_ and the workers sleep on work_cv_ between  *)
(* tasks.  compiler2026_runtime_begin chooses, for each call, the path and *)
(* how many workers of the pool take part; the others park on park_cv_.    *)
(*                                                                         *)
(* Worker w has index w.  Every access to an atomic is a step of its own;  *)
(* a critical section of mutex_ is one step, except where a thread writes  *)
(* shared state in two steps of one section or holds the mutex between     *)
(* testing the work_cv_ predicate and blocking.                            *)
(***************************************************************************)
EXTENDS Naturals, FiniteSets, Sequences

CONSTANTS
    PoolSize,       \* workers_.size()
    ActiveCounts,   \* the active worker counts that calls ask for
    FastModes,      \* the values fastPhaseEnabledForTile takes
    StageSize,      \* submit_stage_size_
    TaskBatchSize,  \* task_batch_size_, more than one on this path
    Throwing,       \* the tasks whose body raises an exception
    LateStart,      \* a pool thread may run its first instruction late
    MaxTasks,       \* bound: submissions
    MaxCalls        \* bound: compiler2026_runtime_begin

ASSUME PoolAssumption ==
    /\ PoolSize \in Nat \ {0}
    /\ ActiveCounts \subseteq 0..PoolSize
    /\ FastModes \subseteq BOOLEAN
    /\ LateStart \in BOOLEAN
ASSUME BoundAssumption ==
    /\ MaxTasks \in Nat
    /\ MaxCalls \in Nat
    /\ StageSize \in Nat \ {0}
    /\ TaskBatchSize \in Nat \ {0, 1}
    /\ Throwing \subseteq 1..MaxTasks

VARIABLES
    \* Main.
    mpc,                 \* where Main is
    op,                  \* the call it is in
    config,              \* what resetForCall was asked for: [active, fast]
    owed,                \* notifications still to issue after a flush
    cursor,              \* next slot of Main's share, or next worker to look at
    pending_tasks,       \* the staging buffer, up to pending_count_
    main_batch,
    outcome,             \* how the last call ended
    \* Written by Main, read by the workers without a lock.
    fast_phase_epoch, fast_session_active, fast_task_count, fast_worker_count,
    \* Protected by mutex_.
    tasks, active_tasks, active_workers, fast_phase_enabled, stopping, worker_error,
    \* The workers.
    wpc, seen, slot, count, stride, in_session, done_epoch, wbatch,
    \* History and bounds.
    submitted, runs, unreported, calls

main_vars == <<mpc, op, config, owed, cursor, pending_tasks, main_batch, outcome>>
fast_vars == <<fast_phase_epoch, fast_session_active, fast_task_count, fast_worker_count>>
queue_vars == <<tasks, active_tasks>>
mode_vars == <<active_workers, fast_phase_enabled, stopping>>
lane_vars == <<seen, slot, count, stride, in_session, done_epoch>>
vars == <<main_vars, fast_vars, queue_vars, mode_vars, worker_error, wpc, lane_vars,
          wbatch, submitted, runs, unreported, calls>>

Worker == 0..(PoolSize - 1)
TaskId == 1..MaxTasks

\* Every phase publishes at least one task, so there are at most MaxTasks epochs.
Epoch == 0..MaxTasks

ActiveWorkerCount == active_workers

MainTypeOK ==
    /\ mpc \in {"client", "try", "count", "activate", "bump_start", "notify_fast", "recount",
                "bump", "phase", "join", "exchange", "quiesce", "leave", "left", "flush",
                "notify", "drain", "run", "asleep", "reconfigure", "notify_park", "reset",
                "stop", "notify_stop", "joining", "gone"}
    /\ op \in {"none", "begin", "submit", "wait", "end", "destroy"}
    /\ config \in [active : 0..PoolSize, fast : BOOLEAN]
    /\ owed \in 0..PoolSize
    /\ cursor \in 0..(MaxTasks + PoolSize + 1)
    /\ pending_tasks \in Seq(TaskId)
    /\ main_batch \subseteq TaskId
    /\ outcome \in {"none", "ok", "error"}

SharedTypeOK ==
    /\ fast_phase_epoch \in Epoch
    /\ fast_session_active \in BOOLEAN
    /\ fast_task_count \in 0..MaxTasks
    /\ fast_worker_count \in 0..PoolSize
    /\ tasks \subseteq TaskId
    /\ active_tasks \in 0..MaxTasks
    /\ active_workers \in 0..PoolSize
    /\ fast_phase_enabled \in BOOLEAN
    /\ stopping \in BOOLEAN
    /\ worker_error \in BOOLEAN

WorkerTypeOK ==
    /\ wpc \in [Worker -> {"start", "loop", "admit", "skip", "enter", "session", "epoch",
                           "begin", "phase", "leave", "gate", "parked", "spin", "relock",
                           "blocking", "asleep", "run", "exited"}]
    /\ seen \in [Worker -> Epoch]
    /\ slot \in [Worker -> 0..(MaxTasks + PoolSize + 1)]
    /\ count \in [Worker -> 0..MaxTasks]
    /\ stride \in [Worker -> 0..(PoolSize + 1)]
    /\ in_session \in [Worker -> BOOLEAN]
    /\ done_epoch \in [Worker -> Epoch]
    /\ wbatch \in [Worker -> SUBSET TaskId]

HistoryTypeOK ==
    /\ submitted \in 0..MaxTasks
    /\ runs \in [TaskId -> Nat]
    /\ unreported \in BOOLEAN
    /\ calls \in 0..MaxCalls

TypeOK == MainTypeOK /\ SharedTypeOK /\ WorkerTypeOK /\ HistoryTypeOK

Init ==
    /\ mpc = "client"
    /\ op = "none"
    /\ config = [active |-> PoolSize, fast |-> FALSE]
    /\ owed = 0
    /\ cursor = 0
    /\ pending_tasks = <<>>
    /\ main_batch = {}
    /\ outcome = "none"
    /\ fast_phase_epoch = 0
    /\ fast_session_active = FALSE
    /\ fast_task_count = 0
    /\ fast_worker_count = 0
    /\ tasks = {}
    /\ active_tasks = 0
    /\ active_workers = PoolSize
    /\ fast_phase_enabled = FALSE
    /\ stopping = FALSE
    /\ worker_error = FALSE
    /\ wpc = [w \in Worker |-> IF LateStart THEN "start" ELSE "loop"]
    /\ seen = [w \in Worker |-> 0]
    /\ slot = [w \in Worker |-> 0]
    /\ count = [w \in Worker |-> 0]
    /\ stride = [w \in Worker |-> 0]
    /\ in_session = [w \in Worker |-> FALSE]
    /\ done_epoch = [w \in Worker |-> 0]
    /\ wbatch = [w \in Worker |-> {}]
    /\ submitted = 0
    /\ runs = [t \in TaskId |-> 0]
    /\ unreported = FALSE
    /\ calls = 0

\* A worker that tested its predicate keeps the mutex until it blocks, and
\* Main keeps it while it prepares a session.
MutexFree == mpc # "activate" /\ \A w \in Worker : wpc[w] # "blocking"

Goto(w, label) == wpc' = [wpc EXCEPT ![w] = label]

\* runBatch: every task of the set runs, an exception is recorded.
RunAll(set) ==
    /\ runs' = [t \in TaskId |-> IF t \in set THEN runs[t] + 1 ELSE runs[t]]
    /\ worker_error' = (worker_error \/ set \cap Throwing # {})
    /\ unreported' = (unreported \/ set \cap Throwing # {})

\* chooseBatchCount
BatchCount ==
    LET participants == ActiveWorkerCount + 1
        available == Cardinality(tasks)
        fair == available \div participants
    IN  IF available <= participants * 2 THEN 1
        ELSE IF fair < TaskBatchSize THEN fair ELSE TaskBatchSize

\* The queue is first in, first out, and tasks are numbered as submitted.
Oldest == {t \in tasks : Cardinality({u \in tasks : u < t}) < BatchCount}

TakeReadyTasksLocked ==
    /\ tasks' = tasks \ Oldest
    /\ active_tasks' = active_tasks + Cardinality(Oldest)

-----------------------------------------------------------------------------
(* The client. *)

\* The generated code waits after its last submission, and a wait empties
\* the buffer even when it rethrows, so no call starts or ends with staged
\* tasks.
Begin(active, fast) ==
    /\ mpc = "client"
    /\ pending_tasks = <<>>
    /\ calls < MaxCalls
    /\ calls' = calls + 1
    /\ op' = "begin"
    /\ config' = [active |-> active, fast |-> fast]
    /\ mpc' = "try"
    /\ UNCHANGED <<owed, cursor, pending_tasks, main_batch, outcome, fast_vars, queue_vars,
                   mode_vars, worker_error, wpc, lane_vars, wbatch, submitted, runs,
                   unreported>>

\* submit and submitRange: with no active worker the task runs inline;
\* otherwise it is staged, and without a fast phase a full stage is flushed.
Submit ==
    /\ mpc = "client"
    /\ calls > 0
    /\ submitted < MaxTasks
    /\ submitted' = submitted + 1
    /\ op' = "submit"
    /\ IF ActiveWorkerCount = 0
       THEN RunAll({submitted'}) /\ UNCHANGED <<mpc, pending_tasks>>
       ELSE /\ pending_tasks' = Append(pending_tasks, submitted')
            /\ mpc' = IF ~fast_phase_enabled /\ Len(pending_tasks') >= StageSize
                      THEN "flush" ELSE "client"
            /\ UNCHANGED <<runs, worker_error, unreported>>
    /\ UNCHANGED <<config, owed, cursor, main_batch, outcome, fast_vars, queue_vars,
                   mode_vars, wpc, lane_vars, wbatch, calls>>

\* wait; finishCall and the destructor end the session before they wait.
Request(o) ==
    /\ mpc = "client"
    /\ calls > 0
    /\ o # "wait" => pending_tasks = <<>>
    /\ op' = o
    /\ mpc' = IF o = "wait" THEN "try" ELSE "leave"
    /\ UNCHANGED <<config, owed, cursor, pending_tasks, main_batch, outcome, fast_vars,
                   queue_vars, mode_vars, worker_error, wpc, lane_vars, wbatch, submitted,
                   runs, unreported, calls>>

\* Where Main goes once its wait is over.
AfterWait == CASE op = "begin" -> "reconfigure"
               [] op = "end" -> "reset"
               [] op = "destroy" -> "stop"
               [] OTHER -> "client"

\* The operators whose names begin with Bug are not part of the specification:
\* each is a plausible slip in the definition that follows it, and shows that
\* the properties would notice.

\* The exception is cleared without being rethrown.
BugReturnFromWaitSwallows ==
    /\ mpc' = AfterWait
    /\ outcome' = "ok"
    /\ worker_error' = FALSE
    /\ UNCHANGED unreported

\* The end of a wait: rethrow the recorded exception to the client.
ReturnFromWait ==
    /\ mpc' = IF worker_error THEN "client" ELSE AfterWait
    /\ outcome' = IF worker_error THEN "error" ELSE "ok"
    /\ worker_error' = FALSE
    /\ unreported' = (unreported /\ ~worker_error)

-----------------------------------------------------------------------------
(* Main publishes and runs a fast phase (tryRunPendingFastPhase). *)

TryFastPhase ==
    /\ mpc = "try"
    /\ mpc' = IF ~fast_phase_enabled \/ pending_tasks = <<>> \/ ActiveWorkerCount = 0
              THEN "exchange"
              ELSE IF fast_session_active THEN "recount" ELSE "count"
    /\ UNCHANGED <<op, config, owed, cursor, pending_tasks, main_batch, outcome, fast_vars,
                   queue_vars, mode_vars, worker_error, wpc, lane_vars, wbatch, submitted,
                   runs, unreported, calls>>

\* A new session, only over a drained queue; the mutex is held until Activate.
CountPhase ==
    /\ mpc = "count"
    /\ MutexFree
    /\ IF tasks # {} \/ active_tasks # 0
       THEN mpc' = "exchange" /\ UNCHANGED fast_vars
       ELSE /\ mpc' = "activate"
            /\ fast_task_count' = Len(pending_tasks)
            /\ fast_worker_count' = ActiveWorkerCount
            /\ UNCHANGED <<fast_phase_epoch, fast_session_active>>
    /\ UNCHANGED <<op, config, owed, cursor, pending_tasks, main_batch, outcome, queue_vars,
                   mode_vars, worker_error, wpc, lane_vars, wbatch, submitted, runs,
                   unreported, calls>>

Activate ==
    /\ mpc = "activate"
    /\ fast_session_active' = TRUE
    /\ mpc' = "bump_start"
    /\ UNCHANGED <<op, config, owed, cursor, pending_tasks, main_batch, outcome,
                   fast_phase_epoch, fast_task_count, fast_worker_count, queue_vars,
                   mode_vars, worker_error, wpc, lane_vars, wbatch, submitted, runs,
                   unreported, calls>>

\* The last slot of the buffer is not counted.
BugRecountOneShort ==
    /\ mpc = "recount"
    /\ fast_task_count' = Len(pending_tasks) - 1
    /\ mpc' = "bump"
    /\ UNCHANGED <<op, config, owed, cursor, pending_tasks, main_batch, outcome,
                   fast_phase_epoch, fast_session_active, fast_worker_count, queue_vars,
                   mode_vars, worker_error, wpc, lane_vars, wbatch, submitted, runs,
                   unreported, calls>>

Recount ==
    /\ mpc = "recount"
    /\ fast_task_count' = Len(pending_tasks)
    /\ mpc' = "bump"
    /\ UNCHANGED <<op, config, owed, cursor, pending_tasks, main_batch, outcome,
                   fast_phase_epoch, fast_session_active, fast_worker_count, queue_vars,
                   mode_vars, worker_error, wpc, lane_vars, wbatch, submitted, runs,
                   unreported, calls>>

\* The epoch is published without the mutex.
Bump ==
    /\ mpc \in {"bump_start", "bump"}
    /\ fast_phase_epoch' = fast_phase_epoch + 1
    /\ mpc' = IF mpc = "bump_start" THEN "notify_fast" ELSE "phase"
    /\ cursor' = fast_worker_count
    /\ UNCHANGED <<op, config, owed, pending_tasks, main_batch, outcome,
                   fast_session_active, fast_task_count, fast_worker_count, queue_vars,
                   mode_vars, worker_error, wpc, lane_vars, wbatch, submitted, runs,
                   unreported, calls>>

\* notify_all, without the mutex either.
NotifyFast ==
    /\ mpc = "notify_fast"
    /\ wpc' = [w \in Worker |-> IF wpc[w] = "asleep" THEN "relock" ELSE wpc[w]]
    /\ mpc' = "phase"
    /\ UNCHANGED <<op, config, owed, cursor, pending_tasks, main_batch, outcome, fast_vars,
                   queue_vars, mode_vars, worker_error, lane_vars, wbatch, submitted, runs,
                   unreported, calls>>

\* Main's share of the phase.
MainPhase ==
    /\ mpc = "phase"
    /\ IF cursor < fast_task_count
       THEN /\ RunAll({pending_tasks[cursor + 1]})
            /\ cursor' = cursor + fast_worker_count + 1
            /\ UNCHANGED mpc
       ELSE /\ mpc' = "join"
            /\ cursor' = 0
            /\ UNCHANGED <<runs, worker_error, unreported>>
    /\ UNCHANGED <<op, config, owed, pending_tasks, main_batch, outcome, fast_vars,
                   queue_vars, mode_vars, wpc, lane_vars, wbatch, submitted, calls>>

\* Only one worker's acknowledgement is awaited.
BugJoinFirstOnly ==
    /\ mpc = "join"
    /\ fast_worker_count > 0 => done_epoch[0] = fast_phase_epoch
    /\ pending_tasks' = <<>>
    /\ ReturnFromWait
    /\ UNCHANGED <<op, config, owed, cursor, main_batch, fast_vars, queue_vars, mode_vars,
                   wpc, lane_vars, wbatch, submitted, runs, calls>>

\* Spin until every worker of the session acknowledged the epoch.
Join ==
    /\ mpc = "join"
    /\ \A w \in Worker : w < fast_worker_count => done_epoch[w] = fast_phase_epoch
    /\ pending_tasks' = <<>>
    /\ ReturnFromWait
    /\ UNCHANGED <<op, config, owed, cursor, main_batch, fast_vars, queue_vars, mode_vars,
                   wpc, lane_vars, wbatch, submitted, runs, calls>>

\* The session is withdrawn without waiting for the workers to leave.
BugEndWithoutQuiescence(from, quiesce, next) ==
    /\ mpc = from
    /\ fast_session_active' = FALSE
    /\ mpc' = next
    /\ cursor' = 0
    /\ UNCHANGED <<fast_phase_epoch, fast_task_count, fast_worker_count>>

\* endFastSession: withdraw the session, then wait for the workers to leave,
\* one after the other.
EndFastSession(from, quiesce, next) ==
    \/ /\ mpc = from
       /\ fast_session_active' = FALSE
       /\ mpc' = IF fast_session_active THEN quiesce ELSE next
       /\ cursor' = 0
       /\ UNCHANGED <<fast_phase_epoch, fast_task_count, fast_worker_count>>
    \/ /\ mpc = quiesce
       /\ IF cursor < fast_worker_count
          THEN ~in_session[cursor] /\ cursor' = cursor + 1 /\ UNCHANGED mpc
          ELSE mpc' = next /\ cursor' = 0
       /\ UNCHANGED fast_vars

LeaveSession ==
    /\ \/ EndFastSession("exchange", "quiesce", "flush")
       \/ EndFastSession("leave", "left", "try")
    /\ UNCHANGED <<op, config, owed, pending_tasks, main_batch, outcome, queue_vars,
                   mode_vars, worker_error, wpc, lane_vars, wbatch, submitted, runs,
                   unreported, calls>>

-----------------------------------------------------------------------------
(* Main's share of the ready queue: flushPendingTasks and the drain loop. *)

FlushPendingTasks ==
    /\ mpc = "flush"
    /\ MutexFree
    /\ pending_tasks # <<>>
    /\ tasks' = tasks \cup {pending_tasks[i] : i \in DOMAIN pending_tasks}
    /\ owed' = IF Len(pending_tasks) >= ActiveWorkerCount
               THEN ActiveWorkerCount ELSE Len(pending_tasks)
    /\ pending_tasks' = <<>>
    /\ mpc' = "notify"
    /\ UNCHANGED <<op, config, cursor, main_batch, outcome, fast_vars, active_tasks,
                   mode_vars, worker_error, wpc, lane_vars, wbatch, submitted, runs,
                   unreported, calls>>

\* With no active worker every task already ran inline, and wait returns
\* without looking at the recorded exception.
AfterFlush ==
    /\ mpc = "flush"
    /\ pending_tasks = <<>>
    /\ IF op # "submit" /\ ActiveWorkerCount > 0
       THEN mpc' = "drain" /\ UNCHANGED outcome
       ELSE mpc' = AfterWait /\ outcome' = IF op = "submit" THEN outcome ELSE "ok"
    /\ UNCHANGED <<op, config, owed, cursor, pending_tasks, main_batch, fast_vars,
                   queue_vars, mode_vars, worker_error, wpc, lane_vars, wbatch, submitted,
                   runs, unreported, calls>>

Asleep == {w \in Worker : wpc[w] = "asleep"}

Wake(set) == wpc' = [w \in Worker |-> IF w \in set THEN "relock" ELSE wpc[w]]

\* notifyWorkers: notify_all, or one notify_one after the other.
NotifyWorkers ==
    /\ mpc = "notify"
    /\ IF owed = ActiveWorkerCount
       THEN Wake(Asleep) /\ owed' = 0
       ELSE /\ IF Asleep = {} THEN Wake({}) ELSE \E w \in Asleep : Wake({w})
            /\ owed' = owed - 1
    /\ mpc' = IF owed' > 0 THEN "notify" ELSE "flush"
    /\ UNCHANGED <<op, config, cursor, pending_tasks, main_batch, outcome, fast_vars,
                   queue_vars, mode_vars, worker_error, lane_vars, wbatch, submitted, runs,
                   unreported, calls>>

MainTake ==
    /\ mpc = "drain"
    /\ MutexFree
    /\ tasks # {}
    /\ TakeReadyTasksLocked
    /\ main_batch' = Oldest
    /\ mpc' = "run"
    /\ UNCHANGED <<op, config, owed, cursor, pending_tasks, outcome, fast_vars, mode_vars,
                   worker_error, wpc, lane_vars, wbatch, submitted, runs, unreported, calls>>

\* The limit of a batch is subtracted, not its size.
BugMainRunSubtractsLimit ==
    /\ mpc = "run"
    /\ MutexFree
    /\ RunAll(main_batch)
    /\ active_tasks' = active_tasks - TaskBatchSize
    /\ main_batch' = {}
    /\ mpc' = "drain"
    /\ UNCHANGED <<op, config, owed, cursor, pending_tasks, outcome, fast_vars, tasks,
                   mode_vars, wpc, lane_vars, wbatch, submitted, calls>>

MainRun ==
    /\ mpc = "run"
    /\ MutexFree
    /\ RunAll(main_batch)
    /\ active_tasks' = active_tasks - Cardinality(main_batch)
    /\ main_batch' = {}
    /\ mpc' = "drain"
    /\ UNCHANGED <<op, config, owed, cursor, pending_tasks, outcome, fast_vars, tasks,
                   mode_vars, wpc, lane_vars, wbatch, submitted, calls>>

\* An empty queue is taken for a drained one.
BugMainDrainedIgnoresRunning ==
    /\ mpc = "drain"
    /\ MutexFree
    /\ tasks = {}
    /\ ReturnFromWait
    /\ UNCHANGED <<op, config, owed, cursor, pending_tasks, main_batch, fast_vars,
                   queue_vars, mode_vars, wpc, lane_vars, wbatch, submitted, runs, calls>>

\* Block on done_cv_, or return when nothing is queued and nobody runs.
MainDrained ==
    /\ mpc = "drain"
    /\ MutexFree
    /\ tasks = {}
    /\ IF active_tasks = 0
       THEN ReturnFromWait
       ELSE mpc' = "asleep" /\ UNCHANGED <<outcome, worker_error, unreported>>
    /\ UNCHANGED <<op, config, owed, cursor, pending_tasks, main_batch, fast_vars,
                   queue_vars, mode_vars, wpc, lane_vars, wbatch, submitted, runs, calls>>

MainSpuriousWake ==
    /\ mpc = "asleep"
    /\ mpc' = "drain"
    /\ UNCHANGED <<op, config, owed, cursor, pending_tasks, main_batch, outcome, fast_vars,
                   queue_vars, mode_vars, worker_error, wpc, lane_vars, wbatch, submitted,
                   runs, unreported, calls>>

-----------------------------------------------------------------------------
(* What resetForCall, finishCall and the destructor do after their wait. *)

Reconfigure ==
    /\ mpc = "reconfigure"
    /\ MutexFree
    /\ active_workers' = config.active
    /\ fast_phase_enabled' = config.fast
    /\ mpc' = "notify_park"
    /\ UNCHANGED <<op, config, owed, cursor, pending_tasks, main_batch, outcome, fast_vars,
                   queue_vars, stopping, worker_error, wpc, lane_vars, wbatch, submitted,
                   runs, unreported, calls>>

\* One of the parked workers is notified.
BugNotifyParkOne ==
    /\ mpc = "notify_park"
    /\ \/ \A w \in Worker : wpc[w] # "parked" /\ UNCHANGED wpc
       \/ \E w \in Worker : wpc[w] = "parked" /\ Goto(w, "gate")
    /\ mpc' = "reset"
    /\ UNCHANGED <<op, config, owed, cursor, pending_tasks, main_batch, outcome, fast_vars,
                   queue_vars, mode_vars, worker_error, lane_vars, wbatch, submitted, runs,
                   unreported, calls>>

\* park_cv_ is notified; work_cv_ is not.
NotifyPark ==
    /\ mpc = "notify_park"
    /\ wpc' = [w \in Worker |-> IF wpc[w] = "parked" THEN "gate" ELSE wpc[w]]
    /\ mpc' = "reset"
    /\ UNCHANGED <<op, config, owed, cursor, pending_tasks, main_batch, outcome, fast_vars,
                   queue_vars, mode_vars, worker_error, lane_vars, wbatch, submitted, runs,
                   unreported, calls>>

ResetQueue ==
    /\ mpc = "reset"
    /\ MutexFree
    /\ tasks' = {}
    /\ pending_tasks' = <<>>
    /\ worker_error' = FALSE
    /\ mpc' = "client"
    /\ UNCHANGED <<op, config, owed, cursor, main_batch, outcome, fast_vars, active_tasks,
                   mode_vars, wpc, lane_vars, wbatch, submitted, runs, unreported, calls>>

Stop ==
    /\ mpc = "stop"
    /\ MutexFree
    /\ stopping' = TRUE
    /\ mpc' = "notify_stop"
    /\ UNCHANGED <<op, config, owed, cursor, pending_tasks, main_batch, outcome, fast_vars,
                   queue_vars, active_workers, fast_phase_enabled, worker_error, wpc,
                   lane_vars, wbatch, submitted, runs, unreported, calls>>

NotifyStop ==
    /\ mpc = "notify_stop"
    /\ wpc' = [w \in Worker |-> CASE wpc[w] = "asleep" -> "relock"
                                  [] wpc[w] = "parked" -> "gate"
                                  [] OTHER -> wpc[w]]
    /\ mpc' = "joining"
    /\ UNCHANGED <<op, config, owed, cursor, pending_tasks, main_batch, outcome, fast_vars,
                   queue_vars, mode_vars, worker_error, lane_vars, wbatch, submitted, runs,
                   unreported, calls>>

JoinThreads ==
    /\ mpc = "joining"
    /\ \A w \in Worker : wpc[w] = "exited"
    /\ mpc' = "gone"
    /\ UNCHANGED <<op, config, owed, cursor, pending_tasks, main_batch, outcome, fast_vars,
                   queue_vars, mode_vars, worker_error, wpc, lane_vars, wbatch, submitted,
                   runs, unreported, calls>>

-----------------------------------------------------------------------------
(* A worker in the fast lane: runFastSessionIfPublished and its loop. *)

main_and_shared == <<main_vars, fast_vars, queue_vars, mode_vars, submitted, calls>>

\* The thread's first instruction: it remembers the epoch it starts in.
WorkerStart(w) ==
    /\ wpc[w] = "start"
    /\ seen' = [seen EXCEPT ![w] = fast_phase_epoch]
    /\ Goto(w, "loop")
    /\ UNCHANGED <<main_and_shared, worker_error, slot, count, stride, in_session,
                   done_epoch, wbatch, runs, unreported>>

\* Top of the worker loop: is there an epoch this worker has not seen?
LookForEpoch(w) ==
    /\ wpc[w] = "loop"
    /\ Goto(w, IF fast_phase_epoch = seen[w] THEN "gate" ELSE "admit")
    /\ UNCHANGED <<main_and_shared, worker_error, lane_vars, wbatch, runs, unreported>>

Admit(w) ==
    /\ wpc[w] = "admit"
    /\ Goto(w, IF w >= fast_worker_count THEN "skip" ELSE "enter")
    /\ UNCHANGED <<main_and_shared, worker_error, lane_vars, wbatch, runs, unreported>>

SkipEpoch(w) ==
    /\ wpc[w] = "skip"
    /\ seen' = [seen EXCEPT ![w] = fast_phase_epoch]
    /\ Goto(w, "loop")
    /\ UNCHANGED <<main_and_shared, worker_error, slot, count, stride, in_session,
                   done_epoch, wbatch, runs, unreported>>

EnterSession(w) ==
    /\ wpc[w] = "enter"
    /\ in_session' = [in_session EXCEPT ![w] = TRUE]
    /\ Goto(w, "session")
    /\ UNCHANGED <<main_and_shared, worker_error, seen, slot, count, stride, done_epoch,
                   wbatch, runs, unreported>>

CheckSession(w) ==
    /\ wpc[w] = "session"
    /\ Goto(w, IF fast_session_active THEN "epoch" ELSE "leave")
    /\ UNCHANGED <<main_and_shared, worker_error, lane_vars, wbatch, runs, unreported>>

CheckEpoch(w) ==
    /\ wpc[w] = "epoch"
    /\ seen' = [seen EXCEPT ![w] = fast_phase_epoch]
    /\ Goto(w, IF fast_phase_epoch = seen[w] THEN "session" ELSE "begin")
    /\ UNCHANGED <<main_and_shared, worker_error, slot, count, stride, in_session,
                   done_epoch, wbatch, runs, unreported>>

\* The stride forgets Main's own share.
BugBeginPhaseStride(w) ==
    /\ wpc[w] = "begin"
    /\ count' = [count EXCEPT ![w] = fast_task_count]
    /\ stride' = [stride EXCEPT ![w] = fast_worker_count]
    /\ slot' = [slot EXCEPT ![w] = w]
    /\ Goto(w, "phase")
    /\ UNCHANGED <<main_and_shared, worker_error, seen, in_session, done_epoch, wbatch,
                   runs, unreported>>

\* runFastPhaseParticipant reads the size of the phase once.
BeginPhase(w) ==
    /\ wpc[w] = "begin"
    /\ count' = [count EXCEPT ![w] = fast_task_count]
    /\ stride' = [stride EXCEPT ![w] = fast_worker_count + 1]
    /\ slot' = [slot EXCEPT ![w] = w]
    /\ Goto(w, "phase")
    /\ UNCHANGED <<main_and_shared, worker_error, seen, in_session, done_epoch, wbatch,
                   runs, unreported>>

RunSlot(w) ==
    /\ wpc[w] = "phase"
    /\ slot[w] < count[w]
    /\ RunAll({pending_tasks[slot[w] + 1]})
    /\ slot' = [slot EXCEPT ![w] = @ + stride[w]]
    /\ UNCHANGED <<main_and_shared, wpc, seen, count, stride, in_session, done_epoch, wbatch>>

\* A worker that had no task in the phase does not acknowledge it.
BugAcknowledgeOnlyWork(w) ==
    /\ wpc[w] = "phase"
    /\ slot[w] >= count[w]
    /\ done_epoch' = IF slot[w] = w THEN done_epoch ELSE [done_epoch EXCEPT ![w] = seen[w]]
    /\ Goto(w, "session")
    /\ UNCHANGED <<main_and_shared, worker_error, seen, slot, count, stride, in_session,
                   wbatch, runs, unreported>>

Acknowledge(w) ==
    /\ wpc[w] = "phase"
    /\ slot[w] >= count[w]
    /\ done_epoch' = [done_epoch EXCEPT ![w] = seen[w]]
    /\ Goto(w, "session")
    /\ UNCHANGED <<main_and_shared, worker_error, seen, slot, count, stride, in_session,
                   wbatch, runs, unreported>>

\* The flag is left set on the way out.
BugExitKeepsFlag(w) ==
    /\ wpc[w] = "leave"
    /\ Goto(w, "loop")
    /\ UNCHANGED <<main_and_shared, worker_error, lane_vars, wbatch, runs, unreported>>

ExitSession(w) ==
    /\ wpc[w] = "leave"
    /\ in_session' = [in_session EXCEPT ![w] = FALSE]
    /\ Goto(w, "loop")
    /\ UNCHANGED <<main_and_shared, worker_error, seen, slot, count, stride, done_epoch,
                   wbatch, runs, unreported>>

FastLane(w) ==
    \/ LookForEpoch(w) \/ Admit(w) \/ SkipEpoch(w) \/ EnterSession(w)
    \/ CheckSession(w) \/ CheckEpoch(w) \/ BeginPhase(w) \/ RunSlot(w)
    \/ Acknowledge(w) \/ ExitSession(w)

-----------------------------------------------------------------------------
(* A worker in the ordinary loop. *)

WorkerTake(w) ==
    /\ TakeReadyTasksLocked
    /\ wbatch' = [wbatch EXCEPT ![w] = Oldest]
    /\ Goto(w, "run")

\* The park gate and the first look at the queue, under the mutex.  With a
\* fast phase configured the worker spins before it blocks.  The constructor
\* stores active_workers_ without the mutex after it started the threads, so
\* before the first call a worker may still read zero and park.
Gate(w) ==
    /\ wpc[w] = "gate"
    /\ MutexFree
    /\ \/ /\ ~stopping /\ w < ActiveWorkerCount /\ fast_phase_epoch = seen[w] /\ tasks # {}
          /\ WorkerTake(w)
       \/ /\ stopping \/ w >= ActiveWorkerCount \/ fast_phase_epoch # seen[w] \/ tasks = {}
          /\ Goto(w, IF stopping THEN "exited"
                     ELSE IF w >= ActiveWorkerCount THEN "parked"
                     ELSE IF fast_phase_epoch # seen[w] THEN "loop"
                     ELSE IF fast_phase_enabled THEN "spin" ELSE "blocking")
          /\ UNCHANGED <<queue_vars, wbatch>>
       \/ /\ calls = 0
          /\ Goto(w, "parked")
          /\ UNCHANGED <<queue_vars, wbatch>>
    /\ UNCHANGED <<main_vars, fast_vars, mode_vars, worker_error, lane_vars, submitted,
                   runs, unreported, calls>>

\* The spin ends when work_epoch_ moves or the iterations run out.
Spin(w) ==
    /\ wpc[w] = "spin"
    /\ Goto(w, IF fast_phase_epoch = seen[w] THEN "relock" ELSE "loop")
    /\ UNCHANGED <<main_and_shared, worker_error, lane_vars, wbatch, runs, unreported>>

\* The predicate of work_cv_ and what follows it, under the mutex.
Relock(w) ==
    /\ wpc[w] = "relock"
    /\ MutexFree
    /\ IF w < ActiveWorkerCount /\ fast_phase_epoch = seen[w] /\ tasks # {}
       THEN WorkerTake(w)
       ELSE /\ Goto(w, IF stopping /\ tasks = {} THEN "exited"
                       ELSE IF w >= ActiveWorkerCount \/ fast_phase_epoch # seen[w] THEN "loop"
                       ELSE "blocking")
            /\ UNCHANGED <<queue_vars, wbatch>>
    /\ UNCHANGED <<main_vars, fast_vars, mode_vars, worker_error, lane_vars, submitted,
                   runs, unreported, calls>>

\* The predicate was false: the worker blocks, and only now gives up the mutex.
Block(w) ==
    /\ wpc[w] = "blocking"
    /\ Goto(w, "asleep")
    /\ UNCHANGED <<main_and_shared, worker_error, lane_vars, wbatch, runs, unreported>>

SpuriousWake(w) ==
    /\ wpc[w] = "asleep"
    /\ Goto(w, "relock")
    /\ UNCHANGED <<main_and_shared, worker_error, lane_vars, wbatch, runs, unreported>>

\* done_cv_ is notified by the test made before active_tasks_ is decremented.
BugWorkerRunStaleTest(w) ==
    /\ wpc[w] = "run"
    /\ MutexFree
    /\ RunAll(wbatch[w])
    /\ active_tasks' = active_tasks - Cardinality(wbatch[w])
    /\ wbatch' = [wbatch EXCEPT ![w] = {}]
    /\ mpc' = IF mpc = "asleep" /\ tasks = {} /\ active_tasks = 0 THEN "drain" ELSE mpc
    /\ Goto(w, "loop")
    /\ UNCHANGED <<op, config, owed, cursor, pending_tasks, main_batch, outcome, fast_vars,
                   tasks, mode_vars, lane_vars, submitted, calls>>

\* The batch runs and is completed; done_cv_ is notified when nothing is left.
WorkerRun(w) ==
    /\ wpc[w] = "run"
    /\ MutexFree
    /\ RunAll(wbatch[w])
    /\ active_tasks' = active_tasks - Cardinality(wbatch[w])
    /\ wbatch' = [wbatch EXCEPT ![w] = {}]
    /\ mpc' = IF mpc = "asleep" /\ tasks = {} /\ active_tasks' = 0 THEN "drain" ELSE mpc
    /\ Goto(w, "loop")
    /\ UNCHANGED <<op, config, owed, cursor, pending_tasks, main_batch, outcome, fast_vars,
                   tasks, mode_vars, lane_vars, submitted, calls>>

QueueLane(w) == Gate(w) \/ Spin(w) \/ Relock(w) \/ Block(w) \/ WorkerRun(w)

-----------------------------------------------------------------------------
Client ==
    \/ \E active \in ActiveCounts, fast \in FastModes : Begin(active, fast)
    \/ Submit
    \/ \E o \in {"wait", "end", "destroy"} : Request(o)

MainStep ==
    \/ TryFastPhase \/ CountPhase \/ Activate \/ Recount \/ Bump \/ NotifyFast
    \/ MainPhase \/ Join \/ LeaveSession
    \/ FlushPendingTasks \/ AfterFlush \/ NotifyWorkers
    \/ MainTake \/ MainRun \/ MainDrained
    \/ Reconfigure \/ NotifyPark \/ ResetQueue
    \/ Stop \/ NotifyStop \/ JoinThreads

WorkerStep(w) == FastLane(w) \/ QueueLane(w)

Next ==
    \/ Client
    \/ MainStep
    \/ MainSpuriousWake
    \/ \E w \in Worker : WorkerStart(w)
    \/ \E w \in Worker : WorkerStep(w)
    \/ \E w \in Worker : SpuriousWake(w)

Spec == Init /\ [][Next]_vars

\* Main inside a call and every worker that is not blocked keep running; a
\* spinning thread keeps looking.  Spurious wakeups do not go on for ever,
\* so that the mutex they take is free again.
Fairness ==
    /\ WF_vars(MainStep)
    /\ \A w \in Worker : WF_vars(WorkerStart(w)) /\ WF_vars(WorkerStep(w))
    /\ <>[][\A w \in Worker : ~SpuriousWake(w)]_vars

FairSpec == Spec /\ Fairness
=============================================================================
