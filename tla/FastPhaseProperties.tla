------------------------- MODULE FastPhaseProperties -------------------------
(***************************************************************************)
(* What FastPhase promises: its safety properties, the inductive invariant *)
(* behind them, and its liveness properties.                               *)
(***************************************************************************)
EXTENDS FastPhase

-----------------------------------------------------------------------------
(* Safety. *)

\* No submitted task runs twice, whichever lane it takes (sched_bench:
\* "every task runs exactly once").
AtMostOnce == \A t \in TaskId : runs[t] <= 1

\* A wait returns to the client only when every submitted task has run: the
\* phase barrier the Pass relies on instead of dependencies.
WaitIsBarrier ==
    [][mpc # "client" /\ mpc' = "client" /\ op # "submit" =>
        \A t \in 1..submitted : runs'[t] >= 1]_vars

\* While a worker is inside a phase Main is inside the same phase: the
\* buffer the worker reads without a lock is neither refilled nor moved
\* (comment of fast_task_count_).
BufferIsStable ==
    \A w \in Worker : wpc[w] \in {"begin", "phase"} =>
        mpc \in {"bump_start", "bump", "notify_fast", "phase", "join"}

\* Once endFastSession has passed, no worker runs in the lock-free lane while
\* Main uses the ready queue or changes the configuration.
SessionIsOver ==
    mpc \in {"flush", "drain", "run", "asleep", "reconfigure", "notify_park", "stop"} =>
        \A w \in Worker : wpc[w] \notin {"begin", "phase"} /\ ~fast_session_active

\* When the epoch is published and work_cv_ was notified, no worker of the
\* session sleeps through it (comment of the spin path: "closes the
\* lost-wakeup window").
NoLostWakeup ==
    mpc \in {"phase", "join"} =>
        \A w \in Worker :
            w < fast_worker_count /\ wpc[w] = "asleep" => seen[w] = fast_phase_epoch

\* A worker of the session that has seen the epoch runs it or has run it;
\* otherwise Main waits for an acknowledgement that never comes.
SeenMeansServed ==
    mpc \in {"phase", "join"} =>
        \A w \in Worker :
            w < fast_worker_count /\ seen[w] = fast_phase_epoch =>
                done_epoch[w] = fast_phase_epoch \/ wpc[w] \in {"begin", "phase"}

\* Only active workers wait on work_cv_ when Main notifies it for tasks
\* (design.md: a parked worker there could consume the notify_one meant for
\* an active one).
OnlyActiveWorkersOnWorkCv ==
    mpc = "notify" => \A w \in Worker : wpc[w] = "asleep" => w < ActiveWorkerCount

\* Nobody runs and nothing is queued when the configuration changes.
DrainedWhenReconfigured ==
    mpc \in {"reconfigure", "notify_park", "reset", "stop"} =>
        /\ tasks = {} /\ active_tasks = 0 /\ pending_tasks = <<>>
        /\ \A w \in Worker : wbatch[w] = {}

\* The first call is not set up yet: a worker may have parked although it is active,
\* because it read active_workers_ before the constructor stored it.
FirstCallPending ==
    calls = 0 \/ (calls = 1 /\ op = "begin" /\ mpc \notin {"client", "reset"})

\* From the first call on, and between the calls, no active worker stays parked: the
\* notification of resetForCall frees those that the constructor's race left
\* there, and those that a larger call promotes.
ActiveAreUnparked ==
    ~FirstCallPending /\ mpc # "notify_park" =>
        \A w \in Worker : wpc[w] = "parked" => w >= ActiveWorkerCount

\* When a task has thrown and the client was not told yet, there is an exception
\* recorded for it: the first of the drain, the only one that the code keeps.
ErrorIsKept == unreported => worker_error

-----------------------------------------------------------------------------
(* The inductive invariant. *)

\* Main is inside a phase: between its count of the tasks and the last
\* acknowledgement.
Publishing == {"activate", "bump_start", "notify_fast", "phase", "join"}
InPhase == Publishing \cup {"count", "recount", "bump"}
\* A published epoch that was not acknowledged by everybody.
Published == {"notify_fast", "phase", "join"}
\* Main knows that nothing is queued and nobody runs.
Drained == {"reconfigure", "notify_park", "reset", "stop", "notify_stop", "joining", "gone"}

\* Where Main can be, and what holds there.
ControlInv ==
    /\ mpc \in InPhase => op = "wait" /\ pending_tasks # <<>> /\ fast_phase_enabled
    /\ mpc \in InPhase \ {"count", "activate"} => fast_session_active
    /\ fast_session_active =>
        /\ fast_phase_enabled
        /\ mpc \in (InPhase \ {"count", "activate"})
                        \cup {"client", "try", "exchange", "leave"}
    /\ mpc # "client" /\ op \notin {"wait", "submit"} => pending_tasks = <<>>
    /\ mpc \in {"try", "leave", "left"} => op # "submit"
    /\ mpc \in Drained \cup {"notify", "drain", "run", "asleep"} => pending_tasks = <<>>
    /\ mpc = "notify" => owed > 0 /\ owed <= active_workers

\* A worker between its first step into a session and its last.
InLane == {"session", "epoch", "begin", "phase", "leave"}

\* Worker w and the session.  An epoch it acknowledged is one it has seen;
\* outside a phase it has acknowledged the last epoch if it belongs to the
\* session, so it is not on its way in; and it is not in a session that is
\* over.
LaneInv(w) ==
    /\ in_session[w] <=> wpc[w] \in InLane
    /\ wpc[w] \in InLane \cup {"enter"} => w < fast_worker_count
    /\ done_epoch[w] <= seen[w] /\ seen[w] <= fast_phase_epoch
    /\ wpc[w] \in {"begin", "phase"} => done_epoch[w] < seen[w]
    /\ wpc[w] \in {"admit", "enter"} => seen[w] < fast_phase_epoch
    /\ mpc \notin Publishing /\ w < fast_worker_count => done_epoch[w] = fast_phase_epoch
    /\ ~fast_session_active /\ mpc \notin {"quiesce", "left", "activate"} =>
            wpc[w] \notin InLane \cup {"enter"}
    /\ mpc \in {"quiesce", "left"} /\ wpc[w] \in InLane => w >= cursor
    /\ mpc = "activate" => wpc[w] \notin {"epoch", "begin", "phase"}

SessionInv == \A w \in Worker : LaneInv(w)

\* Where a submitted task can be.
Staged == {pending_tasks[i] : i \in DOMAIN pending_tasks}
Running == main_batch \cup UNION {wbatch[w] : w \in Worker}

\* Tasks are staged, queued or in a batch, active_tasks counts those in a
\* batch, and a task that is nowhere has run.
TasksInv ==
    /\ Staged \cup tasks \cup Running \subseteq 1..submitted
    /\ Staged \cap tasks = {} /\ Staged \cap Running = {} /\ tasks \cap Running = {}
    /\ active_tasks = Cardinality(Running)
    /\ \A t \in 1..submitted : runs[t] = 0 => t \in Staged \cup tasks \cup Running

\* A task is in one batch, and only a thread that runs holds one.
BatchesInv ==
    /\ \A v, w \in Worker : v # w => wbatch[v] \cap wbatch[w] = {}
    /\ \A w \in Worker : wbatch[w] \cap main_batch = {}
    /\ \A w \in Worker : wbatch[w] # {} => wpc[w] = "run"
    /\ main_batch # {} => mpc = "run"

PlacesInv == TasksInv /\ BatchesInv

\* The queue is empty and nobody runs when Main relies on it.
DrainedInv ==
    /\ (mpc \in Drained \cup {"activate"} \/ fast_session_active) =>
            tasks = {} /\ active_tasks = 0
    /\ active_workers = 0 => tasks = {} /\ active_tasks = 0 /\ pending_tasks = <<>>

\* The slots of a participant p of the phase: Main's are those that begin at
\* the number of workers.
Participants == fast_worker_count + 1
Served(p, limit) ==
    \A i \in 0..(Len(pending_tasks) - 1) :
        i % Participants = p /\ i < limit => runs[pending_tasks[i + 1]] >= 1

\* Worker w reads the size of the phase that is published, has run its slots
\* below its cursor, and all of them when it has acknowledged the epoch.
ShareInv(w) ==
    /\ wpc[w] = "phase" =>
        /\ count[w] = fast_task_count
        /\ stride[w] = Participants
        /\ slot[w] % Participants = w
        /\ Served(w, slot[w])
    /\ mpc \in Published /\ w < fast_worker_count /\ done_epoch[w] = fast_phase_epoch =>
        Served(w, Len(pending_tasks))

PhaseInv ==
    /\ mpc \in InPhase \ {"count", "recount"} => fast_task_count = Len(pending_tasks)
    /\ \A w \in Worker : ShareInv(w)
    /\ mpc = "notify_fast" => cursor = fast_worker_count
    /\ mpc = "phase" => /\ cursor % Participants = fast_worker_count
                        /\ Served(fast_worker_count, cursor)
    /\ mpc = "join" => Served(fast_worker_count, Len(pending_tasks))

\* Every epoch publishes a task.
EpochInv ==
    fast_phase_epoch + Len(pending_tasks) <= submitted + (IF mpc \in Published THEN 1 ELSE 0)

IInv ==
    /\ TypeOK /\ ControlInv /\ SessionInv /\ PlacesInv /\ DrainedInv /\ PhaseInv /\ EpochInv

\* Until the first call is set up there is nothing to run and nothing to rethrow, so
\* its begin reaches the notification.
FirstCallInv ==
    /\ calls = 0 => mpc = "client"
    /\ FirstCallPending => submitted = 0 /\ ~worker_error

\* With an active worker in every call, the recorded exception is not dropped by
\* resetQueue either.
ErrorInv ==
    /\ ErrorIsKept
    /\ active_workers > 0 /\ config.active > 0
    /\ mpc \in {"reconfigure", "notify_park", "reset"} => ~unreported

\* When every call uses the whole pool, no worker is promoted: outside a phase
\* every worker has acknowledged the last epoch.
PoolInv ==
    /\ active_workers = PoolSize /\ config.active = PoolSize
    /\ fast_worker_count \in {0, PoolSize}
    /\ (mpc \in Publishing \/ fast_session_active \/ fast_phase_epoch # 0) =>
            fast_worker_count = PoolSize
    /\ mpc \notin Published => \A w \in Worker : done_epoch[w] = fast_phase_epoch

\* The slots of participant p from the limit on, none of which has run.
Ahead(p, limit) ==
    \A i \in 0..(Len(pending_tasks) - 1) :
        i % Participants = p /\ i >= limit => runs[pending_tasks[i + 1]] = 0

\* Queued tasks and batches have not run, nor has what is not submitted.
RunsInv ==
    /\ AtMostOnce
    /\ \A t \in TaskId : t \in tasks \cup Running \/ t > submitted => runs[t] = 0

StagedOnce == \A i, j \in DOMAIN pending_tasks : pending_tasks[i] = pending_tasks[j] => i = j

\* A buffer that is not published has not run, and of a published one the slots
\* from the cursor of each participant on that has not acknowledged the epoch.
AheadInv ==
    /\ mpc \notin Published => \A t \in Staged : runs[t] = 0
    /\ mpc = "notify_fast" => Ahead(fast_worker_count, 0)
    /\ mpc = "phase" => Ahead(fast_worker_count, cursor)
    /\ \A w \in Worker :
        /\ mpc \in Published /\ done_epoch[w] # fast_phase_epoch =>
                Ahead(w, IF wpc[w] = "phase" THEN slot[w] ELSE 0)
        /\ wpc[w] \in {"begin", "phase"} => seen[w] = fast_phase_epoch

OnceInv == PoolInv /\ RunsInv /\ StagedOnce /\ AheadInv

-----------------------------------------------------------------------------
(* The contract: submissions without keys, and waits for everything. *)

\* The slots of participant p from the limit on.
Left(p, limit) ==
    {pending_tasks[i + 1] : i \in {i \in 0..(Len(pending_tasks) - 1) :
                                        i % Participants = p /\ i >= limit}}

\* A participant takes its whole share when it begins a phase, and finishes it
\* task by task.
InHand ==
    (IF mpc \in {"notify_fast", "phase"} THEN Left(fast_worker_count, cursor) ELSE {})
        \cup UNION {Left(w, slot[w]) : w \in {w \in Worker : wpc[w] = "phase"}}

\* A task that ran twice is not finished any more, which TaskGraph forbids.
Ran == {t \in TaskId : runs[t] = 1}
Taken == Ran \cup Running \cup InHand

\* A wait begins with the call and ends before what the call does behind it.
Waiting == op # "submit" /\ mpc \notin {"client"} \cup Drained

Contract == INSTANCE TaskGraph WITH
    Task <- TaskId, Key <- {}, NoKey <- 0, NoTask <- 0,
    submitted <- 1..submitted, started <- Taken, finished <- Ran,
    after <- [t \in TaskId |-> {}], last_writer <- [k \in {} |-> 0],
    goal <- [kind |-> IF Waiting THEN "all" ELSE "none", key |-> 0]

\* Whichever lane the tasks take, and whether or not a call changes it, the client
\* sees the runtime that TaskGraph describes: each task is taken and run once, and a
\* wait returns when everything has run.  For a pool that every call uses as a
\* whole: a promoted worker may run tasks again, and without a worker a submission
\* runs its task.
RefinesContract == Contract!Spec

-----------------------------------------------------------------------------
(* Liveness, for FairSpec. *)

\* Once the sessions are over, every call returns: a wait on the ready queue
\* drains it, and the destructor joins every thread.
QueueWaitReturns ==
    (mpc \in {"flush", "drain", "reconfigure", "stop"}) ~> (mpc \in {"client", "gone"})

\* A phase published to workers that are all inside the session completes.
SessionPhaseCompletes ==
    (mpc = "bump" /\ \A w \in Worker :
        w < fast_worker_count => wpc[w] \in {"session", "epoch"}) ~> mpc = "client"

\* The workers leave a withdrawn session.
SessionEnds == (mpc \in {"quiesce", "left"}) ~> (mpc \in {"flush", "try"})
=============================================================================
