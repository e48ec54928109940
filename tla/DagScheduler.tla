---------------------------- MODULE DagScheduler ----------------------------
(***************************************************************************)
(* The ready queue and the dependency graph of AsyncRuntime, as one call   *)
(* sees them after compiler2026_runtime_begin chose its participants.      *)
(*                                                                         *)
(* The submitting thread (Main) stages dependency-free tasks and           *)
(* dependency-aware tasks in private buffers, publishes them under mutex_, *)
(* and then notifies the workers after the lock is released.  Workers take *)
(* batches under mutex_, run them outside it, and complete them under it.  *)
(* A critical section of mutex_ is one action; what a thread does to       *)
(* state nobody else touches is merged into its next or previous action;   *)
(* each notification issued without the lock is an action of its own.      *)
(*                                                                         *)
(* A ready queue is the set of its entries: a participant takes any of     *)
(* the entries of the level it serves, where the code takes the oldest.    *)
(***************************************************************************)
EXTENDS Naturals, FiniteSets, Sequences

CONSTANTS
    Task,           \* one identity per submit call
    Key, NoKey,     \* tiles; a negative output key
    NoTask,         \* no exception recorded, no writer
    Worker,         \* the active workers of this call
    Main,           \* the submitting thread
    MayThrow,       \* the tasks whose body can raise an exception
    Requests,       \* what the client asks of submitWithDeps: [deps, output, priority]
    StagingLimit,   \* dag_staging_limit_
    SubmitStageSize,\* submit_stage_size_
    TaskBatchSize,  \* task_batch_size_
    MaxLiveWindow   \* max_live_window_, 0 when there is no window

ASSUME TaskAssumption == IsFiniteSet(Task) /\ NoTask \notin Task
ASSUME KeyAssumption == NoKey \notin Key
\* Negative dependencies are left out of deps, as the code skips them, and
\* the priority is the one after the clamp to 0..3.
ASSUME RequestAssumption ==
    /\ Requests \subseteq [deps : SUBSET Key, output : Key \cup {NoKey}, priority : 0..3]
    /\ \A r \in Requests : IsFiniteSet(r.deps) /\ Cardinality(r.deps) <= 3
ASSUME WorkerAssumption == IsFiniteSet(Worker) /\ Worker # {} /\ Main \notin Worker
ASSUME SizeAssumption ==
    /\ MayThrow \subseteq Task
    /\ StagingLimit \in Nat \ {0}
    /\ SubmitStageSize \in Nat \ {0}
    /\ TaskBatchSize \in Nat \ {0}
    /\ MaxLiveWindow \in Nat

VARIABLES
    \* The submitting thread.
    pc,                  \* where Main is
    call,                \* the runtime call it is in: [op, key]
    outcome,             \* how the last wait ended
    owed,                \* notifications the current publish still has to issue
    urgent,              \* the extra notify_one for a priority task is still due
    pending_tasks,       \* staged dependency-free tasks
    dag_staging,         \* staged dependency-aware tasks
    dag_next_node_index, \* node index the first staged task will get, minus one
    latest_producer,     \* latest_producer[k]: node that last produced k, 0 if none
    \* Shared, protected by mutex_.
    dag_nodes,
    ready,
    pending_dag_tasks,
    active_tasks,
    key_waiters,
    worker_error,
    sleeping,            \* workers blocked on work_cv_
    batch,               \* batch[p]: entries participant p has taken
    \* History.
    submitted, finished, runs, after, last_writer, thrown, reported

main_vars == <<pc, call, outcome, owed, urgent, pending_tasks, dag_staging,
               dag_next_node_index, latest_producer>>
shared_vars == <<dag_nodes, ready, pending_dag_tasks, active_tasks, key_waiters,
                 worker_error, sleeping, batch>>
history_vars == <<submitted, finished, runs, after, last_writer, thrown, reported>>
vars == <<main_vars, shared_vars, history_vars>>

Participant == Worker \cup {Main}
Participants == Cardinality(Worker) + 1
Entry == [task : Task, dag_node : Nat, priority : 0..3]
DagNode == [task : Task, pending : Nat, completed : BOOLEAN, priority : 0..3,
            successors : SUBSET Nat]
StagedSubmit == [task : Task, dep_nodes : SUBSET Nat, priority : 0..3]
Call == [op : {"none", "submit", "submit_deps", "wait", "wait_key"},
         key : Key \cup {NoKey}]

InFlight == UNION {batch[p] : p \in Participant}
TasksOf(entries) == {e.task : e \in entries}

TypeOK ==
    /\ pc \in {"client", "flush", "notify", "window", "wait", "register", "key",
               "run", "asleep"}
    /\ call \in Call
    /\ outcome \in {"none", "ok", "error", "dag_deadlock"}
    /\ owed \in 0..Cardinality(Worker)
    /\ urgent \in BOOLEAN
    /\ pending_tasks \subseteq Task
    /\ dag_staging \in Seq(StagedSubmit)
    /\ dag_next_node_index \in Nat
    /\ latest_producer \in [Key -> Nat]
    /\ dag_nodes \in Seq(DagNode)
    /\ ready \subseteq Entry
    /\ pending_dag_tasks \in Nat
    /\ active_tasks \in Nat
    /\ key_waiters \in 0..1
    /\ worker_error \in Task \cup {NoTask}
    /\ sleeping \subseteq Worker
    /\ batch \in [Participant -> SUBSET Entry]
    /\ submitted \subseteq Task
    /\ finished \subseteq Task
    /\ runs \in [Task -> Nat]
    /\ after \in [Task -> SUBSET Task]
    /\ last_writer \in [Key -> Task \cup {NoTask}]
    /\ thrown \subseteq Task
    /\ reported \subseteq Task

Init ==
    /\ pc = "client"
    /\ call = [op |-> "none", key |-> NoKey]
    /\ outcome = "none"
    /\ owed = 0
    /\ urgent = FALSE
    /\ pending_tasks = {}
    /\ dag_staging = <<>>
    /\ dag_next_node_index = 0
    /\ latest_producer = [k \in Key |-> 0]
    /\ dag_nodes = <<>>
    /\ ready = {}
    /\ pending_dag_tasks = 0
    /\ active_tasks = 0
    /\ key_waiters = 0
    /\ worker_error = NoTask
    /\ sleeping = {}
    /\ batch = [p \in Participant |-> {}]
    /\ submitted = {}
    /\ finished = {}
    /\ runs = [t \in Task |-> 0]
    /\ after = [t \in Task |-> {}]
    /\ last_writer = [k \in Key |-> NoTask]
    /\ thrown = {}
    /\ reported = {}

-----------------------------------------------------------------------------
(* Waking workers.  The operators whose names begin with Bug are not part  *)
(* of the specification: each is a plausible slip in the definition that   *)
(* follows it, and shows that the properties would notice.                 *)

\* One notification fewer, "the completing thread takes one itself".
BugWokenOneLess(n) ==
    {s \in SUBSET sleeping :
        Cardinality(s) = IF Cardinality(sleeping) < n - 1 THEN Cardinality(sleeping)
                         ELSE IF n = 0 THEN 0 ELSE n - 1}

\* What a call of notifyWorkers(n) may wake when it runs as one step.
Woken(n) ==
    IF n >= Cardinality(Worker)
    THEN {sleeping}
    ELSE {s \in SUBSET sleeping :
            Cardinality(s) = IF Cardinality(sleeping) < n THEN Cardinality(sleeping)
                                                          ELSE n}

\* notifyWorkers(n) still to be carried out: n notify_one, or one notify_all,
\* which is written as the number of workers.
Owed(n) == IF n >= Cardinality(Worker) THEN Cardinality(Worker) ELSE n

\* Where Main goes when it has nothing left to publish.
LoopOf(op) ==
    CASE op = "wait" -> "wait"
      [] op = "wait_key" -> "register"
      [] op = "submit_deps" /\ MaxLiveWindow # 0 -> "window"
      [] OTHER -> "client"

\* A wait that forgets the staged dependency-free tasks.
BugStillToPublishDag(op, staging, pending) == staging # <<>>

\* flushPendingTasks publishes the dependency-aware tasks and then the
\* others; submitWithDeps only calls flushDagStaging.
StillToPublish(op, staging, pending) ==
    staging # <<>> \/ (op # "submit_deps" /\ pending # {})

AfterPublish(op, staging, pending) ==
    IF StillToPublish(op, staging, pending) THEN "flush" ELSE LoopOf(op)

-----------------------------------------------------------------------------
(* The client submits. *)

Record(t, deps, output) ==
    /\ submitted' = submitted \cup {t}
    /\ after' = [after EXCEPT ![t] = {last_writer[k] : k \in deps} \ {NoTask}]
    /\ last_writer' = [k \in Key |-> IF k = output THEN t ELSE last_writer[k]]
    /\ UNCHANGED <<finished, runs, thrown, reported>>

\* submit with a batch size above one: stage, publish when the stage is full.
Submit(t) ==
    /\ pc = "client"
    /\ t \notin submitted
    /\ TaskBatchSize > 1
    /\ pending_tasks' = pending_tasks \cup {t}
    /\ call' = [op |-> "submit", key |-> NoKey]
    /\ pc' = IF Cardinality(pending_tasks') >= SubmitStageSize THEN "flush" ELSE "client"
    /\ Record(t, {}, NoKey)
    /\ UNCHANGED <<outcome, owed, urgent, dag_staging, dag_next_node_index,
                   latest_producer, shared_vars>>

\* submit with a batch size of one: straight into the queue, and a
\* notification only while the ready tasks do not outnumber the workers.
EnqueueTask(t) ==
    /\ pc = "client"
    /\ t \notin submitted
    /\ TaskBatchSize <= 1
    /\ ready' = ready \cup {[task |-> t, dag_node |-> 0, priority |-> 0]}
    /\ call' = [op |-> "submit", key |-> NoKey]
    /\ owed' = IF Cardinality(ready') <= Cardinality(Worker) THEN Owed(1) ELSE 0
    /\ pc' = IF owed' > 0 THEN "notify" ELSE "client"
    /\ Record(t, {}, NoKey)
    /\ UNCHANGED <<outcome, urgent, pending_tasks, dag_staging, dag_next_node_index,
                   latest_producer, dag_nodes, pending_dag_tasks, active_tasks,
                   key_waiters, worker_error, sleeping, batch>>

\* submitWithDeps: resolve the keys to producer nodes outside the mutex, with
\* the node index this task will have once published.
SubmitWithDeps(t, r) ==
    /\ pc = "client"
    /\ t \notin submitted
    /\ LET node_index == dag_next_node_index + Len(dag_staging) + 1
       IN  latest_producer' =
             [k \in Key |-> IF k = r.output THEN node_index ELSE latest_producer[k]]
    /\ dag_staging' =
         Append(dag_staging,
                [task |-> t,
                 dep_nodes |-> {latest_producer[k] : k \in r.deps} \ {0},
                 priority |-> r.priority])
    /\ call' = [op |-> "submit_deps", key |-> NoKey]
    /\ pc' = IF Len(dag_staging') >= StagingLimit \/ MaxLiveWindow # 0
             THEN "flush" ELSE "client"
    /\ Record(t, r.deps, r.output)
    /\ UNCHANGED <<outcome, owed, urgent, pending_tasks, dag_next_node_index, shared_vars>>

-----------------------------------------------------------------------------
(* Publishing. *)

\* A producer of the same publish is looked up before its node exists.
BugLiveProducersPublished(s) ==
    {p \in dag_staging[s].dep_nodes : p \in 1..Len(dag_nodes) /\ ~dag_nodes[p].completed}

\* Waiting also for the producers that are already completed.
BugLiveProducersAll(s) == dag_staging[s].dep_nodes

\* The producers of the s-th staged task that it still has to wait for.
LiveProducers(s) ==
    {p \in dag_staging[s].dep_nodes :
        p \in 1..Len(dag_nodes) => ~dag_nodes[p].completed}

\* Append the staged nodes, then wire the edges.
PublishedNodes ==
    LET base == Len(dag_nodes)
        NewSuccessors(i) == {s + base : s \in {r \in DOMAIN dag_staging : i \in LiveProducers(r)}}
    IN  [i \in 1..(base + Len(dag_staging)) |->
            IF i <= base
            THEN [dag_nodes[i] EXCEPT !.successors = @ \cup NewSuccessors(i)]
            ELSE [task |-> dag_staging[i - base].task,
                  pending |-> Cardinality(LiveProducers(i - base)),
                  completed |-> FALSE,
                  priority |-> dag_staging[i - base].priority,
                  successors |-> NewSuccessors(i)]]

EntryOf(nodes, i) ==
    [task |-> nodes[i].task, dag_node |-> i, priority |-> nodes[i].priority]

\* flushDagStaging: one critical section appends the nodes, wires the edges
\* and enqueues the nodes that wait for nothing.
FlushDagStaging ==
    /\ pc = "flush"
    /\ dag_staging # <<>>
    /\ dag_nodes' = PublishedNodes
    /\ LET base == Len(dag_nodes)
           initial == {i \in (base + 1)..Len(dag_nodes') : dag_nodes'[i].pending = 0}
       IN  /\ ready' = ready \cup {EntryOf(dag_nodes', i) : i \in initial}
           /\ owed' = Owed(Cardinality(initial))
           /\ urgent' = (\E i \in initial : dag_nodes'[i].priority > 0)
    /\ pending_dag_tasks' = pending_dag_tasks + Len(dag_staging)
    /\ dag_next_node_index' = dag_next_node_index + Len(dag_staging)
    /\ dag_staging' = <<>>
    /\ pc' = IF owed' > 0 THEN "notify" ELSE AfterPublish(call.op, <<>>, pending_tasks)
    /\ UNCHANGED <<call, outcome, pending_tasks, latest_producer, active_tasks,
                   key_waiters, worker_error, sleeping, batch, history_vars>>

FlushPendingTasks ==
    /\ pc = "flush"
    /\ dag_staging = <<>>
    /\ ready' = ready \cup {[task |-> t, dag_node |-> 0, priority |-> 0] : t \in pending_tasks}
    /\ pending_tasks' = {}
    /\ owed' = Owed(Cardinality(pending_tasks))
    /\ pc' = "notify"
    /\ UNCHANGED <<call, outcome, urgent, dag_staging, dag_next_node_index, latest_producer,
                   dag_nodes, pending_dag_tasks, active_tasks, key_waiters, worker_error,
                   sleeping, batch, history_vars>>

NotifyOne == \E woken \in Woken(1) : sleeping' = sleeping \ woken

\* The notifications of a publish, outside the mutex: the notify_one for a
\* priority task first, then notify_all or one notify_one after the other.
NotifyWorkers ==
    /\ pc = "notify"
    /\ urgent' = FALSE
    /\ \/ urgent /\ NotifyOne /\ UNCHANGED owed
       \/ ~urgent /\ owed = Cardinality(Worker) /\ sleeping' = {} /\ owed' = 0
       \/ ~urgent /\ owed < Cardinality(Worker) /\ NotifyOne /\ owed' = owed - 1
    /\ pc' = IF owed' > 0 THEN "notify"
             ELSE AfterPublish(call.op, dag_staging, pending_tasks)
    /\ UNCHANGED <<call, outcome, pending_tasks, dag_staging, dag_next_node_index,
                   latest_producer, dag_nodes, ready, pending_dag_tasks, active_tasks,
                   key_waiters, worker_error, batch, history_vars>>

-----------------------------------------------------------------------------
(* Taking, running and completing a batch. *)

Level(p) == {e \in ready : e.priority = p}
TopLevel == CHOOSE p \in 0..3 : Level(p) # {} /\ \A q \in (p + 1)..3 : Level(q) = {}

\* One task unless the queue is deep; then a fair share, capped.
ChooseBatchCount(available) ==
    IF TaskBatchSize <= 1 \/ available <= 2 * Participants
    THEN 1
    ELSE IF available \div Participants < TaskBatchSize
         THEN available \div Participants
         ELSE TaskBatchSize

\* Ranks 2 and 3 go one at a time.
BatchCount ==
    IF TopLevel >= 2 THEN 1 ELSE ChooseBatchCount(Cardinality(Level(TopLevel)))

\* The head of the queue advances by one whatever the batch took.
BugTakeAdvancesByOne(p) ==
    \E taken \in SUBSET Level(TopLevel) :
        /\ Cardinality(taken) = BatchCount
        /\ \E e \in taken : ready' = ready \ {e}
        /\ batch' = [batch EXCEPT ![p] = taken]
        /\ active_tasks' = active_tasks + Cardinality(taken)
        /\ runs' = [t \in Task |-> IF t \in TasksOf(taken) THEN runs[t] + 1 ELSE runs[t]]

TakeReadyTasksLocked(p) ==
    \E taken \in SUBSET Level(TopLevel) :
        /\ Cardinality(taken) = BatchCount
        /\ ready' = ready \ taken
        /\ batch' = [batch EXCEPT ![p] = taken]
        /\ active_tasks' = active_tasks + Cardinality(taken)
        /\ runs' = [t \in Task |-> IF t \in TasksOf(taken) THEN runs[t] + 1 ELSE runs[t]]

\* A task body raises an exception; only the first one is kept.
Throw(p) ==
    \E e \in batch[p] :
        /\ e.task \in MayThrow \ thrown
        /\ thrown' = thrown \cup {e.task}
        /\ worker_error' = IF worker_error = NoTask THEN e.task ELSE worker_error
        /\ UNCHANGED <<main_vars, dag_nodes, ready, pending_dag_tasks, active_tasks,
                       key_waiters, sleeping, batch, submitted, finished, runs, after,
                       last_writer, reported>>

\* The nodes that completing a set of entries marks as completed.
NodesCompletedBy(entries) ==
    {i \in {e.dag_node : e \in entries} \ {0} : ~dag_nodes[i].completed}

NodesAfter(done) ==
    [i \in 1..Len(dag_nodes) |->
        [dag_nodes[i] EXCEPT
            !.completed = @ \/ i \in done,
            !.pending = @ - Cardinality({j \in done : i \in dag_nodes[j].successors})]]

\* The nodes whose last predecessor is in done.
ReleasedBy(done) ==
    {i \in UNION {dag_nodes[j].successors : j \in done} : NodesAfter(done)[i].pending = 0}

\* completeDagTasksLocked and the two notifications that follow it, all
\* under the mutex.
Complete(p) ==
    LET done == NodesCompletedBy(batch[p])
        released == ReleasedBy(done)
    IN  /\ batch[p] # {}
        /\ batch' = [batch EXCEPT ![p] = {}]
        /\ active_tasks' = active_tasks - Cardinality(batch[p])
        /\ dag_nodes' = NodesAfter(done)
        /\ pending_dag_tasks' = pending_dag_tasks - Cardinality(done)
        /\ ready' = ready \cup {EntryOf(dag_nodes, i) : i \in released}
        /\ \E woken \in Woken(Cardinality(released)) : sleeping' = sleeping \ woken
        /\ finished' = finished \cup TasksOf(batch[p])

\* The test made before active_tasks_ is decremented.
BugNotifyDoneStale == key_waiters > 0 \/ (ready' = {} /\ active_tasks = 0)

\* done_cv_ is notified when a key waiter exists or nothing is left to do.
NotifyDone == key_waiters > 0 \/ (ready' = {} /\ active_tasks' = 0)

-----------------------------------------------------------------------------
(* The worker loop. *)

WorkerTake(w) ==
    /\ w \notin sleeping
    /\ batch[w] = {}
    /\ ready # {}
    /\ TakeReadyTasksLocked(w)
    /\ UNCHANGED <<main_vars, dag_nodes, pending_dag_tasks, key_waiters, worker_error,
                   sleeping, submitted, finished, after, last_writer, thrown, reported>>

WorkerSleep(w) ==
    /\ w \notin sleeping
    /\ batch[w] = {}
    /\ ready = {}
    /\ sleeping' = sleeping \cup {w}
    /\ UNCHANGED <<main_vars, dag_nodes, ready, pending_dag_tasks, active_tasks,
                   key_waiters, worker_error, batch, history_vars>>

\* A spurious wakeup of work_cv_; with an empty queue the worker blocks again.
WorkerSpuriousWake(w) ==
    /\ w \in sleeping
    /\ ready # {}
    /\ sleeping' = sleeping \ {w}
    /\ UNCHANGED <<main_vars, dag_nodes, ready, pending_dag_tasks, active_tasks,
                   key_waiters, worker_error, batch, history_vars>>

LoopPc == IF call.op = "wait_key" THEN "key" ELSE LoopOf(call.op)

WorkerComplete(w) ==
    /\ Complete(w)
    /\ pc' = IF pc = "asleep" /\ NotifyDone THEN LoopPc ELSE pc
    /\ UNCHANGED <<call, outcome, owed, urgent, pending_tasks, dag_staging,
                   dag_next_node_index, latest_producer, key_waiters, worker_error,
                   submitted, runs, after, last_writer, thrown, reported>>

-----------------------------------------------------------------------------
(* Main waits, and works while it waits. *)

Wait ==
    /\ pc = "client"
    /\ call' = [op |-> "wait", key |-> NoKey]
    /\ pc' = AfterPublish("wait", dag_staging, pending_tasks)
    /\ UNCHANGED <<outcome, owed, urgent, pending_tasks, dag_staging, dag_next_node_index,
                   latest_producer, shared_vars, history_vars>>

WaitForKey(k) ==
    /\ pc = "client"
    /\ call' = [op |-> "wait_key", key |-> k]
    /\ pc' = AfterPublish("wait_key", dag_staging, pending_tasks)
    /\ UNCHANGED <<outcome, owed, urgent, pending_tasks, dag_staging, dag_next_node_index,
                   latest_producer, shared_vars, history_vars>>

RegisterKeyWaiter ==
    /\ pc = "register"
    /\ key_waiters' = key_waiters + 1
    /\ pc' = "key"
    /\ UNCHANGED <<call, outcome, owed, urgent, pending_tasks, dag_staging,
                   dag_next_node_index, latest_producer, dag_nodes, ready,
                   pending_dag_tasks, active_tasks, worker_error, sleeping, batch,
                   history_vars>>

\* A key counts as produced when its producer could run.
BugKeyReleased(k) == latest_producer[k] # 0 => dag_nodes[latest_producer[k]].pending = 0

KeyCompleted(k) == latest_producer[k] # 0 => dag_nodes[latest_producer[k]].completed

\* Main keeps running tasks: until everything drained, until its key is
\* there, or until the live window is respected.
MainHelps ==
    \/ pc = "wait"
    \/ pc = "key" /\ ~KeyCompleted(call.key)
    \/ pc = "window" /\ pending_dag_tasks > MaxLiveWindow

MainTake ==
    /\ MainHelps
    /\ ready # {}
    /\ TakeReadyTasksLocked(Main)
    /\ pc' = "run"
    /\ UNCHANGED <<call, outcome, owed, urgent, pending_tasks, dag_staging,
                   dag_next_node_index, latest_producer, dag_nodes, pending_dag_tasks,
                   key_waiters, worker_error, sleeping, submitted, finished, after,
                   last_writer, thrown, reported>>

MainComplete ==
    /\ pc = "run"
    /\ Complete(Main)
    /\ pc' = LoopPc
    /\ UNCHANGED <<call, outcome, owed, urgent, pending_tasks, dag_staging,
                   dag_next_node_index, latest_producer, key_waiters, worker_error,
                   submitted, runs, after, last_writer, thrown, reported>>

MainSleep ==
    /\ pc \in {"wait", "key"}
    /\ MainHelps
    /\ ready = {}
    /\ active_tasks # 0
    /\ pc' = "asleep"
    /\ UNCHANGED <<call, outcome, owed, urgent, pending_tasks, dag_staging,
                   dag_next_node_index, latest_producer, shared_vars, history_vars>>

\* done_cv_ is waited on without a predicate: a spurious wakeup goes round
\* the loop once more.
MainSpuriousWake ==
    /\ pc = "asleep"
    /\ pc' = LoopPc
    /\ UNCHANGED <<call, outcome, owed, urgent, pending_tasks, dag_staging,
                   dag_next_node_index, latest_producer, shared_vars, history_vars>>

WindowReturn ==
    /\ pc = "window"
    /\ pending_dag_tasks <= MaxLiveWindow \/ ready = {}
    /\ pc' = "client"
    /\ UNCHANGED <<call, outcome, owed, urgent, pending_tasks, dag_staging,
                   dag_next_node_index, latest_producer, shared_vars, history_vars>>

\* The recorded exception is dropped.
BugSwallowError ==
    /\ outcome' = "ok"
    /\ worker_error' = NoTask
    /\ UNCHANGED reported

\* Rethrow what a participant recorded, once.
ReportError ==
    /\ outcome' = IF worker_error = NoTask THEN "ok" ELSE "error"
    /\ worker_error' = NoTask
    /\ reported' = IF worker_error = NoTask THEN reported ELSE thrown

\* The node indices do not restart with the cleared vector.
BugClearKeepsIndex ==
    /\ dag_nodes' = <<>>
    /\ latest_producer' = [k \in Key |-> 0]
    /\ UNCHANGED dag_next_node_index

ClearCompletedDagStateLocked ==
    /\ dag_nodes' = <<>>
    /\ latest_producer' = [k \in Key |-> 0]
    /\ dag_next_node_index' = 0

\* The queue is empty and nobody runs anything: the graph is cleared, or it
\* holds tasks that nothing will ever release.
WaitReturn ==
    /\ pc = "wait"
    /\ ready = {}
    /\ active_tasks = 0
    /\ pc' = "client"
    /\ IF pending_dag_tasks = 0
       THEN ClearCompletedDagStateLocked /\ ReportError
       ELSE /\ outcome' = "dag_deadlock"
            /\ UNCHANGED <<dag_nodes, latest_producer, dag_next_node_index,
                           worker_error, reported>>
    /\ UNCHANGED <<call, owed, urgent, pending_tasks, dag_staging, ready,
                   pending_dag_tasks, active_tasks, key_waiters, sleeping, batch,
                   submitted, finished, runs, after, last_writer, thrown>>

KeyReturn ==
    /\ pc = "key"
    /\ KeyCompleted(call.key) \/ (ready = {} /\ active_tasks = 0)
    /\ pc' = "client"
    /\ key_waiters' = key_waiters - 1
    /\ IF KeyCompleted(call.key)
       THEN ReportError
       ELSE outcome' = "dag_deadlock" /\ UNCHANGED <<worker_error, reported>>
    /\ UNCHANGED <<call, owed, urgent, pending_tasks, dag_staging, dag_next_node_index,
                   latest_producer, dag_nodes, ready, pending_dag_tasks, active_tasks,
                   sleeping, batch, submitted, finished, runs, after, last_writer, thrown>>

-----------------------------------------------------------------------------
Client ==
    \/ \E t \in Task : Submit(t)
    \/ \E t \in Task : EnqueueTask(t)
    \/ \E t \in Task, r \in Requests : SubmitWithDeps(t, r)
    \/ Wait
    \/ \E k \in Key : WaitForKey(k)

\* What Main does inside a call, once it has made it.
MainStep ==
    \/ FlushDagStaging \/ FlushPendingTasks \/ NotifyWorkers
    \/ RegisterKeyWaiter
    \/ MainTake \/ MainComplete \/ MainSleep
    \/ WindowReturn \/ WaitReturn \/ KeyReturn

WorkerStep(w) == WorkerTake(w) \/ WorkerComplete(w) \/ WorkerSleep(w)

Next ==
    \/ Client
    \/ MainStep
    \/ MainSpuriousWake
    \/ \E w \in Worker : WorkerStep(w)
    \/ \E w \in Worker : WorkerSpuriousWake(w)
    \/ \E p \in Participant : Throw(p)

Spec == Init /\ [][Next]_vars

\* Threads keep running: the operating system schedules every worker that is
\* not blocked, and Main inside a call.  Nothing obliges the client to make
\* a call, a condition variable to wake up by itself, or a task to throw.
Fairness == WF_vars(MainStep) /\ \A w \in Worker : WF_vars(WorkerStep(w))

FairSpec == Spec /\ Fairness
=============================================================================
