----------------------- MODULE DagSchedulerProperties -----------------------
(***************************************************************************)
(* What DagScheduler promises: its safety properties, the inductive        *)
(* invariant behind them, liveness, and the refinement of TaskGraph.       *)
(***************************************************************************)
EXTENDS DagScheduler

Index == 1..Len(dag_nodes)
Incomplete == {i \in Index : ~dag_nodes[i].completed}
\* The incomplete nodes that still hold node i back.
Preds(i) == {j \in Incomplete : i \in dag_nodes[j].successors}
\* The task behind a node index, published or still staged.
Predicted == 1..(Len(dag_nodes) + Len(dag_staging))
TaskAt(i) == IF i <= Len(dag_nodes) THEN dag_nodes[i].task
                                    ELSE dag_staging[i - Len(dag_nodes)].task

-----------------------------------------------------------------------------
(* Safety. *)

\* A task is taken, by whichever thread, only after every task that last
\* wrote one of its keys has been completed (submitWithDeps,
\* flushDagStaging, completeDagTasksLocked).
DependencyOrder ==
    \A p \in Participant : \A e \in batch[p] : after[e.task] \subseteq finished

\* No task is taken twice, however batches, publishes and completions
\* interleave (sched_bench: "every task runs exactly once").
AtMostOnce == \A t \in Task : runs[t] <= 1

\* The two "unresolved dependencies" exceptions are never thrown: an empty
\* queue with nobody running means that the whole graph was completed.
NoDagDeadlock == outcome # "dag_deadlock"

\* Under-waking is safe (comment of notifyWorkers): whenever a task is ready
\* some worker is awake, or a notification is on its way, even though
\* enqueueTask and the completions notify fewer workers than could run.  For a
\* call that uses the whole pool: only workers that may take the task sleep here.
NoStrandedWork == ready # {} => (sleeping # Worker \/ owed > 0)

\* The node index submitWithDeps predicts outside the mutex is the one the
\* task gets: a key always leads to the task that last wrote it, or to
\* nothing when that task is finished, across publishes, key waits and the
\* clearing of the graph by a wait.
ProducerIsLastWriter ==
    \A k \in Key :
        IF latest_producer[k] = 0
        THEN last_writer[k] \in finished \cup {NoTask}
        ELSE /\ latest_producer[k] \in Predicted
             /\ TaskAt(latest_producer[k]) = last_writer[k]

\* The predecessor counter of a node is the number of incomplete nodes that
\* hold it back, and pending_dag_tasks_ the number of incomplete nodes.
CountersAreExact ==
    /\ \A i \in Index : dag_nodes[i].pending = Cardinality(Preds(i))
    /\ pending_dag_tasks = Cardinality(Incomplete)
    /\ active_tasks = Cardinality(InFlight)

\* When a task has thrown since the last rethrow, an exception is recorded: the
\* first of the drain, the only one the code keeps.  No key wait or clearing of
\* the graph drops it.
ErrorIsKept == worker_error = NoTask => thrown = reported

\* A wait that ends well leaves nothing behind: every submitted task is
\* finished, and if a task has thrown since the last rethrow, this wait rethrows
\* the first exception of the drain.
WaitDrains ==
    [][pc = "wait" /\ pc' = "client" =>
        /\ submitted = finished
        /\ outcome' = IF thrown = reported THEN "ok" ELSE "error"
        /\ reported' = thrown]_vars

-----------------------------------------------------------------------------
(* The inductive invariant. *)

Queued == ready \cup InFlight

\* Control: which parts of the submitter's state mean anything where.
ControlInv ==
    /\ owed > 0 <=> pc = "notify"
    /\ urgent => owed > 0
    /\ batch[Main] # {} <=> pc = "run"
    /\ \A w \in sleeping : batch[w] = {}
    /\ pc = "client" \/ call.op # "none"
    /\ pc = "flush" => StillToPublish(call.op, dag_staging, pending_tasks)
    /\ pc \in {"wait", "key", "window"} => LoopPc = pc
    /\ pc = "register" => LoopPc = "key"
    /\ pc \in {"run", "asleep"} => LoopPc \in {"wait", "key", "window"}
    /\ pc = "asleep" => LoopPc # "window"
    /\ pc \in {"wait", "register", "key", "run", "asleep"} /\ LoopPc # "window" =>
        dag_staging = <<>> /\ pending_tasks = {}
    /\ call.op = "wait_key" => call.key \in Key
    /\ key_waiters = 1 <=> (pc = "key" \/ (pc \in {"run", "asleep"} /\ LoopPc = "key"))

\* A node index, published or predicted, stands for one submitted task.
NodesAreTasks ==
    /\ dag_next_node_index = Len(dag_nodes)
    /\ \A i, j \in Predicted : TaskAt(i) = TaskAt(j) => i = j
    /\ \A i \in Predicted : TaskAt(i) \in submitted \ pending_tasks

\* Staged tasks are submitted and not finished; finished nodes are marked.
StagesAreSubmitted ==
    /\ pending_tasks \subseteq submitted
    /\ \A t \in pending_tasks : after[t] = {}
    /\ finished \subseteq submitted \ pending_tasks
    /\ \A i \in Index : dag_nodes[i].completed <=> dag_nodes[i].task \in finished
    /\ \A s \in DOMAIN dag_staging : dag_staging[s].task \notin finished

\* A queued entry is a dependency-free task or the task of an incomplete node,
\* and no task has two entries.
EntriesAreTasks ==
    /\ \A e \in Queued :
        /\ e.task \in submitted \ (pending_tasks \cup finished)
        /\ e.dag_node = 0 =>
            after[e.task] = {} /\ \A i \in Predicted : TaskAt(i) # e.task
        /\ e.dag_node # 0 =>
            e.dag_node \in Incomplete /\ dag_nodes[e.dag_node].task = e.task
    /\ \A e, f \in Queued : e.task = f.task => e = f

BatchesAreDisjoint ==
    /\ \A p, q \in Participant : p # q => batch[p] \cap batch[q] = {}
    /\ ready \cap InFlight = {}

RunsAreExact ==
    \A t \in Task : runs[t] = IF t \in finished \cup TasksOf(InFlight) THEN 1 ELSE 0

\* Every submitted task is staged, queued, in the graph or finished.
NothingIsLost ==
    submitted \subseteq pending_tasks \cup finished \cup TasksOf(Queued)
                          \cup {TaskAt(i) : i \in Predicted}

EdgesPointForward ==
    \A i \in Index : dag_nodes[i].successors \subseteq (i + 1)..Len(dag_nodes)

\* A node without incomplete predecessor is queued or completed.
ReleasedAreQueued ==
    \A i \in Index :
        Preds(i) = {} <=> dag_nodes[i].completed \/ \E e \in Queued : e.dag_node = i

\* What a published or a staged task must come after is finished or holds
\* its node back.
OrderIsWired ==
    \A i \in Index : \A u \in after[dag_nodes[i].task] :
        u \in finished \/ \E j \in Preds(i) : dag_nodes[j].task = u

OrderIsStaged ==
    \A s \in DOMAIN dag_staging :
        /\ dag_staging[s].dep_nodes \subseteq 1..(Len(dag_nodes) + s - 1)
        /\ \A u \in after[dag_staging[s].task] :
            u \in finished \/ \E j \in dag_staging[s].dep_nodes : TaskAt(j) = u

GraphInv ==
    /\ NodesAreTasks
    /\ StagesAreSubmitted
    /\ EntriesAreTasks
    /\ BatchesAreDisjoint
    /\ RunsAreExact
    /\ NothingIsLost
    /\ EdgesPointForward
    /\ ReleasedAreQueued
    /\ OrderIsWired
    /\ OrderIsStaged
    /\ CountersAreExact
    /\ ProducerIsLastWriter

ErrorInv ==
    /\ ErrorIsKept
    /\ reported \subseteq thrown
    /\ worker_error # NoTask => worker_error \in thrown \ reported

IInv ==
    /\ TypeOK
    /\ ControlInv
    /\ GraphInv
    /\ NoStrandedWork
    /\ ErrorInv

-----------------------------------------------------------------------------
(* Liveness, for FairSpec. *)

\* Every call of the runtime returns.
CallsReturn == (pc # "client") ~> (pc = "client")

\* A ready task is taken even if the client never waits for it: the workers
\* that were woken, or wake each other, are enough.  Like NoStrandedWork, for a
\* call that uses the whole pool.
ReadyTaskIsTaken ==
    \A t \in Task : (t \in TasksOf(ready)) ~> (t \notin TasksOf(ready))

-----------------------------------------------------------------------------
(* Refinement of the contract. *)

Started == {t \in Task : runs[t] > 0}

\* What the client is blocked on.
Goal ==
    CASE pc # "client" /\ call.op = "wait" -> [kind |-> "all", key |-> NoKey]
      [] pc # "client" /\ call.op = "wait_key" -> [kind |-> "key", key |-> call.key]
      [] OTHER -> [kind |-> "none", key |-> NoKey]

Contract == INSTANCE TaskGraph WITH started <- Started, goal <- Goal

\* The scheduler implements the contract: it starts only what is submitted
\* and unordered, and returns from a wait only when its goal is reached.
RefinesContract == Contract!Spec
=============================================================================
