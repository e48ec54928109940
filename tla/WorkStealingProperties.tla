----------------------- MODULE WorkStealingProperties -----------------------
(***************************************************************************)
(* What WorkStealing promises: its safety properties, the inductive        *)
(* invariant behind them, and the refinement of TaskGraph.                 *)
(***************************************************************************)
EXTENDS WorkStealing

InDrain == pc[0] # "client"
TaskOf(n) == dag_nodes[n].task
Successors(n) == dag_nodes[n].successors
Predecessors(n) == {m \in Node : n \in Successors(m)}
\* The predecessors of a node that have still to decrement its counter.
Unreleased(n) ==
    {m \in Predecessors(n) :
        TaskOf(m) \notin finished \/ \E p \in Participant : <<m, n>> \in edges[p]}
\* The nodes that ws_outstanding_ still has to count.
Incomplete ==
    {n \in Node : TaskOf(n) \notin finished \/ \E p \in Participant : n \in batch[p]}
Queued(n) ==
    \E p \in Participant : \E i \in DOMAIN ws_queues[p] : ws_queues[p][i] = n

\* Where a participant has a batch, where it has edges to release, and where
\* it counts as a sleeper.
Releasing == {"release", "signal", "look", "notify"}
Working == Releasing \cup {"run", "finish"}
Idle == {"idle_check", "idle_sequence", "asleep", "unlock", "woken"}

-----------------------------------------------------------------------------
(* Safety. *)

\* "Successors are published before the completed tasks are subtracted, so
\* zero cannot be observed while work is pending": with a zero, every task of
\* the graph was run and no deque and no batch holds one.
ZeroMeansDone ==
    ws_outstanding = 0 =>
        /\ \A p \in Participant : ws_queues[p] = <<>> /\ batch[p] = {}
        /\ InDrain => submitted = finished

\* A task in a deque is there once, in one deque, and was never taken before:
\* owner and thieves take from both ends without running a task twice.
AtMostOnce ==
    \A p, q \in Participant : \A i \in DOMAIN ws_queues[p], j \in DOMAIN ws_queues[q] :
        /\ TaskOf(ws_queues[p][i]) \notin started
        /\ ws_queues[p][i] = ws_queues[q][j] => p = q /\ i = j

\* The counters agree with the graph in the middle of every drain, although
\* participants change them one fetch_sub at a time: a node waits for the
\* edges nobody has released yet, ws_outstanding_ counts the nodes that are
\* not finished and off their batch, and a node is in a deque exactly when
\* nothing holds it back and nobody has taken it.
CountersAreExact ==
    InDrain =>
        /\ Len(ws_pending) = Len(dag_nodes)
        /\ \A n \in Node : ws_pending[n] = Cardinality(Unreleased(n))
        /\ ws_outstanding = Cardinality(Incomplete)
        /\ \A n \in Node : Queued(n) <=> ws_pending[n] = 0 /\ TaskOf(n) \notin started

\* The submitter builds and clears the graph only while no worker drives.
GraphIsStable ==
    [][(graph_vars' # graph_vars) =>
        \A w \in Worker : pc[w] = "parked" /\ ws_queues[w] = <<>>]_vars

\* When a task of the drain has thrown, its first exception is recorded until the
\* wait rethrows it.
ErrorIsKept == worker_error = NoTask => thrown = reported

\* Participant p comes to deque v before it sleeps: it works, begins to search
\* or has v still ahead of it.
WillLook(p, v) ==
    \/ pc[p] \in Working \cup {"last", "load", "pop", "unlock", "woken"}
    \/ pc[p] = "steal" /\ \E o \in offset[p]..Workers : v = (p + o) % Participants

\* No task is overlooked by everybody, although a thief passes over a deque
\* whose mutex is taken and workers join late: as long as a deque holds a
\* task, somebody will look at it before it sleeps.
QueuesAreWatched ==
    \A v \in Participant : ws_queues[v] # <<>> => \E p \in Participant : WillLook(p, v)

\* Nobody sleeps without somebody awake in the drain to wake it: while tasks
\* are outstanding one participant drives, and once none is, the participant
\* that finished the last one is still about to notify everybody.
SleepersAreWoken ==
    asleep # {} => \E p \in Participant \ asleep :
                      /\ pc[p] \in Driving
                      /\ ws_outstanding = 0 => pc[p] = "last"

-----------------------------------------------------------------------------
(* The inductive invariant. *)

\* A node stands for one submitted task, and every submitted task that is
\* not finished has a node.
NodesAreTasks ==
    /\ \A m, n \in Node : TaskOf(m) = TaskOf(n) => m = n
    /\ \A n \in Node : TaskOf(n) \in submitted
    /\ \A t \in submitted \ finished : \E n \in Node : TaskOf(n) = t

EdgesPointForward ==
    \A m \in Node : \A n \in Successors(m) : m < n

PendingIsExact ==
    \A n \in Node : dag_nodes[n].pending = Cardinality(Predecessors(n))

ProducerIsLastWriter ==
    \A k \in Key :
        IF latest_producer[k] = 0
        THEN last_writer[k] \in finished \cup {NoTask}
        ELSE TaskOf(latest_producer[k]) = last_writer[k]

\* What a task must come after is finished or a predecessor of its node.
OrderIsWired ==
    \A n \in Node : after[TaskOf(n)] \subseteq finished \cup TasksOf(Predecessors(n))

GraphInv ==
    /\ NodesAreTasks /\ EdgesPointForward /\ PendingIsExact
    /\ ProducerIsLastWriter /\ OrderIsWired

\* Between two drains nothing runs, and the ready nodes are those without
\* predecessors.
BetweenDrains ==
    IF InDrain
    THEN ws_initial_ready = <<>> /\ call.op # "none"
    ELSE /\ call.op = "none"
         /\ ws_outstanding = 0
         /\ \A p \in Participant : ws_queues[p] = <<>> /\ batch[p] = {}
         /\ \A w \in Worker : pc[w] = "parked"
         /\ started = finished
         /\ \A n \in Node : TaskOf(n) \notin started
         /\ \A i \in DOMAIN ws_initial_ready : dag_nodes[ws_initial_ready[i]].pending = 0
         /\ \A i, j \in DOMAIN ws_initial_ready :
                ws_initial_ready[i] = ws_initial_ready[j] => i = j
         /\ \A n \in Node : dag_nodes[n].pending = 0 =>
                \E i \in DOMAIN ws_initial_ready : ws_initial_ready[i] = n

\* Who may be where, and the counters of participants.
ControlInv ==
    /\ pc[0] \notin {"parked", "leave"}
    /\ \A w \in Worker : pc[w] \notin {"client", "stop", "join"}
    /\ call.op = "wait_key" => call.key \in Key
    /\ ws_running <=> pc[0] \notin {"client", "join"}
    /\ ws_active_workers = Cardinality({w \in Worker : pc[w] # "parked"})
    /\ ws_sleepers = Cardinality({p \in Participant : pc[p] \in Idle})
    /\ asleep = {p \in Participant : pc[p] = "asleep"}
    /\ \A p \in Participant :
        /\ pc[p] \in {"idle_check", "idle_sequence", "unlock"} => ws_idle_mutex = p
        /\ pc[p] \in {"leave", "stop", "join"} => ws_outstanding = 0
        /\ pc[p] # "steal" => offset[p] = 1

\* A batch belongs to one working participant, its tasks are started, and
\* they are finished once it was run.
BatchInv ==
    /\ \A p, q \in Participant : p # q => batch[p] \cap batch[q] = {}
    /\ \A p \in Participant :
        /\ batch[p] # {} => pc[p] \in Working
        /\ edges[p] # {} => pc[p] \in Releasing
        /\ \A e \in edges[p] : e[1] \in batch[p] /\ e[2] \in Successors(e[1])
        /\ \A n \in batch[p] :
            TaskOf(n) \in started /\ (TaskOf(n) \in finished <=> pc[p] # "run")
    /\ \A n \in Node : TaskOf(n) \in started \ finished => \E p \in Participant : n \in batch[p]

\* A started node waits for nothing.
StartedWereReleased ==
    InDrain => \A n \in Node : TaskOf(n) \in started => ws_pending[n] = 0

DrainInv == CountersAreExact /\ AtMostOnce /\ StartedWereReleased

\* A participant that found its own deque empty finds it empty until it works
\* again, and who blocks after the last task was finished is still notified.
WakeInv ==
    /\ QueuesAreWatched
    /\ \A p \in Participant : pc[p] \in {"steal", "check", "idle"} \cup Idle => ws_queues[p] = <<>>
    /\ (ws_outstanding = 0 /\ \E p \in Participant : pc[p] \in {"idle_sequence", "asleep"}) =>
            \E q \in Participant : pc[q] = "last"

IInv ==
    /\ TypeOK /\ ErrorIsKept
    /\ GraphInv /\ BetweenDrains /\ ControlInv /\ BatchInv /\ DrainInv /\ WakeInv

-----------------------------------------------------------------------------
(* Refinement. *)

\* Refinement of the contract: a batch is started when it is popped or
\* stolen, and finished when its bodies have run.
Goal ==
    CASE InDrain /\ call.op = "wait" -> [kind |-> "all", key |-> NoKey]
      [] InDrain /\ call.op = "wait_key" -> [kind |-> "key", key |-> call.key]
      [] OTHER -> [kind |-> "none", key |-> NoKey]

Contract == INSTANCE TaskGraph WITH goal <- Goal
RefinesContract == Contract!Spec
=============================================================================
