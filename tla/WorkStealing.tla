---------------------------- MODULE WorkStealing ----------------------------
(***************************************************************************)
(* The opt-in work-stealing scheduler of AsyncRuntime                      *)
(* (COMPILER2026_DAG_WORK_STEALING=1).                                     *)
(*                                                                         *)
(* The submitting thread, participant 0, builds a graph while no worker    *)
(* looks at it.  A wait or a key wait starts a drain: the participants     *)
(* pop their own deque, steal from the others, run tasks and release       *)
(* successors with atomic counters only, until ws_outstanding_ is zero.    *)
(* Every access to an atomic variable is a step of its own, and so is      *)
(* every critical section of mutex_, of a deque's mutex and of             *)
(* ws_idle_mutex_, except the sleeper's, which is cut between its loads.   *)
(*                                                                         *)
(* ws_epoch_ and ws_push_sequence_ only grow and are only compared with a  *)
(* remembered value, so each is modelled as the set of participants whose  *)
(* remembered value is the current one.  A batch is a set, and so are the  *)
(* successors of a node: the order in which a participant runs the tasks   *)
(* of a batch and releases their successors is left open.                  *)
(***************************************************************************)
EXTENDS Naturals, FiniteSets, Sequences

CONSTANTS
    Program,        \* what the client submits, in order: [deps, output]
    Key, NoKey,     \* tiles; a negative output key
    Workers,        \* number of active workers of this call
    MayThrow,       \* the tasks whose body can raise an exception
    Awaited,        \* the keys the client waits for
    TaskBatchSize   \* task_batch_size_

\* The position of a submit call in Program is its identity.
Task == 1..Len(Program)
NoTask == 0              \* no exception recorded, no writer

ASSUME KeyAssumption == NoKey \notin Key /\ Awaited \subseteq Key
\* Negative and repeated dependencies are left out of deps, as the code skips them.
ASSUME ProgramAssumption ==
    /\ Program \in Seq([deps : SUBSET Key, output : Key \cup {NoKey}])
    /\ \A t \in Task : IsFiniteSet(Program[t].deps)
    /\ MayThrow \subseteq Task
ASSUME SizeAssumption == Workers \in Nat \ {0} /\ TaskBatchSize \in Nat \ {0}

Participants == Workers + 1
Participant == 0..Workers
Worker == 1..Workers
Nobody == Participants   \* a mutex is free

VARIABLES
    pc,                  \* where each participant is
    call,                \* the wait the submitter is in: [op, key]
    outcome,             \* how the last wait ended
    \* The graph, immutable during a drain.
    dag_nodes, latest_producer,
    ws_initial_ready,    \* its nodes without predecessors, in submission order
    \* The drain.
    ws_pending, ws_outstanding, ws_queues, ws_running, ws_active_workers,
    shard_mutex,         \* who was seen holding the mutex of each deque
    seen_epoch,          \* workers whose seen_epoch is ws_epoch_
    \* Idle participants.
    ws_idle_mutex,       \* who holds ws_idle_mutex_
    ws_sleepers,
    asleep,              \* participants blocked on ws_idle_cv_
    sequence_before,     \* participants whose sequence_before is ws_push_sequence_
    \* Locals of driveWorkStealing.
    offset, batch,
    edges,               \* edges of its batch the participant still has to release
    worker_error,
    \* History.
    submitted, started, finished, after, last_writer, thrown, reported

graph_vars == <<dag_nodes, latest_producer>>
client_vars == <<call, outcome, graph_vars, ws_initial_ready>>
queue_vars == <<ws_queues, shard_mutex>>
work_vars == <<ws_pending, ws_outstanding, queue_vars>>
drain_vars == <<ws_running, ws_active_workers, seen_epoch>>
idle_vars == <<ws_idle_mutex, ws_sleepers, asleep, sequence_before>>
local_vars == <<offset, batch, edges>>
history_vars == <<submitted, started, finished, after, last_writer, thrown, reported>>
vars == <<pc, client_vars, work_vars, drain_vars, idle_vars, local_vars, worker_error,
          history_vars>>

Node == 1..Len(dag_nodes)
DagNode == [task : Task, pending : Nat, successors : SUBSET Node]
TasksOf(nodes) == {dag_nodes[n].task : n \in nodes}

Driving == {"load", "pop", "steal", "run", "release", "signal", "look", "notify", "finish",
            "last", "check", "idle", "idle_check", "idle_sequence", "asleep", "unlock",
            "woken"}

TypeOK ==
    /\ pc \in [Participant -> Driving \cup {"client", "stop", "join", "parked", "leave"}]
    /\ call \in [op : {"none", "wait", "wait_key"}, key : Key \cup {NoKey}]
    /\ outcome \in {"none", "ok", "error"}
    /\ dag_nodes \in Seq(DagNode)
    /\ latest_producer \in [Key -> 0..Len(dag_nodes)]
    /\ ws_initial_ready \in Seq(Node)
    /\ ws_pending \in Seq(Nat)
    /\ ws_outstanding \in Nat
    /\ ws_queues \in [Participant -> Seq(Node)]
    /\ shard_mutex \in [Participant -> Participant \cup {Nobody}]
    /\ ws_running \in BOOLEAN
    /\ ws_active_workers \in 0..Workers
    /\ ws_idle_mutex \in Participant \cup {Nobody}
    /\ ws_sleepers \in 0..Participants
    /\ asleep \subseteq Participant
    /\ sequence_before \subseteq Participant
    /\ offset \in [Participant -> Worker]
    /\ batch \in [Participant -> SUBSET Node]
    /\ edges \in [Participant -> SUBSET (Node \X Node)]
    /\ seen_epoch \subseteq Worker
    /\ worker_error \in Task \cup {NoTask}
    /\ submitted \subseteq Task
    /\ started \subseteq submitted
    /\ finished \subseteq started
    /\ after \in [Task -> SUBSET Task]
    /\ last_writer \in [Key -> Task \cup {NoTask}]
    /\ thrown \subseteq Task
    /\ reported \subseteq thrown

Init ==
    /\ pc = [p \in Participant |-> IF p = 0 THEN "client" ELSE "parked"]
    /\ call = [op |-> "none", key |-> NoKey]
    /\ outcome = "none"
    /\ dag_nodes = <<>>
    /\ latest_producer = [k \in Key |-> 0]
    /\ ws_initial_ready = <<>>
    /\ ws_pending = <<>>
    /\ ws_outstanding = 0
    /\ ws_queues = [p \in Participant |-> <<>>]
    /\ shard_mutex = [p \in Participant |-> Nobody]
    /\ ws_running = FALSE
    /\ ws_active_workers = 0
    /\ ws_idle_mutex = Nobody
    /\ ws_sleepers = 0
    /\ asleep = {}
    /\ sequence_before = {}
    /\ offset = [p \in Participant |-> 1]
    /\ batch = [p \in Participant |-> {}]
    /\ edges = [p \in Participant |-> {}]
    /\ seen_epoch = {}
    /\ worker_error = NoTask
    /\ submitted = {} /\ started = {} /\ finished = {}
    /\ after = [t \in Task |-> {}]
    /\ last_writer = [k \in Key |-> NoTask]
    /\ thrown = {} /\ reported = {}

-----------------------------------------------------------------------------
(* The client submits.  The operators whose names begin with Bug are not   *)
(* part of the specification: each is a plausible slip in the definition   *)
(* that follows it, and shows that the properties would notice.            *)

\* submitWorkStealing: a node, and an edge from the producer of each key.  A
\* task produces one key, so distinct keys have distinct producers.
Submit(t) ==
    LET r == Program[t]
        node_index == Len(dag_nodes) + 1
        producers == {latest_producer[k] : k \in r.deps} \ {0}
    IN  /\ pc[0] = "client"
        /\ submitted = 1..(t - 1)
        /\ dag_nodes' =
             Append([n \in Node |->
                        IF n \in producers
                        THEN [dag_nodes[n] EXCEPT !.successors = @ \cup {node_index}]
                        ELSE dag_nodes[n]],
                    [task |-> t, pending |-> Cardinality(producers), successors |-> {}])
        /\ latest_producer' =
             [k \in Key |-> IF k = r.output THEN node_index ELSE latest_producer[k]]
        /\ ws_initial_ready' = IF producers = {} THEN Append(ws_initial_ready, node_index)
                                                ELSE ws_initial_ready
        /\ submitted' = submitted \cup {t}
        /\ after' = [after EXCEPT ![t] = {last_writer[k] : k \in r.deps} \ {NoTask}]
        /\ last_writer' = [k \in Key |-> IF k = r.output THEN t ELSE last_writer[k]]
        /\ UNCHANGED <<pc, call, outcome, work_vars, drain_vars, idle_vars, local_vars,
                       worker_error, started, finished, thrown, reported>>

\* Participant p gets the initial tasks whose position is p modulo the
\* number of participants.
Share(p) ==
    LET ready == ws_initial_ready
        first == p + 1
        count == IF Len(ready) < first THEN 0
                 ELSE ((Len(ready) - first) \div Participants) + 1
    IN  [i \in 1..count |-> ready[first + (i - 1) * Participants]]

\* Only the tasks that are ready are counted.
BugOutstanding == Len(ws_initial_ready)

\* What a drain has to run: the whole graph.
Outstanding == Len(dag_nodes)

\* waitWorkStealing up to driveWorkStealing(0).  With an empty graph the wait
\* returns at once.
StartDrain(op, key) ==
    /\ pc[0] = "client"
    /\ dag_nodes # <<>>
    /\ call' = [op |-> op, key |-> key]
    /\ ws_pending' = [n \in Node |-> dag_nodes[n].pending]
    /\ ws_outstanding' = Outstanding
    /\ ws_queues' = [p \in Participant |-> ws_queues[p] \o Share(p)]
    /\ ws_initial_ready' = <<>>
    /\ seen_epoch' = {}
    /\ ws_running' = TRUE
    /\ pc' = [pc EXCEPT ![0] = "load"]
    /\ UNCHANGED <<outcome, graph_vars, ws_active_workers, idle_vars, local_vars,
                   shard_mutex, worker_error, history_vars>>

Client ==
    \/ \E t \in Task : Submit(t)
    \/ StartDrain("wait", NoKey)
    \/ \E k \in Awaited : StartDrain("wait_key", k)

-----------------------------------------------------------------------------
(* driveWorkStealing: find work. *)

Goto(p, where) == pc' = [pc EXCEPT ![p] = where]

\* ws_push_sequence_ is read before the deques are searched.
LoadSequence(p) ==
    /\ pc[p] = "load"
    /\ sequence_before' = sequence_before \cup {p}
    /\ Goto(p, "pop")
    /\ UNCHANGED <<client_vars, work_vars, drain_vars, ws_idle_mutex, ws_sleepers,
                   asleep, local_vars, worker_error, history_vars>>

\* A critical section on deque v is one step.  Its owner is recorded only when
\* somebody finds the mutex taken; then nobody else enters before it.
Access(p, v) ==
    /\ shard_mutex[v] \in {p, Nobody}
    /\ shard_mutex' = [shard_mutex EXCEPT ![v] = Nobody]

\* A batch is taken; what the search left in its locals is dead.
Take(p, taken) ==
    /\ batch' = [batch EXCEPT ![p] = taken]
    /\ sequence_before' = sequence_before \ {p}
    /\ offset' = [offset EXCEPT ![p] = 1]
    /\ started' = started \cup TasksOf(taken)
    /\ Goto(p, "run")

\* The deque keeps what was popped.
BugPopLocal(p) ==
    LET own == ws_queues[p]
        left == IF Len(own) < TaskBatchSize THEN 0 ELSE Len(own) - TaskBatchSize
    IN  /\ own # <<>>
        /\ ws_queues' = [ws_queues EXCEPT ![p] = SubSeq(own, 1, Len(own) - 1)]
        /\ Take(p, {own[i] : i \in left + 1 .. Len(own)})

\* popLocalWorkStealingBatch: the newest tasks first, up to the batch limit.
PopLocal(p) ==
    LET own == ws_queues[p]
        left == IF Len(own) < TaskBatchSize THEN 0 ELSE Len(own) - TaskBatchSize
    IN  /\ own # <<>>
        /\ ws_queues' = [ws_queues EXCEPT ![p] = SubSeq(own, 1, left)]
        /\ Take(p, {own[i] : i \in left + 1 .. Len(own)})

PopLocalBatch(p) ==
    /\ pc[p] = "pop"
    /\ Access(p, p)
    /\ \/ PopLocal(p)
       \/ /\ ws_queues[p] = <<>>
          /\ Goto(p, "steal")
          /\ UNCHANGED <<ws_queues, sequence_before, offset, batch, started>>
    /\ UNCHANGED <<client_vars, ws_pending, ws_outstanding, drain_vars, ws_idle_mutex,
                   ws_sleepers, asleep, edges, worker_error, submitted, finished, after,
                   last_writer, thrown, reported>>

\* The search is off by one: it begins with the own deque and never reaches
\* the last victim.
BugVictim(p) == (p + offset[p] - 1) % Participants

Victim(p) == (p + offset[p]) % Participants

\* stealWorkStealingTask, one victim at a time: the oldest task of a deque
\* that is free and not empty.
Steal(p) ==
    /\ pc[p] = "steal"
    /\ Access(p, Victim(p))
    /\ ws_queues[Victim(p)] # <<>>
    /\ ws_queues' = [ws_queues EXCEPT ![Victim(p)] = Tail(@)]
    /\ Take(p, {Head(ws_queues[Victim(p)])})
    /\ UNCHANGED <<client_vars, ws_pending, ws_outstanding, drain_vars, ws_idle_mutex,
                   ws_sleepers, asleep, edges, worker_error, submitted, finished, after,
                   last_writer, thrown, reported>>

\* Every fetch_sub pushes the successor.
BugIsLast(successor) == ws_pending[successor] >= 1

\* The fetch_sub that brings the counter of a successor to zero.
IsLast(successor) == ws_pending[successor] = 1

\* The participants whose next critical section is on deque v.
Accessing(v) ==
    {q \in Participant :
        \/ pc[q] = "pop" /\ q = v
        \/ pc[q] = "release" /\ q = v /\ \E e \in edges[q] : IsLast(e[2])
        \/ pc[q] = "steal" /\ Victim(q) = v}

\* try_lock fails: another participant is in a critical section on the deque.
Contended(p) ==
    \E q \in Accessing(Victim(p)) \ {p} :
        /\ shard_mutex[Victim(p)] \in {q, Nobody}
        /\ shard_mutex' = [shard_mutex EXCEPT ![Victim(p)] = q]

\* The deque is empty or locked: try the next victim, or give up.
SkipVictim(p) ==
    /\ pc[p] = "steal"
    /\ IF ws_queues[Victim(p)] = <<>> THEN UNCHANGED shard_mutex ELSE Contended(p)
    /\ IF offset[p] < Workers
       THEN offset' = [offset EXCEPT ![p] = @ + 1] /\ UNCHANGED pc
       ELSE offset' = [offset EXCEPT ![p] = 1] /\ Goto(p, "check")
    /\ UNCHANGED <<client_vars, ws_pending, ws_outstanding, ws_queues, drain_vars,
                   idle_vars, batch, edges, worker_error, history_vars>>

-----------------------------------------------------------------------------
(* driveWorkStealing: run a batch and release its successors. *)

ReleaseOrFinish(left) == IF left = {} THEN "finish" ELSE "release"

\* The latest batch decides what is recorded.
BugRecord(raised) ==
    IF raised = {} THEN worker_error' = NoTask ELSE worker_error' \in raised

\* The handler of runBatch: an exception that is recorded already stays.
Record(raised) ==
    IF raised = {} \/ worker_error # NoTask THEN UNCHANGED worker_error
                                            ELSE worker_error' \in raised

\* runBatch: any of the bodies may raise an exception, and only the first
\* exception of the drain is kept.
RunBatch(p) ==
    /\ pc[p] = "run"
    /\ \E raised \in SUBSET (TasksOf(batch[p]) \cap MayThrow) :
        /\ thrown' = thrown \cup raised
        /\ Record(raised)
    /\ finished' = finished \cup TasksOf(batch[p])
    /\ edges' = [edges EXCEPT ![p] =
                    UNION {{n} \X dag_nodes[n].successors : n \in batch[p]}]
    /\ Goto(p, ReleaseOrFinish(edges'[p]))
    /\ UNCHANGED <<client_vars, work_vars, drain_vars, idle_vars, offset, batch, submitted,
                   started, after, last_writer, reported>>

\* releaseWorkStealingSuccessors, one edge: the last fetch_sub pushes the
\* successor to the participant's own deque.  Nobody else reads a counter
\* that reached zero, so the fetch_sub and the push are one step.
Release(p) ==
    \E e \in edges[p] :
        LET successor == e[2] IN
        /\ pc[p] = "release"
        /\ edges' = [edges EXCEPT ![p] = @ \ {e}]
        /\ ws_pending' = [ws_pending EXCEPT ![successor] = @ - 1]
        /\ IF IsLast(successor)
           THEN /\ Access(p, p)
                /\ ws_queues' = [ws_queues EXCEPT ![p] = Append(@, successor)]
                /\ Goto(p, "signal")
           ELSE UNCHANGED queue_vars /\ Goto(p, ReleaseOrFinish(edges'[p]))
        /\ UNCHANGED <<client_vars, ws_outstanding, drain_vars, idle_vars, offset, batch,
                       worker_error, history_vars>>

BumpSequence(p) ==
    /\ pc[p] = "signal"
    /\ sequence_before' = {}
    /\ Goto(p, "look")
    /\ UNCHANGED <<client_vars, work_vars, drain_vars, ws_idle_mutex, ws_sleepers,
                   asleep, local_vars, worker_error, history_vars>>

LookForSleepers(p) ==
    /\ pc[p] = "look"
    /\ Goto(p, IF ws_sleepers > 0 THEN "notify" ELSE ReleaseOrFinish(edges[p]))
    /\ UNCHANGED <<client_vars, work_vars, drain_vars, idle_vars, local_vars,
                   worker_error, history_vars>>

\* notify_one of ws_idle_cv_ under ws_idle_mutex_.
NotifyOne(p) ==
    /\ pc[p] = "notify"
    /\ ws_idle_mutex = Nobody
    /\ IF asleep = {}
       THEN Goto(p, ReleaseOrFinish(edges[p])) /\ UNCHANGED asleep
       ELSE \E q \in asleep :
                /\ asleep' = asleep \ {q}
                /\ pc' = [pc EXCEPT ![p] = ReleaseOrFinish(edges[p]), ![q] = "woken"]
    /\ UNCHANGED <<client_vars, work_vars, drain_vars, ws_idle_mutex, ws_sleepers,
                   sequence_before, local_vars, worker_error, history_vars>>

\* The completed tasks leave ws_outstanding_ after their successors were
\* published.
Finish(p) ==
    /\ pc[p] = "finish"
    /\ ws_outstanding' = ws_outstanding - Cardinality(batch[p])
    /\ Goto(p, IF ws_outstanding = Cardinality(batch[p]) THEN "last" ELSE "load")
    /\ batch' = [batch EXCEPT ![p] = {}]
    /\ UNCHANGED <<client_vars, ws_pending, queue_vars, drain_vars, idle_vars, offset,
                   edges, worker_error, history_vars>>

\* The end of the drain wakes one sleeper.
BugNotifyLast(p) ==
    \E woken \in SUBSET asleep :
        /\ Cardinality(woken) = IF asleep = {} THEN 0 ELSE 1
        /\ asleep' = asleep \ woken
        /\ pc' = [q \in Participant |->
                    IF q \in woken THEN "woken" ELSE IF q = p THEN "load" ELSE pc[q]]

\* The end of the drain wakes every sleeper.
WakeAll(p) ==
    /\ asleep' = {}
    /\ pc' = [q \in Participant |->
                IF q \in asleep THEN "woken" ELSE IF q = p THEN "load" ELSE pc[q]]

NotifyAll(p) ==
    /\ pc[p] = "last"
    /\ ws_idle_mutex = Nobody
    /\ WakeAll(p)
    /\ UNCHANGED <<client_vars, work_vars, drain_vars, ws_idle_mutex, ws_sleepers,
                   sequence_before, local_vars, worker_error, history_vars>>

-----------------------------------------------------------------------------
(* driveWorkStealing: nothing found. *)

\* The drain is over, or the participant yields and tries again, or it has
\* spun long enough and goes to sleep.
CheckOutstanding(p) ==
    /\ pc[p] = "check"
    /\ IF ws_outstanding = 0
       THEN Goto(p, IF p = 0 THEN "stop" ELSE "leave")
       ELSE Goto(p, "load") \/ Goto(p, "idle")
    /\ UNCHANGED <<client_vars, work_vars, drain_vars, idle_vars, local_vars,
                   worker_error, history_vars>>

RegisterSleeper(p) ==
    /\ pc[p] = "idle"
    /\ ws_idle_mutex = Nobody
    /\ ws_idle_mutex' = p
    /\ ws_sleepers' = ws_sleepers + 1
    /\ Goto(p, "idle_check")
    /\ UNCHANGED <<client_vars, work_vars, drain_vars, asleep, sequence_before,
                   local_vars, worker_error, history_vars>>

\* The sleeper looks at ws_outstanding_ once more under ws_idle_mutex_.
RecheckOutstanding(p) ==
    /\ pc[p] = "idle_check"
    /\ Goto(p, IF ws_outstanding # 0 THEN "idle_sequence" ELSE "unlock")
    /\ UNCHANGED <<client_vars, work_vars, drain_vars, idle_vars, local_vars,
                   worker_error, history_vars>>

\* ... and blocks if nothing was pushed since it began to search.
RecheckSequence(p) ==
    /\ pc[p] = "idle_sequence"
    /\ IF p \in sequence_before
       THEN /\ Goto(p, "asleep")
            /\ asleep' = asleep \cup {p}
            /\ ws_idle_mutex' = Nobody
       ELSE Goto(p, "unlock") /\ UNCHANGED <<asleep, ws_idle_mutex>>
    /\ UNCHANGED <<client_vars, work_vars, drain_vars, ws_sleepers, sequence_before,
                   local_vars, worker_error, history_vars>>

\* The two milliseconds of wait_for are over, or a spurious wakeup.
TimeOut(p) ==
    /\ p \in asleep
    /\ asleep' = asleep \ {p}
    /\ Goto(p, "woken")
    /\ UNCHANGED <<client_vars, work_vars, drain_vars, ws_idle_mutex, ws_sleepers,
                   sequence_before, local_vars, worker_error, history_vars>>

\* Out of wait_for the mutex is taken again.
LeaveIdle(p) ==
    /\ \/ pc[p] = "unlock"
       \/ pc[p] = "woken" /\ ws_idle_mutex = Nobody
    /\ ws_idle_mutex' = Nobody
    /\ ws_sleepers' = ws_sleepers - 1
    /\ Goto(p, "load")
    /\ UNCHANGED <<client_vars, work_vars, drain_vars, asleep, sequence_before,
                   local_vars, worker_error, history_vars>>

-----------------------------------------------------------------------------
(* workerLoopWorkStealing and the end of waitWorkStealing. *)

\* A worker joins a drain that is running and that it has not seen, also
\* when all the work is already done.
JoinDrain(w) ==
    /\ pc[w] = "parked"
    /\ ws_running
    /\ w \notin seen_epoch
    /\ seen_epoch' = seen_epoch \cup {w}
    /\ ws_active_workers' = ws_active_workers + 1
    /\ Goto(w, "load")
    /\ UNCHANGED <<client_vars, work_vars, ws_running, idle_vars, local_vars,
                   worker_error, history_vars>>

LeaveDrain(w) ==
    /\ pc[w] = "leave"
    /\ ws_active_workers' = ws_active_workers - 1
    /\ Goto(w, "parked")
    /\ UNCHANGED <<client_vars, work_vars, ws_running, seen_epoch, idle_vars,
                   local_vars, worker_error, history_vars>>

StopDrain ==
    /\ pc[0] = "stop"
    /\ ws_running' = FALSE
    /\ Goto(0, "join")
    /\ UNCHANGED <<client_vars, work_vars, ws_active_workers, seen_epoch, idle_vars,
                   local_vars, worker_error, history_vars>>

\* The submitter does not wait for the workers to leave.
BugWorkersLeft == TRUE

WorkersLeft == ws_active_workers = 0

\* clearCompletedDagStateLocked, and the exception of the drain.
EndDrain ==
    /\ pc[0] = "join"
    /\ WorkersLeft
    /\ dag_nodes' = <<>>
    /\ latest_producer' = [k \in Key |-> 0]
    /\ outcome' = IF worker_error = NoTask THEN "ok" ELSE "error"
    /\ UNCHANGED ws_initial_ready
    /\ worker_error' = NoTask
    /\ reported' = IF worker_error = NoTask THEN reported ELSE thrown
    /\ call' = [op |-> "none", key |-> NoKey]
    /\ Goto(0, "client")
    /\ UNCHANGED <<work_vars, drain_vars, idle_vars, local_vars, submitted,
                   started, finished, after, last_writer, thrown>>

-----------------------------------------------------------------------------
Drive(p) ==
    \/ LoadSequence(p) \/ PopLocalBatch(p) \/ Steal(p) \/ SkipVictim(p)
    \/ RunBatch(p) \/ Release(p) \/ BumpSequence(p) \/ LookForSleepers(p) \/ NotifyOne(p)
    \/ Finish(p) \/ NotifyAll(p)
    \/ CheckOutstanding(p) \/ RegisterSleeper(p) \/ RecheckOutstanding(p)
    \/ RecheckSequence(p) \/ LeaveIdle(p)

Next ==
    \/ Client
    \/ \E p \in Participant : Drive(p) \/ TimeOut(p)
    \/ \E w \in Worker : JoinDrain(w) \/ LeaveDrain(w)
    \/ StopDrain \/ EndDrain

Spec == Init /\ [][Next]_vars

=============================================================================
