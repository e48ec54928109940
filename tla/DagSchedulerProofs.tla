------------------------- MODULE DagSchedulerProofs -------------------------
(***************************************************************************)
(* The inductive invariant of DagScheduler, and what its client may rely   *)
(* on because of it: a wait never finds a stuck graph, a wait that ends    *)
(* well leaves nothing behind, and the scheduler implements TaskGraph.     *)
(***************************************************************************)
EXTENDS DagGraphProofs, WellFoundedInduction

LEMMA WorkerCount == Cardinality(Worker) \in Nat \ {0}
BY WorkerAssumption, FS_CardinalityType, FS_EmptySet

-----------------------------------------------------------------------------
(* Exceptions. *)

\* Rethrowing clears the record and remembers every exception raised so far.
LEMMA ReportKeepsError ==
    ASSUME ErrorInv, ReportError, UNCHANGED thrown
    PROVE  ErrorInv'
BY DEF ErrorInv, ErrorIsKept, ReportError

\* The error part of the invariant is inductive by itself: only a throw, a
\* wait and a key wait touch the record.
LEMMA ErrorStep ==
    ASSUME ErrorInv, [Next]_vars
    PROVE  ErrorInv'
<1> USE DEF ErrorInv, ErrorIsKept
<1>1. CASE UNCHANGED <<worker_error, thrown, reported>>
  BY <1>1
<1>2. CASE \E p \in Participant : Throw(p)
  BY <1>2, TaskAssumption, SizeAssumption DEF Throw
<1>3. CASE WaitReturn
  <2>1. CASE pending_dag_tasks = 0
    BY <1>3, <2>1, ReportKeepsError DEF WaitReturn
  <2>2. CASE pending_dag_tasks # 0
    BY <1>3, <2>2, <1>1 DEF WaitReturn
  <2> QED BY <2>1, <2>2
<1>4. CASE KeyReturn
  <2>1. CASE KeyCompleted(call.key)
    BY <1>4, <2>1, ReportKeepsError DEF KeyReturn
  <2>2. CASE ~KeyCompleted(call.key)
    BY <1>4, <2>2, <1>1 DEF KeyReturn
  <2> QED BY <2>1, <2>2
<1>5. CASE Client
  BY <1>5, <1>1 DEF Client, Submit, EnqueueTask, SubmitWithDeps, Wait, WaitForKey, Record,
                    shared_vars, history_vars
<1>6. CASE FlushDagStaging \/ FlushPendingTasks \/ NotifyWorkers \/ RegisterKeyWaiter
           \/ MainSleep \/ WindowReturn \/ MainSpuriousWake
  BY <1>6, <1>1 DEF FlushDagStaging, FlushPendingTasks, NotifyWorkers, RegisterKeyWaiter,
                    MainSleep, WindowReturn, MainSpuriousWake, shared_vars, history_vars
<1>7. CASE MainTake \/ MainComplete
  BY <1>7, <1>1 DEF MainTake, MainComplete
<1>8. CASE \E w \in Worker : WorkerStep(w) \/ WorkerSpuriousWake(w)
  BY <1>8, <1>1 DEF WorkerStep, WorkerTake, WorkerComplete, WorkerSleep,
                    WorkerSpuriousWake, history_vars
<1>9. CASE UNCHANGED vars
  BY <1>9, <1>1 DEF vars, shared_vars, history_vars
<1> QED
  BY <1>2, <1>3, <1>4, <1>5, <1>6, <1>7, <1>8, <1>9 DEF Next, MainStep

\* The first exception of a drain is kept: whenever a task has thrown since the last
\* rethrow an exception is recorded, whatever key waits and clearings happen.
THEOREM ErrorKept == Spec => []ErrorIsKept
<1>1. Init => ErrorInv BY DEF Init, ErrorInv, ErrorIsKept
<1>2. ErrorInv /\ [Next]_vars => ErrorInv' BY ErrorStep
<1>3. ErrorInv => ErrorIsKept BY DEF ErrorInv
<1> QED BY <1>1, <1>2, <1>3, PTL DEF Spec

-----------------------------------------------------------------------------
(* Types. *)

LEMMA InitTypes == Init => TypeOK
<1> SUFFICES ASSUME Init PROVE TypeOK OBVIOUS
<1>1. dag_staging \in Seq(StagedSubmit) /\ dag_nodes \in Seq(DagNode) BY DEF Init
<1>2. call \in Call /\ owed \in 0..Cardinality(Worker)
  BY WorkerCount DEF Init, Call
<1>3. /\ latest_producer \in [Key -> Nat]
      /\ batch \in [Participant -> SUBSET Entry]
      /\ runs \in [Task -> Nat]
      /\ after \in [Task -> SUBSET Task]
      /\ last_writer \in [Key -> Task \cup {NoTask}]
  BY DEF Init
<1>4. /\ pc = "client" /\ outcome = "none" /\ urgent = FALSE
      /\ dag_next_node_index = 0 /\ pending_dag_tasks = 0 /\ active_tasks = 0
      /\ key_waiters = 0 /\ worker_error = NoTask
      /\ pending_tasks = {} /\ ready = {} /\ sleeping = {}
      /\ submitted = {} /\ finished = {} /\ thrown = {} /\ reported = {}
  BY DEF Init
<1>5. key_waiters \in 0..1
  <2>1. key_waiters = 0 BY <1>4
  <2> QED BY <2>1
<1>6. /\ pc \in {"client", "flush", "notify", "window", "wait", "register", "key",
                "run", "asleep"}
      /\ outcome \in {"none", "ok", "error", "dag_deadlock"}
  <2>1. pc = "client" /\ outcome = "none" BY <1>4
  <2> QED BY <2>1
<1>7. urgent \in BOOLEAN
  <2>1. urgent = FALSE BY <1>4
  <2> QED BY <2>1
<1> QED BY <1>1, <1>2, <1>3, <1>4, <1>5, <1>6, <1>7 DEF TypeOK

\* How many notifications a publish owes.
LEMMA OwedFacts ==
    ASSUME NEW n \in Nat
    PROVE  /\ Owed(n) \in 0..Cardinality(Worker)
           /\ Owed(n) > 0 <=> n > 0
BY WorkerCount DEF Owed

LEMMA RecordTypes ==
    ASSUME TypeOK, NEW t \in Task, NEW deps \in SUBSET Key, NEW output,
           Record(t, deps, output)
    PROVE  /\ submitted' \subseteq Task
           /\ after' \in [Task -> SUBSET Task]
           /\ last_writer' \in [Key -> Task \cup {NoTask}]
           /\ finished' = finished /\ runs' = runs /\ thrown' = thrown
           /\ reported' = reported
<1>1. /\ submitted \subseteq Task
      /\ after \in [Task -> SUBSET Task]
      /\ last_writer \in [Key -> Task \cup {NoTask}]
  BY DEF TypeOK
<1>2. {last_writer[k] : k \in deps} \ {NoTask} \subseteq Task BY <1>1
<1>3. QED BY <1>1, <1>2 DEF Record

LEMMA ClientTypes == ASSUME TypeOK, GraphInv, Client PROVE TypeOK'
<1>1. ASSUME NEW t \in Task, Submit(t) PROVE TypeOK'
  <2>1. Record(t, {}, NoKey) BY <1>1 DEF Submit
  <2>2. pending_tasks' \subseteq Task BY <1>1 DEF Submit, TypeOK
  <2>3. pc' \in {"flush", "client"} BY <1>1 DEF Submit
  <2>4. call' \in Call BY <1>1 DEF Submit, Call
  <2>5. UNCHANGED <<outcome, owed, urgent, dag_staging, dag_next_node_index,
                    latest_producer, shared_vars>>
    BY <1>1 DEF Submit
  <2> QED BY <2>1, <2>2, <2>3, <2>4, <2>5, RecordTypes DEF TypeOK, shared_vars
<1>2. ASSUME NEW t \in Task, EnqueueTask(t) PROVE TypeOK'
  <2>1. Record(t, {}, NoKey) BY <1>2 DEF EnqueueTask
  <2>2. ready' \subseteq Entry BY <1>2 DEF EnqueueTask, TypeOK, Entry
  <2>3. owed' \in 0..Cardinality(Worker) /\ pc' \in {"notify", "client"}
    BY <1>2, OwedFacts, WorkerCount DEF EnqueueTask
  <2>4. call' \in Call BY <1>2 DEF EnqueueTask, Call
  <2>5. UNCHANGED <<outcome, urgent, pending_tasks, dag_staging, dag_next_node_index,
                    latest_producer, dag_nodes, pending_dag_tasks, active_tasks,
                    key_waiters, worker_error, sleeping, batch>>
    BY <1>2 DEF EnqueueTask
  <2> QED BY <2>1, <2>2, <2>3, <2>4, <2>5, RecordTypes DEF TypeOK
<1>3. ASSUME NEW t \in Task, NEW r \in Requests, SubmitWithDeps(t, r) PROVE TypeOK'
  <2>1. r.deps \in SUBSET Key /\ r.priority \in 0..3 BY RequestAssumption
  <2>2. Record(t, r.deps, r.output) BY <1>3 DEF SubmitWithDeps
  <2>3. latest_producer \in [Key -> Nat] /\ dag_next_node_index \in Nat
        /\ dag_staging \in Seq(StagedSubmit)
    BY DEF TypeOK
  <2>4. dag_staging' \in Seq(StagedSubmit)
    <3>1. [task |-> t, dep_nodes |-> {latest_producer[k] : k \in r.deps} \ {0},
           priority |-> r.priority] \in StagedSubmit
      BY <2>1, <2>3 DEF StagedSubmit
    <3> QED BY <1>3, <2>3, <3>1 DEF SubmitWithDeps
  <2>5. latest_producer' \in [Key -> Nat]
    <3>1. dag_next_node_index + Len(dag_staging) + 1 \in Nat BY <2>3
    <3> QED BY <1>3, <2>3, <3>1 DEF SubmitWithDeps
  <2>6. pc' \in {"flush", "client"} /\ call' \in Call BY <1>3 DEF SubmitWithDeps, Call
  <2>7. UNCHANGED <<outcome, owed, urgent, pending_tasks, dag_next_node_index, shared_vars>>
    BY <1>3 DEF SubmitWithDeps
  <2> QED BY <2>1, <2>2, <2>4, <2>5, <2>6, <2>7, RecordTypes DEF TypeOK, shared_vars
<1>4. ASSUME Wait \/ \E k \in Key : WaitForKey(k) PROVE TypeOK'
  <2>1. pc' \in {"flush", "wait", "register", "window", "client"}
    BY <1>4 DEF Wait, WaitForKey, AfterPublish, LoopOf
  <2>2. call' \in Call BY <1>4 DEF Wait, WaitForKey, Call
  <2>3. UNCHANGED <<outcome, owed, urgent, pending_tasks, dag_staging,
                    dag_next_node_index, latest_producer, shared_vars, history_vars>>
    BY <1>4 DEF Wait, WaitForKey
  <2> QED BY <2>1, <2>2, <2>3 DEF TypeOK, shared_vars, history_vars
<1>5. QED BY <1>1, <1>2, <1>3, <1>4 DEF Client

LEMMA PublishTypes ==
    ASSUME TypeOK, GraphInv, ControlInv,
           FlushDagStaging \/ FlushPendingTasks \/ NotifyWorkers
    PROVE  TypeOK'
<1>1. CASE FlushDagStaging
  <2> DEFINE initial == {i \in (Len(dag_nodes) + 1)..Len(dag_nodes') :
                            dag_nodes'[i].pending = 0}
  <2>1. dag_nodes' \in Seq(DagNode)
    BY <1>1, NodesAfterPublish DEF FlushDagStaging
  <2>2. Len(dag_nodes) \in Nat /\ Len(dag_staging) \in Nat /\ Len(dag_nodes') \in Nat
    BY <2>1, NodeTypes
  <2>3. IsFiniteSet(initial) /\ Cardinality(initial) \in Nat
    <3>1. IsFiniteSet((Len(dag_nodes) + 1)..Len(dag_nodes')) BY <2>2, FS_Interval
    <3>2. IsFiniteSet(initial) BY <3>1, FS_Subset
    <3> QED BY <3>2, FS_CardinalityType
  <2>4. \A i \in initial : EntryOf(dag_nodes', i) \in Entry
    <3>1. \A i \in initial : i \in 1..Len(dag_nodes') BY <2>2
    <3>2. \A i \in initial : dag_nodes'[i] \in DagNode BY <2>1, <3>1, ElementOfSeq
    <3> QED BY <2>2, <3>1, <3>2 DEF EntryOf, Entry, DagNode
  <2>5. /\ ready' = ready \cup {EntryOf(dag_nodes', i) : i \in initial}
        /\ owed' = Owed(Cardinality(initial))
        /\ urgent' \in BOOLEAN
    BY <1>1 DEF FlushDagStaging
  <2> HIDE DEF initial
  <2>6. ready' \subseteq Entry BY <2>4, <2>5 DEF TypeOK
  <2>7. owed' \in 0..Cardinality(Worker) BY <2>3, <2>5, OwedFacts
  <2>8. pc' \in {"notify", "flush", "wait", "register", "window", "client"}
    BY <1>1 DEF FlushDagStaging, AfterPublish, LoopOf
  <2>9. /\ pending_dag_tasks' = pending_dag_tasks + Len(dag_staging)
        /\ dag_next_node_index' = dag_next_node_index + Len(dag_staging)
        /\ dag_staging' = <<>>
        /\ UNCHANGED <<call, outcome, pending_tasks, latest_producer, active_tasks,
                       key_waiters, worker_error, sleeping, batch, history_vars>>
    BY <1>1 DEF FlushDagStaging
  <2>10. pending_dag_tasks' \in Nat /\ dag_next_node_index' \in Nat
    BY <2>2, <2>9 DEF TypeOK
  <2> QED BY <2>1, <2>5, <2>6, <2>7, <2>8, <2>9, <2>10 DEF TypeOK, history_vars
<1>2. CASE FlushPendingTasks
  <2>1. IsFiniteSet(pending_tasks) BY TaskAssumption, FS_Subset DEF TypeOK
  <2>2. owed' \in 0..Cardinality(Worker)
    BY <1>2, <2>1, OwedFacts, FS_CardinalityType DEF FlushPendingTasks
  <2>3. ready' \subseteq Entry BY <1>2 DEF FlushPendingTasks, TypeOK, Entry
  <2>4. /\ pc' = "notify" /\ pending_tasks' = {}
        /\ UNCHANGED <<call, outcome, urgent, dag_staging, dag_next_node_index,
                       latest_producer, dag_nodes, pending_dag_tasks, active_tasks,
                       key_waiters, worker_error, sleeping, batch, history_vars>>
    BY <1>2 DEF FlushPendingTasks
  <2> QED BY <2>2, <2>3, <2>4 DEF TypeOK, history_vars
<1>3. CASE NotifyWorkers
  <2>1. owed' \in 0..Cardinality(Worker)
    BY <1>3, WorkerCount DEF NotifyWorkers, TypeOK, ControlInv
  <2>2. sleeping' \subseteq Worker
    BY <1>3 DEF NotifyWorkers, NotifyOne, TypeOK
  <2>3. pc' \in {"notify", "flush", "wait", "register", "window", "client"}
    BY <1>3 DEF NotifyWorkers, AfterPublish, LoopOf
  <2>4. /\ urgent' = FALSE
        /\ UNCHANGED <<call, outcome, pending_tasks, dag_staging, dag_next_node_index,
                       latest_producer, dag_nodes, ready, pending_dag_tasks, active_tasks,
                       key_waiters, worker_error, batch, history_vars>>
    BY <1>3 DEF NotifyWorkers
  <2> QED BY <2>1, <2>2, <2>3, <2>4 DEF TypeOK, history_vars
<1>4. QED BY <1>1, <1>2, <1>3

LEMMA TakeTypes ==
    ASSUME TypeOK, GraphInv, MainTake \/ \E w \in Worker : WorkerTake(w)
    PROVE  TypeOK'
<1>1. ASSUME NEW p \in Participant, TakeReadyTasksLocked(p)
      PROVE  /\ ready' \subseteq Entry
             /\ batch' \in [Participant -> SUBSET Entry]
             /\ active_tasks' \in Nat
             /\ runs' \in [Task -> Nat]
  <2>1. PICK taken \in SUBSET Level(TopLevel) :
          /\ ready' = ready \ taken
          /\ batch' = [batch EXCEPT ![p] = taken]
          /\ active_tasks' = active_tasks + Cardinality(taken)
          /\ runs' = [t \in Task |-> IF t \in TasksOf(taken) THEN runs[t] + 1 ELSE runs[t]]
    BY <1>1 DEF TakeReadyTasksLocked
  <2>2. taken \subseteq ready BY DEF Level
  <2>3. Cardinality(taken) \in Nat
    BY <2>2, QueuedIsFinite, FS_Subset, FS_CardinalityType DEF GraphInv
  <2>4. taken \subseteq Entry /\ ready \subseteq Entry BY <2>2 DEF TypeOK
  <2>5. /\ batch \in [Participant -> SUBSET Entry] /\ active_tasks \in Nat
        /\ runs \in [Task -> Nat]
    BY DEF TypeOK
  <2>6. runs' \in [Task -> Nat] BY <2>1, <2>5
  <2> QED BY <2>1, <2>3, <2>4, <2>5, <2>6
<1>2. CASE MainTake
  <2>1. TakeReadyTasksLocked(Main) /\ Main \in Participant
    BY <1>2 DEF MainTake, Participant
  <2>2. /\ pc' = "run"
        /\ UNCHANGED <<call, outcome, owed, urgent, pending_tasks, dag_staging,
                       dag_next_node_index, latest_producer, dag_nodes, pending_dag_tasks,
                       key_waiters, worker_error, sleeping, submitted, finished, after,
                       last_writer, thrown, reported>>
    BY <1>2 DEF MainTake
  <2> QED BY <1>1, <2>1, <2>2 DEF TypeOK
<1>3. ASSUME NEW w \in Worker, WorkerTake(w) PROVE TypeOK'
  <2>1. TakeReadyTasksLocked(w) /\ w \in Participant
    BY <1>3 DEF WorkerTake, Participant
  <2>2. UNCHANGED <<main_vars, dag_nodes, pending_dag_tasks, key_waiters, worker_error,
                    sleeping, submitted, finished, after, last_writer, thrown, reported>>
    BY <1>3 DEF WorkerTake
  <2> QED BY <1>1, <2>1, <2>2 DEF TypeOK, main_vars
<1>4. QED BY <1>2, <1>3

LEMMA LoopPcType == ASSUME TypeOK PROVE LoopPc \in {"key", "wait", "register", "window", "client"}
BY DEF LoopPc, LoopOf

LEMMA CompleteTypes ==
    ASSUME TypeOK, GraphInv, MainComplete \/ \E w \in Worker : WorkerComplete(w)
    PROVE  TypeOK'
<1>1. ASSUME NEW p \in Participant, Complete(p), dag_staging' = dag_staging
      PROVE  /\ dag_nodes' \in Seq(DagNode)
             /\ ready' \subseteq Entry
             /\ pending_dag_tasks' \in Nat
             /\ active_tasks' \in Nat
             /\ sleeping' \subseteq Worker
             /\ batch' \in [Participant -> SUBSET Entry]
             /\ finished' \subseteq Task
  <2> DEFINE done == NodesCompletedBy(batch[p])
             released == ReleasedBy(done)
  <2>1. /\ batch' = [batch EXCEPT ![p] = {}]
        /\ active_tasks' = active_tasks - Cardinality(batch[p])
        /\ dag_nodes' = NodesAfter(done)
        /\ pending_dag_tasks' = pending_dag_tasks - Cardinality(done)
        /\ ready' = ready \cup {EntryOf(dag_nodes, i) : i \in released}
        /\ \E woken \in Woken(Cardinality(released)) : sleeping' = sleeping \ woken
        /\ finished' = finished \cup TasksOf(batch[p])
    BY <1>1 DEF Complete
  <2>2. done \subseteq Incomplete BY CompletedNodes
  <2>3. dag_nodes' \in Seq(DagNode) BY <1>1, <2>1, <2>2, NodesAfterCompletion
  <2>4. released \subseteq Index BY <1>1, <2>1, ReleasedNodes
  <2> HIDE DEF done, released
  <2>5. pending_dag_tasks' \in Nat
    <3>1. /\ Cardinality(done) \in 0..Cardinality(Incomplete)
          /\ Cardinality(Incomplete) \in Nat
      BY <2>2, NodeSets, SubsetDifference, FS_CardinalityType
    <3> QED BY <2>1, <3>1 DEF GraphInv, CountersAreExact
  <2>6. active_tasks' \in Nat
    <3>1. batch[p] \subseteq InFlight /\ IsFiniteSet(InFlight)
      BY QueuedIsFinite DEF GraphInv
    <3>2. Cardinality(batch[p]) \in 0..Cardinality(InFlight) /\ Cardinality(InFlight) \in Nat
      BY <3>1, SubsetDifference, FS_CardinalityType
    <3> QED BY <2>1, <3>2 DEF GraphInv, CountersAreExact
  <2>7. ready' \subseteq Entry
    <3>1. ASSUME NEW i \in released PROVE EntryOf(dag_nodes, i) \in Entry
      <4>1. dag_nodes[i] \in DagNode /\ i \in Nat BY <2>4, NodeTypes
      <4> QED BY <4>1 DEF EntryOf, Entry, DagNode
    <3> QED BY <2>1, <3>1 DEF TypeOK
  <2>8. batch \in [Participant -> SUBSET Entry] BY DEF TypeOK
  <2>9. finished' \subseteq Task
    <3>1. \A e \in batch[p] : e.task \in Task BY <2>8 DEF Entry
    <3> QED BY <2>1, <3>1 DEF TypeOK, TasksOf
  <2>10. sleeping' \subseteq Worker BY <2>1 DEF TypeOK
  <2>11. batch' \in [Participant -> SUBSET Entry] BY <2>1, <2>8
  <2> QED BY <2>3, <2>5, <2>6, <2>7, <2>9, <2>10, <2>11
<1>2. CASE MainComplete
  <2>1. Complete(Main) /\ Main \in Participant
    BY <1>2 DEF MainComplete, Participant
  <2>2. /\ pc' \in {"key", "wait", "register", "window", "client"}
        /\ UNCHANGED <<call, outcome, owed, urgent, pending_tasks, dag_staging,
                       dag_next_node_index, latest_producer, key_waiters, worker_error,
                       submitted, runs, after, last_writer, thrown, reported>>
    BY <1>2, LoopPcType DEF MainComplete
  <2> QED BY <1>1, <2>1, <2>2 DEF TypeOK
<1>3. ASSUME NEW w \in Worker, WorkerComplete(w) PROVE TypeOK'
  <2>1. Complete(w) /\ w \in Participant
    BY <1>3 DEF WorkerComplete, Participant
  <2>2. /\ pc' \in {"key", "wait", "register", "window", "client", pc}
        /\ UNCHANGED <<call, outcome, owed, urgent, pending_tasks, dag_staging,
                       dag_next_node_index, latest_producer, key_waiters, worker_error,
                       submitted, runs, after, last_writer, thrown, reported>>
    BY <1>3, LoopPcType DEF WorkerComplete
  <2> QED BY <1>1, <2>1, <2>2 DEF TypeOK
<1>4. QED BY <1>2, <1>3

LEMMA WaitTypes ==
    ASSUME TypeOK, ControlInv,
           \/ RegisterKeyWaiter \/ MainSleep \/ MainSpuriousWake
           \/ WindowReturn \/ WaitReturn \/ KeyReturn
    PROVE  TypeOK'
<1>1. CASE RegisterKeyWaiter
  BY <1>1 DEF RegisterKeyWaiter, TypeOK, ControlInv, history_vars
<1>2. CASE MainSleep \/ WindowReturn
  BY <1>2 DEF MainSleep, WindowReturn, TypeOK, shared_vars, history_vars
<1>3. CASE MainSpuriousWake
  <2>1. /\ pc' \in {"key", "wait", "register", "window", "client"}
        /\ UNCHANGED <<call, outcome, owed, urgent, pending_tasks, dag_staging,
                       dag_next_node_index, latest_producer, shared_vars, history_vars>>
    BY <1>3, LoopPcType DEF MainSpuriousWake
  <2> QED BY <2>1 DEF TypeOK, shared_vars, history_vars
<1>4. ASSUME ReportError
      PROVE  /\ outcome' \in {"ok", "error"}
             /\ worker_error' \in Task \cup {NoTask}
             /\ thrown \subseteq Task => reported' \subseteq Task
  BY <1>4 DEF ReportError, TypeOK
<1>5. CASE WaitReturn
  <2>1. /\ pc' = "client"
        /\ UNCHANGED <<call, owed, urgent, pending_tasks, dag_staging, ready,
                       pending_dag_tasks, active_tasks, key_waiters, sleeping, batch,
                       submitted, finished, runs, after, last_writer, thrown>>
    BY <1>5 DEF WaitReturn
  <2>2. CASE pending_dag_tasks = 0
    <3>1. ClearCompletedDagStateLocked /\ ReportError BY <1>5, <2>2 DEF WaitReturn
    <3>2. /\ dag_nodes' \in Seq(DagNode) /\ latest_producer' \in [Key -> Nat]
          /\ dag_next_node_index' \in Nat
      BY <3>1 DEF ClearCompletedDagStateLocked
    <3> QED BY <1>4, <2>1, <3>1, <3>2 DEF TypeOK
  <2>3. CASE pending_dag_tasks # 0
    BY <1>5, <2>1, <2>3 DEF WaitReturn, TypeOK
  <2> QED BY <2>2, <2>3
<1>6. CASE KeyReturn
  <2>1. /\ pc' = "client"
        /\ key_waiters' = key_waiters - 1
        /\ UNCHANGED <<call, owed, urgent, pending_tasks, dag_staging, dag_next_node_index,
                       latest_producer, dag_nodes, ready, pending_dag_tasks, active_tasks,
                       sleeping, batch, submitted, finished, runs, after, last_writer, thrown>>
    BY <1>6 DEF KeyReturn
  <2>2. key_waiters' \in 0..1 BY <1>6, <2>1 DEF KeyReturn, ControlInv
  <2>3. CASE KeyCompleted(call.key)
    BY <1>4, <1>6, <2>1, <2>2, <2>3 DEF KeyReturn, TypeOK
  <2>4. CASE ~KeyCompleted(call.key)
    BY <1>6, <2>1, <2>2, <2>4 DEF KeyReturn, TypeOK
  <2> QED BY <2>3, <2>4
<1>7. QED BY <1>1, <1>2, <1>3, <1>5, <1>6

\* Every step keeps every variable in its type.
LEMMA TypeStep ==
    ASSUME TypeOK, GraphInv, ControlInv, [Next]_vars
    PROVE  TypeOK'
<1>1. CASE Client BY <1>1, ClientTypes
<1>2. CASE FlushDagStaging \/ FlushPendingTasks \/ NotifyWorkers BY <1>2, PublishTypes
<1>3. CASE MainTake \/ \E w \in Worker : WorkerTake(w) BY <1>3, TakeTypes
<1>4. CASE MainComplete \/ \E w \in Worker : WorkerComplete(w) BY <1>4, CompleteTypes
<1>5. CASE \/ RegisterKeyWaiter \/ MainSleep \/ MainSpuriousWake
           \/ WindowReturn \/ WaitReturn \/ KeyReturn
  BY <1>5, WaitTypes
<1>6. CASE \E w \in Worker : WorkerSleep(w) \/ WorkerSpuriousWake(w)
  <2>1. /\ sleeping' \subseteq Worker
        /\ UNCHANGED <<main_vars, dag_nodes, ready, pending_dag_tasks, active_tasks,
                       key_waiters, worker_error, batch, history_vars>>
    BY <1>6 DEF WorkerSleep, WorkerSpuriousWake, TypeOK
  <2> QED BY <2>1 DEF TypeOK, main_vars, history_vars
<1>7. CASE \E p \in Participant : Throw(p)
  <2>1. /\ thrown' \subseteq Task /\ worker_error' \in Task \cup {NoTask}
        /\ UNCHANGED <<main_vars, dag_nodes, ready, pending_dag_tasks, active_tasks,
                       key_waiters, sleeping, batch, submitted, finished, runs, after,
                       last_writer, reported>>
    BY <1>7, SizeAssumption DEF Throw, TypeOK
  <2> QED BY <2>1 DEF TypeOK, main_vars
<1>8. CASE UNCHANGED vars
  BY <1>8 DEF TypeOK, vars, main_vars, shared_vars, history_vars
<1> QED
  BY <1>1, <1>2, <1>3, <1>4, <1>5, <1>6, <1>7, <1>8 DEF Next, MainStep, WorkerStep

-----------------------------------------------------------------------------
(* Control. *)

\* Where Main goes after a publish agrees with the call it is in.
LEMMA AfterPublishFacts ==
    ASSUME NEW op \in {"submit", "submit_deps", "wait", "wait_key"},
           NEW staging, NEW pending,
           NEW next, next = AfterPublish(op, staging, pending)
    PROVE  /\ next \in {"flush", "wait", "register", "window", "client"}
           /\ next = "flush" => StillToPublish(op, staging, pending)
           /\ next = "wait" => op = "wait"
           /\ next = "register" => op = "wait_key"
           /\ next = "window" => op = "submit_deps" /\ MaxLiveWindow # 0
           /\ next = "client" => op \in {"submit", "submit_deps"}
           /\ next \in {"wait", "register"} => staging = <<>> /\ pending = {}
BY DEF AfterPublish, StillToPublish, LoopOf

\* The loop of the call Main is in.
LEMMA LoopPcFacts ==
    /\ LoopPc = "key" <=> call.op = "wait_key"
    /\ LoopPc = "wait" <=> call.op = "wait"
    /\ LoopPc = "window" <=> call.op = "submit_deps" /\ MaxLiveWindow # 0
BY DEF LoopPc, LoopOf

LEMMA FairShare ==
    ASSUME NEW a \in Nat, NEW b \in Nat \ {0}, a > 2 * b
    PROVE  a \div b # 0
BY SMTT(30)

\* A batch is never empty.
LEMMA BatchIsNotEmpty ==
    ASSUME TypeOK, GraphInv, NEW p \in Participant, TakeReadyTasksLocked(p)
    PROVE  batch'[p] # {}
<1>1. PICK taken \in SUBSET Level(TopLevel) :
        /\ Cardinality(taken) = BatchCount
        /\ batch' = [batch EXCEPT ![p] = taken]
  BY DEF TakeReadyTasksLocked
<1>2. BatchCount # 0
  <2> DEFINE available == Cardinality(Level(TopLevel))
  <2>1. available \in Nat
    <3>1. Level(TopLevel) \subseteq ready /\ IsFiniteSet(ready)
      BY QueuedIsFinite DEF GraphInv, Level
    <3> QED BY <3>1, FS_Subset, FS_CardinalityType
  <2>2. Participants \in Nat \ {0} BY WorkerCount DEF Participants
  <2>3. TaskBatchSize \in Nat \ {0} BY SizeAssumption
  <2> HIDE DEF available
  <2>4. ChooseBatchCount(available) # 0
    BY <2>1, <2>2, <2>3, FairShare DEF ChooseBatchCount
  <2> QED BY <2>4 DEF BatchCount, available
<1>3. taken # {} BY <1>1, <1>2, FS_EmptySet
<1>4. QED BY <1>1, <1>3 DEF TypeOK

LEMMA InitControl == Init => ControlInv
<1> SUFFICES ASSUME Init PROVE ControlInv OBVIOUS
<1>1. Main \in Participant BY DEF Participant
<1> QED BY <1>1 DEF Init, ControlInv

LEMMA ClientControl ==
    ASSUME TypeOK, ControlInv, Client
    PROVE  ControlInv'
<1>1. pc = "client" BY DEF Client, Submit, EnqueueTask, SubmitWithDeps, Wait, WaitForKey
<1>2. /\ ~(owed > 0) /\ urgent = FALSE /\ batch[Main] = {} /\ key_waiters # 1
      /\ \A w \in sleeping : batch[w] = {}
  BY <1>1 DEF ControlInv, TypeOK
<1>3. UNCHANGED <<urgent, batch, key_waiters, sleeping>>
  BY DEF Client, Submit, EnqueueTask, SubmitWithDeps, Wait, WaitForKey, shared_vars
<1>4. ASSUME NEW t \in Task, Submit(t) PROVE ControlInv'
  <2>1. pending_tasks' # {} /\ call' = [op |-> "submit", key |-> NoKey] /\ owed' = owed
        /\ pc' \in {"flush", "client"}
    BY <1>4 DEF Submit
  <2>2. StillToPublish(call'.op, dag_staging', pending_tasks')
    BY <2>1 DEF StillToPublish
  <2> QED BY <1>2, <1>3, <2>1, <2>2 DEF ControlInv
<1>5. ASSUME NEW t \in Task, EnqueueTask(t) PROVE ControlInv'
  <2>1. /\ call' = [op |-> "submit", key |-> NoKey]
        /\ pc' = IF owed' > 0 THEN "notify" ELSE "client"
    BY <1>5 DEF EnqueueTask
  <2> QED BY <1>2, <1>3, <2>1 DEF ControlInv
<1>6. ASSUME NEW t \in Task, NEW r \in Requests, SubmitWithDeps(t, r) PROVE ControlInv'
  <2>1. dag_staging' # <<>>
    <3>1. dag_staging \in Seq(StagedSubmit) BY DEF TypeOK
    <3> DEFINE e == [task |-> t, dep_nodes |-> {latest_producer[k] : k \in r.deps} \ {0},
                     priority |-> r.priority]
    <3>2. dag_staging' = Append(dag_staging, e) BY <1>6 DEF SubmitWithDeps
    <3> HIDE DEF e
    <3>3. Len(dag_staging') = Len(dag_staging) + 1 /\ Len(dag_staging) \in Nat
      BY <3>1, <3>2
    <3> QED BY <3>3
  <2>2. call' = [op |-> "submit_deps", key |-> NoKey] /\ owed' = owed
        /\ pc' \in {"flush", "client"}
    BY <1>6 DEF SubmitWithDeps
  <2>3. StillToPublish(call'.op, dag_staging', pending_tasks')
    BY <2>1 DEF StillToPublish
  <2> QED BY <1>2, <1>3, <2>2, <2>3 DEF ControlInv
<1>7. ASSUME NEW op \in {"wait", "wait_key"}, NEW k,
             op = "wait_key" => k \in Key,
             call' = [op |-> op, key |-> k],
             pc' = AfterPublish(op, dag_staging, pending_tasks),
             UNCHANGED <<owed, pending_tasks, dag_staging>>
      PROVE  ControlInv'
  <2>1. call'.op = op /\ call'.key = k BY <1>7
  <2>2. /\ pc' \in {"flush", "wait", "register"}
        /\ pc' = "flush" => StillToPublish(op, dag_staging, pending_tasks)
        /\ pc' = "wait" => op = "wait"
        /\ pc' = "register" => op = "wait_key"
        /\ pc' \in {"wait", "register"} => dag_staging = <<>> /\ pending_tasks = {}
    BY <1>7, AfterPublishFacts
  <2>3. /\ LoopPc' = "key" <=> call'.op = "wait_key"
        /\ LoopPc' = "wait" <=> call'.op = "wait"
    BY DEF LoopPc, LoopOf
  <2> QED BY <1>2, <1>3, <1>7, <2>1, <2>2, <2>3 DEF ControlInv, StillToPublish
<1>8. CASE Wait BY <1>7, <1>8 DEF Wait
<1>9. ASSUME NEW k \in Key, WaitForKey(k) PROVE ControlInv'
  BY <1>7, <1>9 DEF WaitForKey
<1>10. QED BY <1>4, <1>5, <1>6, <1>8, <1>9 DEF Client

\* After a publish, before and after its notifications.
LEMMA PublishControl ==
    ASSUME TypeOK, ControlInv, pc \in {"flush", "notify"},
           pc' = IF owed' > 0 THEN "notify"
                 ELSE AfterPublish(call.op, dag_staging', pending_tasks'),
           urgent' => owed' > 0, sleeping' \subseteq sleeping,
           UNCHANGED <<call, batch, key_waiters>>
    PROVE  ControlInv'
<1>1. /\ batch[Main] = {} /\ key_waiters # 1
      /\ \A w \in sleeping : batch[w] = {}
      /\ call.op \in {"submit", "submit_deps", "wait", "wait_key"}
      /\ call.op = "wait_key" => call.key \in Key
  <2>1. call.op # "none" BY DEF ControlInv
  <2>2. call.op \in {"none", "submit", "submit_deps", "wait", "wait_key"}
    BY DEF TypeOK, Call
  <2> QED BY <2>1, <2>2 DEF ControlInv
<1>2. /\ LoopPc' = "key" <=> call.op = "wait_key"
      /\ LoopPc' = "wait" <=> call.op = "wait"
      /\ LoopPc' = "window" <=> call.op = "submit_deps" /\ MaxLiveWindow # 0
  BY LoopPcFacts DEF LoopPc
<1>3. CASE owed' > 0
  <2>1. pc' = "notify" BY <1>3
  <2> QED BY <1>1, <1>3, <2>1 DEF ControlInv
<1>4. CASE ~(owed' > 0)
  <2>1. pc' = AfterPublish(call.op, dag_staging', pending_tasks') BY <1>4
  <2>2. /\ pc' \in {"flush", "wait", "register", "window", "client"}
        /\ pc' = "flush" => StillToPublish(call.op, dag_staging', pending_tasks')
        /\ pc' = "wait" => call.op = "wait"
        /\ pc' = "register" => call.op = "wait_key"
        /\ pc' = "window" => call.op = "submit_deps" /\ MaxLiveWindow # 0
        /\ pc' \in {"wait", "register"} => dag_staging' = <<>> /\ pending_tasks' = {}
    BY <1>1, <2>1, AfterPublishFacts
  <2> QED BY <1>1, <1>2, <1>4, <2>2 DEF ControlInv, StillToPublish
<1> QED BY <1>3, <1>4

LEMMA FlushDagControl ==
    ASSUME TypeOK, GraphInv, ControlInv, FlushDagStaging
    PROVE  ControlInv'
<1> DEFINE initial == {i \in (Len(dag_nodes) + 1)..Len(dag_nodes') :
                         dag_nodes'[i].pending = 0}
<1>1. /\ owed' = Owed(Cardinality(initial))
      /\ urgent' = (\E i \in initial : dag_nodes'[i].priority > 0)
  BY DEF FlushDagStaging
<1>2. IsFiniteSet(initial)
  <2>1. (Len(dag_nodes) + 1)..Len(dag_nodes') \subseteq 0..Len(dag_nodes')
        /\ Len(dag_nodes) \in Nat /\ Len(dag_nodes') \in Nat
    <3>1. dag_nodes' \in Seq(DagNode) /\ dag_nodes \in Seq(DagNode)
      BY PublishTypes DEF TypeOK
    <3>2. Len(dag_nodes) \in Nat /\ Len(dag_nodes') \in Nat BY <3>1
    <3> QED BY <3>2
  <2>2. IsFiniteSet(0..Len(dag_nodes')) BY <2>1, FS_Interval
  <2> QED BY <2>1, <2>2, FS_Subset
<1>3. urgent' => owed' > 0
  <2>1. urgent' => initial # {} BY <1>1
  <2> HIDE DEF initial
  <2>2. Cardinality(initial) \in Nat BY <1>2, FS_CardinalityType
  <2>3. initial # {} => Cardinality(initial) > 0 BY <1>2, <2>2, FS_EmptySet
  <2> QED BY <1>1, <2>1, <2>2, <2>3, OwedFacts
<1> QED BY <1>3, PublishControl DEF FlushDagStaging

LEMMA FlushPendingControl ==
    ASSUME TypeOK, ControlInv, FlushPendingTasks
    PROVE  ControlInv'
<1>1. pending_tasks # {} BY DEF FlushPendingTasks, ControlInv, StillToPublish
<1>2. IsFiniteSet(pending_tasks) BY TaskAssumption, FS_Subset DEF TypeOK
<1>3. Cardinality(pending_tasks) \in Nat /\ Cardinality(pending_tasks) # 0
  BY <1>1, <1>2, FS_CardinalityType, FS_EmptySet
<1>4. owed' = Owed(Cardinality(pending_tasks)) BY DEF FlushPendingTasks
<1>5. owed' > 0 BY <1>3, <1>4, OwedFacts
<1> QED BY <1>5, PublishControl DEF FlushPendingTasks

LEMMA NotifyControl ==
    ASSUME TypeOK, ControlInv, NotifyWorkers
    PROVE  ControlInv'
<1>1. sleeping' \subseteq sleeping BY DEF NotifyWorkers, NotifyOne
<1>2. urgent' => owed' > 0 BY DEF NotifyWorkers
<1> QED BY <1>1, <1>2, PublishControl DEF NotifyWorkers

\* Taking a batch.
LEMMA TakeControl ==
    ASSUME TypeOK, GraphInv, ControlInv,
           MainTake \/ \E w \in Worker : WorkerTake(w)
    PROVE  ControlInv'
<1>1. LoopPc' = LoopPc
  BY DEF MainTake, WorkerTake, LoopPc, main_vars
<1>2. CASE MainTake
  <2>1. Main \in Participant BY DEF Participant
  <2>2. TakeReadyTasksLocked(Main) BY <1>2 DEF MainTake
  <2>3. batch'[Main] # {} BY <2>1, <2>2, BatchIsNotEmpty
  <2>4. \A w \in sleeping : batch'[w] = {}
    <3>1. PICK taken : batch' = [batch EXCEPT ![Main] = taken]
      BY <2>2 DEF TakeReadyTasksLocked
    <3>2. \A w \in sleeping : w # Main /\ w \in Participant /\ batch[w] = {}
      BY WorkerAssumption DEF ControlInv, TypeOK, Participant
    <3> QED BY <3>1, <3>2 DEF TypeOK
  <2>5. pc \in {"wait", "key", "window"} /\ LoopPc = pc /\ pc' = "run"
    BY <1>2 DEF MainTake, MainHelps, ControlInv
  <2> QED BY <1>1, <1>2, <2>3, <2>4, <2>5 DEF MainTake, ControlInv
<1>3. ASSUME NEW w \in Worker, WorkerTake(w) PROVE ControlInv'
  <2>1. PICK taken : batch' = [batch EXCEPT ![w] = taken]
    BY <1>3 DEF WorkerTake, TakeReadyTasksLocked
  <2>2. w # Main /\ Main \in Participant BY WorkerAssumption DEF Participant
  <2>3. batch'[Main] = batch[Main] BY <2>1, <2>2 DEF TypeOK
  <2>4. \A v \in sleeping : batch'[v] = {}
    <3>1. \A v \in sleeping : v # w /\ v \in Participant /\ batch[v] = {}
      BY <1>3 DEF WorkerTake, ControlInv, TypeOK, Participant
    <3> QED BY <2>1, <3>1 DEF TypeOK
  <2> QED BY <1>1, <1>3, <2>3, <2>4 DEF WorkerTake, ControlInv, main_vars
<1> QED BY <1>2, <1>3

\* Completing a batch.
LEMMA CompleteControl ==
    ASSUME TypeOK, ControlInv,
           MainComplete \/ \E w \in Worker : WorkerComplete(w)
    PROVE  ControlInv'
<1>1. LoopPc' = LoopPc
  BY DEF MainComplete, WorkerComplete, LoopPc
<1>2. ASSUME NEW p \in Participant, Complete(p)
      PROVE  /\ batch' = [batch EXCEPT ![p] = {}]
             /\ sleeping' \subseteq sleeping
             /\ \A w \in sleeping' : batch'[w] = {}
  <2>1. batch' = [batch EXCEPT ![p] = {}] /\ sleeping' \subseteq sleeping
    BY <1>2 DEF Complete
  <2>2. \A w \in sleeping : batch[w] = {} /\ w \in Participant
    BY DEF ControlInv, TypeOK, Participant
  <2> QED BY <2>1, <2>2 DEF TypeOK
<1>3. Main \in Participant BY DEF Participant
<1>4. CASE MainComplete
  <2>1. Complete(Main) BY <1>4 DEF MainComplete
  <2>2. batch'[Main] = {} BY <1>2, <1>3, <2>1 DEF TypeOK
  <2>3. \A w \in sleeping' : batch'[w] = {} BY <1>2, <1>3, <2>1
  <2>4. pc = "run" /\ pc' = LoopPc /\ LoopPc \in {"wait", "key", "window"}
    BY <1>4 DEF MainComplete, ControlInv
  <2> QED BY <1>1, <1>4, <2>2, <2>3, <2>4 DEF MainComplete, ControlInv
<1>5. ASSUME NEW w \in Worker, WorkerComplete(w) PROVE ControlInv'
  <2>1. w # Main /\ w \in Participant BY WorkerAssumption DEF Participant
  <2>2. Complete(w) BY <1>5 DEF WorkerComplete
  <2>3. batch'[Main] = batch[Main] BY <1>2, <1>3, <2>1, <2>2 DEF TypeOK
  <2>4. \A v \in sleeping' : batch'[v] = {} BY <1>2, <2>1, <2>2
  <2>5. \/ pc' = pc
        \/ pc = "asleep" /\ pc' = LoopPc /\ LoopPc \in {"wait", "key"}
    BY <1>5 DEF WorkerComplete, ControlInv
  <2> QED BY <1>1, <1>5, <2>3, <2>4, <2>5 DEF WorkerComplete, ControlInv
<1> QED BY <1>4, <1>5

\* Waiting.
LEMMA WaitControl ==
    ASSUME TypeOK, ControlInv,
           \/ RegisterKeyWaiter \/ MainSleep \/ MainSpuriousWake
           \/ WindowReturn \/ WaitReturn \/ KeyReturn
    PROVE  ControlInv'
<1>1. LoopPc' = LoopPc /\ UNCHANGED <<owed, urgent, batch, sleeping, call, pending_tasks, dag_staging>>
  BY DEF RegisterKeyWaiter, MainSleep, MainSpuriousWake, WindowReturn, WaitReturn,
         KeyReturn, LoopPc, shared_vars
<1>2. key_waiters \in 0..1 BY DEF TypeOK
<1>3. CASE RegisterKeyWaiter
  <2>1. pc = "register" /\ pc' = "key" /\ key_waiters' = key_waiters + 1 /\ LoopPc = "key"
    BY <1>3 DEF RegisterKeyWaiter, ControlInv
  <2>2. key_waiters' = 1 BY <1>2, <2>1 DEF ControlInv
  <2> QED BY <1>1, <2>1, <2>2 DEF ControlInv
<1>4. CASE MainSleep
  <2>1. pc \in {"wait", "key"} /\ LoopPc = pc /\ pc' = "asleep" /\ key_waiters' = key_waiters
    BY <1>4 DEF MainSleep, ControlInv, shared_vars
  <2> QED BY <1>1, <2>1 DEF ControlInv
<1>5. CASE MainSpuriousWake
  <2>1. pc = "asleep" /\ pc' = LoopPc /\ LoopPc \in {"wait", "key"}
        /\ key_waiters' = key_waiters
    BY <1>5 DEF MainSpuriousWake, ControlInv, shared_vars
  <2> QED BY <1>1, <2>1 DEF ControlInv
<1>6. CASE WindowReturn
  <2>1. pc = "window" /\ pc' = "client" /\ key_waiters' = key_waiters
    BY <1>6 DEF WindowReturn, shared_vars
  <2> QED BY <1>1, <2>1 DEF ControlInv
<1>7. CASE WaitReturn
  <2>1. pc = "wait" /\ pc' = "client" /\ key_waiters' = key_waiters
    BY <1>7 DEF WaitReturn
  <2> QED BY <1>1, <2>1 DEF ControlInv
<1>8. CASE KeyReturn
  <2>1. pc = "key" /\ pc' = "client" /\ key_waiters' = key_waiters - 1
    BY <1>8 DEF KeyReturn
  <2>2. key_waiters' # 1 BY <1>2, <2>1
  <2> QED BY <1>1, <2>1, <2>2 DEF ControlInv
<1> QED BY <1>3, <1>4, <1>5, <1>6, <1>7, <1>8

LEMMA ControlStep ==
    ASSUME TypeOK, GraphInv, ControlInv, [Next]_vars
    PROVE  ControlInv'
<1>1. CASE Client BY <1>1, ClientControl
<1>2. CASE FlushDagStaging \/ FlushPendingTasks \/ NotifyWorkers
  BY <1>2, FlushDagControl, FlushPendingControl, NotifyControl
<1>3. CASE MainTake \/ \E w \in Worker : WorkerTake(w) BY <1>3, TakeControl
<1>4. CASE MainComplete \/ \E w \in Worker : WorkerComplete(w) BY <1>4, CompleteControl
<1>5. CASE \/ RegisterKeyWaiter \/ MainSleep \/ MainSpuriousWake
           \/ WindowReturn \/ WaitReturn \/ KeyReturn
  BY <1>5, WaitControl
<1>6. ASSUME NEW w \in Worker, WorkerSleep(w) \/ WorkerSpuriousWake(w)
      PROVE  ControlInv'
  <2>1. /\ \A v \in sleeping' : batch[v] = {}
        /\ UNCHANGED <<main_vars, batch, key_waiters>>
    BY <1>6 DEF WorkerSleep, WorkerSpuriousWake, ControlInv
  <2> QED BY <2>1 DEF ControlInv, main_vars, LoopPc
<1>7. CASE UNCHANGED vars \/ \E p \in Participant : Throw(p)
  <2>1. UNCHANGED <<main_vars, batch, key_waiters, sleeping>>
    BY <1>7 DEF vars, shared_vars, Throw
  <2> QED BY <2>1 DEF ControlInv, main_vars, LoopPc
<1> QED BY <1>1, <1>2, <1>3, <1>4, <1>5, <1>6, <1>7 DEF Next, MainStep, WorkerStep

-----------------------------------------------------------------------------
(* Waking. *)

\* One notification wakes a worker if all of them sleep.
LEMMA WokenFacts ==
    ASSUME TypeOK, NEW n \in Nat \ {0}, NEW woken \in Woken(n)
    PROVE  sleeping \ woken # Worker
<1>1. sleeping \subseteq Worker BY DEF TypeOK
<1>2. CASE sleeping # Worker BY <1>1, <1>2
<1>3. CASE sleeping = Worker
  <2>1. woken # {}
    <3>1. CASE n >= Cardinality(Worker)
      BY <1>3, <3>1, WorkerAssumption DEF Woken
    <3>2. CASE ~(n >= Cardinality(Worker))
      <4>1. Cardinality(woken) = n BY <1>3, <3>2, WorkerCount DEF Woken
      <4> QED BY <4>1, FS_EmptySet
    <3> QED BY <3>1, <3>2
  <2>2. woken \subseteq sleeping BY DEF Woken
  <2> QED BY <1>3, <2>1, <2>2
<1> QED BY <1>2, <1>3

LEMMA ClientWake ==
    ASSUME TypeOK, ControlInv, NoStrandedWork, Client
    PROVE  NoStrandedWork'
<1>1. CASE UNCHANGED <<ready, sleeping, owed>> BY <1>1 DEF NoStrandedWork
<1>2. ASSUME NEW t \in Task, EnqueueTask(t) PROVE NoStrandedWork'
  <2> DEFINE entry == [task |-> t, dag_node |-> 0, priority |-> 0]
  <2>1. /\ ready' = ready \cup {entry} /\ sleeping' = sleeping
        /\ owed' = IF Cardinality(ready') <= Cardinality(Worker) THEN Owed(1) ELSE 0
    BY <1>2 DEF EnqueueTask
  <2> HIDE DEF entry
  <2>2. CASE ready # {}
    <3>1. ~(owed > 0) BY <1>2 DEF EnqueueTask, ControlInv
    <3> QED BY <2>1, <2>2, <3>1 DEF NoStrandedWork
  <2>3. CASE ready = {}
    <3>1. Cardinality(ready') = 1 BY <2>1, <2>3, FS_Singleton
    <3>2. owed' = Owed(1) BY <2>1, <3>1, WorkerCount
    <3>3. owed' > 0 BY <3>2, OwedFacts
    <3> QED BY <3>3 DEF NoStrandedWork
  <2> QED BY <2>2, <2>3
<1> QED
  BY <1>1, <1>2 DEF Client, Submit, SubmitWithDeps, Wait, WaitForKey, shared_vars

LEMMA PublishWake ==
    ASSUME TypeOK, GraphInv, ControlInv, NoStrandedWork,
           FlushDagStaging \/ FlushPendingTasks \/ NotifyWorkers
    PROVE  NoStrandedWork'
<1>1. CASE FlushDagStaging
  <2> DEFINE initial == {i \in (Len(dag_nodes) + 1)..Len(dag_nodes') :
                           dag_nodes'[i].pending = 0}
  <2>1. /\ ready' = ready \cup {EntryOf(dag_nodes', i) : i \in initial}
        /\ owed' = Owed(Cardinality(initial))
        /\ sleeping' = sleeping
    BY <1>1 DEF FlushDagStaging
  <2>2. ~(owed > 0) BY <1>1 DEF FlushDagStaging, ControlInv
  <2>3. IsFiniteSet(initial)
    <3>1. TypeOK' BY <1>1, PublishTypes
    <3>2. dag_nodes \in Seq(DagNode) /\ dag_nodes' \in Seq(DagNode) BY <3>1 DEF TypeOK
    <3>3. Len(dag_nodes) \in Nat /\ Len(dag_nodes') \in Nat BY <3>2
    <3>4. IsFiniteSet((Len(dag_nodes) + 1)..Len(dag_nodes')) BY <3>3, FS_Interval
    <3> QED BY <3>4, FS_Subset
  <2> HIDE DEF initial
  <2>4. initial # {} => owed' > 0
    <3>1. Cardinality(initial) \in Nat /\ (initial # {} => Cardinality(initial) # 0)
      BY <2>3, FS_CardinalityType, FS_EmptySet
    <3> QED BY <2>1, <3>1, OwedFacts
  <2> QED BY <2>1, <2>2, <2>4 DEF NoStrandedWork
<1>2. CASE FlushPendingTasks
  <2>1. FlushPendingTasks BY <1>2
  <2>2. ControlInv' BY <2>1, FlushPendingControl
  <2>3. pc' = "notify" BY <2>1 DEF FlushPendingTasks
  <2> QED BY <2>2, <2>3 DEF ControlInv, NoStrandedWork
<1>3. CASE NotifyWorkers
  <2>1. ready' = ready /\ sleeping' \subseteq sleeping /\ sleeping \subseteq Worker
    BY <1>3 DEF NotifyWorkers, NotifyOne, TypeOK
  <2>2. CASE urgent /\ UNCHANGED owed
    BY <2>2 DEF NoStrandedWork, ControlInv
  <2>3. CASE sleeping' = {} BY <2>3, WorkerAssumption DEF NoStrandedWork
  <2>4. CASE NotifyOne
    <3>1. PICK woken \in Woken(1) : sleeping' = sleeping \ woken BY <2>4 DEF NotifyOne
    <3>2. sleeping' # Worker BY <3>1, WokenFacts
    <3> QED BY <3>2 DEF NoStrandedWork
  <2> QED BY <1>3, <2>2, <2>3, <2>4 DEF NotifyWorkers
<1> QED BY <1>1, <1>2, <1>3

LEMMA CompleteWake ==
    ASSUME TypeOK, GraphInv, NoStrandedWork,
           NEW p \in Participant, Complete(p), UNCHANGED <<owed, dag_staging>>
    PROVE  NoStrandedWork'
<1> DEFINE released == ReleasedBy(NodesCompletedBy(batch[p]))
<1>1. /\ ready' = ready \cup {EntryOf(dag_nodes, i) : i \in released}
      /\ \E woken \in Woken(Cardinality(released)) : sleeping' = sleeping \ woken
      /\ dag_nodes' = NodesAfter(NodesCompletedBy(batch[p]))
  BY DEF Complete
<1>2. IsFiniteSet(released)
  <2>1. released \subseteq Index BY <1>1, ReleasedNodes
  <2> QED BY <2>1, NodeSets, FS_Subset
<1> HIDE DEF released
<1>3. PICK woken \in Woken(Cardinality(released)) : sleeping' = sleeping \ woken
  BY <1>1
<1>4. CASE released = {}
  <2>1. ready' = ready BY <1>1, <1>4
  <2>2. sleeping' \subseteq sleeping /\ sleeping \subseteq Worker BY <1>3 DEF TypeOK
  <2> QED BY <2>1, <2>2 DEF NoStrandedWork
<1>5. CASE released # {}
  <2>1. Cardinality(released) \in Nat \ {0}
    BY <1>2, <1>5, FS_CardinalityType, FS_EmptySet
  <2>2. sleeping' # Worker BY <1>3, <2>1, WokenFacts
  <2> QED BY <2>2 DEF NoStrandedWork
<1> QED BY <1>4, <1>5

LEMMA WakeStep ==
    ASSUME TypeOK, GraphInv, ControlInv, NoStrandedWork, [Next]_vars
    PROVE  NoStrandedWork'
<1>1. CASE Client BY <1>1, ClientWake
<1>2. CASE FlushDagStaging \/ FlushPendingTasks \/ NotifyWorkers BY <1>2, PublishWake
<1>3. CASE MainTake \/ \E w \in Worker : WorkerTake(w)
  <2>1. ready' \subseteq ready /\ sleeping' = sleeping /\ owed' = owed
    BY <1>3 DEF MainTake, WorkerTake, TakeReadyTasksLocked, main_vars
  <2> QED BY <2>1 DEF NoStrandedWork
<1>4. CASE MainComplete
  BY <1>4, CompleteWake DEF MainComplete, Participant
<1>5. ASSUME NEW w \in Worker, WorkerComplete(w) PROVE NoStrandedWork'
  BY <1>5, CompleteWake DEF WorkerComplete, Participant
<1>6. ASSUME NEW w \in Worker, WorkerSleep(w) PROVE NoStrandedWork'
  BY <1>6 DEF WorkerSleep, NoStrandedWork
<1>7. ASSUME NEW w \in Worker, WorkerSpuriousWake(w) PROVE NoStrandedWork'
  BY <1>7 DEF WorkerSpuriousWake, NoStrandedWork
<1>8. CASE \/ RegisterKeyWaiter \/ MainSleep \/ MainSpuriousWake
           \/ WindowReturn \/ WaitReturn \/ KeyReturn
           \/ UNCHANGED vars \/ \E p \in Participant : Throw(p)
  <2>1. UNCHANGED <<ready, sleeping, owed>>
    BY <1>8 DEF RegisterKeyWaiter, MainSleep, MainSpuriousWake, WindowReturn, WaitReturn,
                KeyReturn, Throw, vars, main_vars, shared_vars
  <2> QED BY <2>1 DEF NoStrandedWork
<1> QED
  BY <1>1, <1>2, <1>3, <1>4, <1>5, <1>6, <1>7, <1>8 DEF Next, MainStep, WorkerStep

-----------------------------------------------------------------------------
(* The graph, step by step, and the inductive invariant. *)

LEMMA GraphStep ==
    ASSUME TypeOK, GraphInv, ControlInv, [Next]_vars
    PROVE  GraphInv'
<1>1. CASE Client
  <2>1. CASE UNCHANGED graph_vars BY <2>1, GraphUnchanged
  <2> QED
    BY <1>1, <2>1, SubmitGraph, EnqueueGraph, SubmitDepsGraph
    DEF Client, Wait, WaitForKey, graph_vars, shared_vars, history_vars
<1>2. CASE FlushDagStaging \/ FlushPendingTasks BY <1>2, FlushDagGraph, FlushPendingGraph
<1>3. CASE MainTake
  <2>1. batch[Main] = {} /\ Main \in Participant
    BY <1>3 DEF MainTake, MainHelps, ControlInv, Participant
  <2> QED BY <1>3, <2>1, TakeGraph DEF MainTake
<1>4. ASSUME NEW w \in Worker, WorkerTake(w) PROVE GraphInv'
  <2>1. batch[w] = {} /\ w \in Participant BY <1>4 DEF WorkerTake, Participant
  <2> QED BY <1>4, <2>1, TakeGraph DEF WorkerTake, main_vars
<1>5. CASE MainComplete
  <2>1. Main \in Participant BY DEF Participant
  <2> QED BY <1>5, <2>1, CompleteGraph DEF MainComplete
<1>6. ASSUME NEW w \in Worker, WorkerComplete(w) PROVE GraphInv'
  <2>1. w \in Participant BY DEF Participant
  <2> QED BY <1>6, <2>1, CompleteGraph DEF WorkerComplete
<1>7. CASE WaitReturn
  <2>1. dag_staging = <<>> /\ pending_tasks = {} /\ ready = {} /\ active_tasks = 0
    BY <1>7 DEF WaitReturn, ControlInv
  <2>2. CASE pending_dag_tasks = 0
    BY <1>7, <2>1, <2>2, ClearGraph DEF WaitReturn
  <2>3. CASE pending_dag_tasks # 0
    <3>1. UNCHANGED graph_vars BY <1>7, <2>3 DEF WaitReturn, graph_vars
    <3> QED BY <3>1, GraphUnchanged
  <2> QED BY <2>2, <2>3
<1>8. CASE \/ NotifyWorkers \/ RegisterKeyWaiter \/ MainSleep \/ MainSpuriousWake
           \/ WindowReturn \/ KeyReturn
  <2>1. UNCHANGED graph_vars
    BY <1>8 DEF NotifyWorkers, RegisterKeyWaiter, MainSleep, MainSpuriousWake, WindowReturn,
                KeyReturn, graph_vars, shared_vars, history_vars
  <2> QED BY <2>1, GraphUnchanged
<1>9. CASE \/ \E w \in Worker : WorkerSleep(w) \/ WorkerSpuriousWake(w)
           \/ \E p \in Participant : Throw(p)
           \/ UNCHANGED vars
  <2>1. UNCHANGED graph_vars
    BY <1>9 DEF WorkerSleep, WorkerSpuriousWake, Throw, vars, main_vars, shared_vars,
                history_vars, graph_vars
  <2> QED BY <2>1, GraphUnchanged
<1> QED
  BY <1>1, <1>2, <1>3, <1>4, <1>5, <1>6, <1>7, <1>8, <1>9 DEF Next, MainStep, WorkerStep

\* The conjunction of types, control, graph, wakeups and errors holds in
\* every state of AsyncRuntime's scheduler, for any workers, tasks, requests
\* and limits.
THEOREM Invariance == Spec => []IInv
<1>1. Init => IInv
  <2> SUFFICES ASSUME Init PROVE IInv OBVIOUS
  <2>1. NoStrandedWork BY DEF Init, NoStrandedWork
  <2>2. ErrorInv BY DEF Init, ErrorInv, ErrorIsKept
  <2> QED BY <2>1, <2>2, InitTypes, InitControl, InitGraph DEF IInv
<1>2. IInv /\ [Next]_vars => IInv'
  BY TypeStep, ControlStep, GraphStep, WakeStep, ErrorStep DEF IInv
<1> QED BY <1>1, <1>2, PTL DEF Spec

\* The variables of the scheduler keep their types: no counter underflows,
\* no key waiter is registered twice.
THEOREM TypeCorrect == Spec => []TypeOK
<1>1. IInv => TypeOK BY DEF IInv
<1> QED BY <1>1, Invariance, PTL

\* Whatever the publishes and completions notify, a ready task never waits
\* for a pool in which everybody sleeps and nobody will be notified.
THEOREM NoWorkIsStranded == Spec => []NoStrandedWork
<1>1. IInv => NoStrandedWork BY DEF IInv
<1> QED BY <1>1, Invariance, PTL

\* The predecessor counters, pending_dag_tasks_ and active_tasks_ count what
\* they stand for after every publish, take, completion and clearing.
THEOREM CountersExact == Spec => []CountersAreExact
<1>1. IInv => CountersAreExact BY DEF IInv, GraphInv
<1> QED BY <1>1, Invariance, PTL

\* The node index submitWithDeps predicts outside the mutex is the one its
\* task gets.
THEOREM ProducerCorrect == Spec => []ProducerIsLastWriter
<1>1. IInv => ProducerIsLastWriter BY DEF IInv, GraphInv
<1> QED BY <1>1, Invariance, PTL

\* No task is taken twice.
THEOREM NoTaskRunsTwice == Spec => []AtMostOnce
<1>1. IInv => AtMostOnce BY DEF IInv, GraphInv, RunsAreExact, AtMostOnce
<1> QED BY <1>1, Invariance, PTL

\* A queued task has all it must come after behind it.
LEMMA QueuedIsOrdered ==
    ASSUME IInv, NEW e \in Queued
    PROVE  after[e.task] \subseteq finished
<1> SUFFICES ASSUME NEW u \in after[e.task] PROVE u \in finished
  OBVIOUS
<1>1. CASE e.dag_node = 0
  BY <1>1 DEF IInv, GraphInv, EntriesAreTasks
<1>2. CASE e.dag_node # 0
  <2>1. e.dag_node \in Incomplete /\ dag_nodes[e.dag_node].task = e.task
    BY <1>2 DEF IInv, GraphInv, EntriesAreTasks
  <2>2. e.dag_node \in Index BY <2>1 DEF Incomplete
  <2>3. Preds(e.dag_node) = {} BY <2>2 DEF IInv, GraphInv, ReleasedAreQueued
  <2> QED BY <2>1, <2>2, <2>3 DEF IInv, GraphInv, OrderIsWired
<1> QED BY <1>1, <1>2

\* A task is taken only after the tasks that last wrote its keys.
THEOREM OrderRespected == Spec => []DependencyOrder
<1>1. IInv => DependencyOrder BY QueuedIsOrdered DEF DependencyOrder, Queued, InFlight
<1> QED BY <1>1, Invariance, PTL

-----------------------------------------------------------------------------
(* No graph is left unresolved. *)

LEMMA LeastElement ==
    ASSUME NEW S, S \subseteq Nat, S # {}
    PROVE  \E m \in S : \A i \in S : m <= i
<1>1. PICK m \in S : \A i \in S : ~(<<i, m>> \in OpToRel(<, Nat))
  BY NatLessThanWellFounded, WFMin, Zenon
<1>2. ASSUME NEW i \in S PROVE m <= i
  <2>1. ~(i < m) BY <1>1, Zenon DEF OpToRel
  <2> QED BY <2>1
<1> QED BY <1>2

\* An empty queue with nobody running means a complete graph: the first
\* incomplete node would have no predecessor, so it would be queued.
LEMMA EmptyQueueMeansComplete ==
    ASSUME TypeOK, GraphInv,
           dag_staging = <<>>, pending_tasks = {}, ready = {}, active_tasks = 0
    PROVE  Incomplete = {} /\ pending_dag_tasks = 0 /\ submitted = finished
<1>1. Queued = {} BY DrainedGraph
<1>2. ASSUME Incomplete # {} PROVE FALSE
  <2>1. Incomplete \subseteq Nat BY DEF Incomplete, Index
  <2>2. PICK m \in Incomplete : \A i \in Incomplete : m <= i
    BY <1>2, <2>1, LeastElement
  <2>3. m \in Index /\ ~dag_nodes[m].completed BY <2>2 DEF Incomplete
  <2>4. Preds(m) = {}
    <3>1. ASSUME NEW j \in Incomplete, m \in dag_nodes[j].successors PROVE FALSE
      <4>1. j \in Index /\ j \in Nat /\ m \in Nat BY <2>1, <3>1 DEF Incomplete
      <4>2. m \in (j + 1)..Len(dag_nodes)
        BY <3>1, <4>1 DEF GraphInv, EdgesPointForward
      <4>3. Len(dag_nodes) \in Nat BY NodeTypes
      <4>4. m <= j BY <2>2, <3>1
      <4> QED BY <4>1, <4>2, <4>3, <4>4
    <3> QED BY <3>1 DEF Preds
  <2> QED BY <1>1, <2>3, <2>4 DEF GraphInv, ReleasedAreQueued
<1>3. Incomplete = {} BY <1>2
<1>4. pending_dag_tasks = 0 BY <1>3, FS_EmptySet DEF GraphInv, CountersAreExact
<1> QED BY <1>3, <1>4, DrainedGraph

\* When a wait or a key wait finds the queue empty and nobody running.
LEMMA StagesAreEmpty ==
    ASSUME ControlInv, pc \in {"wait", "key"}
    PROVE  dag_staging = <<>> /\ pending_tasks = {} /\ LoopPc = pc
BY DEF ControlInv

LEMMA KeyIsThere ==
    ASSUME IInv, pc = "key", ready = {}, active_tasks = 0
    PROVE  KeyCompleted(call.key)
<1>1. TypeOK /\ GraphInv /\ ControlInv BY DEF IInv
<1>2. dag_staging = <<>> /\ pending_tasks = {} /\ LoopPc = "key" BY <1>1, StagesAreEmpty
<1>3. Incomplete = {} /\ Predicted = Index
  BY <1>1, <1>2, EmptyQueueMeansComplete, DrainedGraph
<1>4. call.key \in Key BY <1>1, <1>2, LoopPcFacts DEF ControlInv
<1>5. latest_producer[call.key] # 0 => latest_producer[call.key] \in Index
  BY <1>1, <1>3, <1>4 DEF GraphInv, ProducerIsLastWriter
<1> QED BY <1>3, <1>5 DEF KeyCompleted, Incomplete

LEMMA NoDeadlockStep ==
    ASSUME IInv, NoDagDeadlock, [Next]_vars
    PROVE  NoDagDeadlock'
<1>1. TypeOK /\ GraphInv /\ ControlInv BY DEF IInv
<1>2. CASE WaitReturn
  <2>1. pc = "wait" /\ ready = {} /\ active_tasks = 0 BY <1>2 DEF WaitReturn
  <2>2. dag_staging = <<>> /\ pending_tasks = {} BY <1>1, <2>1, StagesAreEmpty
  <2>3. pending_dag_tasks = 0 BY <1>1, <2>1, <2>2, EmptyQueueMeansComplete
  <2>4. ReportError BY <1>2, <2>3 DEF WaitReturn
  <2> QED BY <2>4 DEF ReportError, NoDagDeadlock
<1>3. CASE KeyReturn
  <2>1. KeyCompleted(call.key) BY <1>3, KeyIsThere DEF KeyReturn
  <2>2. ReportError BY <1>3, <2>1 DEF KeyReturn
  <2> QED BY <2>2 DEF ReportError, NoDagDeadlock
<1>4. CASE outcome' = outcome BY <1>4 DEF NoDagDeadlock
<1>5. CASE Client
  BY <1>4, <1>5 DEF Client, Submit, EnqueueTask, SubmitWithDeps, Wait, WaitForKey
<1>6. CASE FlushDagStaging \/ FlushPendingTasks \/ NotifyWorkers \/ RegisterKeyWaiter
           \/ MainTake \/ MainComplete \/ MainSleep \/ WindowReturn \/ MainSpuriousWake
  BY <1>4, <1>6 DEF FlushDagStaging, FlushPendingTasks, NotifyWorkers, RegisterKeyWaiter,
                    MainTake, MainComplete, MainSleep, WindowReturn, MainSpuriousWake
<1>7. CASE \E w \in Worker : WorkerStep(w) \/ WorkerSpuriousWake(w)
  BY <1>4, <1>7 DEF WorkerStep, WorkerTake, WorkerComplete, WorkerSleep,
                    WorkerSpuriousWake, main_vars
<1>8. CASE UNCHANGED vars \/ \E p \in Participant : Throw(p)
  BY <1>4, <1>8 DEF vars, main_vars, Throw
<1> QED BY <1>2, <1>3, <1>5, <1>6, <1>7, <1>8 DEF Next, MainStep

\* The "unresolved dependencies" exceptions are never thrown.
THEOREM NoUnresolvedGraph == Spec => []NoDagDeadlock
<1>1. Init => NoDagDeadlock BY DEF Init, NoDagDeadlock
<1>2. IInv /\ NoDagDeadlock /\ [Next]_vars => NoDagDeadlock' BY NoDeadlockStep
<1> QED BY <1>1, <1>2, Invariance, PTL DEF Spec

-----------------------------------------------------------------------------
(* What a wait promises. *)

\* Only WaitReturn leaves the loop of a full wait.
LEMMA LeavingWait ==
    ASSUME TypeOK, ControlInv, Next, pc = "wait", pc' = "client"
    PROVE  WaitReturn
<1>1. ~Client BY DEF Client, Submit, EnqueueTask, SubmitWithDeps, Wait, WaitForKey
<1>2. ~(MainStep /\ ~WaitReturn)
  BY DEF MainStep, FlushDagStaging, FlushPendingTasks, NotifyWorkers, RegisterKeyWaiter,
         MainTake, MainComplete, MainSleep, WindowReturn, KeyReturn
<1>3. ~MainSpuriousWake BY DEF MainSpuriousWake
<1>4. ~\E w \in Worker : WorkerStep(w) \/ WorkerSpuriousWake(w)
  BY DEF WorkerStep, WorkerTake, WorkerComplete, WorkerSleep, WorkerSpuriousWake, main_vars
<1>5. ~\E p \in Participant : Throw(p) BY DEF Throw, main_vars
<1> QED BY <1>1, <1>2, <1>3, <1>4, <1>5 DEF Next

LEMMA WaitReturnFacts ==
    ASSUME IInv, WaitReturn
    PROVE  /\ submitted = finished
           /\ outcome' = IF thrown = reported THEN "ok" ELSE "error"
           /\ reported' = thrown
<1>1. TypeOK /\ GraphInv /\ ControlInv /\ ErrorInv BY DEF IInv
<1>2. pc = "wait" /\ ready = {} /\ active_tasks = 0 BY DEF WaitReturn
<1>3. dag_staging = <<>> /\ pending_tasks = {} BY <1>1, <1>2, StagesAreEmpty
<1>4. pending_dag_tasks = 0 /\ submitted = finished
  BY <1>1, <1>2, <1>3, EmptyQueueMeansComplete
<1>5. ReportError BY <1>4 DEF WaitReturn
<1>6. worker_error = NoTask <=> thrown = reported BY <1>1 DEF ErrorInv, ErrorIsKept
<1> QED BY <1>4, <1>5, <1>6 DEF ReportError

\* A wait that returns leaves nothing behind: every submitted task is
\* finished, and it rethrows exactly when a task has thrown since the last rethrow.
THEOREM WaitLeavesNothing == Spec => WaitDrains
<1>1. IInv /\ [Next]_vars =>
        [pc = "wait" /\ pc' = "client" =>
            /\ submitted = finished
            /\ outcome' = IF thrown = reported THEN "ok" ELSE "error"
            /\ reported' = thrown]_vars
  BY LeavingWait, WaitReturnFacts DEF IInv
<1> QED BY <1>1, Invariance, PTL DEF Spec, WaitDrains

-----------------------------------------------------------------------------
(* The scheduler implements TaskGraph. *)

\* A full wait or a key wait has a goal as long as it has not returned.
LEMMA GoalCases ==
    /\ pc = "client" \/ call.op \notin {"wait", "wait_key"} => Goal = Contract!NoGoal
    /\ pc # "client" /\ call.op = "wait" => Goal = Contract!WaitAll
    /\ pc # "client" /\ call.op = "wait_key" => Goal = Contract!WaitKey(call.key)
BY DEF Goal, Contract!NoGoal, Contract!WaitAll, Contract!WaitKey

\* A step inside a call keeps the goal, unless a wait returns.
LEMMA GoalKept ==
    ASSUME call' = call, call.op \in {"wait", "wait_key"} => (pc = "client" <=> pc' = "client")
    PROVE  Goal' = Goal
BY DEF Goal

\* A task was started when it is finished or in a batch.
LEMMA StartedFacts ==
    ASSUME IInv
    PROVE  /\ Started = finished \cup TasksOf(InFlight)
           /\ TasksOf(ready) \cap Started = {}
           /\ TasksOf(InFlight) \cap finished = {}
           /\ Started \subseteq submitted
           /\ \A p \in Participant : batch[p] \subseteq InFlight
<1>1. TypeOK /\ EntriesAreTasks /\ BatchesAreDisjoint /\ RunsAreExact /\ StagesAreSubmitted
  BY DEF IInv, GraphInv
<1>2. Queued \subseteq Entry /\ ready \subseteq Queued /\ InFlight \subseteq Queued
  BY <1>1, QueuedIsFinite DEF Queued
<1>3. \A e \in Queued : e.task \in Task /\ e.task \in submitted /\ e.task \notin finished
  BY <1>1, <1>2 DEF EntriesAreTasks, Entry
<1>4. finished \subseteq submitted /\ submitted \subseteq Task
  BY <1>1 DEF StagesAreSubmitted, TypeOK
<1>5. Started = finished \cup TasksOf(InFlight)
  <2>1. TasksOf(InFlight) \subseteq Task BY <1>2, <1>3 DEF TasksOf
  <2>2. \A t \in Task : runs[t] > 0 <=> t \in finished \cup TasksOf(InFlight)
    BY <1>1 DEF RunsAreExact
  <2> QED BY <1>4, <2>1, <2>2 DEF Started
<1>6. TasksOf(InFlight) \cap finished = {} BY <1>2, <1>3 DEF TasksOf
<1>7. TasksOf(ready) \cap Started = {}
  <2>1. TasksOf(ready) \cap finished = {} BY <1>2, <1>3 DEF TasksOf
  <2>2. ASSUME NEW e \in ready, NEW f \in InFlight, e.task = f.task PROVE FALSE
    <3>1. e = f BY <1>1, <1>2, <2>2 DEF EntriesAreTasks
    <3> QED BY <1>1, <2>2, <3>1 DEF BatchesAreDisjoint
  <2> QED BY <1>5, <2>1, <2>2 DEF TasksOf
<1>8. Started \subseteq submitted BY <1>2, <1>3, <1>4, <1>5 DEF TasksOf
<1> QED BY <1>5, <1>6, <1>7, <1>8 DEF InFlight

\* submit, and submitWithDeps: what the client's call records is what the
\* contract records.
LEMMA ClientRefines ==
    ASSUME IInv, Client
    PROVE  Contract!Next
<1>1. pc = "client" BY DEF Client, Submit, EnqueueTask, SubmitWithDeps, Wait, WaitForKey
<1>2. Goal = Contract!NoGoal BY <1>1, GoalCases
<1>3. ASSUME NEW t \in Task, t \notin submitted, NEW deps \in SUBSET Key,
             NEW output \in Key \cup {NoKey}, Record(t, deps, output),
             call'.op \notin {"wait", "wait_key"}
      PROVE  Contract!Next
  <2>1. Goal' = Contract!NoGoal BY <1>3 DEF Goal, Contract!NoGoal
  <2>2. Started' = Started BY <1>3 DEF Record, Started
  <2>3. Contract!Submit(t, deps, output)
    BY <1>2, <1>3, <2>1, <2>2 DEF Record, Contract!Submit
  <2> QED BY <1>3, <2>3 DEF Contract!Next
<1>4. ASSUME NEW t \in Task, Submit(t) \/ EnqueueTask(t) PROVE Contract!Next
  <2>1. t \notin submitted /\ Record(t, {}, NoKey) /\ call'.op = "submit"
    BY <1>4 DEF Submit, EnqueueTask
  <2> QED BY <1>3, <2>1
<1>5. ASSUME NEW t \in Task, NEW r \in Requests, SubmitWithDeps(t, r) PROVE Contract!Next
  <2>1. t \notin submitted /\ Record(t, r.deps, r.output) /\ call'.op = "submit_deps"
    BY <1>5 DEF SubmitWithDeps
  <2>2. r.deps \in SUBSET Key /\ r.output \in Key \cup {NoKey} BY RequestAssumption
  <2> QED BY <1>3, <2>1, <2>2
<1>6. ASSUME NEW op \in {"wait", "wait_key"}, NEW k,
             op = "wait_key" => k \in Key,
             op = "wait" => k = NoKey,
             call' = [op |-> op, key |-> k],
             pc' = AfterPublish(op, dag_staging, pending_tasks),
             UNCHANGED history_vars
      PROVE  Contract!Next
  <2>1. pc' # "client" BY <1>6, AfterPublishFacts
  <2>2. \/ op = "wait" /\ Goal' = Contract!WaitAll
        \/ op = "wait_key" /\ Goal' = Contract!WaitKey(k)
    BY <1>6, <2>1 DEF Goal, Contract!WaitAll, Contract!WaitKey
  <2>3. Goal' \in Contract!Goal /\ Goal' # Contract!NoGoal
    BY <1>6, <2>2 DEF Contract!Goal, Contract!WaitAll, Contract!WaitKey, Contract!NoGoal
  <2>4. Contract!Block(Goal')
    BY <1>2, <1>6, <2>3 DEF Contract!Block, Started, history_vars
  <2> QED BY <2>3, <2>4 DEF Contract!Next
<1>7. CASE Wait BY <1>6, <1>7 DEF Wait
<1>8. ASSUME NEW k \in Key, WaitForKey(k) PROVE Contract!Next
  BY <1>6, <1>8 DEF WaitForKey
<1> QED BY <1>4, <1>5, <1>7, <1>8 DEF Client

\* Taking a batch starts its tasks.
LEMMA TakeRefines ==
    ASSUME IInv, NEW p \in Participant, batch[p] = {}, TakeReadyTasksLocked(p),
           UNCHANGED <<submitted, finished, after, last_writer>>, Goal' = Goal
    PROVE  Contract!Next
<1>1. TypeOK /\ GraphInv BY DEF IInv
<1>2. PICK taken \in SUBSET Level(TopLevel) :
        /\ batch' = [batch EXCEPT ![p] = taken]
        /\ runs' = [t \in Task |-> IF t \in TasksOf(taken) THEN runs[t] + 1 ELSE runs[t]]
  BY DEF TakeReadyTasksLocked
<1>3. taken \subseteq ready BY DEF Level
<1>4. taken # {}
  <2>1. batch'[p] # {} BY <1>1, BatchIsNotEmpty
  <2> QED BY <1>1, <1>2, <2>1 DEF TypeOK
<1>5. TasksOf(taken) # {} BY <1>4 DEF TasksOf
<1>6. \A e \in taken : e.task \in Task /\ e.task \in submitted
                       /\ after[e.task] \subseteq finished
  <2>1. taken \subseteq Queued /\ Queued \subseteq Entry
    BY <1>1, <1>3, QueuedIsFinite DEF Queued, GraphInv
  <2> QED BY <1>1, <2>1, QueuedIsOrdered DEF GraphInv, EntriesAreTasks, Entry
<1>7. TasksOf(taken) \subseteq submitted \ Started
  BY <1>3, <1>6, StartedFacts DEF TasksOf
<1>8. Started' = Started \cup TasksOf(taken)
  <2>1. \A t \in Task : runs[t] \in Nat BY <1>1 DEF TypeOK
  <2>2. \A t \in Task : runs'[t] > 0 <=> runs[t] > 0 \/ t \in TasksOf(taken)
    BY <1>2, <2>1
  <2>3. TasksOf(taken) \subseteq Task BY <1>6 DEF TasksOf
  <2> QED BY <2>2, <2>3 DEF Started
<1>9. Contract!Start(TasksOf(taken))
  BY <1>5, <1>6, <1>7, <1>8 DEF Contract!Start, TasksOf
<1>10. TasksOf(taken) \in SUBSET Task BY <1>6 DEF TasksOf
<1> QED BY <1>9, <1>10 DEF Contract!Next

\* Completing a batch finishes its tasks.
LEMMA CompleteRefines ==
    ASSUME IInv, NEW p \in Participant, Complete(p),
           UNCHANGED <<submitted, runs, after, last_writer>>, Goal' = Goal
    PROVE  Contract!Next
<1>1. TypeOK /\ GraphInv BY DEF IInv
<1>2. batch[p] # {} /\ finished' = finished \cup TasksOf(batch[p]) BY DEF Complete
<1>3. TasksOf(batch[p]) # {} BY <1>2 DEF TasksOf
<1>4. TasksOf(batch[p]) \subseteq Started \ finished BY StartedFacts DEF TasksOf
<1>5. Started' = Started BY DEF Started
<1>6. Contract!Finish(TasksOf(batch[p])) BY <1>2, <1>3, <1>4, <1>5 DEF Contract!Finish
<1>7. TasksOf(batch[p]) \in SUBSET Task BY <1>4 DEF Started
<1> QED BY <1>6, <1>7 DEF Contract!Next

\* A wait that returns has reached its goal.
LEMMA ReturnRefines ==
    ASSUME IInv, WaitReturn \/ KeyReturn
    PROVE  Contract!Next
<1>1. TypeOK /\ GraphInv /\ ControlInv BY DEF IInv
<1>2. Goal' = Contract!NoGoal /\ UNCHANGED <<submitted, Started, finished, after, last_writer>>
  BY DEF WaitReturn, KeyReturn, Goal, Contract!NoGoal, Started
<1>3. CASE WaitReturn
  <2>1. pc = "wait" /\ submitted = finished BY <1>3, WaitReturnFacts DEF WaitReturn
  <2>2. call.op = "wait" BY <1>1, <2>1, LoopPcFacts, StagesAreEmpty
  <2>3. Goal = Contract!WaitAll BY <2>1, <2>2, GoalCases
  <2>4. Contract!Return
    BY <1>2, <2>1, <2>3
    DEF Contract!Return, Contract!Reached, Contract!WaitAll, Contract!NoGoal
  <2> QED BY <2>4 DEF Contract!Next
<1>4. CASE KeyReturn
  <2> DEFINE k == call.key
  <2>1. pc = "key" /\ KeyCompleted(k) BY <1>4, KeyIsThere DEF KeyReturn
  <2>2. call.op = "wait_key" BY <1>1, <2>1, LoopPcFacts, StagesAreEmpty
  <2>3. k \in Key BY <1>1, <2>2 DEF ControlInv
  <2>4. last_writer[k] \in finished \cup {NoTask}
    <3>1. CASE latest_producer[k] = 0
      BY <1>1, <2>3, <3>1 DEF GraphInv, ProducerIsLastWriter
    <3>2. CASE latest_producer[k] # 0
      <4> DEFINE n == latest_producer[k]
      <4>1. n \in Predicted /\ TaskAt(n) = last_writer[k]
        BY <1>1, <2>3, <3>2 DEF GraphInv, ProducerIsLastWriter
      <4>2. Predicted = Index
        <5>1. dag_staging = <<>> BY <1>1, <2>1, StagesAreEmpty
        <5>2. Len(dag_staging) = 0 BY <5>1
        <5>3. Len(dag_nodes) \in Nat BY <1>1, NodeTypes
        <5> QED BY <5>2, <5>3 DEF Predicted, Index
      <4>3. n \in Index /\ dag_nodes[n].completed
        BY <2>1, <3>2, <4>1, <4>2 DEF KeyCompleted
      <4>4. dag_nodes[n].task \in finished
        BY <1>1, <4>3 DEF GraphInv, StagesAreSubmitted
      <4> QED BY <1>1, <4>1, <4>3, <4>4, NodeTypes
    <3> QED BY <3>1, <3>2
  <2>5. Goal = Contract!WaitKey(k) BY <2>1, <2>2, GoalCases
  <2> HIDE DEF k
  <2>6. Contract!Return
    BY <1>2, <2>4, <2>5
    DEF Contract!Return, Contract!Reached, Contract!WaitKey, Contract!NoGoal
  <2> QED BY <2>6 DEF Contract!Next
<1> QED BY <1>3, <1>4

\* Every other step of a call, and every step of a worker that neither takes
\* nor completes, is invisible to the client.
LEMMA StepRefines ==
    ASSUME IInv, [Next]_vars
    PROVE  [Contract!Next]_(Contract!vars)
<1>1. TypeOK /\ GraphInv /\ ControlInv BY DEF IInv
<1>2. ASSUME UNCHANGED history_vars, Goal' = Goal PROVE UNCHANGED Contract!vars
  BY <1>2 DEF Contract!vars, history_vars, Started
<1>3. CASE Client BY <1>3, ClientRefines
<1>4. CASE FlushDagStaging \/ FlushPendingTasks \/ NotifyWorkers
  <2>1. call' = call /\ UNCHANGED history_vars /\ pc # "client"
    BY <1>4 DEF FlushDagStaging, FlushPendingTasks, NotifyWorkers
  <2>2. call.op \in {"wait", "wait_key"} => pc' # "client"
    <3>1. \/ pc' = "notify"
          \/ pc' = AfterPublish(call.op, dag_staging', pending_tasks')
      BY <1>4 DEF FlushDagStaging, FlushPendingTasks, NotifyWorkers
    <3> QED BY <3>1, AfterPublishFacts
  <2> QED BY <1>2, <2>1, <2>2, GoalKept
<1>5. CASE MainTake
  <2>1. batch[Main] = {} /\ Main \in Participant /\ pc # "client"
    BY <1>1, <1>5 DEF MainTake, MainHelps, ControlInv, Participant
  <2>2. Goal' = Goal BY <1>5, <2>1, GoalKept DEF MainTake
  <2> QED BY <1>5, <2>1, <2>2, TakeRefines DEF MainTake
<1>6. CASE MainComplete
  <2>1. Main \in Participant BY DEF Participant
  <2>2. pc # "client" /\ pc' # "client"
    BY <1>1, <1>6 DEF MainComplete, ControlInv
  <2>3. Goal' = Goal BY <1>6, <2>2, GoalKept DEF MainComplete
  <2> QED BY <1>6, <2>1, <2>3, CompleteRefines DEF MainComplete
<1>7. CASE WaitReturn \/ KeyReturn BY <1>7, ReturnRefines
<1>8. CASE WindowReturn
  <2>1. call' = call /\ UNCHANGED history_vars
    BY <1>8 DEF WindowReturn
  <2>2. call.op \notin {"wait", "wait_key"}
    <3>1. LoopPc = "window" BY <1>1, <1>8 DEF WindowReturn, ControlInv
    <3> QED BY <3>1, LoopPcFacts
  <2> QED BY <1>2, <2>1, <2>2, GoalKept
<1>9. CASE RegisterKeyWaiter \/ MainSleep \/ MainSpuriousWake
  <2>1. call' = call /\ UNCHANGED history_vars /\ pc # "client" /\ pc' # "client"
    BY <1>1, <1>9 DEF RegisterKeyWaiter, MainSleep, MainSpuriousWake, ControlInv
  <2> QED BY <1>2, <2>1, GoalKept
<1>10. ASSUME NEW w \in Worker, WorkerTake(w) PROVE Contract!Next
  <2>1. batch[w] = {} /\ w \in Participant BY <1>10 DEF WorkerTake, Participant
  <2>2. Goal' = Goal BY <1>10 DEF WorkerTake, main_vars, Goal
  <2> QED BY <1>10, <2>1, <2>2, TakeRefines DEF WorkerTake
<1>11. ASSUME NEW w \in Worker, WorkerComplete(w) PROVE Contract!Next
  <2>1. w \in Participant BY DEF Participant
  <2>2. pc = "client" <=> pc' = "client"
    BY <1>1, <1>11 DEF WorkerComplete, ControlInv
  <2>3. Goal' = Goal BY <1>11, <2>2, GoalKept DEF WorkerComplete
  <2> QED BY <1>11, <2>1, <2>3, CompleteRefines DEF WorkerComplete
<1>12. CASE \/ \E w \in Worker : WorkerSleep(w) \/ WorkerSpuriousWake(w)
            \/ UNCHANGED vars \/ \E p \in Participant : Throw(p)
  <2>1. UNCHANGED <<main_vars, submitted, runs, finished, after, last_writer>>
    BY <1>12 DEF WorkerSleep, WorkerSpuriousWake, vars, Throw, history_vars
  <2> QED BY <2>1 DEF main_vars, Goal, Started, Contract!vars
<1> QED
  BY <1>3, <1>4, <1>5, <1>6, <1>7, <1>8, <1>9, <1>10, <1>11, <1>12
  DEF Next, MainStep, WorkerStep

\* The scheduler implements the contract: it starts only what was submitted,
\* once and in order, and a wait returns only when its goal is reached.
THEOREM ImplementsContract == Spec => RefinesContract
<1>1. Init => Contract!Init
  BY DEF Init, Goal, Started, Contract!Init, Contract!NoGoal
<1>2. IInv /\ [Next]_vars => [Contract!Next]_(Contract!vars) BY StepRefines
<1> QED BY <1>1, <1>2, Invariance, PTL DEF Spec, RefinesContract, Contract!Spec
=============================================================================
