------------------------- MODULE WorkStealingProofs -------------------------
(***************************************************************************)
(* The inductive invariant of WorkStealing and what follows from it, for   *)
(* every program of submissions, number of workers and batch size.         *)
(***************************************************************************)
EXTENDS WorkStealingProperties, FiniteSetTheorems, SequenceTheorems, TLAPS

-----------------------------------------------------------------------------
(* Exceptions. *)

\* The error part of the invariant is inductive by itself: only a batch and
\* the end of a drain touch the record.
LEMMA ErrorStep ==
    ASSUME ErrorIsKept, [Next]_vars
    PROVE  ErrorIsKept'
<1> USE DEF ErrorIsKept
<1>1. CASE UNCHANGED <<worker_error, thrown, reported>>
  BY <1>1
<1>2. ASSUME NEW p \in Participant, RunBatch(p) PROVE ErrorIsKept'
  <2>1. PICK raised \in SUBSET (TasksOf(batch[p]) \cap MayThrow) :
            thrown' = thrown \cup raised /\ Record(raised)
    BY <1>2 DEF RunBatch
  <2>2. NoTask \notin raised BY ProgramAssumption DEF Task, NoTask
  <2>3. reported' = reported BY <1>2 DEF RunBatch
  <2>4. CASE raised = {} BY <2>1, <2>3, <2>4 DEF Record
  <2>5. CASE raised # {} /\ worker_error = NoTask BY <2>1, <2>2, <2>5 DEF Record
  <2>6. CASE raised # {} /\ worker_error # NoTask BY <2>1, <2>6 DEF Record
  <2> QED BY <2>4, <2>5, <2>6
<1>3. CASE EndDrain BY <1>3 DEF EndDrain
<1>4. CASE Client
  BY <1>1, <1>4 DEF Client, Submit, StartDrain, history_vars
<1>5. ASSUME NEW p \in Participant, Drive(p), ~RunBatch(p) PROVE ErrorIsKept'
  <2>1. CASE LoadSequence(p) \/ PopLocalBatch(p) \/ Steal(p) \/ SkipVictim(p)
    BY <1>1, <2>1 DEF LoadSequence, PopLocalBatch, Steal, SkipVictim, history_vars
  <2>2. CASE Release(p) \/ BumpSequence(p) \/ LookForSleepers(p) \/ NotifyOne(p)
    BY <1>1, <2>2 DEF Release, BumpSequence, LookForSleepers, NotifyOne, history_vars
  <2>3. CASE Finish(p) \/ NotifyAll(p) \/ CheckOutstanding(p) \/ RegisterSleeper(p)
    BY <1>1, <2>3 DEF Finish, NotifyAll, CheckOutstanding, RegisterSleeper, history_vars
  <2>4. CASE RecheckOutstanding(p) \/ RecheckSequence(p) \/ LeaveIdle(p)
    BY <1>1, <2>4 DEF RecheckOutstanding, RecheckSequence, LeaveIdle, history_vars
  <2> QED BY <1>5, <2>1, <2>2, <2>3, <2>4 DEF Drive
<1>6. CASE \/ \E p \in Participant : TimeOut(p)
           \/ \E w \in Worker : JoinDrain(w) \/ LeaveDrain(w)
           \/ StopDrain
  BY <1>1, <1>6 DEF TimeOut, JoinDrain, LeaveDrain, StopDrain, history_vars
<1>7. CASE UNCHANGED vars
  BY <1>1, <1>7 DEF vars, history_vars
<1> QED
  BY <1>2, <1>3, <1>4, <1>5, <1>6, <1>7 DEF Next

\* No exception of a drain is lost: it is recorded until the wait that ends
\* the drain rethrows it.
THEOREM ErrorKept == Spec => []ErrorIsKept
<1>1. Init => ErrorIsKept BY DEF Init, ErrorIsKept
<1>2. ErrorIsKept /\ [Next]_vars => ErrorIsKept' BY ErrorStep
<1> QED BY <1>1, <1>2, PTL DEF Spec

-----------------------------------------------------------------------------
(* Sets and types. *)

LEMMA ParticipantFacts ==
    /\ Workers \in Nat /\ Workers >= 1 /\ Participants \in Nat /\ Participants = Workers + 1
    /\ 0 \in Participant /\ Worker \subseteq Participant /\ Participant \subseteq Nat
    /\ \A p \in Participant : p \in Worker <=> p # 0
    /\ Nobody \notin Participant
    /\ \A S \in SUBSET Participant : IsFiniteSet(S) /\ Cardinality(S) \in 0..Participants
    /\ \A S \in SUBSET Worker : IsFiniteSet(S) /\ Cardinality(S) \in 0..Workers
<1>1. Workers \in Nat /\ Workers >= 1 BY SizeAssumption
<1>2. IsFiniteSet(0..Workers) /\ Cardinality(0..Workers) = Workers + 1
  BY <1>1, FS_Interval
<1>3. IsFiniteSet(1..Workers) /\ Cardinality(1..Workers) = Workers
  BY <1>1, FS_Interval
<1>4. ASSUME NEW S \in SUBSET (0..Workers)
      PROVE  IsFiniteSet(S) /\ Cardinality(S) \in 0..(Workers + 1)
  <2>1. IsFiniteSet(S) /\ Cardinality(S) <= Workers + 1 BY <1>2, FS_Subset
  <2> QED BY <1>1, <2>1, FS_CardinalityType
<1>5. ASSUME NEW S \in SUBSET (1..Workers)
      PROVE  IsFiniteSet(S) /\ Cardinality(S) \in 0..Workers
  <2>1. IsFiniteSet(S) /\ Cardinality(S) <= Workers BY <1>3, FS_Subset
  <2> QED BY <1>1, <2>1, FS_CardinalityType
<1> QED
  BY <1>1, <1>4, <1>5 DEF Participants, Participant, Worker, Nobody

\* A function on 1..n is a sequence of length n.
LEMMA IsASeqOfLength ==
    ASSUME NEW S, NEW n \in Nat, NEW f, f = [i \in 1..n |-> f[i]], \A i \in 1..n : f[i] \in S
    PROVE  f \in Seq(S) /\ Len(f) = n /\ DOMAIN f = 1..n
BY SMT

\* What TypeOK says of nodes.
LEMMA NodeTypes ==
    ASSUME TypeOK
    PROVE  /\ Len(dag_nodes) \in Nat
           /\ Node = DOMAIN dag_nodes
           /\ Node \subseteq Nat
           /\ IsFiniteSet(Node) /\ Cardinality(Node) = Len(dag_nodes)
           /\ \A n \in Node :
                /\ dag_nodes[n] \in DagNode
                /\ TaskOf(n) \in Task
                /\ dag_nodes[n].pending \in Nat
                /\ Successors(n) \subseteq Node
<1>1. dag_nodes \in Seq(DagNode) BY DEF TypeOK
<1>2. Len(dag_nodes) \in Nat /\ DOMAIN dag_nodes = 1..Len(dag_nodes) BY <1>1
<1>3. \A n \in 1..Len(dag_nodes) : dag_nodes[n] \in DagNode BY <1>1
<1>4. ASSUME NEW n \in Nat PROVE IsFiniteSet(1..n) /\ Cardinality(1..n) = n
  BY FS_Interval
<1>5. 1..Len(dag_nodes) \subseteq Nat BY <1>2
<1>6. \A n \in Node : dag_nodes[n] \in DagNode BY <1>3 DEF Node
<1>7. \A n \in Node : /\ TaskOf(n) \in Task
                      /\ dag_nodes[n].pending \in Nat
                      /\ Successors(n) \subseteq Node
  BY <1>6 DEF DagNode, TaskOf, Successors
<1> QED BY <1>2, <1>4, <1>5, <1>6, <1>7 DEF Node

\* What TypeOK says of a deque.
LEMMA QueueTypes ==
    ASSUME TypeOK, NEW p \in Participant
    PROVE  /\ ws_queues[p] \in Seq(Node)
           /\ Len(ws_queues[p]) \in Nat
           /\ DOMAIN ws_queues[p] = 1..Len(ws_queues[p])
           /\ \A i \in DOMAIN ws_queues[p] : ws_queues[p][i] \in Node
           /\ ws_queues[p] # <<>> <=> Len(ws_queues[p]) # 0
<1>1. ws_queues[p] \in Seq(Node) BY DEF TypeOK
<1> QED BY <1>1

LEMMA InitTypes == Init => TypeOK
<1> SUFFICES ASSUME Init PROVE TypeOK OBVIOUS
<1>1. dag_nodes = <<>> /\ Node = {} BY DEF Init, Node
<1>2. /\ dag_nodes \in Seq(DagNode)
      /\ ws_initial_ready \in Seq(Node) /\ ws_pending \in Seq(Nat)
      /\ latest_producer \in [Key -> 0..Len(dag_nodes)]
      /\ ws_queues \in [Participant -> Seq(Node)]
  BY <1>1 DEF Init
<1>3. /\ pc \in [Participant -> Driving \cup {"client", "stop", "join", "parked", "leave"}]
      /\ call \in [op : {"none", "wait", "wait_key"}, key : Key \cup {NoKey}]
  BY DEF Init, Driving
<1>4. /\ shard_mutex \in [Participant -> Participant \cup {Nobody}]
      /\ ws_idle_mutex \in Participant \cup {Nobody}
  BY DEF Init
<1>7. /\ ws_running \in BOOLEAN /\ ws_outstanding \in Nat
      /\ ws_active_workers \in 0..Workers
      /\ ws_sleepers \in 0..Participants
  <2>1. ws_outstanding = 0 /\ ws_active_workers = 0 /\ ws_sleepers = 0 BY DEF Init
  <2>2. ws_running = FALSE BY DEF Init
  <2>3. ws_running \in BOOLEAN BY <2>2
  <2> QED BY <2>1, <2>3, ParticipantFacts
<1>8. offset \in [Participant -> Worker]
  <2>1. 1 \in Worker BY ParticipantFacts DEF Worker
  <2> QED BY <2>1 DEF Init
<1>5. /\ asleep \subseteq Participant /\ sequence_before \subseteq Participant
      /\ batch \in [Participant -> SUBSET Node]
      /\ edges \in [Participant -> SUBSET (Node \X Node)]
      /\ seen_epoch \subseteq Worker
  BY DEF Init
<1>6. /\ worker_error \in Task \cup {NoTask}
      /\ submitted \subseteq Task /\ started \subseteq submitted /\ finished \subseteq started
      /\ after \in [Task -> SUBSET Task]
      /\ last_writer \in [Key -> Task \cup {NoTask}]
      /\ thrown \subseteq Task /\ reported \subseteq thrown
      /\ outcome \in {"none", "ok", "error"}
  BY DEF Init
<1> QED BY <1>1, <1>2, <1>3, <1>4, <1>5, <1>6, <1>7, <1>8 DEF TypeOK

-----------------------------------------------------------------------------
(* Steps that neither move a task nor touch the graph. *)

core_vars == <<client_vars, ws_pending, ws_outstanding, ws_queues, batch, edges,
               worker_error, history_vars>>

Pc == Driving \cup {"client", "stop", "join", "parked", "leave"}

\* The types that such a step can change.
LEMMA CoreTypes ==
    ASSUME TypeOK, ControlInv', UNCHANGED core_vars,
           pc' \in [Participant -> Pc],
           shard_mutex' \in [Participant -> Participant \cup {Nobody}],
           ws_running' \in BOOLEAN,
           ws_idle_mutex' \in Participant \cup {Nobody},
           sequence_before' \subseteq Participant,
           offset' \in [Participant -> Worker],
           seen_epoch' \subseteq Worker
    PROVE  TypeOK'
<1>1. /\ ws_active_workers' \in 0..Workers
      /\ ws_sleepers' \in 0..Participants
      /\ asleep' \subseteq Participant
  BY ParticipantFacts DEF ControlInv
<1>2. Node' = Node /\ DagNode' = DagNode /\ Len(dag_nodes)' = Len(dag_nodes)
  BY DEF Node, DagNode, core_vars, client_vars, graph_vars
<1> QED BY <1>1, <1>2 DEF TypeOK, Pc, core_vars, client_vars, graph_vars, history_vars

\* A step inside a drain that leaves the core alone keeps the graph, the
\* counters of the drain and the deques as they are.
LEMMA CoreUnchanged ==
    ASSUME UNCHANGED core_vars, InDrain' = InDrain, \A w \in Worker : ~InDrain => pc'[w] = pc[w]
    PROVE  /\ GraphInv => GraphInv'
           /\ BetweenDrains => BetweenDrains'
           /\ DrainInv => DrainInv'
<1>1. UNCHANGED <<call, outcome, dag_nodes, latest_producer, ws_initial_ready, ws_pending,
                  ws_outstanding, ws_queues, batch, edges, worker_error, submitted, started,
                  finished, after, last_writer, thrown, reported>>
  BY DEF core_vars, client_vars, graph_vars, history_vars
<1>2. /\ Node' = Node
      /\ \A n : TaskOf(n)' = TaskOf(n) /\ Successors(n)' = Successors(n)
      /\ \A S : TasksOf(S)' = TasksOf(S)
  BY <1>1 DEF Node, TaskOf, Successors, TasksOf
<1>3. \A n : Predecessors(n)' = Predecessors(n) BY <1>2 DEF Predecessors
<1>4. \A n : Unreleased(n)' = Unreleased(n) BY <1>1, <1>2, <1>3 DEF Unreleased
<1>5. Incomplete' = Incomplete BY <1>1, <1>2 DEF Incomplete
<1>6. \A n : Queued(n)' = Queued(n) BY <1>1 DEF Queued
<1>7. GraphInv => GraphInv'
  BY <1>1, <1>2, <1>3
  DEF GraphInv, NodesAreTasks, EdgesPointForward, PendingIsExact, ProducerIsLastWriter,
      OrderIsWired
<1>8. BetweenDrains => BetweenDrains'
  BY <1>1, <1>2 DEF BetweenDrains
<1>9. DrainInv => DrainInv'
  <2>1. CountersAreExact => CountersAreExact'
    BY <1>1, <1>2, <1>4, <1>5, <1>6 DEF CountersAreExact
  <2>2. AtMostOnce => AtMostOnce' BY <1>1, <1>2 DEF AtMostOnce
  <2>3. StartedWereReleased => StartedWereReleased' BY <1>1, <1>2 DEF StartedWereReleased
  <2> QED BY <2>1, <2>2, <2>3 DEF DrainInv
<1> QED BY <1>7, <1>8, <1>9

\* ... and it keeps the batches when nobody with a batch moves, except on its
\* way through the release of its successors.
LEMMA BatchUnchanged ==
    ASSUME TypeOK, BatchInv, UNCHANGED core_vars,
           \A q \in Participant :
               \/ pc'[q] = pc[q]
               \/ pc[q] \notin Working
               \/ /\ pc[q] \in Releasing
                  /\ pc'[q] \in Releasing \/ (pc'[q] = "finish" /\ edges[q] = {})
    PROVE  BatchInv'
<1>1. UNCHANGED <<dag_nodes, batch, edges, started, finished>>
  BY DEF core_vars, client_vars, graph_vars, history_vars
<1>2. /\ Node' = Node
      /\ \A n : TaskOf(n)' = TaskOf(n) /\ Successors(n)' = Successors(n)
  BY <1>1 DEF Node, TaskOf, Successors
<1>3. ASSUME NEW q \in Participant
      PROVE  /\ batch[q] # {} => pc'[q] \in Working
             /\ edges[q] # {} => pc'[q] \in Releasing
             /\ batch[q] # {} => (pc'[q] = "run" <=> pc[q] = "run")
  <2>1. batch[q] # {} => pc[q] \in Working BY DEF BatchInv
  <2>2. edges[q] # {} => pc[q] \in Releasing BY DEF BatchInv
  <2> QED BY <2>1, <2>2 DEF Working, Releasing
<1>4. \A q \in Participant :
        /\ \A e \in edges[q] : e[1] \in batch[q] /\ e[2] \in Successors(e[1])
        /\ \A n \in batch[q] :
            TaskOf(n) \in started /\ (TaskOf(n) \in finished <=> pc[q] # "run")
  BY DEF BatchInv
<1>5. \A q \in Participant : \A n \in batch[q] : TaskOf(n) \in finished <=> pc'[q] # "run"
  BY <1>3, <1>4
<1> QED BY <1>1, <1>2, <1>3, <1>4, <1>5 DEF BatchInv

-----------------------------------------------------------------------------
(* Where everybody is. *)

\* The counts of participants depend only on who is parked and who is idle.
LEMMA SameCounts ==
    ASSUME \A q \in Participant : pc'[q] = "parked" <=> pc[q] = "parked"
    PROVE  {w \in Worker : pc'[w] # "parked"} = {w \in Worker : pc[w] # "parked"}
BY ParticipantFacts

LEMMA SameSleepers ==
    ASSUME \A q \in Participant : pc'[q] \in Idle <=> pc[q] \in Idle
    PROVE  {q \in Participant : pc'[q] \in Idle} = {q \in Participant : pc[q] \in Idle}
OBVIOUS

LEMMA PcAfter ==
    ASSUME TypeOK, NEW p \in Participant, NEW to \in Pc, pc' = [pc EXCEPT ![p] = to]
    PROVE  /\ pc' \in [Participant -> Pc]
           /\ \A q \in Participant : pc'[q] = IF q = p THEN to ELSE pc[q]
<1>1. pc \in [Participant -> Pc] BY DEF TypeOK, Pc
<1> QED BY <1>1

\* One participant moves, and neither joins, leaves, falls asleep nor wakes.
LEMMA PlainMove ==
    ASSUME TypeOK, ControlInv, NEW p \in Participant, NEW to \in Driving \cup {"stop", "leave"},
           pc' = [pc EXCEPT ![p] = to],
           pc[p] \notin {"client", "parked", "stop", "join", "leave"},
           pc[p] \in Idle <=> to \in Idle,
           pc[p] # "asleep", to # "asleep",
           to \in {"idle_check", "idle_sequence", "unlock"} => ws_idle_mutex = p,
           to = "stop" => p = 0,
           to = "leave" => p # 0,
           to \in {"stop", "leave"} => ws_outstanding' = 0,
           ws_outstanding = 0 => ws_outstanding' = 0,
           offset'[p] # 1 => to = "steal",
           \A q \in Participant \ {p} : offset'[q] = offset[q],
           UNCHANGED <<call, ws_running, ws_active_workers, ws_sleepers, asleep, ws_idle_mutex>>
    PROVE  pc' \in [Participant -> Pc] /\ InDrain' = InDrain /\ ControlInv'
<1>0. to \in Pc BY DEF Pc
<1>1. /\ pc' \in [Participant -> Pc]
      /\ \A q \in Participant : pc'[q] = IF q = p THEN to ELSE pc[q]
  BY <1>0, PcAfter
<1>2. to \notin {"client", "join", "parked"} BY DEF Driving
<1>3. {w \in Worker : pc'[w] # "parked"} = {w \in Worker : pc[w] # "parked"}
  BY <1>1, <1>2, SameCounts
<1>4. {q \in Participant : pc'[q] \in Idle} = {q \in Participant : pc[q] \in Idle}
  BY <1>1, SameSleepers
<1>5. asleep' = {q \in Participant : pc'[q] = "asleep"} BY <1>1 DEF ControlInv
<1>6. /\ pc'[0] \notin {"parked", "leave"}
      /\ \A w \in Worker : pc'[w] \notin {"client", "stop", "join"}
      /\ ws_running' <=> pc'[0] \notin {"client", "join"}
      /\ InDrain' = InDrain
  BY <1>1, <1>2, ParticipantFacts DEF ControlInv, InDrain
<1>7. ASSUME NEW q \in Participant
      PROVE  /\ pc'[q] \in {"idle_check", "idle_sequence", "unlock"} => ws_idle_mutex' = q
             /\ pc'[q] \in {"leave", "stop", "join"} => ws_outstanding' = 0
             /\ pc'[q] # "steal" => offset'[q] = 1
  <2>1. CASE q = p BY <1>1, <1>2, <2>1
  <2>2. CASE q # p BY <1>1, <2>2 DEF ControlInv
  <2> QED BY <2>1, <2>2
<1>8. call'.op = "wait_key" => call'.key \in Key BY DEF ControlInv
<1> QED BY <1>1, <1>3, <1>4, <1>5, <1>6, <1>7, <1>8 DEF ControlInv

\* A participant that notifies moves on, and the sleepers it wakes move.
LEMMA NotifyControl ==
    ASSUME TypeOK, ControlInv, NEW p \in Participant, NEW to \in Driving \ Idle,
           pc[p] \in {"notify", "last"}, NEW woken \in SUBSET asleep,
           \A q \in Participant :
               pc'[q] = IF q \in woken THEN "woken" ELSE IF q = p THEN to ELSE pc[q],
           pc' = [q \in Participant |-> pc'[q]],
           asleep' = asleep \ woken, to # "steal",
           UNCHANGED <<call, ws_outstanding, ws_running, ws_active_workers, ws_sleepers,
                       ws_idle_mutex, offset>>
    PROVE  pc' \in [Participant -> Pc] /\ InDrain' = InDrain /\ ControlInv'
<1>1. \A q \in woken : q \in Participant /\ pc[q] = "asleep" BY DEF ControlInv
<1>2. pc \in [Participant -> Pc] BY DEF TypeOK, Pc
<1>3. to \in Driving /\ to \notin Idle /\ to \notin {"client", "join", "stop", "parked", "leave"}
  BY DEF Driving
<1>4. pc' \in [Participant -> Pc]
  <2>1. \A q \in Participant : pc'[q] \in Pc BY <1>2, <1>3 DEF Pc, Driving
  <2> QED BY <2>1
<1>5. {w \in Worker : pc'[w] # "parked"} = {w \in Worker : pc[w] # "parked"}
  BY <1>1, <1>3, SameCounts
<1>6. {q \in Participant : pc'[q] \in Idle} = {q \in Participant : pc[q] \in Idle}
  BY <1>1, <1>3, SameSleepers DEF Idle
<1>7. asleep' = {q \in Participant : pc'[q] = "asleep"}
  BY <1>1, <1>3 DEF ControlInv, Idle
<1>8. /\ pc'[0] \notin {"parked", "leave"}
      /\ \A w \in Worker : pc'[w] \notin {"client", "stop", "join"}
      /\ ws_running' <=> pc'[0] \notin {"client", "join"}
      /\ InDrain' = InDrain
  BY <1>1, <1>3, ParticipantFacts DEF ControlInv, InDrain
<1>9. ASSUME NEW q \in Participant
      PROVE  /\ pc'[q] \in {"idle_check", "idle_sequence", "unlock"} => ws_idle_mutex' = q
             /\ pc'[q] \in {"leave", "stop", "join"} => ws_outstanding' = 0
             /\ pc'[q] # "steal" => offset'[q] = 1
  <2>1. CASE q \in woken BY <1>1, <2>1 DEF ControlInv
  <2>2. CASE q \notin woken /\ q = p BY <1>3, <2>2 DEF ControlInv, Idle
  <2>3. CASE q \notin woken /\ q # p BY <2>3 DEF ControlInv
  <2> QED BY <2>1, <2>2, <2>3
<1>10. call'.op = "wait_key" => call'.key \in Key BY DEF ControlInv
<1> QED BY <1>4, <1>5, <1>6, <1>7, <1>8, <1>9, <1>10 DEF ControlInv

LEMMA NotifyOneControl ==
    ASSUME TypeOK, ControlInv, NEW p \in Participant, NotifyOne(p)
    PROVE  pc' \in [Participant -> Pc] /\ InDrain' = InDrain /\ ControlInv'
<1>1. ReleaseOrFinish(edges[p]) \in Driving \ Idle /\ ReleaseOrFinish(edges[p]) # "steal"
  BY DEF ReleaseOrFinish, Driving, Idle
<1>2. pc \in [Participant -> Pc] BY DEF TypeOK, Pc
<1>3. UNCHANGED <<call, ws_outstanding, ws_running, ws_active_workers, ws_sleepers,
                  ws_idle_mutex, offset>>
  BY DEF NotifyOne, client_vars, work_vars, drain_vars, local_vars
<1>4. PICK woken \in SUBSET asleep :
        /\ asleep' = asleep \ woken
        /\ pc' = [q \in Participant |-> pc'[q]]
        /\ \A q \in Participant :
             pc'[q] = IF q \in woken THEN "woken"
                      ELSE IF q = p THEN ReleaseOrFinish(edges[p]) ELSE pc[q]
  <2>1. CASE asleep = {}
    <3>1. asleep' = asleep \ {} BY <2>1 DEF NotifyOne
    <3>2. pc' = [pc EXCEPT ![p] = ReleaseOrFinish(edges[p])] BY <2>1 DEF NotifyOne, Goto
    <3>3. {} \in SUBSET asleep OBVIOUS
    <3> QED BY <1>2, <3>1, <3>2, <3>3
  <2>2. CASE asleep # {}
    <3>1. PICK q \in asleep :
            /\ asleep' = asleep \ {q}
            /\ pc' = [pc EXCEPT ![p] = ReleaseOrFinish(edges[p]), ![q] = "woken"]
      BY <2>2 DEF NotifyOne
    <3>2. {q} \in SUBSET asleep BY <3>1
    <3> QED BY <1>2, <3>1, <3>2
  <2> QED BY <2>1, <2>2
<1>5. pc[p] \in {"notify", "last"} BY DEF NotifyOne
<1> QED BY <1>1, <1>3, <1>4, <1>5, NotifyControl

LEMMA NotifyAllControl ==
    ASSUME TypeOK, ControlInv, NEW p \in Participant, NotifyAll(p)
    PROVE  pc' \in [Participant -> Pc] /\ InDrain' = InDrain /\ ControlInv'
<1>1. "load" \in Driving \ Idle BY DEF Driving, Idle
<1>2. UNCHANGED <<call, ws_outstanding, ws_running, ws_active_workers, ws_sleepers,
                  ws_idle_mutex, offset>>
  BY DEF NotifyAll, client_vars, work_vars, drain_vars, local_vars
<1>3. /\ asleep' = asleep \ asleep
      /\ pc' = [q \in Participant |-> pc'[q]]
      /\ \A q \in Participant :
             pc'[q] = IF q \in asleep THEN "woken" ELSE IF q = p THEN "load" ELSE pc[q]
  BY DEF NotifyAll, WakeAll
<1>4. pc[p] \in {"notify", "last"} BY DEF NotifyAll
<1>5. asleep \in SUBSET asleep OBVIOUS
<1> QED BY <1>1, <1>2, <1>3, <1>4, <1>5, NotifyControl

LEMMA TimeOutControl ==
    ASSUME TypeOK, ControlInv, NEW p \in Participant, TimeOut(p)
    PROVE  pc' \in [Participant -> Pc] /\ InDrain' = InDrain /\ ControlInv'
<1>1. UNCHANGED <<call, ws_outstanding, ws_running, ws_active_workers, ws_sleepers,
                  ws_idle_mutex, offset>>
  BY DEF TimeOut, client_vars, work_vars, drain_vars, local_vars
<1>2. /\ pc' \in [Participant -> Pc]
      /\ \A q \in Participant : pc'[q] = IF q = p THEN "woken" ELSE pc[q]
  BY PcAfter DEF TimeOut, Goto, Pc, Driving
<1>3. pc[p] = "asleep" /\ asleep' = asleep \ {p} BY DEF TimeOut, ControlInv
<1>4. {w \in Worker : pc'[w] # "parked"} = {w \in Worker : pc[w] # "parked"}
  BY <1>2, <1>3, SameCounts
<1>5. {q \in Participant : pc'[q] \in Idle} = {q \in Participant : pc[q] \in Idle}
  BY <1>2, <1>3, SameSleepers DEF Idle
<1>6. asleep' = {q \in Participant : pc'[q] = "asleep"} BY <1>2, <1>3 DEF ControlInv
<1>7. /\ pc'[0] \notin {"parked", "leave"}
      /\ \A w \in Worker : pc'[w] \notin {"client", "stop", "join"}
      /\ ws_running' <=> pc'[0] \notin {"client", "join"}
      /\ InDrain' = InDrain
  BY <1>1, <1>2, <1>3, ParticipantFacts DEF ControlInv, InDrain
<1>8. \A q \in Participant :
        /\ pc'[q] \in {"idle_check", "idle_sequence", "unlock"} => ws_idle_mutex' = q
        /\ pc'[q] \in {"leave", "stop", "join"} => ws_outstanding' = 0
        /\ pc'[q] # "steal" => offset'[q] = 1
  BY <1>1, <1>2, <1>3 DEF ControlInv
<1>9. call'.op = "wait_key" => call'.key \in Key BY <1>1 DEF ControlInv
<1> QED BY <1>1, <1>2, <1>4, <1>5, <1>6, <1>7, <1>8, <1>9 DEF ControlInv

LEMMA AddOne ==
    ASSUME NEW S, IsFiniteSet(S), NEW x, x \notin S
    PROVE  Cardinality(S \cup {x}) = Cardinality(S) + 1
BY FS_AddElement

LEMMA RemoveOne ==
    ASSUME NEW S, IsFiniteSet(S), NEW x \in S
    PROVE  Cardinality(S \ {x}) = Cardinality(S) - 1
BY FS_RemoveElement

\* Going to sleep and leaving the idle section, under ws_idle_mutex_.
LEMMA IdleControl ==
    ASSUME TypeOK, ControlInv, NEW p \in Participant,
           RegisterSleeper(p) \/ RecheckSequence(p) \/ LeaveIdle(p)
    PROVE  pc' \in [Participant -> Pc] /\ InDrain' = InDrain /\ ControlInv'
<1>1. UNCHANGED <<call, ws_outstanding, ws_running, ws_active_workers, offset>>
  BY DEF RegisterSleeper, RecheckSequence, LeaveIdle, client_vars, work_vars, drain_vars,
         local_vars
<1>2. PICK to \in {"idle_check", "asleep", "unlock", "load"} : pc' = [pc EXCEPT ![p] = to]
  BY DEF RegisterSleeper, RecheckSequence, LeaveIdle, Goto
<1>3. /\ pc' \in [Participant -> Pc]
      /\ \A q \in Participant : pc'[q] = IF q = p THEN to ELSE pc[q]
  BY <1>2, PcAfter DEF Pc, Driving
<1>4. pc[p] \in {"idle", "idle_sequence", "unlock", "woken"}
  BY DEF RegisterSleeper, RecheckSequence, LeaveIdle
<1>5. {w \in Worker : pc'[w] # "parked"} = {w \in Worker : pc[w] # "parked"}
  BY <1>3, <1>4, SameCounts
<1> DEFINE before == {q \in Participant : pc[q] \in Idle}
           then == {q \in Participant : pc'[q] \in Idle}
<1>6. IsFiniteSet(before) /\ ws_sleepers = Cardinality(before)
  BY ParticipantFacts DEF ControlInv
<1>7. ws_sleepers' = Cardinality(then)
  <2>1. CASE RegisterSleeper(p)
    <3>1. pc[p] = "idle" /\ pc' = [pc EXCEPT ![p] = "idle_check"]
          /\ ws_sleepers' = ws_sleepers + 1
      BY <2>1 DEF RegisterSleeper, Goto
    <3>2. pc \in [Participant -> Pc] BY DEF TypeOK, Pc
    <3>3. then = before \cup {p} /\ p \notin before BY <3>1, <3>2 DEF Idle
    <3> QED BY <1>6, <3>1, <3>3, AddOne
  <2>2. CASE RecheckSequence(p)
    <3>1. to \in {"asleep", "unlock"} /\ pc[p] = "idle_sequence" /\ ws_sleepers' = ws_sleepers
      <4>1. pc' = [pc EXCEPT ![p] = "asleep"] \/ pc' = [pc EXCEPT ![p] = "unlock"]
        BY <2>2 DEF RecheckSequence, Goto
      <4>2. pc'[p] \in {"asleep", "unlock"}
        <5>1. pc \in [Participant -> Pc] BY DEF TypeOK, Pc
        <5> QED BY <4>1, <5>1
      <4> QED BY <1>3, <2>2, <4>2 DEF RecheckSequence
    <3>2. then = before BY <1>3, <3>1, SameSleepers DEF Idle
    <3> QED BY <1>6, <3>1, <3>2
  <2>3. CASE LeaveIdle(p)
    <3>1. pc[p] \in {"unlock", "woken"} /\ pc' = [pc EXCEPT ![p] = "load"]
          /\ ws_sleepers' = ws_sleepers - 1
      BY <2>3 DEF LeaveIdle, Goto
    <3>2. pc \in [Participant -> Pc] BY DEF TypeOK, Pc
    <3>3. then = before \ {p} /\ p \in before BY <3>1, <3>2 DEF Idle
    <3> QED BY <1>6, <3>1, <3>3, RemoveOne
  <2> QED BY <2>1, <2>2, <2>3
<1>8. asleep' = {q \in Participant : pc'[q] = "asleep"}
  <2>1. CASE RegisterSleeper(p) \/ LeaveIdle(p)
    <3>1. asleep' = asleep /\ pc[p] # "asleep"
          /\ (pc' = [pc EXCEPT ![p] = "idle_check"] \/ pc' = [pc EXCEPT ![p] = "load"])
      BY <2>1 DEF RegisterSleeper, LeaveIdle, Goto
    <3>2. pc \in [Participant -> Pc] BY DEF TypeOK, Pc
    <3> QED BY <3>1, <3>2 DEF ControlInv
  <2>2. CASE RecheckSequence(p)
    <3>1. pc[p] # "asleep"
          /\ \/ pc' = [pc EXCEPT ![p] = "asleep"] /\ asleep' = asleep \cup {p}
             \/ pc' = [pc EXCEPT ![p] = "unlock"] /\ asleep' = asleep
      BY <2>2 DEF RecheckSequence, Goto
    <3>2. pc \in [Participant -> Pc] BY DEF TypeOK, Pc
    <3> QED BY <3>1, <3>2 DEF ControlInv
  <2> QED BY <2>1, <2>2
<1>9. /\ pc'[0] \notin {"parked", "leave"}
      /\ \A w \in Worker : pc'[w] \notin {"client", "stop", "join"}
      /\ ws_running' <=> pc'[0] \notin {"client", "join"}
      /\ InDrain' = InDrain
  BY <1>1, <1>3, <1>4, ParticipantFacts DEF ControlInv, InDrain
\* Nobody else holds ws_idle_mutex_, and p holds it only in the section.
<1>10. \A q \in Participant : pc'[q] \in {"idle_check", "idle_sequence", "unlock"} =>
                                ws_idle_mutex' = q
  <2>1. ws_idle_mutex \in {Nobody, p}
    BY DEF RegisterSleeper, RecheckSequence, LeaveIdle, ControlInv
  <2>2. \A q \in Participant \ {p} :
            pc[q] \notin {"idle_check", "idle_sequence", "unlock"}
    BY <2>1, ParticipantFacts DEF ControlInv
  <2>3. pc'[p] \in {"idle_check", "idle_sequence", "unlock"} => ws_idle_mutex' = p
    <3>1. pc \in [Participant -> Pc] BY DEF TypeOK, Pc
    <3> QED BY <3>1 DEF RegisterSleeper, RecheckSequence, LeaveIdle, Goto, ControlInv
  <2> QED BY <1>3, <2>2, <2>3
<1>11. \A q \in Participant :
        /\ pc'[q] \in {"leave", "stop", "join"} => ws_outstanding' = 0
        /\ pc'[q] # "steal" => offset'[q] = 1
  BY <1>1, <1>3, <1>4 DEF ControlInv
<1>12. call'.op = "wait_key" => call'.key \in Key BY <1>1 DEF ControlInv
<1> QED BY <1>1, <1>3, <1>5, <1>7, <1>8, <1>9, <1>10, <1>11, <1>12 DEF ControlInv

\* Joining and leaving, under mutex_.
LEMMA JoinControl ==
    ASSUME TypeOK, ControlInv, NEW w \in Worker,
           JoinDrain(w) \/ (LeaveDrain(w) /\ InDrain)
    PROVE  pc' \in [Participant -> Pc] /\ InDrain' = InDrain /\ ControlInv'
<1>1. UNCHANGED <<call, ws_outstanding, ws_running, ws_sleepers, asleep, ws_idle_mutex, offset>>
  BY DEF JoinDrain, LeaveDrain, client_vars, work_vars, local_vars, idle_vars
<1>2. PICK to \in {"load", "parked"} : pc' = [pc EXCEPT ![w] = to]
  BY DEF JoinDrain, LeaveDrain, Goto
<1>3. w \in Participant /\ w # 0 BY ParticipantFacts
<1>4. /\ pc' \in [Participant -> Pc]
      /\ \A q \in Participant : pc'[q] = IF q = w THEN to ELSE pc[q]
  BY <1>2, <1>3, PcAfter DEF Pc, Driving
<1>5. pc[w] \in {"parked", "leave"} BY DEF JoinDrain, LeaveDrain
<1>6. pc \in [Participant -> Pc] BY DEF TypeOK, Pc
<1> DEFINE before == {v \in Worker : pc[v] # "parked"}
           then == {v \in Worker : pc'[v] # "parked"}
<1>7. IsFiniteSet(before) /\ ws_active_workers = Cardinality(before)
  BY ParticipantFacts DEF ControlInv
<1>8. ws_active_workers' = Cardinality(then)
  <2>1. CASE JoinDrain(w)
    <3>1. pc[w] = "parked" /\ pc' = [pc EXCEPT ![w] = "load"]
          /\ ws_active_workers' = ws_active_workers + 1
      BY <2>1 DEF JoinDrain, Goto
    <3>2. then = before \cup {w} /\ w \notin before BY <1>3, <1>6, <3>1, ParticipantFacts
    <3> QED BY <1>7, <3>1, <3>2, AddOne
  <2>2. CASE LeaveDrain(w)
    <3>1. pc[w] = "leave" /\ pc' = [pc EXCEPT ![w] = "parked"]
          /\ ws_active_workers' = ws_active_workers - 1
      BY <2>2 DEF LeaveDrain, Goto
    <3>2. then = before \ {w} /\ w \in before BY <1>3, <1>6, <3>1, ParticipantFacts
    <3> QED BY <1>7, <3>1, <3>2, RemoveOne
  <2> QED BY <2>1, <2>2
<1>9. {q \in Participant : pc'[q] \in Idle} = {q \in Participant : pc[q] \in Idle}
  BY <1>4, <1>5, SameSleepers DEF Idle
<1>10. asleep' = {q \in Participant : pc'[q] = "asleep"} BY <1>1, <1>4, <1>5 DEF ControlInv
<1>11. /\ pc'[0] \notin {"parked", "leave"}
       /\ \A v \in Worker : pc'[v] \notin {"client", "stop", "join"}
       /\ ws_running' <=> pc'[0] \notin {"client", "join"}
       /\ InDrain' = InDrain
  BY <1>1, <1>3, <1>4, <1>5, ParticipantFacts DEF ControlInv, InDrain
<1>12. \A q \in Participant :
        /\ pc'[q] \in {"idle_check", "idle_sequence", "unlock"} => ws_idle_mutex' = q
        /\ pc'[q] \in {"leave", "stop", "join"} => ws_outstanding' = 0
        /\ pc'[q] # "steal" => offset'[q] = 1
  BY <1>1, <1>3, <1>4, <1>5 DEF ControlInv
<1>13. call'.op = "wait_key" => call'.key \in Key BY <1>1 DEF ControlInv
<1> QED BY <1>1, <1>4, <1>8, <1>9, <1>10, <1>11, <1>12, <1>13 DEF ControlInv

LEMMA StopControl ==
    ASSUME TypeOK, ControlInv, StopDrain
    PROVE  pc' \in [Participant -> Pc] /\ InDrain' = InDrain /\ ControlInv'
<1>1. UNCHANGED <<call, ws_outstanding, ws_active_workers, ws_sleepers, asleep, ws_idle_mutex,
                  offset>>
      /\ ws_running' = FALSE /\ pc[0] = "stop"
  BY DEF StopDrain, client_vars, work_vars, local_vars, idle_vars
<1>2. /\ pc' \in [Participant -> Pc]
      /\ \A q \in Participant : pc'[q] = IF q = 0 THEN "join" ELSE pc[q]
  BY PcAfter, ParticipantFacts DEF StopDrain, Goto, Pc
<1>3. {v \in Worker : pc'[v] # "parked"} = {v \in Worker : pc[v] # "parked"}
  BY <1>1, <1>2, SameCounts
<1>4. {q \in Participant : pc'[q] \in Idle} = {q \in Participant : pc[q] \in Idle}
  BY <1>1, <1>2, SameSleepers DEF Idle
<1>5. asleep' = {q \in Participant : pc'[q] = "asleep"} BY <1>1, <1>2 DEF ControlInv
<1>6. /\ pc'[0] = "join"
      /\ \A v \in Worker : pc'[v] \notin {"client", "stop", "join"}
      /\ InDrain' = InDrain
  BY <1>1, <1>2, ParticipantFacts DEF ControlInv, InDrain
<1>7. \A q \in Participant :
        /\ pc'[q] \in {"idle_check", "idle_sequence", "unlock"} => ws_idle_mutex' = q
        /\ pc'[q] \in {"leave", "stop", "join"} => ws_outstanding' = 0
        /\ pc'[q] # "steal" => offset'[q] = 1
  BY <1>1, <1>2 DEF ControlInv
<1>8. call'.op = "wait_key" => call'.key \in Key BY <1>1 DEF ControlInv
<1> QED BY <1>1, <1>2, <1>3, <1>4, <1>5, <1>6, <1>7, <1>8 DEF ControlInv

-----------------------------------------------------------------------------
(* Deques that are watched. *)

Looking == Working \cup {"last", "load", "pop", "unlock", "woken"}
PastOwnDeque == {"steal", "check", "idle"} \cup Idle
Blocking == {"idle_sequence", "asleep"}

\* Somebody who looks looks at every deque.
LEMMA LookingWatches ==
    ASSUME NEW p \in Participant, NEW v \in Participant
    PROVE  /\ pc[p] \in Looking => WillLook(p, v)
           /\ pc[p] \notin Looking \cup {"steal"} => ~WillLook(p, v)
           /\ pc'[p] \in Looking => WillLook(p, v)'
BY DEF WillLook, Looking

\* The deques stay watched when participant p moves and others wake up.
LEMMA WakeUnchanged ==
    ASSUME WakeInv, NEW p \in Participant,
           UNCHANGED <<ws_queues, ws_outstanding>>,
           \A q \in Participant \ {p} :
               /\ pc'[q] = pc[q] \/ (pc[q] = "asleep" /\ pc'[q] = "woken")
               /\ offset'[q] = offset[q],
           \A v \in Participant : ws_queues[v] # <<>> /\ WillLook(p, v) =>
               \E r \in Participant : WillLook(r, v)',
           pc'[p] \in PastOwnDeque => ws_queues[p] = <<>>,
           pc'[p] \in Blocking /\ ws_outstanding = 0 => pc[p] \in Blocking,
           pc[p] = "last" => \A q \in Participant : pc'[q] \notin Blocking
    PROVE  WakeInv'
<1>1. ASSUME NEW v \in Participant, ws_queues'[v] # <<>>
      PROVE  \E r \in Participant : WillLook(r, v)'
  <2>1. PICK q \in Participant : WillLook(q, v) BY <1>1 DEF WakeInv, QueuesAreWatched
  <2>2. CASE q = p BY <1>1, <2>1, <2>2
  <2>3. CASE q # p /\ pc'[q] = pc[q] BY <2>1, <2>3 DEF WillLook
  <2>4. CASE q # p /\ pc'[q] = "woken" BY <2>4, LookingWatches DEF Looking
  <2> QED BY <2>2, <2>3, <2>4
<1>2. ASSUME NEW q \in Participant, pc'[q] \in PastOwnDeque PROVE ws_queues'[q] = <<>>
  <2>1. CASE q = p BY <1>2, <2>1
  <2>2. CASE q # p
    <3>1. pc[q] \in PastOwnDeque BY <1>2, <2>2 DEF PastOwnDeque, Idle
    <3> QED BY <3>1 DEF WakeInv, PastOwnDeque
  <2> QED BY <2>1, <2>2
<1>3. ASSUME ws_outstanding' = 0, NEW q \in Participant, pc'[q] \in Blocking
      PROVE  \E r \in Participant : pc'[r] = "last"
  <2>1. pc[q] \in Blocking BY <1>3 DEF Blocking
  <2>2. PICK r \in Participant : pc[r] = "last" BY <1>3, <2>1 DEF WakeInv, Blocking
  <2>3. r # p BY <1>3, <2>2
  <2> QED BY <2>2, <2>3
<1> QED BY <1>1, <1>2, <1>3 DEF WakeInv, QueuesAreWatched, PastOwnDeque, Blocking

\* Participants that drive do so in a drain.
LEMMA DrivingIsInDrain ==
    ASSUME ControlInv, BetweenDrains, NEW p \in Participant, pc[p] \notin {"client", "parked"}
    PROVE  InDrain
BY ParticipantFacts DEF ControlInv, BetweenDrains, InDrain

\* All that a step needs that leaves the core alone.
LEMMA QuietStep ==
    ASSUME IInv, [Next]_vars, InDrain, UNCHANGED core_vars,
           pc' \in [Participant -> Pc], InDrain' = InDrain, ControlInv',
           shard_mutex' \in [Participant -> Participant \cup {Nobody}],
           ws_running' \in BOOLEAN,
           ws_idle_mutex' \in Participant \cup {Nobody},
           sequence_before' \subseteq Participant,
           offset' \in [Participant -> Worker],
           seen_epoch' \subseteq Worker,
           BatchInv', WakeInv'
    PROVE  IInv'
<1>1. TypeOK /\ ErrorIsKept /\ GraphInv /\ BetweenDrains /\ DrainInv BY DEF IInv
<1>2. ErrorIsKept' BY <1>1, ErrorStep
<1>3. TypeOK' BY <1>1, CoreTypes
<1>4. GraphInv' /\ BetweenDrains' /\ DrainInv' BY <1>1, CoreUnchanged
<1> QED BY <1>2, <1>3, <1>4 DEF IInv

\* A step of one participant that is a plain move in PlainMove's sense.
LEMMA QuietMove ==
    ASSUME IInv, [Next]_vars, NEW p \in Participant, NEW to \in Driving \cup {"stop", "leave"},
           pc' = [pc EXCEPT ![p] = to],
           pc[p] \notin {"client", "parked", "stop", "join", "leave"},
           pc[p] \in Idle <=> to \in Idle,
           pc[p] # "asleep", to # "asleep", pc[p] # "last",
           to \in {"idle_check", "idle_sequence", "unlock"} => ws_idle_mutex = p,
           to = "stop" => p = 0,
           to = "leave" => p # 0,
           to \in {"stop", "leave"} => ws_outstanding = 0,
           offset' \in [Participant -> Worker],
           offset'[p] # 1 => to = "steal",
           \A q \in Participant \ {p} : offset'[q] = offset[q],
           UNCHANGED <<core_vars, drain_vars, ws_sleepers, asleep, ws_idle_mutex>>,
           shard_mutex' \in [Participant -> Participant \cup {Nobody}],
           sequence_before' \subseteq Participant,
           \/ pc[p] \notin Working
           \/ pc[p] \in Releasing /\ (to \in Releasing \/ (to = "finish" /\ edges[p] = {})),
           to \in Looking \/ \A v \in Participant : ws_queues[v] # <<>> /\ WillLook(p, v) =>
               \E r \in Participant : WillLook(r, v)',
           to \in PastOwnDeque => ws_queues[p] = <<>>,
           to \in Blocking => ws_outstanding # 0
    PROVE  IInv'
<1>1. TypeOK /\ ControlInv /\ BetweenDrains /\ BatchInv /\ WakeInv BY DEF IInv
<1>2. UNCHANGED <<call, ws_running, ws_active_workers, ws_outstanding, ws_queues, edges, batch,
                  seen_epoch>>
  BY DEF core_vars, client_vars, drain_vars
<1>3. pc' \in [Participant -> Pc] /\ InDrain' = InDrain /\ ControlInv'
  BY <1>1, <1>2, PlainMove
<1>4. \A q \in Participant : pc'[q] = IF q = p THEN to ELSE pc[q]
  BY <1>1, PcAfter DEF Pc
<1>5. InDrain BY <1>1, DrivingIsInDrain
<1>6. BatchInv' BY <1>1, <1>4, BatchUnchanged
<1>7. WakeInv'
  <2>1. ASSUME NEW v \in Participant, ws_queues[v] # <<>>, WillLook(p, v)
        PROVE  \E r \in Participant : WillLook(r, v)'
    <3>1. CASE to \in Looking BY <1>4, <3>1, LookingWatches
    <3>2. CASE to \notin Looking BY <2>1, <3>2
    <3> QED BY <3>1, <3>2
  <2> QED BY <1>1, <1>2, <1>4, <2>1, WakeUnchanged
<1>8. ws_running' \in BOOLEAN /\ ws_idle_mutex' \in Participant \cup {Nobody}
      /\ seen_epoch' \subseteq Worker
  BY <1>1, <1>2 DEF TypeOK
<1> QED BY <1>3, <1>5, <1>6, <1>7, <1>8, QuietStep

\* A thief that begins with offset 1 has every other deque ahead of it.
LEMMA RoundRobin ==
    ASSUME NEW p \in Participant, NEW v \in Participant, v # p
    PROVE  \E o \in 1..Workers : v = (p + o) % Participants
<1>1. /\ Participants = Workers + 1 /\ Workers \in Nat /\ Participants \in Nat \ {0}
      /\ p \in 0..Workers /\ v \in 0..Workers
  BY ParticipantFacts DEF Participant
<1>2. CASE v > p
  <2>1. v - p \in 1..Workers /\ p + (v - p) = v BY <1>1, <1>2
  <2>2. v % Participants = v BY <1>1
  <2> QED BY <2>1, <2>2
<1>3. CASE v < p
  <2> DEFINE o == v + Participants - p
  <2>1. o \in 1..Workers /\ p + o = v + Participants BY <1>1, <1>3
  <2>2. (v + Participants) % Participants = v BY <1>1
  <2> HIDE DEF o
  <2> QED BY <2>1, <2>2
<1> QED BY <1>1, <1>2, <1>3

LEMMA VictimType ==
    ASSUME TypeOK, NEW p \in Participant
    PROVE  Victim(p) \in Participant /\ offset[p] \in 1..Workers
<1>1. offset[p] \in 1..Workers BY DEF TypeOK, Worker
<1>2. /\ Participants = Workers + 1 /\ Workers \in Nat /\ p \in 0..Workers
  BY ParticipantFacts DEF Participant
<1>3. ASSUME NEW x \in Nat PROVE x % (Workers + 1) \in 0..Workers BY <1>2
<1>4. p + offset[p] \in Nat BY <1>1, <1>2
<1> QED BY <1>1, <1>2, <1>3, <1>4 DEF Victim, Participant

LEMMA AccessType ==
    ASSUME TypeOK, NEW p, NEW v, Access(p, v)
    PROVE  shard_mutex' \in [Participant -> Participant \cup {Nobody}]
BY DEF TypeOK, Access

LEMMA PopEmptyStep ==
    ASSUME IInv, [Next]_vars, NEW p \in Participant, PopLocalBatch(p), ws_queues[p] = <<>>
    PROVE  IInv'
<1>1. TypeOK /\ ControlInv BY DEF IInv
<1>2. /\ pc[p] = "pop" /\ Access(p, p) /\ pc' = [pc EXCEPT ![p] = "steal"]
      /\ UNCHANGED <<core_vars, drain_vars, ws_sleepers, asleep, ws_idle_mutex,
                     sequence_before, offset>>
  BY DEF PopLocalBatch, PopLocal, Goto, core_vars, history_vars
<1>3. offset[p] = 1 BY <1>1, <1>2 DEF ControlInv
<1>4. ASSUME NEW v \in Participant, ws_queues[v] # <<>> PROVE WillLook(p, v)'
  <2>1. pc'[p] = "steal" BY <1>1, <1>2 DEF TypeOK
  <2>2. v # p BY <1>4
  <2>3. \E o \in 1..Workers : v = (p + o) % Participants BY <2>2, RoundRobin
  <2>4. offset'[p] = 1 BY <1>2, <1>3
  <2> QED BY <2>1, <2>3, <2>4 DEF WillLook
<1>5. shard_mutex' \in [Participant -> Participant \cup {Nobody}]
  BY <1>1, <1>2, AccessType
<1>6. offset' \in [Participant -> Worker] /\ sequence_before' \subseteq Participant
  BY <1>1, <1>2 DEF TypeOK
<1>7. "steal" \in Driving \cup {"stop", "leave"} BY DEF Driving
<1>8. "pop" \notin Working /\ "pop" \notin Idle /\ "steal" \notin Idle /\ "steal" \notin Blocking
  BY DEF Working, Releasing, Idle, Blocking
<1> QED BY <1>2, <1>4, <1>5, <1>6, <1>7, <1>8, QuietMove

\* Passing over a deque that holds something means that somebody else is there.
LEMMA SkipStep ==
    ASSUME IInv, [Next]_vars, NEW p \in Participant, SkipVictim(p)
    PROVE  IInv'
<1>1. TypeOK /\ ControlInv /\ WakeInv BY DEF IInv
<1> DEFINE to == IF offset[p] < Workers THEN "steal" ELSE "check"
<1>2. /\ pc[p] = "steal"
      /\ UNCHANGED <<core_vars, drain_vars, ws_sleepers, asleep, ws_idle_mutex,
                     sequence_before>>
  BY DEF SkipVictim, core_vars, idle_vars
<1>3. /\ pc' = [pc EXCEPT ![p] = to]
      /\ offset' = [offset EXCEPT ![p] = IF offset[p] < Workers THEN offset[p] + 1 ELSE 1]
  <2>1. pc \in [Participant -> Pc] BY <1>1 DEF TypeOK, Pc
  <2>2. CASE offset[p] < Workers BY <1>2, <2>1, <2>2 DEF SkipVictim
  <2>3. CASE ~(offset[p] < Workers) BY <2>3 DEF SkipVictim, Goto
  <2> QED BY <2>2, <2>3
<1>4. Victim(p) \in Participant /\ offset[p] \in 1..Workers BY <1>1, VictimType
<1>5. offset' \in [Participant -> Worker] /\ sequence_before' \subseteq Participant
  <2>1. (IF offset[p] < Workers THEN offset[p] + 1 ELSE 1) \in Worker
    BY <1>4, ParticipantFacts DEF Worker
  <2> QED BY <1>1, <1>2, <1>3, <2>1 DEF TypeOK
<1>6. shard_mutex' \in [Participant -> Participant \cup {Nobody}]
  <2>1. CASE UNCHANGED shard_mutex BY <1>1, <2>1 DEF TypeOK
  <2>2. CASE Contended(p)
    <3>1. PICK q \in Participant : shard_mutex' = [shard_mutex EXCEPT ![Victim(p)] = q]
      BY <2>2 DEF Contended, Accessing
    <3> QED BY <1>1, <3>1 DEF TypeOK
  <2> QED BY <2>1, <2>2 DEF SkipVictim
<1>7. /\ \A q \in Participant : pc'[q] = IF q = p THEN to ELSE pc[q]
      /\ \A q \in Participant \ {p} : offset'[q] = offset[q]
      /\ offset'[p] = IF offset[p] < Workers THEN offset[p] + 1 ELSE 1
  <2>1. to \in Pc BY DEF Pc, Driving
  <2>2. offset \in [Participant -> Worker] BY <1>1 DEF TypeOK
  <2> HIDE DEF to
  <2> QED BY <1>1, <1>3, <2>1, <2>2, PcAfter
<1>8. ASSUME NEW v \in Participant, ws_queues[v] # <<>>, WillLook(p, v)
      PROVE  \E r \in Participant : WillLook(r, v)'
  <2>1. PICK o \in offset[p]..Workers : v = (p + o) % Participants
    BY <1>2, <1>8 DEF WillLook, Working, Releasing
  <2>2. CASE o = offset[p]
    <3>1. v = Victim(p) BY <2>1, <2>2 DEF Victim
    <3>2. PICK q \in Accessing(v) \ {p} : TRUE
      BY <1>8, <3>1 DEF SkipVictim, Contended
    <3>3. q \in Participant /\ q # p BY <3>2 DEF Accessing
    <3>4. CASE pc[q] = "pop" \/ pc[q] = "release"
      <4>1. pc'[q] \in Looking BY <1>7, <3>3, <3>4 DEF Looking, Working, Releasing
      <4> QED BY <3>3, <4>1, LookingWatches
    <3>5. CASE pc[q] = "steal" /\ Victim(q) = v
      <4>1. pc'[q] = "steal" /\ offset'[q] = offset[q] BY <1>7, <3>3, <3>5
      <4>2. offset[q] \in offset[q]..Workers
        <5>1. offset[q] \in 1..Workers BY <1>1, <3>3, VictimType
        <5> QED BY <5>1, ParticipantFacts
      <4> QED BY <3>3, <3>5, <4>1, <4>2 DEF WillLook, Victim
    <3> QED BY <3>2, <3>4, <3>5 DEF Accessing
  <2>3. CASE o # offset[p]
    <3>1. offset[p] < Workers /\ o \in (offset[p] + 1)..Workers
      BY <1>4, <2>1, <2>3, ParticipantFacts
    <3>2. pc'[p] = "steal" /\ offset'[p] = offset[p] + 1 BY <1>7, <3>1
    <3> QED BY <2>1, <3>1, <3>2 DEF WillLook
  <2> QED BY <2>2, <2>3
<1>9. /\ to \in Driving \cup {"stop", "leave"} /\ to \in {"steal", "check"}
      /\ to \notin Idle /\ to \notin Blocking /\ to \notin {"stop", "leave"}
      /\ "steal" \notin Working /\ "steal" \notin Idle
  BY DEF Driving, Idle, Blocking, Working, Releasing
<1>10. ws_queues[p] = <<>> BY <1>1, <1>2 DEF WakeInv
<1>11. offset'[p] # 1 => to = "steal" BY <1>7
<1> HIDE DEF to
<1> QED BY <1>2, <1>3, <1>5, <1>6, <1>7, <1>8, <1>9, <1>10, <1>11, QuietMove DEF Idle

\* Reading or bumping ws_push_sequence_, looking for sleepers, and looking
\* at ws_outstanding_ with or without ws_idle_mutex_.
LEMMA ReadingStep ==
    ASSUME IInv, [Next]_vars, NEW p \in Participant,
           \/ LoadSequence(p) \/ BumpSequence(p) \/ LookForSleepers(p)
           \/ CheckOutstanding(p) \/ RecheckOutstanding(p)
    PROVE  IInv'
<1>1. TypeOK /\ ControlInv /\ WakeInv BY DEF IInv
<1>2. /\ UNCHANGED <<core_vars, drain_vars, ws_sleepers, asleep, ws_idle_mutex, offset,
                     shard_mutex>>
      /\ sequence_before' \subseteq Participant
  <2>1. CASE LoadSequence(p) \/ BumpSequence(p)
    BY <1>1, <2>1 DEF LoadSequence, BumpSequence, TypeOK, core_vars, work_vars, queue_vars,
                      local_vars
  <2>2. CASE LookForSleepers(p) \/ CheckOutstanding(p) \/ RecheckOutstanding(p)
    BY <1>1, <2>2 DEF LookForSleepers, CheckOutstanding, RecheckOutstanding, TypeOK,
                      core_vars, work_vars, queue_vars, local_vars, idle_vars
  <2> QED BY <2>1, <2>2
<1>3. /\ offset' \in [Participant -> Worker]
      /\ shard_mutex' \in [Participant -> Participant \cup {Nobody}]
      /\ pc[p] # "steal" => offset'[p] = 1
      /\ \A q \in Participant \ {p} : offset'[q] = offset[q]
  BY <1>1, <1>2 DEF TypeOK, ControlInv
<1>4. CASE LoadSequence(p)
  <2>1. pc[p] = "load" /\ pc' = [pc EXCEPT ![p] = "pop"] BY <1>4 DEF LoadSequence, Goto
  <2>2. /\ "pop" \in Driving /\ "pop" \in Looking /\ "load" \notin Working
        /\ "pop" \notin Idle \cup PastOwnDeque \cup Blocking /\ "load" \notin Idle
    BY DEF Driving, Looking, Working, Releasing, Idle, PastOwnDeque, Blocking
  <2> QED BY <1>2, <1>3, <2>1, <2>2, QuietMove
<1>5. CASE BumpSequence(p)
  <2>1. pc[p] = "signal" /\ pc' = [pc EXCEPT ![p] = "look"] BY <1>5 DEF BumpSequence, Goto
  <2>2. /\ "look" \in Driving /\ "look" \in Looking /\ "signal" \in Releasing
        /\ "look" \in Releasing
        /\ "look" \notin Idle \cup PastOwnDeque \cup Blocking /\ "signal" \notin Idle
    BY DEF Driving, Looking, Working, Releasing, Idle, PastOwnDeque, Blocking
  <2> QED BY <1>2, <1>3, <2>1, <2>2, QuietMove
<1>6. CASE LookForSleepers(p)
  <2> DEFINE to == IF ws_sleepers > 0 THEN "notify" ELSE ReleaseOrFinish(edges[p])
  <2>1. pc[p] = "look" /\ pc' = [pc EXCEPT ![p] = to] BY <1>6 DEF LookForSleepers, Goto
  <2>2. to \in {"notify", "release"} \/ (to = "finish" /\ edges[p] = {}) BY DEF ReleaseOrFinish
  <2>3. /\ to \in Driving /\ to \in Looking /\ "look" \in Releasing
        /\ to \in Releasing \/ (to = "finish" /\ edges[p] = {})
        /\ to \notin Idle \cup PastOwnDeque \cup Blocking /\ "look" \notin Idle
    BY <2>2 DEF Driving, Looking, Working, Releasing, Idle, PastOwnDeque, Blocking
  <2>4. to # "stop" /\ to # "leave" BY <2>2
  <2>5. to \notin {"idle_check", "idle_sequence", "unlock", "asleep"} BY <2>2
  <2> HIDE DEF to
  <2> QED BY <1>2, <1>3, <2>1, <2>3, <2>4, <2>5, QuietMove
<1>7. CASE CheckOutstanding(p)
  <2>1. PICK to \in {"stop", "leave", "load", "idle"} :
            /\ pc[p] = "check" /\ pc' = [pc EXCEPT ![p] = to]
            /\ to = "stop" => p = 0
            /\ to = "leave" => p # 0
            /\ to \in {"stop", "leave"} => ws_outstanding = 0
    BY <1>7 DEF CheckOutstanding, Goto
  <2>2. ws_queues[p] = <<>> BY <1>1, <2>1 DEF WakeInv
  <2>3. \A v \in Participant : ~WillLook(p, v)
    BY <2>1, LookingWatches DEF Looking, Working, Releasing
  <2>4. /\ to \in Driving \cup {"stop", "leave"} /\ "check" \notin Working
        /\ to \notin Idle \cup Blocking /\ "check" \notin Idle
    BY <2>1 DEF Driving, Working, Releasing, Idle, Blocking
  <2> QED BY <1>2, <1>3, <2>1, <2>2, <2>3, <2>4, QuietMove
<1>8. CASE RecheckOutstanding(p)
  <2> DEFINE to == IF ws_outstanding # 0 THEN "idle_sequence" ELSE "unlock"
  <2>1. pc[p] = "idle_check" /\ pc' = [pc EXCEPT ![p] = to]
    BY <1>8 DEF RecheckOutstanding, Goto
  <2>2. ws_queues[p] = <<>> /\ ws_idle_mutex = p BY <1>1, <2>1 DEF WakeInv, ControlInv, Idle
  <2>3. \A v \in Participant : ~WillLook(p, v)
    BY <2>1, LookingWatches DEF Looking, Working, Releasing
  <2>4. /\ to \in Driving \cup {"stop", "leave"} /\ "idle_check" \notin Working
        /\ to \in Idle /\ "idle_check" \in Idle /\ to \in {"idle_sequence", "unlock"}
        /\ to \in Blocking => ws_outstanding # 0
    BY DEF Driving, Working, Releasing, Idle, Blocking
  <2> HIDE DEF to
  <2> QED BY <1>2, <1>3, <2>1, <2>2, <2>3, <2>4, QuietMove
<1> QED BY <1>4, <1>5, <1>6, <1>7, <1>8

\* Notifications and timeouts wake participants.
LEMMA NotifyStep ==
    ASSUME IInv, [Next]_vars, NEW p \in Participant,
           NotifyOne(p) \/ NotifyAll(p) \/ TimeOut(p)
    PROVE  IInv'
<1>1. TypeOK /\ ControlInv /\ BetweenDrains /\ BatchInv /\ WakeInv BY DEF IInv
<1>2. /\ UNCHANGED <<core_vars, drain_vars, offset, shard_mutex, ws_idle_mutex,
                     sequence_before>>
      /\ pc[p] \in {"notify", "last", "asleep"}
  BY <1>1 DEF NotifyOne, NotifyAll, TimeOut, ControlInv, core_vars, work_vars, queue_vars,
              local_vars
<1>3. pc' \in [Participant -> Pc] /\ InDrain' = InDrain /\ ControlInv'
  BY <1>1, NotifyOneControl, NotifyAllControl, TimeOutControl
<1>4. InDrain BY <1>1, <1>2, DrivingIsInDrain
<1>5. pc \in [Participant -> Pc] /\ \A q \in asleep : q \in Participant /\ pc[q] = "asleep"
  BY <1>1 DEF TypeOK, Pc, ControlInv
\* How everybody moves.
<1>6. /\ \A q \in Participant \ {p} : pc'[q] = pc[q] \/ (pc[q] = "asleep" /\ pc'[q] = "woken")
      /\ \/ pc[p] = "notify" /\ pc'[p] = ReleaseOrFinish(edges[p])
         \/ pc[p] = "last" /\ pc'[p] = "load"
         \/ pc[p] = "asleep" /\ pc'[p] = "woken"
  <2>1. CASE NotifyOne(p)
    <3>1. CASE asleep = {} BY <1>5, <2>1, <3>1 DEF NotifyOne, Goto
    <3>2. CASE asleep # {}
      <4>1. PICK q \in asleep :
              pc' = [pc EXCEPT ![p] = ReleaseOrFinish(edges[p]), ![q] = "woken"]
        BY <2>1, <3>2 DEF NotifyOne
      <4>2. q # p BY <1>5, <2>1 DEF NotifyOne
      <4> QED BY <1>5, <2>1, <4>1, <4>2 DEF NotifyOne
    <3> QED BY <3>1, <3>2
  <2>2. CASE NotifyAll(p) BY <1>5, <2>2 DEF NotifyAll, WakeAll
  <2>3. CASE TimeOut(p) BY <1>5, <2>3 DEF TimeOut, Goto
  <2> QED BY <2>1, <2>2, <2>3
<1>7. /\ pc'[p] \in Looking /\ pc'[p] \notin Blocking
      /\ pc'[p] \in PastOwnDeque => pc[p] \in PastOwnDeque
  BY <1>6 DEF ReleaseOrFinish, Looking, Working, Releasing, Blocking, PastOwnDeque, Idle
<1>8. BatchInv'
  <2>1. \A q \in Participant :
               \/ pc'[q] = pc[q]
               \/ pc[q] \notin Working
               \/ /\ pc[q] \in Releasing
                  /\ pc'[q] \in Releasing \/ (pc'[q] = "finish" /\ edges[q] = {})
    BY <1>6 DEF ReleaseOrFinish, Working, Releasing
  <2> QED BY <1>1, <1>2, <2>1, BatchUnchanged
\* Whoever is about to block holds ws_idle_mutex_, so nobody is when all are
\* notified.
<1>9. pc[p] = "last" => \A q \in Participant : pc'[q] \notin Blocking
  <2> SUFFICES ASSUME pc[p] = "last" PROVE \A q \in Participant : pc'[q] \notin Blocking
    OBVIOUS
  <2>1. NotifyAll(p) BY <1>1 DEF NotifyOne, TimeOut, ControlInv
  <2>2. \A q \in Participant : pc[q] # "idle_sequence"
    BY <1>1, <2>1, ParticipantFacts DEF NotifyAll, ControlInv
  <2>3. \A q \in Participant :
            pc'[q] = IF pc[q] = "asleep" THEN "woken" ELSE IF q = p THEN "load" ELSE pc[q]
    BY <1>1, <2>1 DEF NotifyAll, WakeAll, ControlInv
  <2> QED BY <2>2, <2>3 DEF Blocking
<1>10. WakeInv'
  <2>1. UNCHANGED <<ws_queues, ws_outstanding, offset>> BY <1>2 DEF core_vars
  <2>2. \A v \in Participant : WillLook(p, v)' BY <1>7, LookingWatches
  <2>3. pc'[p] \in PastOwnDeque => ws_queues[p] = <<>>
    BY <1>1, <1>7 DEF WakeInv, PastOwnDeque
  <2> QED BY <1>1, <1>6, <1>7, <1>9, <2>1, <2>2, <2>3, WakeUnchanged
<1>11. /\ shard_mutex' \in [Participant -> Participant \cup {Nobody}]
       /\ ws_running' \in BOOLEAN
       /\ ws_idle_mutex' \in Participant \cup {Nobody}
       /\ sequence_before' \subseteq Participant
       /\ offset' \in [Participant -> Worker]
       /\ seen_epoch' \subseteq Worker
  BY <1>1, <1>2 DEF TypeOK, drain_vars
<1> QED BY <1>2, <1>3, <1>4, <1>8, <1>10, <1>11, QuietStep

\* The sleeper's critical section.
LEMMA SleepStep ==
    ASSUME IInv, [Next]_vars, NEW p \in Participant,
           RegisterSleeper(p) \/ RecheckSequence(p) \/ LeaveIdle(p)
    PROVE  IInv'
<1>1. TypeOK /\ ControlInv /\ BetweenDrains /\ BatchInv /\ WakeInv BY DEF IInv
<1>2. /\ UNCHANGED <<core_vars, drain_vars, offset, shard_mutex, sequence_before>>
      /\ pc[p] \in {"idle", "idle_sequence", "unlock", "woken"}
  BY DEF RegisterSleeper, RecheckSequence, LeaveIdle, core_vars, work_vars, queue_vars,
         local_vars
<1>3. pc' \in [Participant -> Pc] /\ InDrain' = InDrain /\ ControlInv'
  BY <1>1, IdleControl
<1>4. InDrain BY <1>1, <1>2, DrivingIsInDrain
<1>5. pc \in [Participant -> Pc] BY <1>1 DEF TypeOK, Pc
<1>6. /\ \A q \in Participant \ {p} : pc'[q] = pc[q]
      /\ \/ pc[p] = "idle" /\ pc'[p] = "idle_check"
         \/ pc[p] = "idle_sequence" /\ pc'[p] \in {"asleep", "unlock"}
         \/ pc[p] \in {"unlock", "woken"} /\ pc'[p] = "load"
  BY <1>5 DEF RegisterSleeper, RecheckSequence, LeaveIdle, Goto
<1>7. BatchInv'
  <2>1. \A q \in Participant : pc'[q] = pc[q] \/ pc[q] \notin Working
    BY <1>2, <1>6 DEF Working, Releasing
  <2> QED BY <1>1, <1>2, <2>1, BatchUnchanged
<1>8. WakeInv'
  <2>1. UNCHANGED <<ws_queues, ws_outstanding, offset>> BY <1>2 DEF core_vars
  <2>2. ASSUME NEW v \in Participant, WillLook(p, v) PROVE WillLook(p, v)'
    <3>1. CASE pc[p] \in {"unlock", "woken"}
      BY <1>6, <3>1, LookingWatches DEF Looking
    <3>2. CASE pc[p] \in {"idle", "idle_sequence"}
      BY <2>2, <3>2, LookingWatches DEF Looking, Working, Releasing
    <3> QED BY <1>2, <3>1, <3>2
  <2>3. pc[p] \in PastOwnDeque /\ pc[p] # "last" BY <1>2 DEF PastOwnDeque, Idle
  <2>4. ws_queues[p] = <<>> BY <1>1, <2>3 DEF WakeInv, PastOwnDeque
  <2>5. pc'[p] \in Blocking => pc[p] \in Blocking BY <1>6 DEF Blocking
  <2> QED BY <1>1, <1>6, <2>1, <2>2, <2>3, <2>4, <2>5, WakeUnchanged
<1>9. ws_idle_mutex' \in Participant \cup {Nobody}
  BY <1>1 DEF RegisterSleeper, RecheckSequence, LeaveIdle, TypeOK
<1>10. /\ shard_mutex' \in [Participant -> Participant \cup {Nobody}]
       /\ ws_running' \in BOOLEAN
       /\ sequence_before' \subseteq Participant
       /\ offset' \in [Participant -> Worker]
       /\ seen_epoch' \subseteq Worker
  BY <1>1, <1>2 DEF TypeOK, drain_vars
<1> QED BY <1>2, <1>3, <1>4, <1>7, <1>8, <1>9, <1>10, QuietStep

\* A worker joins or leaves, or the submitter closes the drain.
LEMMA JoinStep ==
    ASSUME IInv, [Next]_vars,
           StopDrain \/ \E w \in Worker : JoinDrain(w) \/ LeaveDrain(w)
    PROVE  IInv'
<1>1. TypeOK /\ ControlInv /\ BetweenDrains /\ BatchInv /\ WakeInv BY DEF IInv
<1>2. PICK p \in Participant :
        \/ p = 0 /\ StopDrain
        \/ p \in Worker /\ (JoinDrain(p) \/ LeaveDrain(p))
  BY ParticipantFacts
<1>3. /\ UNCHANGED <<core_vars, idle_vars, offset, shard_mutex>>
      /\ seen_epoch' \subseteq Worker
  BY <1>1, <1>2 DEF StopDrain, JoinDrain, LeaveDrain, core_vars, work_vars, queue_vars,
                    local_vars, TypeOK
<1>4. InDrain
  <2>1. CASE StopDrain \/ LeaveDrain(p)
    <3>1. pc[p] \notin {"client", "parked"} \/ pc[0] \notin {"client", "parked"}
      BY <2>1 DEF StopDrain, LeaveDrain
    <3> QED BY <1>1, <3>1, DrivingIsInDrain, ParticipantFacts
  <2>2. CASE JoinDrain(p) BY <1>1, <2>2 DEF JoinDrain, ControlInv, InDrain
  <2> QED BY <1>2, <2>1, <2>2
<1>5. pc' \in [Participant -> Pc] /\ InDrain' = InDrain /\ ControlInv'
  BY <1>1, <1>2, <1>4, JoinControl, StopControl
<1>6. pc \in [Participant -> Pc] BY <1>1 DEF TypeOK, Pc
<1>7. /\ \A q \in Participant \ {p} : pc'[q] = pc[q]
      /\ \/ pc[p] = "stop" /\ pc'[p] = "join"
         \/ pc[p] = "parked" /\ pc'[p] = "load"
         \/ pc[p] = "leave" /\ pc'[p] = "parked"
  BY <1>2, <1>6, ParticipantFacts DEF StopDrain, JoinDrain, LeaveDrain, Goto
<1>8. BatchInv'
  <2>1. \A q \in Participant : pc'[q] = pc[q] \/ pc[q] \notin Working
    BY <1>7 DEF Working, Releasing
  <2> QED BY <1>1, <1>3, <2>1, BatchUnchanged
<1>9. WakeInv'
  <2>1. UNCHANGED <<ws_queues, ws_outstanding, offset>> BY <1>3 DEF core_vars
  <2>2. \A v \in Participant : ~WillLook(p, v)
    BY <1>7, LookingWatches DEF Looking, Working, Releasing
  <2>3. pc'[p] \notin PastOwnDeque /\ pc[p] # "last" /\ pc'[p] \notin Blocking
    BY <1>7 DEF PastOwnDeque, Idle, Blocking
  <2> QED BY <1>1, <1>7, <2>1, <2>2, <2>3, WakeUnchanged
<1>10. ws_running' \in BOOLEAN
  BY <1>1, <1>2 DEF StopDrain, JoinDrain, LeaveDrain, TypeOK
<1>11. /\ shard_mutex' \in [Participant -> Participant \cup {Nobody}]
       /\ ws_idle_mutex' \in Participant \cup {Nobody}
       /\ sequence_before' \subseteq Participant
       /\ offset' \in [Participant -> Worker]
  BY <1>1, <1>3 DEF TypeOK, idle_vars
<1> QED BY <1>3, <1>4, <1>5, <1>8, <1>9, <1>10, <1>11, QuietStep

-----------------------------------------------------------------------------
(* Steps that move tasks inside a drain. *)

LEMMA NodesUnchanged ==
    ASSUME UNCHANGED dag_nodes
    PROVE  /\ Node' = Node /\ DagNode' = DagNode
           /\ \A n : TaskOf(n)' = TaskOf(n) /\ Successors(n)' = Successors(n)
           /\ \A S : TasksOf(S)' = TasksOf(S)
           /\ \A n : Predecessors(n)' = Predecessors(n)
BY DEF Node, DagNode, TaskOf, Successors, TasksOf, Predecessors

\* The graph part of the invariant survives the completion of tasks.
LEMMA GraphUnchanged ==
    ASSUME GraphInv, finished \subseteq finished',
           UNCHANGED <<dag_nodes, latest_producer, submitted, after, last_writer>>
    PROVE  GraphInv'
<1>1. /\ Node' = Node
      /\ \A n : TaskOf(n)' = TaskOf(n) /\ Successors(n)' = Successors(n)
      /\ \A S : TasksOf(S)' = TasksOf(S)
      /\ \A n : Predecessors(n)' = Predecessors(n)
  BY NodesUnchanged
<1>2. NodesAreTasks' BY <1>1 DEF GraphInv, NodesAreTasks
<1>3. EdgesPointForward' BY <1>1 DEF GraphInv, EdgesPointForward
<1>4. PendingIsExact' BY <1>1 DEF GraphInv, PendingIsExact
<1>5. ProducerIsLastWriter' BY <1>1 DEF GraphInv, ProducerIsLastWriter
<1>6. OrderIsWired' BY <1>1 DEF GraphInv, OrderIsWired
<1> QED BY <1>2, <1>3, <1>4, <1>5, <1>6 DEF GraphInv

\* A participant that works watches every deque itself.
LEMMA WakeWorking ==
    ASSUME WakeInv, NEW p \in Participant,
           \A q \in Participant \ {p} :
               pc'[q] = pc[q] /\ (ws_queues'[q] # <<>> => ws_queues[q] # <<>>),
           pc'[p] \in Working \cup {"last", "load"},
           ws_outstanding' = 0 => pc'[p] = "last" \/ (ws_outstanding = 0 /\ pc[p] # "last")
    PROVE  WakeInv'
<1>1. pc'[p] \in Looking /\ pc'[p] \notin PastOwnDeque /\ pc'[p] \notin Blocking
  BY DEF Looking, PastOwnDeque, Working, Releasing, Idle, Blocking
<1>2. \A v \in Participant : WillLook(p, v)' BY <1>1, LookingWatches
<1>3. \A q \in Participant : pc'[q] \in PastOwnDeque => ws_queues'[q] = <<>>
  BY <1>1 DEF WakeInv, PastOwnDeque
<1>4. ASSUME ws_outstanding' = 0, NEW q \in Participant, pc'[q] \in Blocking
      PROVE  \E r \in Participant : pc'[r] = "last"
  <2>1. CASE pc'[p] = "last" BY <2>1
  <2>2. CASE ws_outstanding = 0 /\ pc[p] # "last"
    <3>1. q # p /\ pc[q] \in Blocking BY <1>1, <1>4
    <3>2. PICK r \in Participant : pc[r] = "last" BY <2>2, <3>1 DEF WakeInv, Blocking
    <3> QED BY <2>2, <3>2
  <2> QED BY <1>4, <2>1, <2>2
<1> QED BY <1>2, <1>3, <1>4 DEF WakeInv, QueuesAreWatched, PastOwnDeque, Blocking

\* A task in a deque is in the graph, waits for nothing and was not started.
LEMMA QueuedFacts ==
    ASSUME TypeOK, DrainInv, InDrain, NEW p \in Participant, NEW i \in DOMAIN ws_queues[p]
    PROVE  LET n == ws_queues[p][i] IN
           n \in Node /\ TaskOf(n) \notin started /\ ws_pending[n] = 0
<1>1. ws_queues[p][i] \in Node BY QueueTypes
<1>2. Queued(ws_queues[p][i]) BY DEF Queued
<1> QED BY <1>1, <1>2 DEF DrainInv, CountersAreExact

\* What popping and stealing have in common: participant p takes the tasks
\* of deque v outside a section of length kept that begins after shift.
Taken(queue, shift, kept) ==
    {queue[i] : i \in (1..Len(queue)) \ (shift + 1 .. shift + kept)}
TakesFrom(p, v, shift, kept) ==
    LET queue == ws_queues[v] IN
    /\ kept < Len(queue) /\ shift + kept <= Len(queue)
    /\ ws_queues' = [ws_queues EXCEPT ![v] = [i \in 1..kept |-> queue[shift + i]]]
    /\ Take(p, Taken(queue, shift, kept))

LEMMA PopTakes ==
    ASSUME TypeOK, NEW p \in Participant, PopLocal(p)
    PROVE  \E kept \in Nat : TakesFrom(p, p, 0, kept)
<1> DEFINE own == ws_queues[p]
           left == IF Len(own) < TaskBatchSize THEN 0 ELSE Len(own) - TaskBatchSize
<1>1. own \in Seq(Node) /\ Len(own) \in Nat /\ Len(own) # 0
  BY QueueTypes DEF PopLocal
<1>2. left \in Nat /\ left < Len(own) BY <1>1, SizeAssumption
<1>3. /\ ws_queues' = [ws_queues EXCEPT ![p] = SubSeq(own, 1, left)]
      /\ Take(p, {own[i] : i \in left + 1 .. Len(own)})
  BY DEF PopLocal
<1> HIDE DEF left, own
<1>4. SubSeq(own, 1, left) = [i \in 1..left |-> own[0 + i]]
  <2>1. SubSeq(own, 1, left) = [i \in 1..left |-> own[i]] BY <1>1, <1>2
  <2> QED BY <2>1, <1>2
<1>5. left + 1 .. Len(own) = (1..Len(own)) \ (0 + 1 .. 0 + left) BY <1>1, <1>2
<1>6. left < Len(own) /\ 0 + left <= Len(own) BY <1>1, <1>2
<1>7. TakesFrom(p, p, 0, left) BY <1>3, <1>4, <1>5, <1>6 DEF TakesFrom, Taken, own
<1> QED BY <1>2, <1>7

LEMMA StealTakes ==
    ASSUME TypeOK, NEW p \in Participant, Steal(p)
    PROVE  \E kept \in Nat : TakesFrom(p, Victim(p), 1, kept)
<1> DEFINE queue == ws_queues[Victim(p)]
           kept == Len(queue) - 1
<1>1. Victim(p) \in Participant BY VictimType
<1>2. queue \in Seq(Node) /\ Len(queue) \in Nat /\ Len(queue) # 0
  BY <1>1, QueueTypes DEF Steal
<1>3. kept \in Nat /\ 1 + kept = Len(queue) BY <1>2
<1>4. /\ ws_queues' = [ws_queues EXCEPT ![Victim(p)] = Tail(queue)]
      /\ Take(p, {Head(queue)})
  BY DEF Steal
<1> HIDE DEF queue
<1>5. Tail(queue) = [i \in 1..(Len(queue) - 1) |-> queue[i + 1]]
  <2>1. /\ Tail(queue) \in Seq(Node) /\ Len(Tail(queue)) = Len(queue) - 1
        /\ \A i \in 1..Len(Tail(queue)) : Tail(queue)[i] = queue[i + 1]
    BY <1>2, HeadTailProperties
  <2>2. ASSUME NEW s \in Seq(Node) PROVE s = [i \in 1..Len(s) |-> s[i]] OBVIOUS
  <2>3. Tail(queue) = [i \in 1..Len(Tail(queue)) |-> Tail(queue)[i]] BY <2>1, <2>2
  <2> QED BY <2>1, <2>3
<1>6. Tail(queue) = [i \in 1..(Len(queue) - 1) |-> queue[1 + i]]
  <2>1. \A i \in 1..(Len(queue) - 1) : i + 1 = 1 + i BY <1>2
  <2> QED BY <1>5, <2>1
<1>7. {Head(queue)} = {queue[i] : i \in (1..Len(queue)) \ (1 + 1 .. Len(queue))}
  <2>1. (1..Len(queue)) \ (1 + 1 .. Len(queue)) = {1} BY <1>2
  <2>2. Head(queue) = queue[1] BY <1>2
  <2> QED BY <2>1, <2>2
<1>8. kept < Len(queue) /\ 1 + kept <= Len(queue) BY <1>2
<1>9. TakesFrom(p, Victim(p), 1, kept)
  BY <1>3, <1>4, <1>6, <1>7, <1>8 DEF TakesFrom, Taken, queue
<1> QED BY <1>3, <1>9

\* What a deque keeps was in it before, in the same order, and what is taken
\* is the rest.
LEMMA TakenFacts ==
    ASSUME TypeOK, NEW p \in Participant, NEW v \in Participant, NEW shift \in Nat,
           NEW kept \in Nat, TakesFrom(p, v, shift, kept)
    PROVE  /\ ws_queues' \in [Participant -> Seq(Node)]
           /\ \A q \in Participant \ {v} : ws_queues'[q] = ws_queues[q]
           /\ DOMAIN ws_queues'[v] = 1..kept
           /\ \A i \in 1..kept : /\ shift + i \in DOMAIN ws_queues[v]
                                 /\ ws_queues'[v][i] = ws_queues[v][shift + i]
           /\ Taken(ws_queues[v], shift, kept) \subseteq Node
           /\ Taken(ws_queues[v], shift, kept) # {}
<1> DEFINE queue == ws_queues[v]
           rest == [i \in 1..kept |-> queue[shift + i]]
           dropped == (1..Len(queue)) \ (shift + 1 .. shift + kept)
           taken == {queue[i] : i \in dropped}
<1>1. /\ queue \in Seq(Node) /\ Len(queue) \in Nat /\ DOMAIN queue = 1..Len(queue)
      /\ \A i \in 1..Len(queue) : queue[i] \in Node
  BY QueueTypes
<1>2. /\ kept < Len(queue) /\ shift + kept <= Len(queue)
      /\ ws_queues' = [ws_queues EXCEPT ![v] = rest]
  BY DEF TakesFrom
<1>3. ws_queues \in [Participant -> Seq(Node)] BY DEF TypeOK
<1> HIDE DEF queue
<1>4. \A i \in 1..kept : shift + i \in 1..Len(queue) BY <1>1, <1>2
<1>5. \A i \in 1..kept : rest[i] \in Node BY <1>1, <1>4
<1>6. DOMAIN rest = 1..kept /\ rest = [i \in 1..kept |-> rest[i]]
      /\ \A i \in 1..kept : rest[i] = queue[shift + i]
  OBVIOUS
<1> HIDE DEF rest
<1>7. rest \in Seq(Node) BY <1>5, <1>6, IsASeqOfLength
<1>8. ws_queues'[v] = rest BY <1>2, <1>3
<1>9. ws_queues' \in [Participant -> Seq(Node)]
      /\ \A q \in Participant \ {v} : ws_queues'[q] = ws_queues[q]
  BY <1>2, <1>3, <1>7
<1>10. taken \subseteq Node BY <1>1
<1>11. dropped # {}
  <2>1. CASE shift # 0
    <3>1. 1 \in dropped BY <1>1, <1>2, <2>1
    <3> QED BY <3>1
  <2>2. CASE shift = 0
    <3>1. Len(queue) \in dropped BY <1>1, <1>2, <2>2
    <3> QED BY <3>1
  <2> QED BY <2>1, <2>2
<1>12. taken # {} BY <1>11
<1> QED BY <1>1, <1>4, <1>6, <1>8, <1>9, <1>10, <1>12 DEF queue, Taken

\* Popping and stealing.
LEMMA TakeStep ==
    ASSUME IInv, [Next]_vars, NEW p \in Participant, NEW v \in Participant,
           NEW shift \in Nat, NEW kept \in Nat, TakesFrom(p, v, shift, kept),
           pc[p] \in {"pop", "steal"},
           UNCHANGED <<client_vars, ws_pending, ws_outstanding, drain_vars, ws_idle_mutex,
                       ws_sleepers, asleep, edges, worker_error, submitted, finished, after,
                       last_writer, thrown, reported>>,
           shard_mutex' \in [Participant -> Participant \cup {Nobody}]
    PROVE  IInv'
<1>1. /\ TypeOK /\ ErrorIsKept /\ GraphInv /\ BetweenDrains /\ ControlInv /\ BatchInv
      /\ DrainInv /\ WakeInv
  BY DEF IInv
<1>2. InDrain BY <1>1, DrivingIsInDrain
<1>3. /\ ws_queues' \in [Participant -> Seq(Node)]
      /\ \A q \in Participant \ {v} : ws_queues'[q] = ws_queues[q]
      /\ DOMAIN ws_queues'[v] = 1..kept
      /\ \A i \in 1..kept : shift + i \in DOMAIN ws_queues[v]
                            /\ ws_queues'[v][i] = ws_queues[v][shift + i]
  <2>1. TypeOK BY <1>1
  <2> QED BY <2>1, TakenFacts, Zenon
<1> DEFINE taken == Taken(ws_queues[v], shift, kept)
<1>4. /\ taken \subseteq Node
      /\ \A n : n \in taken <=> \E i \in DOMAIN ws_queues[v] :
                    i \notin shift + 1 .. shift + kept /\ ws_queues[v][i] = n
  <2>1. TypeOK BY <1>1
  <2>2. taken \subseteq Node BY <2>1, TakenFacts, Zenon
  <2>3. \A n : n \in taken <=> \E i \in DOMAIN ws_queues[v] :
                    i \notin shift + 1 .. shift + kept /\ ws_queues[v][i] = n
    BY <2>1, QueueTypes DEF Taken
  <2> QED BY <2>2, <2>3
<1>5. /\ batch' = [batch EXCEPT ![p] = taken]
      /\ sequence_before' = sequence_before \ {p}
      /\ offset' = [offset EXCEPT ![p] = 1]
      /\ started' = started \cup TasksOf(taken)
      /\ pc' = [pc EXCEPT ![p] = "run"]
  BY DEF TakesFrom, Take, Goto
<1> HIDE DEF taken
<1>6. UNCHANGED <<call, outcome, dag_nodes, latest_producer, ws_initial_ready, ws_pending,
                  ws_outstanding, ws_running, ws_active_workers, seen_epoch, edges>>
  BY DEF client_vars, graph_vars, drain_vars
<1>7. /\ Node' = Node /\ DagNode' = DagNode
      /\ \A n : TaskOf(n)' = TaskOf(n) /\ Successors(n)' = Successors(n)
      /\ \A n : Predecessors(n)' = Predecessors(n)
  BY <1>6, NodesUnchanged
<1>8. \A n \in taken : n \in Node /\ TaskOf(n) \notin started /\ ws_pending[n] = 0
  BY <1>1, <1>2, <1>4, QueuedFacts
<1>9. /\ \A q \in Participant : batch'[q] = IF q = p THEN taken ELSE batch[q]
      /\ batch[p] = {} /\ edges[p] = {}
  <2>1. batch \in [Participant -> SUBSET Node] BY <1>1 DEF TypeOK
  <2>2. pc[p] \notin Working /\ pc[p] \notin Releasing BY DEF Working, Releasing
  <2> QED BY <1>1, <1>5, <2>1, <2>2 DEF BatchInv
<1>10. /\ 1 \in Worker
       /\ offset' \in [Participant -> Worker] /\ offset'[p] = 1
       /\ \A q \in Participant \ {p} : offset'[q] = offset[q]
  <2>1. 1 \in Worker BY ParticipantFacts DEF Worker
  <2> QED BY <1>1, <1>5, <2>1 DEF TypeOK
<1>11. /\ "run" \in Driving /\ "run" \notin Idle /\ "pop" \notin Idle /\ "steal" \notin Idle
       /\ "run" \in Working
  BY DEF Driving, Idle, Working
<1>12. pc' \in [Participant -> Pc] /\ InDrain' = InDrain /\ ControlInv'
  BY <1>1, <1>5, <1>6, <1>10, <1>11, PlainMove
<1>13. \A q \in Participant : pc'[q] = IF q = p THEN "run" ELSE pc[q]
  BY <1>1, <1>5, <1>11, PcAfter DEF Pc
\* A node is among those taken exactly when its task is started by the step.
<1>14. \A n \in Node : TaskOf(n) \in started' <=> TaskOf(n) \in started \/ n \in taken
  <2>1. \A m, n \in Node : TaskOf(m) = TaskOf(n) => m = n
    BY <1>1 DEF GraphInv, NodesAreTasks
  <2>2. TasksOf(taken) = {TaskOf(n) : n \in taken} BY DEF TasksOf, TaskOf
  <2> QED BY <1>4, <1>5, <2>1, <2>2
<1>15. finished \subseteq started /\ started \subseteq submitted BY <1>1 DEF TypeOK
<1>16. TypeOK'
  <2>1. started' \subseteq submitted
    <3>1. \A n \in taken : TaskOf(n) \in submitted BY <1>1, <1>4 DEF GraphInv, NodesAreTasks
    <3> QED BY <1>5, <1>15, <3>1 DEF TasksOf, TaskOf
  <2>2. batch' \in [Participant -> SUBSET Node]
    BY <1>1, <1>4, <1>5 DEF TypeOK
  <2>3. sequence_before' \subseteq Participant BY <1>1, <1>5 DEF TypeOK
  <2>4. finished' \subseteq started' BY <1>5, <1>15
  <2> QED
    BY <1>1, <1>3, <1>6, <1>7, <1>10, <1>12, <2>1, <2>2, <2>3, <2>4 DEF TypeOK, Pc
<1>17. ErrorIsKept' BY <1>1, ErrorStep
<1>18. GraphInv' BY <1>1, <1>6, GraphUnchanged
<1>19. BetweenDrains' BY <1>1, <1>2, <1>6, <1>12 DEF BetweenDrains
<1>20. BatchInv'
  <2>1. \A q \in Participant : \A n \in batch[q] : TaskOf(n) \in started
    BY <1>1 DEF BatchInv
  <2>2. \A q, r \in Participant : q # r => batch'[q] \cap batch'[r] = {}
    BY <1>1, <1>8, <1>9, <2>1 DEF BatchInv
  <2>3. ASSUME NEW q \in Participant
        PROVE  /\ batch'[q] # {} => pc'[q] \in Working
               /\ edges'[q] # {} => pc'[q] \in Releasing
               /\ \A e \in edges'[q] : e[1] \in batch'[q] /\ e[2] \in Successors(e[1])
               /\ \A n \in batch'[q] : TaskOf(n) \in started'
                                       /\ (TaskOf(n) \in finished <=> pc'[q] # "run")
    <3>1. CASE q = p
      <4>1. \A n \in taken : TaskOf(n) \in started' /\ TaskOf(n) \notin finished
        BY <1>8, <1>14, <1>15
      <4> QED BY <1>6, <1>9, <1>11, <1>13, <3>1, <4>1
    <3>2. CASE q # p
      BY <1>1, <1>5, <1>6, <1>9, <1>13, <3>2 DEF BatchInv
    <3> QED BY <3>1, <3>2
  <2>4. ASSUME NEW n \in Node, TaskOf(n) \in started' \ finished
        PROVE  \E q \in Participant : n \in batch'[q]
    <3>1. CASE n \in taken BY <1>9, <3>1
    <3>2. CASE n \notin taken
      <4>1. TaskOf(n) \in started BY <1>14, <2>4, <3>2
      <4>2. PICK q \in Participant : n \in batch[q] BY <1>1, <2>4, <4>1 DEF BatchInv
      <4> QED BY <1>9, <4>2
    <3> QED BY <3>1, <3>2
  <2> QED BY <1>7, <2>2, <2>3, <2>4 DEF BatchInv
<1>21. \A n \in Node : Queued(n)' <=> Queued(n) /\ n \notin taken
  <2>1. ASSUME NEW n \in Node, Queued(n)' PROVE Queued(n) /\ n \notin taken
    <3>0. PICK q \in Participant : \E i \in DOMAIN ws_queues'[q] : ws_queues'[q][i] = n
      BY <2>1 DEF Queued
    <3>1. PICK i \in DOMAIN ws_queues'[q] : ws_queues'[q][i] = n BY <3>0
    <3>2. PICK j \in DOMAIN ws_queues[q] :
              ws_queues[q][j] = n /\ (q = v => j \in shift + 1 .. shift + kept)
      <4>1. CASE q = v
        <5>1. i \in 1..kept BY <1>3, <3>1, <4>1
        <5>2. shift + i \in shift + 1 .. shift + kept BY <5>1
        <5> QED BY <1>3, <3>1, <4>1, <5>1, <5>2
      <4>2. CASE q # v BY <1>3, <3>1, <4>2
      <4> QED BY <4>1, <4>2
    <3>3. ASSUME n \in taken PROVE FALSE
      <4>1. PICK k \in DOMAIN ws_queues[v] \ (shift + 1 .. shift + kept) : ws_queues[v][k] = n
        BY <1>4, <3>3
      <4>2. q = v /\ j = k BY <1>1, <3>2, <4>1 DEF DrainInv, AtMostOnce
      <4> QED BY <3>2, <4>1, <4>2
    <3> QED BY <3>2, <3>3 DEF Queued
  <2>2. ASSUME NEW n \in Node, Queued(n), n \notin taken PROVE Queued(n)'
    <3>0. PICK q \in Participant : \E j \in DOMAIN ws_queues[q] : ws_queues[q][j] = n
      BY <2>2 DEF Queued
    <3>1. PICK j \in DOMAIN ws_queues[q] : ws_queues[q][j] = n BY <3>0
    <3>2. CASE q = v
      <4>1. j \in shift + 1 .. shift + kept BY <1>4, <2>2, <3>1, <3>2
      <4>2. j - shift \in 1..kept /\ shift + (j - shift) = j BY <4>1
      <4>3. j - shift \in DOMAIN ws_queues'[v] /\ ws_queues'[v][j - shift] = n
        BY <1>3, <3>1, <3>2, <4>2
      <4> QED BY <4>3 DEF Queued
    <3>3. CASE q # v BY <1>3, <3>1, <3>3 DEF Queued
    <3> QED BY <3>2, <3>3
  <2> QED BY <2>1, <2>2
<1>22. CountersAreExact'
  <2>1. \A n \in Node : Unreleased(n)' = Unreleased(n) BY <1>6, <1>7 DEF Unreleased
  <2>2. Incomplete' = Incomplete
    <3>1. \A n \in taken : TaskOf(n) \notin finished BY <1>8, <1>15
    <3> QED BY <1>7, <1>9, <3>1 DEF Incomplete
  <2>3. \A n \in Node : Queued(n)' <=> ws_pending[n] = 0 /\ TaskOf(n) \notin started'
    BY <1>1, <1>2, <1>8, <1>14, <1>21 DEF DrainInv, CountersAreExact
  <2> QED BY <1>1, <1>2, <1>6, <1>7, <1>12, <2>1, <2>2, <2>3 DEF DrainInv, CountersAreExact
<1>23. AtMostOnce'
  <2>1. ASSUME NEW q \in Participant, NEW i \in DOMAIN ws_queues'[q]
        PROVE  TaskOf(ws_queues'[q][i]) \notin started'
    <3>1. PICK n \in Node : n = ws_queues'[q][i]
      <4>1. ws_queues'[q] \in Seq(Node) BY <1>3
      <4> QED BY <4>1
    <3>2. Queued(n)' BY <3>1 DEF Queued
    <3> QED BY <1>1, <1>2, <1>14, <1>21, <3>1, <3>2 DEF DrainInv, CountersAreExact
  <2>2. ASSUME NEW q \in Participant, NEW r \in Participant,
               NEW i \in DOMAIN ws_queues'[q], NEW j \in DOMAIN ws_queues'[r],
               ws_queues'[q][i] = ws_queues'[r][j]
        PROVE  q = r /\ i = j
    <3>1. /\ q = v => i \in 1..kept
          /\ r = v => j \in 1..kept
      BY <1>3
    <3> DEFINE oldi == IF q = v THEN shift + i ELSE i
               oldj == IF r = v THEN shift + j ELSE j
    <3>2. oldi \in DOMAIN ws_queues[q] /\ ws_queues[q][oldi] = ws_queues'[q][i]
      BY <1>3, <3>1
    <3>3. oldj \in DOMAIN ws_queues[r] /\ ws_queues[r][oldj] = ws_queues'[r][j]
      BY <1>3, <3>1
    <3>4. q = r /\ oldi = oldj
      <4> HIDE DEF oldi, oldj
      <4> QED BY <1>1, <2>2, <3>2, <3>3 DEF DrainInv, AtMostOnce
    <3> QED BY <3>1, <3>4
  <2> QED BY <1>7, <2>1, <2>2 DEF AtMostOnce
<1>24. StartedWereReleased'
  BY <1>1, <1>2, <1>6, <1>7, <1>8, <1>14 DEF DrainInv, StartedWereReleased
<1>25. WakeInv'
  <2>1. \A q \in Participant : ws_queues'[q] # <<>> => ws_queues[q] # <<>>
    <3>1. ASSUME ws_queues[v] = <<>> PROVE ws_queues'[v] = <<>>
      <4>1. kept < Len(ws_queues[v]) BY DEF TakesFrom
      <4> QED BY <3>1, <4>1
    <3> QED BY <1>3, <3>1
  <2> QED BY <1>1, <1>6, <1>11, <1>13, <2>1, WakeWorking
<1> QED
  BY <1>12, <1>16, <1>17, <1>18, <1>19, <1>20, <1>22, <1>23, <1>24, <1>25
  DEF IInv, DrainInv
=============================================================================
