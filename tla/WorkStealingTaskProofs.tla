----------------------- MODULE WorkStealingTaskProofs -----------------------
(***************************************************************************)
(* The steps of WorkStealing that move tasks, build a graph or begin and   *)
(* end a drain preserve the inductive invariant, and what follows from it: *)
(* sleepers are not left behind, and the scheduler implements TaskGraph.   *)
(***************************************************************************)
EXTENDS WorkStealingProofs, WellFoundedInduction

-----------------------------------------------------------------------------
(* A batch is taken, run and released. *)

LEMMA PopStep ==
    ASSUME IInv, [Next]_vars, NEW p \in Participant, PopLocalBatch(p)
    PROVE  IInv'
<1>1. TypeOK BY DEF IInv
<1>2. CASE PopLocal(p)
  <2>1. pc[p] = "pop" /\ Access(p, p) BY DEF PopLocalBatch
  <2>2. PICK kept \in Nat : TakesFrom(p, p, 0, kept) BY <1>1, <1>2, PopTakes
  <2>3. UNCHANGED <<client_vars, ws_pending, ws_outstanding, drain_vars, ws_idle_mutex,
                    ws_sleepers, asleep, edges, worker_error, submitted, finished, after,
                    last_writer, thrown, reported>>
    BY DEF PopLocalBatch
  <2>4. shard_mutex' \in [Participant -> Participant \cup {Nobody}]
    BY <1>1, <2>1, AccessType
  <2> QED BY <2>1, <2>2, <2>3, <2>4, TakeStep
<1>3. CASE ~PopLocal(p)
  <2>1. ws_queues[p] = <<>> BY <1>3 DEF PopLocalBatch
  <2> QED BY <2>1, PopEmptyStep
<1> QED BY <1>2, <1>3

LEMMA StealStep ==
    ASSUME IInv, [Next]_vars, NEW p \in Participant, Steal(p)
    PROVE  IInv'
<1>1. TypeOK BY DEF IInv
<1>2. pc[p] = "steal" /\ Access(p, Victim(p)) BY DEF Steal
<1>3. PICK kept \in Nat : TakesFrom(p, Victim(p), 1, kept) BY <1>1, StealTakes
<1>4. UNCHANGED <<client_vars, ws_pending, ws_outstanding, drain_vars, ws_idle_mutex,
                  ws_sleepers, asleep, edges, worker_error, submitted, finished, after,
                  last_writer, thrown, reported>>
  BY DEF Steal
<1>5. shard_mutex' \in [Participant -> Participant \cup {Nobody}]
  BY <1>1, <1>2, AccessType
<1>6. Victim(p) \in Participant BY <1>1, VictimType
<1> QED BY <1>2, <1>3, <1>4, <1>5, <1>6, TakeStep

\* The bodies of a batch are run: its tasks become finished, and their edges
\* are still to be released.
LEMMA RunBatchStep ==
    ASSUME IInv, [Next]_vars, NEW p \in Participant, RunBatch(p)
    PROVE  IInv'
<1>1. /\ TypeOK /\ ErrorIsKept /\ GraphInv /\ BetweenDrains /\ ControlInv /\ BatchInv
      /\ DrainInv /\ WakeInv
  BY DEF IInv
<1>2. pc[p] = "run" BY DEF RunBatch
<1>3. InDrain BY <1>1, <1>2, DrivingIsInDrain
<1>4. /\ finished' = finished \cup TasksOf(batch[p])
      /\ UNCHANGED <<call, outcome, dag_nodes, latest_producer, ws_initial_ready, ws_pending,
                     ws_outstanding, ws_queues, shard_mutex, ws_running, ws_active_workers,
                     seen_epoch, ws_idle_mutex, ws_sleepers, asleep, sequence_before, offset,
                     batch, submitted, started, after, last_writer, reported>>
  BY DEF RunBatch, client_vars, graph_vars, work_vars, queue_vars, drain_vars, idle_vars
<1>5. /\ Node' = Node /\ DagNode' = DagNode
      /\ \A n : TaskOf(n)' = TaskOf(n) /\ Successors(n)' = Successors(n)
      /\ \A n : Predecessors(n)' = Predecessors(n)
  BY <1>4, NodesUnchanged
<1>6. /\ batch \in [Participant -> SUBSET Node]
      /\ edges \in [Participant -> SUBSET (Node \X Node)]
  BY <1>1 DEF TypeOK
<1>7. edges[p] = {} BY <1>1, <1>2 DEF BatchInv, Releasing
<1>8. /\ \A q \in Participant \ {p} : edges'[q] = edges[q]
      /\ \A e : e \in edges'[p] <=>
            \E m \in batch[p] : \E n \in Successors(m) : e = <<m, n>>
      /\ edges' = [q \in Participant |-> edges'[q]]
  <2> DEFINE new == UNION {{n} \X dag_nodes[n].successors : n \in batch[p]}
  <2>1. edges' = [edges EXCEPT ![p] = new] BY DEF RunBatch
  <2>2. \A e : e \in new <=> \E m \in batch[p] : \E n \in Successors(m) : e = <<m, n>>
    BY DEF Successors
  <2> HIDE DEF new
  <2>3. edges'[p] = new BY <1>6, <2>1
  <2> QED BY <1>6, <2>1, <2>2, <2>3
<1>9. PICK to \in {"finish", "release"} :
        pc' = [pc EXCEPT ![p] = to] /\ (edges'[p] # {} => to = "release")
  BY DEF RunBatch, Goto, ReleaseOrFinish
<1>10. /\ to \in Driving /\ to \in Working /\ to \notin Idle /\ to # "steal" /\ to # "run"
       /\ to \notin {"stop", "leave", "asleep", "idle_check", "idle_sequence", "unlock"}
       /\ "run" \notin Idle
       /\ to = "release" => to \in Releasing
  BY <1>9 DEF Driving, Working, Releasing, Idle
<1>11. offset[p] = 1 BY <1>1, <1>2 DEF ControlInv
<1>12. pc' \in [Participant -> Pc] /\ InDrain' = InDrain /\ ControlInv'
  BY <1>1, <1>2, <1>4, <1>9, <1>10, <1>11, PlainMove
<1>13. \A q \in Participant : pc'[q] = IF q = p THEN to ELSE pc[q]
  BY <1>1, <1>9, <1>10, PcAfter DEF Pc
<1>14. \A n \in batch[p] : n \in Node /\ TaskOf(n) \in started /\ TaskOf(n) \notin finished
  BY <1>1, <1>2, <1>6 DEF BatchInv
<1>15. \A n \in Node : TaskOf(n) \in finished' <=> TaskOf(n) \in finished \/ n \in batch[p]
  <2>1. \A m, n \in Node : TaskOf(m) = TaskOf(n) => m = n
    BY <1>1 DEF GraphInv, NodesAreTasks
  <2>2. TasksOf(batch[p]) = {TaskOf(n) : n \in batch[p]} BY DEF TasksOf, TaskOf
  <2> QED BY <1>4, <1>14, <2>1, <2>2
<1>16. TypeOK'
  <2>1. finished' \subseteq started
    <3>1. finished \subseteq started BY <1>1 DEF TypeOK
    <3> QED BY <1>4, <1>14, <3>1 DEF TasksOf, TaskOf
  <2>2. PICK raised \in SUBSET (TasksOf(batch[p]) \cap MayThrow) :
            thrown' = thrown \cup raised /\ Record(raised)
    BY DEF RunBatch
  <2>3. raised \subseteq Task BY ProgramAssumption
  <2>4. thrown' \subseteq Task /\ reported \subseteq thrown' BY <1>1, <2>2, <2>3 DEF TypeOK
  <2>5. worker_error' \in Task \cup {NoTask} BY <1>1, <2>2, <2>3 DEF TypeOK, Record
  <2>6. edges' \in [Participant -> SUBSET (Node \X Node)]
    <3>1. \A m \in batch[p] : m \in Node /\ Successors(m) \subseteq Node
      BY <1>1, <1>6, NodeTypes
    <3>2. edges'[p] \subseteq Node \X Node BY <1>8, <3>1
    <3>3. \A q \in Participant : edges'[q] \in SUBSET (Node \X Node) BY <1>6, <1>8, <3>2
    <3> QED BY <1>8, <3>3
  <2> QED
    BY <1>1, <1>4, <1>5, <1>12, <2>1, <2>4, <2>5, <2>6 DEF TypeOK, Pc
<1>17. ErrorIsKept' BY <1>1, ErrorStep
<1>18. GraphInv' BY <1>1, <1>4, GraphUnchanged
<1>19. BetweenDrains' BY <1>1, <1>3, <1>4, <1>12 DEF BetweenDrains
<1>20. BatchInv'
  <2>1. \A q, r \in Participant : q # r => batch'[q] \cap batch'[r] = {}
    BY <1>1, <1>4 DEF BatchInv
  <2>2. ASSUME NEW q \in Participant
        PROVE  /\ batch'[q] # {} => pc'[q] \in Working
               /\ edges'[q] # {} => pc'[q] \in Releasing
               /\ \A e \in edges'[q] : e[1] \in batch'[q] /\ e[2] \in Successors(e[1])
               /\ \A n \in batch'[q] : TaskOf(n) \in started
                                       /\ (TaskOf(n) \in finished' <=> pc'[q] # "run")
    <3>1. CASE q = p
      BY <1>4, <1>8, <1>9, <1>10, <1>13, <1>14, <1>15, <3>1
    <3>2. CASE q # p
      <4>1. \A n \in batch[q] : n \in Node /\ n \notin batch[p]
        BY <1>1, <1>6, <3>2 DEF BatchInv
      <4> QED BY <1>1, <1>4, <1>8, <1>13, <1>15, <3>2, <4>1 DEF BatchInv
    <3> QED BY <3>1, <3>2
  <2>3. \A n \in Node : TaskOf(n) \in started \ finished' => \E q \in Participant : n \in batch[q]
    BY <1>1, <1>15 DEF BatchInv
  <2> QED BY <1>4, <1>5, <2>1, <2>2, <2>3 DEF BatchInv
<1>21. CountersAreExact'
  <2>1. ASSUME NEW n \in Node PROVE Unreleased(n)' = Unreleased(n)
    <3>1. ASSUME NEW m \in Node, n \in Successors(m)
          PROVE  (TaskOf(m) \notin finished' \/ \E q \in Participant : <<m, n>> \in edges'[q])
                 <=> (TaskOf(m) \notin finished \/ \E q \in Participant : <<m, n>> \in edges[q])
      <4>1. CASE m \in batch[p]
        <5>1. <<m, n>> \in edges'[p] BY <1>8, <3>1, <4>1
        <5> QED BY <1>14, <4>1, <5>1
      <4>2. CASE m \notin batch[p]
        <5>1. <<m, n>> \notin edges'[p] BY <1>8, <4>2
        <5>2. \A q \in Participant : <<m, n>> \in edges'[q] <=> <<m, n>> \in edges[q]
          BY <1>7, <1>8, <5>1
        <5> QED BY <1>15, <4>2, <5>2
      <4> QED BY <4>1, <4>2
    <3> QED BY <1>5, <3>1 DEF Unreleased, Predecessors
  <2>2. Incomplete' = Incomplete
    BY <1>4, <1>5, <1>14, <1>15 DEF Incomplete
  <2>3. \A n \in Node : Queued(n)' <=> Queued(n) BY <1>4 DEF Queued
  <2> QED BY <1>1, <1>3, <1>4, <1>5, <2>1, <2>2, <2>3 DEF DrainInv, CountersAreExact
<1>22. AtMostOnce' BY <1>1, <1>4, <1>5 DEF DrainInv, AtMostOnce
<1>23. StartedWereReleased' BY <1>1, <1>3, <1>4, <1>5 DEF DrainInv, StartedWereReleased
<1>24. WakeInv'
  <2>1. /\ \A q \in Participant \ {p} :
             pc'[q] = pc[q] /\ (ws_queues'[q] # <<>> => ws_queues[q] # <<>>)
        /\ pc'[p] \in Working \cup {"last", "load"}
    BY <1>4, <1>10, <1>13
  <2>2. ws_outstanding' = 0 => ws_outstanding = 0 /\ pc[p] # "last" BY <1>2, <1>4
  <2> QED BY <1>1, <2>1, <2>2, WakeWorking
<1> QED
  BY <1>12, <1>16, <1>17, <1>18, <1>19, <1>20, <1>21, <1>22, <1>23, <1>24
  DEF IInv, DrainInv

\* A completed batch leaves ws_outstanding_.
LEMMA FinishStep ==
    ASSUME IInv, [Next]_vars, NEW p \in Participant, Finish(p)
    PROVE  IInv'
<1>1. /\ TypeOK /\ ErrorIsKept /\ GraphInv /\ BetweenDrains /\ ControlInv /\ BatchInv
      /\ DrainInv /\ WakeInv
  BY DEF IInv
<1>2. pc[p] = "finish" BY DEF Finish
<1>3. InDrain BY <1>1, <1>2, DrivingIsInDrain
<1>4. /\ ws_outstanding' = ws_outstanding - Cardinality(batch[p])
      /\ batch' = [batch EXCEPT ![p] = {}]
      /\ UNCHANGED <<call, outcome, dag_nodes, latest_producer, ws_initial_ready, ws_pending,
                     ws_queues, shard_mutex, ws_running, ws_active_workers, worker_error,
                     seen_epoch, ws_idle_mutex, ws_sleepers, asleep, sequence_before, offset,
                     edges, submitted, started, finished, after, last_writer, thrown, reported>>
  BY DEF Finish, client_vars, graph_vars, queue_vars, drain_vars, idle_vars, history_vars
<1>5. /\ Node' = Node /\ DagNode' = DagNode
      /\ \A n : TaskOf(n)' = TaskOf(n) /\ Successors(n)' = Successors(n)
      /\ \A n : Predecessors(n)' = Predecessors(n)
  BY <1>4, NodesUnchanged
<1>6. /\ batch \in [Participant -> SUBSET Node]
      /\ \A q \in Participant : batch'[q] = IF q = p THEN {} ELSE batch[q]
  BY <1>1, <1>4 DEF TypeOK
<1>7. edges[p] = {} /\ \A n \in batch[p] : n \in Node /\ TaskOf(n) \in finished
  BY <1>1, <1>2, <1>6 DEF BatchInv, Releasing
<1>8. /\ Incomplete' = Incomplete \ batch[p]
      /\ batch[p] \subseteq Incomplete
  BY <1>1, <1>4, <1>5, <1>6, <1>7 DEF Incomplete, BatchInv
<1>9. /\ ws_outstanding = Cardinality(Incomplete) /\ ws_outstanding \in Nat
      /\ IsFiniteSet(Incomplete)
  <2>1. Incomplete \subseteq Node BY DEF Incomplete
  <2>2. IsFiniteSet(Node) BY <1>1, NodeTypes
  <2> QED BY <1>1, <1>3, <2>1, <2>2, FS_Subset DEF DrainInv, CountersAreExact, TypeOK
<1>10. /\ ws_outstanding' = Cardinality(Incomplete') /\ ws_outstanding' \in Nat
       /\ Cardinality(batch[p]) \in Nat /\ Cardinality(batch[p]) <= ws_outstanding
  <2>1. Incomplete \cap batch[p] = batch[p] BY <1>8
  <2>2. Cardinality(Incomplete \ batch[p]) = Cardinality(Incomplete) - Cardinality(batch[p])
    BY <1>9, <2>1, FS_Difference
  <2>3. IsFiniteSet(batch[p]) /\ Cardinality(batch[p]) <= Cardinality(Incomplete)
    BY <1>8, <1>9, FS_Subset
  <2>4. Cardinality(batch[p]) \in Nat BY <2>3, FS_CardinalityType
  <2> QED BY <1>4, <1>8, <1>9, <2>2, <2>3, <2>4
<1>11. PICK to \in {"last", "load"} :
        pc' = [pc EXCEPT ![p] = to] /\ (ws_outstanding' = 0 => to = "last")
  <2>1. ws_outstanding' = 0 <=> ws_outstanding = Cardinality(batch[p]) BY <1>4, <1>9, <1>10
  <2> QED BY <2>1 DEF Finish, Goto
<1>12. /\ to \in Driving /\ to \notin Idle /\ to # "steal" /\ to # "run" /\ "finish" \notin Idle
       /\ to \notin {"stop", "leave", "asleep", "idle_check", "idle_sequence", "unlock"}
  BY <1>11 DEF Driving, Idle
<1>13. offset[p] = 1 BY <1>1, <1>2 DEF ControlInv
<1>14. ws_outstanding = 0 => ws_outstanding' = 0 BY <1>4, <1>9, <1>10
<1>15. pc' \in [Participant -> Pc] /\ InDrain' = InDrain /\ ControlInv'
  BY <1>1, <1>2, <1>4, <1>11, <1>12, <1>13, <1>14, PlainMove
<1>16. \A q \in Participant : pc'[q] = IF q = p THEN to ELSE pc[q]
  BY <1>1, <1>11, <1>12, PcAfter DEF Pc
<1>17. TypeOK'
  <2>1. batch' \in [Participant -> SUBSET Node] BY <1>4, <1>6
  <2> QED BY <1>1, <1>4, <1>5, <1>10, <1>15, <2>1 DEF TypeOK, Pc
<1>18. ErrorIsKept' BY <1>1, ErrorStep
<1>19. GraphInv' BY <1>1, <1>4, GraphUnchanged
<1>20. BetweenDrains' BY <1>1, <1>3, <1>4, <1>15 DEF BetweenDrains
<1>21. BatchInv'
  <2>1. \A q, r \in Participant : q # r => batch'[q] \cap batch'[r] = {}
    BY <1>1, <1>6 DEF BatchInv
  <2>2. ASSUME NEW q \in Participant
        PROVE  /\ batch'[q] # {} => pc'[q] \in Working
               /\ edges'[q] # {} => pc'[q] \in Releasing
               /\ \A e \in edges'[q] : e[1] \in batch'[q] /\ e[2] \in Successors(e[1])
               /\ \A n \in batch'[q] : TaskOf(n) \in started
                                       /\ (TaskOf(n) \in finished <=> pc'[q] # "run")
    <3>1. CASE q = p BY <1>4, <1>6, <1>7, <3>1
    <3>2. CASE q # p BY <1>1, <1>4, <1>6, <1>16, <3>2 DEF BatchInv
    <3> QED BY <3>1, <3>2
  <2>3. \A n \in Node : TaskOf(n) \in started \ finished => \E q \in Participant : n \in batch'[q]
    BY <1>1, <1>6, <1>7 DEF BatchInv
  <2> QED BY <1>4, <1>5, <2>1, <2>2, <2>3 DEF BatchInv
<1>22. CountersAreExact'
  <2>1. \A n \in Node : Unreleased(n)' = Unreleased(n) BY <1>4, <1>5 DEF Unreleased
  <2>2. \A n \in Node : Queued(n)' <=> Queued(n) BY <1>4 DEF Queued
  <2> QED BY <1>1, <1>3, <1>4, <1>5, <1>10, <2>1, <2>2 DEF DrainInv, CountersAreExact
<1>23. AtMostOnce' BY <1>1, <1>4, <1>5 DEF DrainInv, AtMostOnce
<1>24. StartedWereReleased' BY <1>1, <1>3, <1>4, <1>5 DEF DrainInv, StartedWereReleased
<1>25. WakeInv'
  <2>1. /\ \A q \in Participant \ {p} :
             pc'[q] = pc[q] /\ (ws_queues'[q] # <<>> => ws_queues[q] # <<>>)
        /\ pc'[p] \in Working \cup {"last", "load"}
    BY <1>4, <1>11, <1>16
  <2>2. ws_outstanding' = 0 => pc'[p] = "last" BY <1>11, <1>16
  <2> QED BY <1>1, <2>1, <2>2, WakeWorking
<1> QED
  BY <1>15, <1>17, <1>18, <1>19, <1>20, <1>21, <1>22, <1>23, <1>24, <1>25
  DEF IInv, DrainInv

\* One edge is released: its successor waits for one predecessor less, and
\* the last release of a successor pushes it to the participant's own deque.
LEMMA ReleaseStep ==
    ASSUME IInv, [Next]_vars, NEW p \in Participant, Release(p)
    PROVE  IInv'
<1>1. /\ TypeOK /\ ErrorIsKept /\ GraphInv /\ BetweenDrains /\ ControlInv /\ BatchInv
      /\ DrainInv /\ WakeInv
  BY DEF IInv
<1>2. pc[p] = "release" BY DEF Release
<1>3. InDrain BY <1>1, <1>2, DrivingIsInDrain
<1>4. UNCHANGED <<call, outcome, dag_nodes, latest_producer, ws_initial_ready,
                  ws_outstanding, ws_running, ws_active_workers, worker_error,
                  seen_epoch, ws_idle_mutex, ws_sleepers, asleep, sequence_before, offset,
                  batch, submitted, started, finished, after, last_writer, thrown, reported>>
  BY DEF Release, client_vars, graph_vars, drain_vars, idle_vars, history_vars
<1>5. /\ Node' = Node /\ DagNode' = DagNode
      /\ \A n : TaskOf(n)' = TaskOf(n) /\ Successors(n)' = Successors(n)
      /\ \A n : Predecessors(n)' = Predecessors(n)
  BY <1>4, NodesUnchanged
<1>6. /\ batch \in [Participant -> SUBSET Node]
      /\ edges \in [Participant -> SUBSET (Node \X Node)]
      /\ ws_queues \in [Participant -> Seq(Node)]
      /\ shard_mutex \in [Participant -> Participant \cup {Nobody}]
      /\ ws_pending \in Seq(Nat) /\ DOMAIN ws_pending = Node
  <2>1. ws_pending \in Seq(Nat) BY <1>1 DEF TypeOK
  <2>2. Len(ws_pending) = Len(dag_nodes) BY <1>1, <1>3 DEF DrainInv, CountersAreExact
  <2> QED BY <1>1, <2>1, <2>2 DEF TypeOK, Node
<1>7. PICK e \in edges[p] :
        /\ edges' = [edges EXCEPT ![p] = @ \ {e}]
        /\ ws_pending' = [ws_pending EXCEPT ![e[2]] = @ - 1]
        /\ IF IsLast(e[2])
           THEN /\ Access(p, p)
                /\ ws_queues' = [ws_queues EXCEPT ![p] = Append(@, e[2])]
                /\ Goto(p, "signal")
           ELSE UNCHANGED queue_vars /\ Goto(p, ReleaseOrFinish(edges'[p]))
  BY DEF Release
<1> DEFINE from == e[1]
           successor == e[2]
<1>8. /\ from \in Node /\ successor \in Node /\ e = <<from, successor>>
      /\ from \in batch[p] /\ successor \in Successors(from)
      /\ TaskOf(from) \in finished
  <2>1. e \in Node \X Node BY <1>6
  <2>2. from \in batch[p] /\ successor \in Successors(from) BY <1>1 DEF BatchInv
  <2>3. TaskOf(from) \in finished BY <1>1, <1>2, <2>2 DEF BatchInv
  <2> QED BY <2>1, <2>2, <2>3
<1> HIDE DEF from, successor
<1>9. /\ edges' = [edges EXCEPT ![p] = @ \ {e}]
      /\ \A q \in Participant : edges'[q] = IF q = p THEN edges[p] \ {e} ELSE edges[q]
      /\ \A q \in Participant \ {p} : e \notin edges[q]
  <2>1. edges' = [edges EXCEPT ![p] = @ \ {e}] BY <1>7
  <2>2. \A q \in Participant \ {p} : e \notin edges[q]
    BY <1>1, <1>8 DEF BatchInv, from
  <2> QED BY <1>6, <2>1, <2>2
\* The counter of the successor.
<1>10. /\ \A n \in Node : ws_pending[n] = Cardinality(Unreleased(n)) /\ IsFiniteSet(Unreleased(n))
       /\ from \in Unreleased(successor)
  <2>1. \A n \in Node : Unreleased(n) \subseteq Node BY DEF Unreleased, Predecessors
  <2>2. IsFiniteSet(Node) BY <1>1, NodeTypes
  <2>3. from \in Unreleased(successor) BY <1>8 DEF Unreleased, Predecessors
  <2> QED BY <1>1, <1>3, <2>1, <2>2, <2>3, FS_Subset DEF DrainInv, CountersAreExact
<1>11. Unreleased(successor)' = Unreleased(successor) \ {from}
  <2>1. ASSUME NEW m \in Node
        PROVE  (\E q \in Participant : <<m, successor>> \in edges'[q]) <=>
                   m # from /\ \E q \in Participant : <<m, successor>> \in edges[q]
    BY <1>8, <1>9
  <2> QED BY <1>4, <1>5, <1>8, <2>1 DEF Unreleased, Predecessors
<1>12. \A n \in Node \ {successor} : Unreleased(n)' = Unreleased(n)
  <2>1. ASSUME NEW n \in Node \ {successor}, NEW m \in Node, NEW q \in Participant
        PROVE  <<m, n>> \in edges'[q] <=> <<m, n>> \in edges[q]
    BY <1>8, <1>9
  <2> QED BY <1>4, <1>5, <2>1 DEF Unreleased, Predecessors
<1>13. /\ ws_pending'[successor] = ws_pending[successor] - 1
       /\ ws_pending[successor] \in Nat \ {0}
       /\ \A n \in Node \ {successor} : ws_pending'[n] = ws_pending[n]
       /\ ws_pending' \in Seq(Nat) /\ Len(ws_pending') = Len(dag_nodes)
  <2>1. ws_pending' = [ws_pending EXCEPT ![successor] = @ - 1] BY <1>7 DEF successor
  <2>2. Cardinality(Unreleased(successor)) # 0 BY <1>8, <1>10, FS_EmptySet
  <2>3. ws_pending[successor] \in Nat \ {0} BY <1>6, <1>8, <1>10, <2>2
  <2>4. /\ ws_pending'[successor] = ws_pending[successor] - 1
        /\ \A n \in Node \ {successor} : ws_pending'[n] = ws_pending[n]
        /\ ws_pending' = [n \in Node |-> ws_pending'[n]]
    BY <1>6, <1>8, <2>1
  <2>5. \A n \in Node : ws_pending'[n] \in Nat
    <3>1. \A n \in Node : ws_pending[n] \in Nat BY <1>6
    <3>2. ws_pending[successor] - 1 \in Nat BY <2>3
    <3> QED BY <2>4, <3>1, <3>2
  <2>6. Len(dag_nodes) \in Nat BY <1>1, NodeTypes
  <2>7. ws_pending' \in Seq(Nat) /\ Len(ws_pending') = Len(dag_nodes)
    BY <2>4, <2>5, <2>6, IsASeqOfLength DEF Node
  <2> QED BY <2>3, <2>4, <2>7
<1>14. \A n \in Node : ws_pending'[n] = Cardinality(Unreleased(n)')
  <2>1. Cardinality(Unreleased(successor) \ {from}) = Cardinality(Unreleased(successor)) - 1
    BY <1>8, <1>10, RemoveOne
  <2> QED BY <1>8, <1>10, <1>11, <1>12, <1>13, <2>1
\* The successor was neither started nor queued.
<1>15. TaskOf(successor) \notin started /\ ~Queued(successor)
  BY <1>1, <1>3, <1>8, <1>13 DEF DrainInv, StartedWereReleased, CountersAreExact
<1> DEFINE last == ws_pending[successor] = 1
           own == ws_queues[p]
<1>16. /\ ws_queues' \in [Participant -> Seq(Node)]
       /\ \A q \in Participant \ {p} : ws_queues'[q] = ws_queues[q]
       /\ ~last => ws_queues' = ws_queues
       /\ last => /\ DOMAIN ws_queues'[p] = DOMAIN own \cup {Len(own) + 1}
                  /\ Len(own) + 1 \notin DOMAIN own
                  /\ \A i \in DOMAIN own : ws_queues'[p][i] = own[i]
                  /\ ws_queues'[p][Len(own) + 1] = successor
  <2>1. CASE last
    <3>1. ws_queues' = [ws_queues EXCEPT ![p] = Append(@, successor)]
      BY <1>7, <2>1 DEF IsLast, successor
    <3>2. own \in Seq(Node) BY <1>6
    <3>3. /\ Append(own, successor) \in Seq(Node)
          /\ DOMAIN Append(own, successor) = DOMAIN own \cup {Len(own) + 1}
          /\ Len(own) + 1 \notin DOMAIN own
          /\ \A i \in DOMAIN own : Append(own, successor)[i] = own[i]
          /\ Append(own, successor)[Len(own) + 1] = successor
      BY <1>8, <3>2
    <3>4. ws_queues'[p] = Append(own, successor) BY <1>6, <3>1
    <3> HIDE DEF own
    <3> QED BY <1>6, <2>1, <3>1, <3>3, <3>4
  <2>2. CASE ~last
    <3>1. ws_queues' = ws_queues BY <1>7, <2>2 DEF IsLast, queue_vars, successor
    <3> QED BY <1>6, <2>2, <3>1
  <2> QED BY <2>1, <2>2
<1>17. shard_mutex' \in [Participant -> Participant \cup {Nobody}]
  <2>1. CASE last
    <3>1. Access(p, p) BY <1>7, <2>1 DEF IsLast, successor
    <3> QED BY <1>1, <3>1, AccessType
  <2>2. CASE ~last BY <1>6, <1>7, <2>2 DEF IsLast, queue_vars, successor
  <2> QED BY <2>1, <2>2
<1> HIDE DEF last, own
<1>18. PICK to \in {"signal", "finish", "release"} :
        pc' = [pc EXCEPT ![p] = to] /\ (to = "finish" => edges'[p] = {})
  BY <1>7 DEF Goto, ReleaseOrFinish
<1>19. /\ to \in Driving /\ to \in Working /\ to \notin Idle /\ to # "steal" /\ to # "run"
       /\ to \notin {"stop", "leave", "asleep", "idle_check", "idle_sequence", "unlock"}
       /\ "release" \notin Idle /\ "release" \in Releasing
       /\ to # "finish" => to \in Releasing
  BY <1>18 DEF Driving, Working, Releasing, Idle
<1>20. offset[p] = 1 BY <1>1, <1>2 DEF ControlInv
<1>21. pc' \in [Participant -> Pc] /\ InDrain' = InDrain /\ ControlInv'
  BY <1>1, <1>2, <1>4, <1>18, <1>19, <1>20, PlainMove
<1>22. \A q \in Participant : pc'[q] = IF q = p THEN to ELSE pc[q]
  BY <1>1, <1>18, <1>19, PcAfter DEF Pc
<1>23. TypeOK'
  <2>1. edges' \in [Participant -> SUBSET (Node \X Node)] BY <1>6, <1>9
  <2> QED BY <1>1, <1>4, <1>5, <1>13, <1>16, <1>17, <1>21, <2>1 DEF TypeOK, Pc
<1>24. ErrorIsKept' BY <1>1, ErrorStep
<1>25. GraphInv' BY <1>1, <1>4, GraphUnchanged
<1>26. BetweenDrains' BY <1>1, <1>3, <1>4, <1>21 DEF BetweenDrains
<1>27. BatchInv'
  <2>1. ASSUME NEW q \in Participant
        PROVE  /\ batch[q] # {} => pc'[q] \in Working
               /\ edges'[q] # {} => pc'[q] \in Releasing
               /\ \A d \in edges'[q] : d[1] \in batch[q] /\ d[2] \in Successors(d[1])
               /\ \A n \in batch[q] : TaskOf(n) \in started
                                       /\ (TaskOf(n) \in finished <=> pc'[q] # "run")
    <3>1. CASE q = p BY <1>1, <1>2, <1>9, <1>18, <1>19, <1>22, <3>1 DEF BatchInv
    <3>2. CASE q # p BY <1>1, <1>9, <1>22, <3>2 DEF BatchInv
    <3> QED BY <3>1, <3>2
  <2>2. /\ \A q, r \in Participant : q # r => batch[q] \cap batch[r] = {}
        /\ \A n \in Node : TaskOf(n) \in started \ finished => \E q \in Participant : n \in batch[q]
    BY <1>1 DEF BatchInv
  <2> QED BY <1>4, <1>5, <2>1, <2>2 DEF BatchInv
<1>28. \A n \in Node : Queued(n)' <=> Queued(n) \/ (last /\ n = successor)
  <2>1. CASE last
    <3>1. ASSUME NEW n \in Node, Queued(n)' PROVE Queued(n) \/ n = successor
      <4>1. PICK q \in Participant : \E i \in DOMAIN ws_queues'[q] : ws_queues'[q][i] = n
        BY <3>1 DEF Queued
      <4>2. CASE q = p BY <1>16, <2>1, <4>1, <4>2 DEF Queued, own
      <4>3. CASE q # p BY <1>16, <4>1, <4>3 DEF Queued
      <4> QED BY <4>2, <4>3
    <3>2. ASSUME NEW n \in Node, Queued(n) PROVE Queued(n)'
      <4>1. PICK q \in Participant : \E i \in DOMAIN ws_queues[q] : ws_queues[q][i] = n
        BY <3>2 DEF Queued
      <4>2. CASE q = p BY <1>16, <2>1, <4>1, <4>2 DEF Queued, own
      <4>3. CASE q # p BY <1>16, <4>1, <4>3 DEF Queued
      <4> QED BY <4>2, <4>3
    <3>3. Queued(successor)' BY <1>16, <2>1 DEF Queued
    <3> QED BY <2>1, <3>1, <3>2, <3>3
  <2>2. CASE ~last BY <1>16, <2>2 DEF Queued
  <2> QED BY <2>1, <2>2
<1>29. CountersAreExact'
  <2>1. Incomplete' = Incomplete BY <1>4, <1>5 DEF Incomplete
  <2>2. \A n \in Node : Queued(n)' <=> ws_pending'[n] = 0 /\ TaskOf(n) \notin started
    <3>1. \A n \in Node : Queued(n) <=> ws_pending[n] = 0 /\ TaskOf(n) \notin started
      BY <1>1, <1>3 DEF DrainInv, CountersAreExact
    <3>2. ws_pending'[successor] = 0 <=> last BY <1>13 DEF last
    <3> QED BY <1>13, <1>15, <1>28, <3>1, <3>2
  <2> QED BY <1>1, <1>3, <1>4, <1>5, <1>13, <1>14, <2>1, <2>2 DEF DrainInv, CountersAreExact
<1>30. AtMostOnce'
  <2>1. CASE ~last BY <1>1, <1>4, <1>5, <1>16, <2>1 DEF DrainInv, AtMostOnce
  <2>2. CASE last
    <3>1. /\ \A q, r \in Participant : \A i \in DOMAIN ws_queues[q], j \in DOMAIN ws_queues[r] :
                ws_queues[q][i] = ws_queues[r][j] => q = r /\ i = j
          /\ \A q \in Participant : \A i \in DOMAIN ws_queues[q] :
                TaskOf(ws_queues[q][i]) \notin started /\ ws_queues[q][i] # successor
      BY <1>1, <1>15 DEF DrainInv, AtMostOnce, Queued
    \* A position of a deque is the new one or an old one.
    <3> DEFINE New(q, i) == q = p /\ i = Len(own) + 1
    <3>2. ASSUME NEW q \in Participant, NEW i \in DOMAIN ws_queues'[q]
          PROVE  IF New(q, i) THEN ws_queues'[q][i] = successor
                 ELSE i \in DOMAIN ws_queues[q] /\ ws_queues'[q][i] = ws_queues[q][i]
      <4>1. CASE q = p BY <1>16, <2>2, <4>1 DEF own
      <4>2. CASE q # p BY <1>16, <4>2
      <4> QED BY <4>1, <4>2
    <3>3. \A q, r \in Participant : \A i, j :
            New(q, i) /\ New(r, j) => q = r /\ i = j
      OBVIOUS
    <3> HIDE DEF New
    <3>4. \A q \in Participant : \A i \in DOMAIN ws_queues'[q] :
            TaskOf(ws_queues'[q][i]) \notin started
      BY <1>15, <3>1, <3>2
    <3>5. ASSUME NEW q \in Participant, NEW r \in Participant,
                 NEW i \in DOMAIN ws_queues'[q], NEW j \in DOMAIN ws_queues'[r],
                 ws_queues'[q][i] = ws_queues'[r][j]
          PROVE  q = r /\ i = j
      <4>1. New(q, i) <=> New(r, j) BY <3>1, <3>2, <3>5
      <4> QED BY <3>1, <3>2, <3>3, <3>5, <4>1
    <3> QED BY <1>4, <1>5, <3>4, <3>5 DEF AtMostOnce
  <2> QED BY <2>1, <2>2
<1>31. StartedWereReleased'
  BY <1>1, <1>3, <1>4, <1>5, <1>13, <1>15 DEF DrainInv, StartedWereReleased
<1>32. WakeInv'
  <2>1. /\ \A q \in Participant \ {p} :
             pc'[q] = pc[q] /\ (ws_queues'[q] # <<>> => ws_queues[q] # <<>>)
        /\ pc'[p] \in Working \cup {"last", "load"}
    BY <1>16, <1>19, <1>22
  <2>2. ws_outstanding' = 0 => ws_outstanding = 0 /\ pc[p] # "last" BY <1>2, <1>4
  <2> QED BY <1>1, <2>1, <2>2, WakeWorking
<1> QED
  BY <1>21, <1>23, <1>24, <1>25, <1>26, <1>27, <1>29, <1>30, <1>31, <1>32
  DEF IInv, DrainInv

-----------------------------------------------------------------------------
(* A graph is built, drained and cleared. *)

\* With nothing outstanding, everything was run.
LEMMA ZeroFacts ==
    ASSUME IInv, InDrain, ws_outstanding = 0
    PROVE  /\ \A q \in Participant : ws_queues[q] = <<>> /\ batch[q] = {} /\ edges[q] = {}
           /\ \A n \in Node : TaskOf(n) \in finished
           /\ submitted = finished /\ started = finished
<1>1. TypeOK /\ GraphInv /\ BatchInv /\ DrainInv BY DEF IInv
<1>2. Incomplete = {}
  <2>1. Incomplete \subseteq Node BY DEF Incomplete
  <2>2. IsFiniteSet(Incomplete) BY <1>1, <2>1, NodeTypes, FS_Subset
  <2>3. Cardinality(Incomplete) = 0 BY <1>1 DEF DrainInv, CountersAreExact
  <2> QED BY <2>2, <2>3, FS_EmptySet
<1>3. \A n \in Node : TaskOf(n) \in finished /\ \A q \in Participant : n \notin batch[q]
  BY <1>2 DEF Incomplete
<1>4. \A q \in Participant : batch[q] = {}
  <2>1. batch \in [Participant -> SUBSET Node] BY <1>1 DEF TypeOK
  <2> QED BY <1>3, <2>1
<1>5. \A q \in Participant : edges[q] = {} BY <1>1, <1>4 DEF BatchInv
<1>6. finished \subseteq started /\ started \subseteq submitted BY <1>1 DEF TypeOK
<1>7. submitted = finished BY <1>1, <1>3, <1>6 DEF GraphInv, NodesAreTasks
<1>8. ASSUME NEW q \in Participant PROVE ws_queues[q] = <<>>
  <2>1. ASSUME NEW i \in DOMAIN ws_queues[q] PROVE FALSE
    <3>1. TaskOf(ws_queues[q][i]) \notin started BY <1>1 DEF DrainInv, AtMostOnce
    <3>2. ws_queues[q][i] \in Node BY <1>1, QueueTypes
    <3> QED BY <1>3, <1>6, <3>1, <3>2
  <2>2. /\ Len(ws_queues[q]) \in Nat /\ DOMAIN ws_queues[q] = 1..Len(ws_queues[q])
        /\ ws_queues[q] # <<>> <=> Len(ws_queues[q]) # 0
    BY <1>1, QueueTypes
  <2>3. Len(ws_queues[q]) # 0 => 1 \in DOMAIN ws_queues[q] BY <2>2
  <2> QED BY <2>1, <2>2, <2>3
<1> QED BY <1>3, <1>4, <1>5, <1>6, <1>7, <1>8

\* Between two drains there is nothing to run either.
LEMMA BetweenFacts ==
    ASSUME IInv, ~InDrain
    PROVE  /\ pc[0] = "client" /\ \A w \in Worker : pc[w] = "parked"
           /\ \A q \in Participant : /\ ws_queues[q] = <<>> /\ batch[q] = {} /\ edges[q] = {}
                                     /\ offset[q] = 1
           /\ ws_outstanding = 0 /\ started = finished
           /\ \A n \in Node : TaskOf(n) \notin finished
<1>1. BetweenDrains /\ BatchInv /\ ControlInv BY DEF IInv
<1>2. pc[0] = "client" BY DEF InDrain
<1>3. /\ \A w \in Worker : pc[w] = "parked"
      /\ \A q \in Participant : ws_queues[q] = <<>> /\ batch[q] = {}
      /\ ws_outstanding = 0 /\ started = finished
      /\ \A n \in Node : TaskOf(n) \notin finished
  BY <1>1 DEF BetweenDrains
<1>4. \A q \in Participant : edges[q] = {} BY <1>1, <1>3 DEF BatchInv
<1>5. \A q \in Participant : offset[q] = 1
  BY <1>1, <1>2, <1>3, ParticipantFacts DEF ControlInv
<1> QED BY <1>2, <1>3, <1>4, <1>5

\* Nothing is run in the states at the ends of a drain.
LEMMA NoBatches ==
    ASSUME \A q \in Participant : batch'[q] = {} /\ edges'[q] = {},
           started' = finished'
    PROVE  BatchInv'
BY DEF BatchInv

LEMMA EndDrainStep ==
    ASSUME IInv, [Next]_vars, EndDrain
    PROVE  IInv'
<1>1. /\ TypeOK /\ ErrorIsKept /\ GraphInv /\ BetweenDrains /\ ControlInv /\ BatchInv
      /\ DrainInv /\ WakeInv
  BY DEF IInv
<1>2. pc[0] = "join" /\ ws_active_workers = 0 BY DEF EndDrain, WorkersLeft
<1>3. InDrain BY <1>2 DEF InDrain
<1>4. ws_outstanding = 0 BY <1>1, <1>2, ParticipantFacts DEF ControlInv
<1>5. /\ \A q \in Participant : ws_queues[q] = <<>> /\ batch[q] = {} /\ edges[q] = {}
      /\ \A n \in Node : TaskOf(n) \in finished
      /\ submitted = finished /\ started = finished
  BY <1>3, <1>4, ZeroFacts
<1>6. \A w \in Worker : pc[w] = "parked"
  <2>1. Cardinality({w \in Worker : pc[w] # "parked"}) = 0 BY <1>1, <1>2 DEF ControlInv
  <2>2. {w \in Worker : pc[w] # "parked"} \in SUBSET Worker OBVIOUS
  <2>3. IsFiniteSet({w \in Worker : pc[w] # "parked"}) BY <2>2, ParticipantFacts
  <2>4. {w \in Worker : pc[w] # "parked"} = {} BY <2>1, <2>3, FS_EmptySet
  <2> QED BY <2>4
<1>7. UNCHANGED <<ws_initial_ready, ws_pending, ws_outstanding, ws_queues, shard_mutex,
                  ws_running, ws_active_workers, seen_epoch, ws_idle_mutex, ws_sleepers,
                  asleep, sequence_before, offset, batch, edges, submitted, started, finished,
                  after, last_writer, thrown>>
  BY DEF EndDrain, work_vars, queue_vars, drain_vars, idle_vars, local_vars
<1>8. /\ dag_nodes' = <<>> /\ Node' = {} /\ Len(dag_nodes)' = 0
      /\ latest_producer' = [k \in Key |-> 0]
      /\ worker_error' = NoTask
      /\ call' = [op |-> "none", key |-> NoKey]
      /\ outcome' \in {"none", "ok", "error"} /\ reported' \subseteq thrown'
  BY <1>1, <1>7 DEF EndDrain, Node, TypeOK
<1>9. /\ pc' \in [Participant -> Pc]
      /\ pc'[0] = "client" /\ \A w \in Worker : pc'[w] = "parked"
      /\ \A q \in Participant : pc'[q] = IF q = 0 THEN "client" ELSE pc[q]
  <2>1. pc' = [pc EXCEPT ![0] = "client"] BY DEF EndDrain, Goto
  <2>2. 0 \in Participant /\ "client" \in Pc BY ParticipantFacts DEF Pc
  <2> QED BY <1>1, <1>6, <2>1, <2>2, PcAfter, ParticipantFacts
<1>10. \A p \in Participant : p = 0 \/ p \in Worker BY ParticipantFacts
<1>11. TypeOK'
  <2>1. ws_initial_ready' \in Seq(Node') BY <1>1, <1>3, <1>7 DEF BetweenDrains
  <2>2. \A q \in Participant : ws_queues'[q] \in Seq(Node')
    <3>1. \A q \in Participant : ws_queues'[q] = <<>> BY <1>5, <1>7
    <3>2. <<>> \in Seq(Node') OBVIOUS
    <3> QED BY <3>1, <3>2
  <2>3. /\ ws_queues' = [q \in Participant |-> ws_queues'[q]]
        /\ batch' = [q \in Participant |-> batch'[q]]
        /\ edges' = [q \in Participant |-> edges'[q]]
    <3>1. /\ ws_queues \in [Participant -> Seq(Node)]
          /\ batch \in [Participant -> SUBSET Node]
          /\ edges \in [Participant -> SUBSET (Node \X Node)]
      BY <1>1 DEF TypeOK
    <3> QED BY <1>7, <3>1
  <2>4. /\ ws_queues' \in [Participant -> Seq(Node')]
        /\ batch' \in [Participant -> SUBSET Node']
        /\ edges' \in [Participant -> SUBSET (Node' \X Node')]
    <3>1. \A q \in Participant : batch'[q] = {} /\ edges'[q] = {} BY <1>5, <1>7
    <3> QED BY <2>2, <2>3, <3>1
  <2>5. /\ dag_nodes' \in Seq(DagNode')
        /\ latest_producer' \in [Key -> 0..Len(dag_nodes)']
        /\ call' \in [op : {"none", "wait", "wait_key"}, key : Key \cup {NoKey}]
    BY <1>8
  <2> QED BY <1>1, <1>7, <1>8, <1>9, <2>1, <2>4, <2>5 DEF TypeOK, Pc
<1>12. ErrorIsKept' BY <1>1, ErrorStep
<1>13. GraphInv'
  <2>1. NodesAreTasks' /\ EdgesPointForward' /\ PendingIsExact' /\ OrderIsWired'
    BY <1>5, <1>7, <1>8
    DEF NodesAreTasks, EdgesPointForward, PendingIsExact, OrderIsWired
  <2>2. ASSUME NEW k \in Key PROVE last_writer[k] \in finished \cup {NoTask}
    <3>1. latest_producer[k] \in 0..Len(dag_nodes) BY <1>1 DEF TypeOK
    <3>2. latest_producer[k] # 0 => latest_producer[k] \in Node BY <1>1, <3>1, NodeTypes DEF Node
    <3> QED BY <1>1, <1>5, <3>2 DEF GraphInv, ProducerIsLastWriter
  <2>3. ProducerIsLastWriter' BY <1>7, <1>8, <2>2 DEF ProducerIsLastWriter
  <2> QED BY <2>1, <2>3 DEF GraphInv
<1>14. BetweenDrains'
  BY <1>1, <1>3, <1>4, <1>5, <1>7, <1>8, <1>9 DEF BetweenDrains, InDrain
<1>15. ControlInv'
  <2>1. {w \in Worker : pc'[w] # "parked"} = {w \in Worker : pc[w] # "parked"}
    BY <1>6, <1>9
  <2>2. {q \in Participant : pc'[q] \in Idle} = {q \in Participant : pc[q] \in Idle}
    BY <1>2, <1>9, SameSleepers DEF Idle
  <2>3. asleep' = {q \in Participant : pc'[q] = "asleep"} BY <1>1, <1>2, <1>7, <1>9 DEF ControlInv
  <2>4. ws_running' <=> pc'[0] \notin {"client", "join"} BY <1>1, <1>2, <1>7, <1>9 DEF ControlInv
  <2>5. \A q \in Participant :
        /\ pc'[q] \in {"idle_check", "idle_sequence", "unlock"} => ws_idle_mutex' = q
        /\ pc'[q] \in {"leave", "stop", "join"} => ws_outstanding' = 0
        /\ pc'[q] # "steal" => offset'[q] = 1
    BY <1>1, <1>2, <1>7, <1>9 DEF ControlInv
  <2>6. /\ ws_active_workers' = Cardinality({w \in Worker : pc[w] # "parked"})
        /\ ws_sleepers' = Cardinality({q \in Participant : pc[q] \in Idle})
    BY <1>1, <1>7 DEF ControlInv
  <2> QED BY <1>8, <1>9, <2>1, <2>2, <2>3, <2>4, <2>5, <2>6 DEF ControlInv
<1>16. BatchInv' BY <1>5, <1>7, NoBatches
<1>17. DrainInv'
  <2>1. ~InDrain' BY <1>9 DEF InDrain
  <2>2. \A q \in Participant : ws_queues'[q] = <<>> BY <1>5, <1>7
  <2>3. AtMostOnce' BY <2>2 DEF AtMostOnce
  <2> QED BY <2>1, <2>3 DEF DrainInv, CountersAreExact, StartedWereReleased
<1>18. WakeInv'
  <2>1. \A q \in Participant : ws_queues'[q] = <<>> BY <1>5, <1>7
  <2>2. \A q \in Participant : pc'[q] \notin {"idle_sequence", "asleep"} BY <1>9, <1>10
  <2> QED BY <2>1, <2>2 DEF WakeInv, QueuesAreWatched
<1> QED BY <1>11, <1>12, <1>13, <1>14, <1>15, <1>16, <1>17, <1>18 DEF IInv

\* The position in the initial list of what participant p gets at place i.
Position(p, i) == p + 1 + (i - 1) * Participants

LEMMA MultiplesGrow ==
    ASSUME NEW a \in Nat, NEW b \in Nat, a < b, NEW m \in Nat
    PROVE  a * m + m <= b * m
<1>1. PICK d \in Nat : b = a + 1 + d
  <2>1. b - a - 1 \in Nat /\ b = a + 1 + (b - a - 1) OBVIOUS
  <2> QED BY <2>1
<1>2. b * m = a * m + m + d * m BY <1>1
<1>3. d * m \in Nat /\ a * m \in Nat /\ b * m \in Nat OBVIOUS
<1> QED BY <1>2, <1>3

\* The shares deal the initial list out: every position belongs to exactly
\* one place of one participant.
LEMMA ShareFacts ==
    ASSUME TypeOK, NEW p \in Participant
    PROVE  /\ Share(p) \in Seq(Node)
           /\ \A i \in DOMAIN Share(p) :
                /\ i \in Nat \ {0}
                /\ Position(p, i) \in DOMAIN ws_initial_ready
                /\ Share(p)[i] = ws_initial_ready[Position(p, i)]
           /\ \A i \in Nat \ {0} :
                Position(p, i) \in DOMAIN ws_initial_ready => i \in DOMAIN Share(p)
<1> DEFINE ready == ws_initial_ready
           first == p + 1
           count == IF Len(ready) < first THEN 0
                    ELSE ((Len(ready) - first) \div Participants) + 1
           share == [i \in 1..count |-> ready[first + (i - 1) * Participants]]
<1>1. /\ ready \in Seq(Node) /\ Len(ready) \in Nat /\ DOMAIN ready = 1..Len(ready)
      /\ \A k \in 1..Len(ready) : ready[k] \in Node
  <2>1. ready \in Seq(Node) BY DEF TypeOK
  <2> QED BY <2>1
<1>2. p \in Nat /\ first \in Nat \ {0} /\ Participants \in Nat \ {0}
  BY ParticipantFacts DEF Participant
<1>3. Share(p) = share BY DEF Share
<1> HIDE DEF ready, first
<1>4. /\ count \in Nat
      /\ \A i \in Nat \ {0} : i \in 1..count <=> first + (i - 1) * Participants <= Len(ready)
  <2> DEFINE rest == Len(ready) - first
             quotient == rest \div Participants
  <2>1. CASE Len(ready) < first
    <3>1. \A i \in Nat \ {0} : (i - 1) * Participants \in Nat BY <1>2
    <3> QED BY <1>1, <1>2, <2>1, <3>1
  <2>2. CASE ~(Len(ready) < first)
    <3>1. rest \in Nat BY <1>1, <1>2, <2>2
    <3> HIDE DEF rest
    <3>2. /\ quotient \in Nat
          /\ quotient * Participants <= rest
          /\ rest < quotient * Participants + Participants
      BY <1>2, <3>1
    <3> HIDE DEF quotient
    <3>3. count = quotient + 1 BY <2>2 DEF quotient, rest
    <3>4. ASSUME NEW i \in Nat \ {0}
          PROVE  i \in 1..count <=> first + (i - 1) * Participants <= Len(ready)
      <4> DEFINE a == i - 1
      <4>1. a \in Nat /\ a * Participants \in Nat /\ quotient * Participants \in Nat
        BY <1>2, <3>2
      <4>2. i \in 1..count <=> a <= quotient BY <3>2, <3>3
      <4>3. first + a * Participants <= Len(ready) <=> a * Participants <= rest
        BY <1>1, <1>2, <4>1 DEF rest
      <4>4. CASE a <= quotient
        <5>1. a * Participants <= quotient * Participants
          <6>1. CASE a = quotient BY <4>1, <6>1
          <6>2. CASE a < quotient
            <7>1. a * Participants + Participants <= quotient * Participants
              BY <1>2, <3>2, <4>1, <6>2, MultiplesGrow
            <7> QED BY <1>2, <4>1, <7>1
          <6> QED BY <3>2, <4>1, <4>4, <6>1, <6>2
        <5> QED BY <3>1, <3>2, <4>1, <4>2, <4>3, <4>4, <5>1
      <4>5. CASE ~(a <= quotient)
        <5>1. quotient * Participants + Participants <= a * Participants
          BY <1>2, <3>2, <4>1, <4>5, MultiplesGrow
        <5> QED BY <1>2, <3>1, <3>2, <4>1, <4>2, <4>3, <4>5, <5>1
      <4> QED BY <4>4, <4>5
    <3> QED BY <3>2, <3>3, <3>4
  <2> QED BY <2>1, <2>2
<1> HIDE DEF count
<1>5. \A i \in Nat \ {0} : Position(p, i) = first + (i - 1) * Participants
  BY DEF Position, first
<1>6. \A i \in 1..count : i \in Nat \ {0} BY <1>4
<1>7. \A i \in Nat \ {0} : first + (i - 1) * Participants \in Nat \ {0} BY <1>2
<1>8. \A i \in Nat \ {0} : i \in 1..count <=> Position(p, i) \in DOMAIN ready
  BY <1>1, <1>4, <1>5, <1>7
<1>9. /\ DOMAIN share = 1..count
      /\ \A i \in 1..count : share[i] = ready[Position(p, i)] /\ share[i] \in Node
      /\ share = [i \in 1..count |-> share[i]]
  BY <1>1, <1>5, <1>6, <1>8
<1>10. share \in Seq(Node) BY <1>4, <1>9, IsASeqOfLength
<1> HIDE DEF share
<1> QED BY <1>3, <1>6, <1>8, <1>9, <1>10 DEF ready

LEMMA PositionsAreDealt ==
    /\ \A p, q \in Participant : \A i, j \in Nat \ {0} :
          Position(p, i) = Position(q, j) => p = q /\ i = j
    /\ \A k \in Nat \ {0} : \E p \in Participant : \E i \in Nat \ {0} : Position(p, i) = k
<1>1. Participants \in Nat \ {0} /\ Participant = 0..(Participants - 1)
  BY ParticipantFacts DEF Participant
<1>2. ASSUME NEW p \in Participant, NEW q \in Participant,
             NEW i \in Nat \ {0}, NEW j \in Nat \ {0}, Position(p, i) = Position(q, j)
      PROVE  ~(i < j)
  <2> SUFFICES ASSUME i < j PROVE FALSE OBVIOUS
  <2> DEFINE a == i - 1
             b == j - 1
  <2>1. a \in Nat /\ b \in Nat /\ a < b OBVIOUS
  <2>2. a * Participants + Participants <= b * Participants BY <1>1, <2>1, MultiplesGrow
  <2>3. p + 1 + a * Participants = q + 1 + b * Participants BY <1>2 DEF Position
  <2>4. a * Participants \in Nat /\ b * Participants \in Nat BY <1>1, <2>1
  <2>5. p \in Nat /\ q \in Nat /\ p < Participants BY <1>1
  <2> HIDE DEF a, b
  <2> QED BY <1>1, <2>2, <2>3, <2>4, <2>5
<1>3. ASSUME NEW p \in Participant, NEW q \in Participant,
             NEW i \in Nat \ {0}, NEW j \in Nat \ {0}, Position(p, i) = Position(q, j)
      PROVE  p = q /\ i = j
  <2>1. i = j BY <1>2, <1>3
  <2>2. (i - 1) * Participants \in Nat /\ p \in Nat /\ q \in Nat BY <1>1
  <2> QED BY <1>3, <2>1, <2>2 DEF Position
<1>4. ASSUME NEW k \in Nat \ {0}
      PROVE  \E p \in Participant : \E i \in Nat \ {0} : Position(p, i) = k
  <2> DEFINE p == (k - 1) % Participants
             a == (k - 1) \div Participants
  <2>1. p \in Participant /\ a \in Nat /\ k - 1 = p + a * Participants
    BY <1>1
  <2> HIDE DEF p, a
  <2>2. a + 1 \in Nat \ {0} /\ (a + 1) - 1 = a BY <2>1
  <2>3. Position(p, a + 1) = p + 1 + a * Participants BY <2>2 DEF Position
  <2>4. p \in Nat /\ a * Participants \in Nat BY <1>1, <2>1
  <2>5. Position(p, a + 1) = k BY <2>1, <2>3, <2>4
  <2> QED BY <2>1, <2>2, <2>5
<1> QED BY <1>3, <1>4

LEMMA StartDrainStep ==
    ASSUME IInv, [Next]_vars, NEW op \in {"wait", "wait_key"}, NEW key \in Key \cup {NoKey},
           op = "wait_key" => key \in Key, StartDrain(op, key)
    PROVE  IInv'
<1>1. /\ TypeOK /\ ErrorIsKept /\ GraphInv /\ BetweenDrains /\ ControlInv /\ BatchInv
      /\ DrainInv /\ WakeInv
  BY DEF IInv
<1>2. pc[0] = "client" /\ ~InDrain BY DEF StartDrain, InDrain
<1>3. /\ \A w \in Worker : pc[w] = "parked"
      /\ \A q \in Participant : /\ ws_queues[q] = <<>> /\ batch[q] = {} /\ edges[q] = {}
                                /\ offset[q] = 1
      /\ started = finished
      /\ \A n \in Node : TaskOf(n) \notin finished
  BY <1>2, BetweenFacts
<1>4. /\ ws_pending' = [n \in Node |-> dag_nodes[n].pending]
      /\ ws_outstanding' = Len(dag_nodes)
      /\ ws_queues' = [p \in Participant |-> ws_queues[p] \o Share(p)]
      /\ ws_initial_ready' = <<>> /\ seen_epoch' = {} /\ ws_running' = TRUE
      /\ call' = [op |-> op, key |-> key]
      /\ UNCHANGED <<outcome, dag_nodes, latest_producer, ws_active_workers, ws_idle_mutex,
                     ws_sleepers, asleep, sequence_before, offset, batch, edges, shard_mutex,
                     worker_error, submitted, started, finished, after, last_writer, thrown,
                     reported>>
  BY DEF StartDrain, Outstanding, graph_vars, idle_vars, local_vars, history_vars
<1>5. /\ Node' = Node /\ DagNode' = DagNode
      /\ \A n : TaskOf(n)' = TaskOf(n) /\ Successors(n)' = Successors(n)
      /\ \A n : Predecessors(n)' = Predecessors(n)
  BY <1>4, NodesUnchanged
<1>6. /\ pc' \in [Participant -> Pc]
      /\ \A q \in Participant : pc'[q] = IF q = 0 THEN "load" ELSE pc[q]
      /\ pc'[0] = "load" /\ \A w \in Worker : pc'[w] = "parked"
  <2>1. pc' = [pc EXCEPT ![0] = "load"] BY DEF StartDrain
  <2>2. "load" \in Pc BY DEF Pc, Driving
  <2> QED BY <1>1, <1>3, <2>1, <2>2, PcAfter, ParticipantFacts
<1>7. \A p \in Participant : p = 0 \/ p \in Worker BY ParticipantFacts
\* The deques hold the shares.
<1>8. /\ ws_queues' \in [Participant -> Seq(Node)]
      /\ \A p \in Participant : ws_queues'[p] = Share(p)
  <2>1. ASSUME NEW p \in Participant PROVE ws_queues[p] \o Share(p) = Share(p)
    <3>1. Share(p) \in Seq(Node) BY <1>1, ShareFacts
    <3>2. ws_queues[p] = <<>> BY <1>3
    <3> QED BY <3>1, <3>2
  <2>2. \A p \in Participant : Share(p) \in Seq(Node) BY <1>1, ShareFacts
  <2>3. \A p \in Participant : ws_queues'[p] = Share(p) BY <1>4, <2>1
  <2> QED BY <1>4, <2>1, <2>2, <2>3
<1>9. /\ ws_initial_ready \in Seq(Node)
      /\ \A k \in DOMAIN ws_initial_ready : k \in Nat \ {0} /\ ws_initial_ready[k] \in Node
  <2>1. ws_initial_ready \in Seq(Node) BY <1>1 DEF TypeOK
  <2> QED BY <2>1
<1>10. \A n \in Node : Queued(n)' <=> dag_nodes[n].pending = 0
  <2>1. ASSUME NEW n \in Node, Queued(n)' PROVE dag_nodes[n].pending = 0
    <3>1. PICK p \in Participant : \E i \in DOMAIN ws_queues'[p] : ws_queues'[p][i] = n
      BY <2>1 DEF Queued
    <3>2. PICK i \in DOMAIN Share(p) : Share(p)[i] = n BY <1>8, <3>1
    <3>3. Position(p, i) \in DOMAIN ws_initial_ready
          /\ ws_initial_ready[Position(p, i)] = n
      BY <1>1, <3>2, ShareFacts
    <3> QED BY <1>1, <1>2, <3>3 DEF BetweenDrains
  <2>2. ASSUME NEW n \in Node, dag_nodes[n].pending = 0 PROVE Queued(n)'
    <3>1. PICK k \in DOMAIN ws_initial_ready : ws_initial_ready[k] = n
      BY <1>1, <1>2, <2>2 DEF BetweenDrains
    <3>2. k \in Nat \ {0} BY <1>9
    <3>3. PICK p \in Participant : \E i \in Nat \ {0} : Position(p, i) = k
      BY <3>2, PositionsAreDealt
    <3>4. PICK i \in Nat \ {0} : Position(p, i) = k BY <3>3
    <3>5. i \in DOMAIN Share(p) BY <1>1, <3>1, <3>4, ShareFacts
    <3>6. Share(p)[i] = n BY <1>1, <3>1, <3>4, <3>5, ShareFacts
    <3> QED BY <1>8, <3>5, <3>6 DEF Queued
  <2> QED BY <2>1, <2>2
<1>11. ws_pending' \in Seq(Nat) /\ Len(ws_pending') = Len(dag_nodes)
       /\ \A n \in Node : ws_pending'[n] = dag_nodes[n].pending
  <2>1. \A n \in Node : dag_nodes[n].pending \in Nat BY <1>1, NodeTypes
  <2>2. Len(dag_nodes) \in Nat BY <1>1, NodeTypes
  <2>3. /\ ws_pending' = [n \in Node |-> ws_pending'[n]]
        /\ \A n \in Node : ws_pending'[n] = dag_nodes[n].pending
    BY <1>4
  <2> QED BY <2>1, <2>2, <2>3, IsASeqOfLength DEF Node
<1>12. TypeOK'
  <2>1. Len(dag_nodes) \in Nat BY <1>1, NodeTypes
  <2>2. <<>> \in Seq(Node) OBVIOUS
  <2>3. call' \in [op : {"none", "wait", "wait_key"}, key : Key \cup {NoKey}] BY <1>4
  <2>4. UNCHANGED Len(dag_nodes) BY <1>4
  <2> QED BY <1>1, <1>4, <1>5, <1>6, <1>8, <1>11, <2>1, <2>2, <2>3, <2>4 DEF TypeOK, Pc
<1>13. ErrorIsKept' BY <1>1, ErrorStep
<1>14. GraphInv' BY <1>1, <1>4, GraphUnchanged
<1>15. InDrain' BY <1>6 DEF InDrain
<1>16. BetweenDrains' BY <1>4, <1>15 DEF BetweenDrains
<1>17. ControlInv'
  <2>1. {w \in Worker : pc'[w] # "parked"} = {w \in Worker : pc[w] # "parked"}
    BY <1>3, <1>6
  <2>2. {q \in Participant : pc'[q] \in Idle} = {q \in Participant : pc[q] \in Idle}
    BY <1>2, <1>6, SameSleepers DEF Idle
  <2>3. asleep' = {q \in Participant : pc'[q] = "asleep"} BY <1>1, <1>2, <1>4, <1>6 DEF ControlInv
  <2>4. ws_running' <=> pc'[0] \notin {"client", "join"} BY <1>4, <1>6
  <2>5. \A q \in Participant :
        /\ pc'[q] \in {"idle_check", "idle_sequence", "unlock"} => ws_idle_mutex' = q
        /\ pc'[q] \in {"leave", "stop", "join"} => ws_outstanding' = 0
        /\ pc'[q] # "steal" => offset'[q] = 1
    BY <1>3, <1>4, <1>6, <1>7
  <2>6. /\ ws_active_workers' = Cardinality({w \in Worker : pc[w] # "parked"})
        /\ ws_sleepers' = Cardinality({q \in Participant : pc[q] \in Idle})
    BY <1>1, <1>4 DEF ControlInv
  <2>7. call'.op = "wait_key" => call'.key \in Key BY <1>4
  <2> QED BY <1>6, <2>1, <2>2, <2>3, <2>4, <2>5, <2>6, <2>7 DEF ControlInv
<1>18. BatchInv' BY <1>3, <1>4, NoBatches
<1>19. CountersAreExact'
  <2>1. ASSUME NEW n \in Node PROVE ws_pending'[n] = Cardinality(Unreleased(n)')
    <3>1. Unreleased(n)' = Predecessors(n)
      BY <1>3, <1>4, <1>5 DEF Unreleased, Predecessors
    <3> QED BY <1>1, <1>11, <3>1 DEF GraphInv, PendingIsExact
  <2>2. ws_outstanding' = Cardinality(Incomplete')
    <3>1. Incomplete' = Node BY <1>3, <1>4, <1>5 DEF Incomplete
    <3> QED BY <1>1, <1>4, <3>1, NodeTypes
  <2>3. \A n \in Node : Queued(n)' <=> ws_pending'[n] = 0 /\ TaskOf(n) \notin started'
    BY <1>3, <1>4, <1>10, <1>11
  <2>4. Len(ws_pending') = Len(dag_nodes') BY <1>4, <1>11
  <2> QED BY <1>5, <2>1, <2>2, <2>3, <2>4 DEF CountersAreExact
<1>20. AtMostOnce'
  <2>1. ASSUME NEW p \in Participant, NEW i \in DOMAIN ws_queues'[p]
        PROVE  /\ i \in Nat \ {0}
               /\ Position(p, i) \in DOMAIN ws_initial_ready
               /\ ws_queues'[p][i] = ws_initial_ready[Position(p, i)]
               /\ ws_queues'[p][i] \in Node
    <3>1. i \in DOMAIN Share(p) /\ ws_queues'[p][i] = Share(p)[i] BY <1>8, <2>1
    <3> QED BY <1>1, <1>9, <3>1, ShareFacts
  <2>2. \A p \in Participant : \A i \in DOMAIN ws_queues'[p] :
            TaskOf(ws_queues'[p][i]) \notin started'
    BY <1>3, <1>4, <2>1
  <2>3. ASSUME NEW p \in Participant, NEW q \in Participant,
               NEW i \in DOMAIN ws_queues'[p], NEW j \in DOMAIN ws_queues'[q],
               ws_queues'[p][i] = ws_queues'[q][j]
        PROVE  p = q /\ i = j
    <3>1. Position(p, i) = Position(q, j)
      BY <1>1, <1>2, <2>1, <2>3 DEF BetweenDrains
    <3> QED BY <2>1, <3>1, PositionsAreDealt
  <2> QED BY <1>5, <2>2, <2>3 DEF AtMostOnce
<1>21. StartedWereReleased' BY <1>3, <1>4, <1>5 DEF StartedWereReleased
<1>22. WakeInv'
  <2>1. \A v \in Participant : WillLook(0, v)' BY <1>6, LookingWatches, ParticipantFacts DEF Looking
  <2>2. \A q \in Participant : pc'[q] \notin {"steal", "check", "idle"} \cup Idle
    BY <1>6, <1>7 DEF Idle
  <2> QED BY <2>1, <2>2, ParticipantFacts DEF WakeInv, QueuesAreWatched, Idle
<1> QED
  BY <1>12, <1>13, <1>14, <1>16, <1>17, <1>18, <1>19, <1>20, <1>21, <1>22
  DEF IInv, DrainInv

LEMMA ProgramTypes ==
    ASSUME NEW t \in Task
    PROVE  Program[t].deps \subseteq Key /\ Program[t].output \in Key \cup {NoKey}
<1> DEFINE Call == [deps : SUBSET Key, output : Key \cup {NoKey}]
<1>1. Program \in Seq(Call) BY ProgramAssumption
<1>2. t \in 1..Len(Program) BY DEF Task
<1>3. Program[t] \in Call
  <2> HIDE DEF Call
  <2> QED BY <1>1, <1>2
<1> QED BY <1>3

LEMMA SubmitStep ==
    ASSUME IInv, [Next]_vars, NEW t \in Task, Submit(t)
    PROVE  IInv'
<1>1. /\ TypeOK /\ ErrorIsKept /\ GraphInv /\ BetweenDrains /\ ControlInv /\ BatchInv
      /\ DrainInv /\ WakeInv
  BY DEF IInv
<1>2. ~InDrain /\ submitted = 1..(t - 1) BY DEF Submit, InDrain
<1>3. /\ \A q \in Participant : ws_queues[q] = <<>> /\ batch[q] = {} /\ edges[q] = {}
      /\ started = finished
      /\ \A n \in Node : TaskOf(n) \notin finished
  BY <1>2, BetweenFacts
<1> DEFINE r == Program[t]
           node_index == Len(dag_nodes) + 1
           producers == {latest_producer[k] : k \in r.deps} \ {0}
           wired == [n \in Node |-> IF n \in producers
                                    THEN [dag_nodes[n] EXCEPT !.successors = @ \cup {node_index}]
                                    ELSE dag_nodes[n]]
           new == [task |-> t, pending |-> Cardinality(producers), successors |-> {}]
<1>4. UNCHANGED <<pc, call, outcome, ws_pending, ws_outstanding, ws_queues, shard_mutex,
                  ws_running, ws_active_workers, seen_epoch, ws_idle_mutex, ws_sleepers,
                  asleep, sequence_before, offset, batch, edges, worker_error, started,
                  finished, thrown, reported>>
  BY DEF Submit, work_vars, queue_vars, drain_vars, idle_vars, local_vars
<1>5. /\ dag_nodes' = Append(wired, new)
      /\ latest_producer' =
             [k \in Key |-> IF k = r.output THEN node_index ELSE latest_producer[k]]
      /\ ws_initial_ready' = IF producers = {} THEN Append(ws_initial_ready, node_index)
                                                ELSE ws_initial_ready
      /\ submitted' = submitted \cup {t}
      /\ after' = [after EXCEPT ![t] = {last_writer[k] : k \in r.deps} \ {NoTask}]
      /\ last_writer' = [k \in Key |-> IF k = r.output THEN t ELSE last_writer[k]]
  BY DEF Submit
<1>6. r.deps \subseteq Key /\ r.output \in Key \cup {NoKey} BY ProgramTypes
<1>7. /\ Len(dag_nodes) \in Nat /\ Node = 1..Len(dag_nodes) /\ IsFiniteSet(Node)
      /\ node_index \in Nat /\ node_index \notin Node /\ node_index # 0
      /\ \A n \in Node : n < node_index /\ n \in Nat /\ n # 0
      /\ Node \cup {node_index} = 1..node_index
  BY <1>1, NodeTypes DEF Node
<1>8. /\ \A k \in Key : latest_producer[k] \in Node \cup {0}
      /\ producers \subseteq Node
  <2>1. latest_producer \in [Key -> 0..Len(dag_nodes)] BY <1>1 DEF TypeOK
  <2>2. \A k \in Key : latest_producer[k] \in Node \cup {0} BY <1>7, <2>1
  <2> QED BY <1>6, <2>2
<1>9. Cardinality(producers) \in Nat /\ (Cardinality(producers) = 0 <=> producers = {})
  <2>1. IsFiniteSet(producers) BY <1>7, <1>8, FS_Subset
  <2> QED BY <2>1, FS_CardinalityType, FS_EmptySet
<1>10. t \notin submitted /\ submitted \subseteq Task /\ t \in Task
  <2>1. t \in Nat BY DEF Task
  <2> QED BY <1>1, <1>2, <2>1 DEF TypeOK
<1> HIDE DEF r, node_index, producers
\* The new graph.
<1>11. /\ \A n \in Node : dag_nodes[n] \in DagNode /\ Successors(n) \subseteq Node
                          /\ TaskOf(n) \in Task /\ TaskOf(n) # t
  BY <1>1, <1>10, NodeTypes DEF GraphInv, NodesAreTasks
<1>12. ASSUME NEW n \in Node
       PROVE  /\ wired[n].task = TaskOf(n)
              /\ wired[n].pending = dag_nodes[n].pending
              /\ wired[n].successors = IF n \in producers THEN Successors(n) \cup {node_index}
                                                          ELSE Successors(n)
              /\ wired[n] \in [task : Task, pending : Nat, successors : SUBSET (1..node_index)]
  <2>1. dag_nodes[n] \in [task : Task, pending : Nat, successors : SUBSET Node]
    BY <1>11 DEF DagNode
  <2>2. Node \subseteq 1..node_index /\ node_index \in 1..node_index BY <1>7
  <2> QED BY <2>1, <2>2 DEF TaskOf, Successors
<1>13. new \in [task : Task, pending : Nat, successors : SUBSET (1..node_index)]
  BY <1>9, <1>10
<1>14. /\ dag_nodes' \in Seq([task : Task, pending : Nat, successors : SUBSET (1..node_index)])
       /\ Len(dag_nodes') = node_index
       /\ \A n \in Node : dag_nodes'[n] = wired[n]
       /\ dag_nodes'[node_index] = new
  <2> DEFINE S == [task : Task, pending : Nat, successors : SUBSET (1..node_index)]
  <2>1. wired \in Seq(S) /\ Len(wired) = Len(dag_nodes)
    <3>1. DOMAIN wired = Node /\ wired = [n \in Node |-> wired[n]] OBVIOUS
    <3>2. \A n \in Node : wired[n] \in S BY <1>12
    <3> HIDE DEF wired, S
    <3> QED BY <1>7, <3>1, <3>2, IsASeqOfLength
  <2>2. new \in S BY <1>13
  <2> HIDE DEF wired, new, S
  <2>3. /\ Append(wired, new) \in Seq(S)
        /\ Len(Append(wired, new)) = Len(wired) + 1
        /\ \A n \in 1..Len(wired) : Append(wired, new)[n] = wired[n]
        /\ Append(wired, new)[Len(wired) + 1] = new
    BY <2>1, <2>2, AppendProperties
  <2> QED BY <1>5, <1>7, <2>1, <2>3 DEF S, node_index
<1> HIDE DEF wired
<1>15. Node' = Node \cup {node_index} /\ Node' = 1..node_index BY <1>7, <1>14 DEF Node
<1> DEFINE Graph == [n \in Node' |-> dag_nodes'[n]]
           Before(n) == {m \in Node' : n \in Graph[m].successors}
<1>16. /\ \A n \in Node : /\ Graph[n].task = TaskOf(n)
                          /\ Graph[n].pending = dag_nodes[n].pending
                          /\ Graph[n].successors = IF n \in producers
                                                   THEN Successors(n) \cup {node_index}
                                                   ELSE Successors(n)
       /\ Graph[node_index].task = t
       /\ Graph[node_index].pending = Cardinality(producers)
       /\ Graph[node_index].successors = {}
  <2>1. \A n \in Node : Graph[n] = dag_nodes'[n] /\ dag_nodes'[n] = wired[n] BY <1>14, <1>15
  <2>2. Graph[node_index] = dag_nodes'[node_index] BY <1>15
  <2> HIDE DEF Graph
  <2>3. /\ Graph[node_index].task = t
        /\ Graph[node_index].pending = Cardinality(producers)
        /\ Graph[node_index].successors = {}
    <3>1. Graph[node_index] = new BY <1>14, <2>2
    <3> HIDE DEF Before
    <3> QED BY <3>1
  <2>4. \A n \in Node : Graph[n] = wired[n] BY <2>1
  <2>5. \A n \in Node : /\ wired[n].task = TaskOf(n)
                        /\ wired[n].pending = dag_nodes[n].pending
                        /\ wired[n].successors = IF n \in producers
                                                 THEN Successors(n) \cup {node_index}
                                                 ELSE Successors(n)
    BY <1>12
  <2> HIDE DEF new, Before
  <2> QED BY <2>3, <2>4, <2>5
<1> HIDE DEF new
<1>33. \A n \in Node' : /\ dag_nodes'[n] = Graph[n]
                        /\ TaskOf(n)' = Graph[n].task
                        /\ Successors(n)' = Graph[n].successors
  BY DEF TaskOf, Successors
<1>34. \A n \in Node' : Predecessors(n)' = Before(n)
  BY DEF Predecessors, Successors
<1> HIDE DEF Graph
<1>35. /\ \A n \in Node : Graph[n].task = TaskOf(n)
       /\ Graph[node_index].task = t
  BY <1>16
<1>36. /\ \A n \in Node : Graph[n].pending = dag_nodes[n].pending
       /\ Graph[node_index].pending = Cardinality(producers)
  BY <1>16
<1>37. /\ \A m, n \in Node : n \in Graph[m].successors <=> n \in Successors(m)
       /\ \A m \in Node : node_index \in Graph[m].successors <=> m \in producers
       /\ \A n : n \notin Graph[node_index].successors
  <2>1. \A m \in Node : node_index \notin Successors(m) BY <1>7, <1>11
  <2>2. \A n \in Node : n # node_index BY <1>7
  <2> QED BY <1>16, <2>1, <2>2
<1>17. /\ \A n \in Node : Before(n) = Predecessors(n)
       /\ Before(node_index) = producers
  <2>1. ASSUME NEW n \in Node PROVE Before(n) = Predecessors(n)
    BY <1>15, <1>37, <2>1 DEF Predecessors
  <2>2. Before(node_index) = producers
    BY <1>8, <1>15, <1>37
  <2> QED BY <2>1, <2>2
<1> HIDE DEF Before
<1>18. /\ NodesAreTasks /\ EdgesPointForward /\ PendingIsExact /\ ProducerIsLastWriter
       /\ OrderIsWired
  BY <1>1 DEF GraphInv
<1>19. NodesAreTasks'
  <2>1. /\ \A m, n \in Node : TaskOf(m) = TaskOf(n) => m = n
        /\ \A n \in Node : TaskOf(n) \in submitted
        /\ \A s \in submitted \ finished : \E n \in Node : TaskOf(n) = s
    BY <1>18 DEF NodesAreTasks
  <2>2. \A m, n \in Node' : Graph[m].task = Graph[n].task => m = n
    BY <1>11, <1>15, <1>35, <2>1
  <2>3. \A n \in Node' : Graph[n].task \in submitted' BY <1>5, <1>15, <1>35, <2>1
  <2>4. \A s \in submitted' \ finished' : \E n \in Node' : Graph[n].task = s
    BY <1>4, <1>5, <1>15, <1>35, <2>1
  <2> QED BY <1>33, <2>2, <2>3, <2>4 DEF NodesAreTasks, TaskOf
<1>20. EdgesPointForward'
  <2>1. ASSUME NEW m \in Node', NEW n \in Graph[m].successors PROVE m < n
    <3>1. m \in Node /\ (n \in Successors(m) \/ n = node_index)
      <4>1. m \in Node \/ m = node_index BY <1>15, <2>1
      <4>2. m # node_index BY <1>16, <2>1
      <4>3. Graph[m].successors \subseteq Successors(m) \cup {node_index}
        BY <1>16, <4>1, <4>2
      <4> QED BY ONLY <2>1, <4>1, <4>2, <4>3
    <3>2. CASE n \in Successors(m) BY <1>18, <3>1, <3>2 DEF EdgesPointForward
    <3>3. CASE n = node_index BY <1>7, <3>1, <3>3
    <3> QED BY ONLY <3>1, <3>2, <3>3
  <2> QED BY <1>33, <2>1 DEF EdgesPointForward, Successors
<1>21. PendingIsExact'
  <2>1. \A n \in Node' : Graph[n].pending = Cardinality(Before(n))
    BY <1>15, <1>16, <1>17, <1>18 DEF PendingIsExact
  <2>2. \A n \in Node' : dag_nodes'[n].pending = Cardinality({m \in Node' : n \in dag_nodes'[m].successors})
    <3>1. \A n \in Node' : Before(n) = {m \in Node' : n \in dag_nodes'[m].successors}
      BY <1>33 DEF Before
    <3> QED BY <1>33, <2>1, <3>1
  <2> QED BY <2>2 DEF PendingIsExact, Predecessors, Successors
<1>22. ProducerIsLastWriter'
  <2>1. ASSUME NEW k \in Key
        PROVE  IF latest_producer'[k] = 0
               THEN last_writer'[k] \in finished' \cup {NoTask}
               ELSE dag_nodes'[latest_producer'[k]].task = last_writer'[k]
    <3>1. CASE k = r.output
      <4>1. latest_producer'[k] = node_index /\ last_writer'[k] = t BY <1>5, <3>1
      <4>2. latest_producer'[k] # 0 BY <1>7, <4>1
      <4>3. dag_nodes'[node_index].task = t BY <1>15, <1>16, <1>33
      <4> QED BY <4>1, <4>2, <4>3
    <3>2. CASE k # r.output
      <4>1. latest_producer'[k] = latest_producer[k] /\ last_writer'[k] = last_writer[k]
        BY <1>5, <3>2
      <4>2. CASE latest_producer[k] = 0
        BY <1>4, <1>18, <4>1, <4>2 DEF ProducerIsLastWriter
      <4>3. CASE latest_producer[k] # 0
        <5>1. latest_producer[k] \in Node BY <1>8, <4>3
        <5>2. dag_nodes'[latest_producer[k]].task = TaskOf(latest_producer[k])
          BY <1>15, <1>16, <1>33, <5>1
        <5> QED BY <1>18, <4>1, <4>3, <5>2 DEF ProducerIsLastWriter
      <4> QED BY <4>2, <4>3
    <3> QED BY <3>1, <3>2
  <2> QED BY <2>1 DEF ProducerIsLastWriter, TaskOf
<1>23. OrderIsWired'
  <2>0. after \in [Task -> SUBSET Task] BY <1>1 DEF TypeOK
  <2> DEFINE Tasks(S) == {Graph[n].task : n \in S}
  <2>1. ASSUME NEW n \in Node
        PROVE  after'[Graph[n].task] \subseteq finished \cup Tasks(Before(n))
    <3>1. after'[TaskOf(n)] = after[TaskOf(n)] BY <1>5, <1>11, <2>0
    <3>2. Predecessors(n) \subseteq Node BY DEF Predecessors
    <3>3. Tasks(Before(n)) = TasksOf(Predecessors(n))
      BY <1>16, <1>17, <3>2 DEF TasksOf, TaskOf
    <3> QED BY <1>16, <1>18, <3>1, <3>3 DEF OrderIsWired
  <2>2. after'[t] \subseteq finished \cup Tasks(Before(node_index))
    <3>1. after'[t] = {last_writer[k] : k \in r.deps} \ {NoTask} BY <1>5, <1>10, <2>0
    <3>2. ASSUME NEW k \in r.deps, last_writer[k] # NoTask
          PROVE  last_writer[k] \in finished \cup Tasks(Before(node_index))
      <4>0. k \in Key BY <1>6
      <4>1. CASE latest_producer[k] = 0
        BY <1>18, <3>2, <4>0, <4>1 DEF ProducerIsLastWriter
      <4>2. CASE latest_producer[k] # 0
        <5>1. latest_producer[k] \in producers BY <4>2 DEF producers
        <5>2. TaskOf(latest_producer[k]) = last_writer[k]
          BY <1>18, <4>0, <4>2 DEF ProducerIsLastWriter
        <5>3. Graph[latest_producer[k]].task = last_writer[k]
          BY <1>8, <1>16, <5>1, <5>2
        <5> QED BY <1>17, <5>1, <5>3
      <4> QED BY <4>1, <4>2
    <3> QED BY <3>1, <3>2
  <2>3. ASSUME NEW n \in Node'
        PROVE  after'[dag_nodes'[n].task] \subseteq finished' \cup TasksOf(Predecessors(n))'
    <3>1. Before(n) \subseteq Node' BY DEF Before
    <3>2. TasksOf(Predecessors(n))' = Tasks(Before(n))
      <4>1. TasksOf(Predecessors(n))' = {dag_nodes'[m].task : m \in Predecessors(n)'}
        BY DEF TasksOf
      <4> QED BY <1>33, <1>34, <3>1, <4>1
    <3>3. after'[Graph[n].task] \subseteq finished \cup Tasks(Before(n))
      BY <1>15, <1>16, <2>1, <2>2
    <3> QED BY <1>4, <1>33, <3>2, <3>3
  <2> QED BY <2>3 DEF OrderIsWired, TaskOf
<1>24. GraphInv' BY <1>19, <1>20, <1>21, <1>22, <1>23 DEF GraphInv
\* The list of ready nodes.
<1>25. /\ ws_initial_ready' \in Seq(Node')
       /\ \A i \in DOMAIN ws_initial_ready' :
            IF producers = {} /\ i = Len(ws_initial_ready) + 1
            THEN ws_initial_ready'[i] = node_index
            ELSE i \in DOMAIN ws_initial_ready /\ ws_initial_ready'[i] = ws_initial_ready[i]
                 /\ ws_initial_ready[i] \in Node
       /\ \A i \in DOMAIN ws_initial_ready :
            i \in DOMAIN ws_initial_ready' /\ ws_initial_ready'[i] = ws_initial_ready[i]
       /\ producers = {} => \E i \in DOMAIN ws_initial_ready' : ws_initial_ready'[i] = node_index
  <2> DEFINE ready == ws_initial_ready
  <2>1. ready \in Seq(Node) BY <1>1 DEF TypeOK
  <2>2. ready \in Seq(Node') /\ \A i \in DOMAIN ready : ready[i] \in Node BY <1>15, <2>1
  <2>3. CASE producers = {}
    <3>1. ws_initial_ready' = Append(ready, node_index) BY <1>5, <2>3
    <3>2. node_index \in Node' BY <1>15
    <3> HIDE DEF ready
    <3>3. /\ Append(ready, node_index) \in Seq(Node')
          /\ Len(Append(ready, node_index)) = Len(ready) + 1
          /\ \A i \in 1..Len(ready) : Append(ready, node_index)[i] = ready[i]
          /\ Append(ready, node_index)[Len(ready) + 1] = node_index
      BY <2>2, <3>2, AppendProperties
    <3>4. /\ DOMAIN ready = 1..Len(ready) /\ Len(ready) \in Nat
          /\ DOMAIN Append(ready, node_index) = 1..(Len(ready) + 1)
      BY <2>2, <3>3
    <3>5. /\ \A i \in 1..(Len(ready) + 1) : i = Len(ready) + 1 \/ i \in 1..Len(ready)
          /\ 1..Len(ready) \subseteq 1..(Len(ready) + 1)
          /\ Len(ready) + 1 \in 1..(Len(ready) + 1)
      BY <3>4
    <3> QED BY <2>2, <2>3, <3>1, <3>3, <3>4, <3>5 DEF ready
  <2>4. CASE producers # {}
    BY <1>5, <2>2, <2>4
  <2> QED BY <2>3, <2>4
<1>26. BetweenDrains'
  <2>1. ~InDrain' BY <1>2, <1>4 DEF InDrain
  <2>2. /\ call'.op = "none" /\ ws_outstanding' = 0
        /\ \A p \in Participant : ws_queues'[p] = <<>> /\ batch'[p] = {}
        /\ \A w \in Worker : pc'[w] = "parked"
        /\ started' = finished'
    BY <1>1, <1>2, <1>4 DEF BetweenDrains
  <2>3. \A n \in Node' : TaskOf(n)' \notin started'
    <3>1. t \notin started BY <1>1, <1>10 DEF TypeOK
    <3>2. \A n \in Node' : Graph[n].task \notin started BY <1>3, <1>15, <1>16, <3>1
    <3> QED BY <1>4, <1>33, <3>2
  <2>4. \A i \in DOMAIN ws_initial_ready' : dag_nodes'[ws_initial_ready'[i]].pending = 0
    <3>1. \A n \in Node : dag_nodes'[n].pending = dag_nodes[n].pending BY <1>15, <1>16, <1>33
    <3>2. producers = {} => dag_nodes'[node_index].pending = 0 BY <1>9, <1>15, <1>16, <1>33
    <3> QED BY <1>1, <1>2, <1>25, <3>1, <3>2 DEF BetweenDrains
  <2>5. \A i, j \in DOMAIN ws_initial_ready' :
                ws_initial_ready'[i] = ws_initial_ready'[j] => i = j
    BY <1>1, <1>2, <1>7, <1>25 DEF BetweenDrains
  <2>6. \A n \in Node' : dag_nodes'[n].pending = 0 =>
                \E i \in DOMAIN ws_initial_ready' : ws_initial_ready'[i] = n
    <3>1. ASSUME NEW n \in Node, dag_nodes'[n].pending = 0
          PROVE  \E i \in DOMAIN ws_initial_ready' : ws_initial_ready'[i] = n
      <4>1. dag_nodes[n].pending = 0 BY <1>15, <1>33, <1>36, <3>1
      <4>2. \E i \in DOMAIN ws_initial_ready : ws_initial_ready[i] = n
        BY <1>1, <1>2, <4>1 DEF BetweenDrains
      <4> QED BY <1>25, <4>2
    <3>2. dag_nodes'[node_index].pending = 0 =>
              \E i \in DOMAIN ws_initial_ready' : ws_initial_ready'[i] = node_index
      BY <1>9, <1>15, <1>16, <1>25, <1>33
    <3> QED BY <1>15, <3>1, <3>2
  <2> QED BY <2>1, <2>2, <2>3, <2>4, <2>5, <2>6 DEF BetweenDrains
<1>27. TypeOK'
  <2>1. dag_nodes' \in Seq(DagNode') BY <1>14, <1>15 DEF DagNode
  <2>2. latest_producer' \in [Key -> 0..Len(dag_nodes)']
    <3>1. \A k \in Key : latest_producer[k] \in 0..node_index BY <1>7, <1>8
    <3>2. node_index \in 0..node_index BY <1>7
    <3> QED BY <1>5, <1>14, <3>1, <3>2
  <2>3. /\ ws_queues' \in [Participant -> Seq(Node')]
        /\ batch' \in [Participant -> SUBSET Node']
        /\ edges' \in [Participant -> SUBSET (Node' \X Node')]
    <3>1. /\ ws_queues = [q \in Participant |-> ws_queues[q]]
          /\ batch = [q \in Participant |-> batch[q]]
          /\ edges = [q \in Participant |-> edges[q]]
      <4>1. /\ ws_queues \in [Participant -> Seq(Node)]
            /\ batch \in [Participant -> SUBSET Node]
            /\ edges \in [Participant -> SUBSET (Node \X Node)]
        BY <1>1 DEF TypeOK
      <4> QED BY <4>1
    <3>2. <<>> \in Seq(Node') OBVIOUS
    <3> QED BY <1>3, <1>4, <3>1, <3>2
  <2>4. submitted' \subseteq Task /\ started' \subseteq submitted' /\ finished' \subseteq started'
    BY <1>1, <1>4, <1>5, <1>10 DEF TypeOK
  <2>5. last_writer' \in [Key -> Task \cup {NoTask}]
    <3>1. last_writer \in [Key -> Task \cup {NoTask}] BY <1>1 DEF TypeOK
    <3> QED BY <1>5, <1>10, <3>1
  <2>6. after' \in [Task -> SUBSET Task]
    <3>1. last_writer \in [Key -> Task \cup {NoTask}] BY <1>1 DEF TypeOK
    <3>2. {last_writer[k] : k \in r.deps} \ {NoTask} \subseteq Task BY <1>6, <3>1
    <3>3. after \in [Task -> SUBSET Task] BY <1>1 DEF TypeOK
    <3> QED BY <1>5, <3>2, <3>3
  <2> QED
    BY <1>1, <1>4, <1>25, <2>1, <2>2, <2>3, <2>4, <2>5, <2>6 DEF TypeOK
<1>28. ErrorIsKept' BY <1>1, ErrorStep
<1>29. ControlInv' BY <1>1, <1>4 DEF ControlInv
<1>30. BatchInv' BY <1>3, <1>4, NoBatches
<1>31. DrainInv'
  <2>1. ~InDrain' BY <1>2, <1>4 DEF InDrain
  <2>2. \A q \in Participant : ws_queues'[q] = <<>> BY <1>3, <1>4
  <2>3. AtMostOnce' BY <2>2 DEF AtMostOnce
  <2> QED BY <2>1, <2>3 DEF DrainInv, CountersAreExact, StartedWereReleased
<1>32. WakeInv' BY <1>1, <1>4 DEF WakeInv, QueuesAreWatched, WillLook
<1> QED BY <1>24, <1>26, <1>27, <1>28, <1>29, <1>30, <1>31, <1>32 DEF IInv

-----------------------------------------------------------------------------
(* The invariant. *)

LEMMA InitInv == Init => IInv
<1> SUFFICES ASSUME Init PROVE IInv OBVIOUS
<1>1. TypeOK BY InitTypes
<1>2. Node = {} BY DEF Init, Node
<1>3. ErrorIsKept BY DEF Init, ErrorIsKept
<1>4. /\ pc[0] = "client" /\ \A w \in Worker : pc[w] = "parked"
      /\ \A p \in Participant : pc[p] \in {"client", "parked"}
  BY ParticipantFacts DEF Init
<1>5. /\ \A p \in Participant : ws_queues[p] = <<>> /\ batch[p] = {} /\ edges[p] = {}
                                /\ offset[p] = 1
      /\ ws_outstanding = 0 /\ ws_initial_ready = <<>> /\ call.op = "none"
      /\ submitted = {} /\ started = {} /\ finished = {}
  BY DEF Init
<1>6. ~InDrain BY <1>4 DEF InDrain
<1>7. GraphInv
  <2>1. \A k \in Key : latest_producer[k] = 0 /\ last_writer[k] = NoTask BY DEF Init
  <2> QED
    BY <1>2, <1>5, <2>1
    DEF GraphInv, NodesAreTasks, EdgesPointForward, PendingIsExact, ProducerIsLastWriter,
        OrderIsWired
<1>8. BetweenDrains BY <1>2, <1>4, <1>5, <1>6 DEF BetweenDrains
<1>9. ControlInv
  <2>1. {w \in Worker : pc[w] # "parked"} = {} BY <1>4
  <2>2. {p \in Participant : pc[p] \in Idle} = {} BY <1>4 DEF Idle
  <2>3. ws_active_workers = 0 /\ ws_sleepers = 0 /\ asleep = {} BY DEF Init
  <2>4. {p \in Participant : pc[p] = "asleep"} = {} BY <1>4
  <2>5. ~ws_running BY DEF Init
  <2> QED BY <1>4, <1>5, <2>1, <2>2, <2>3, <2>4, <2>5, FS_EmptySet DEF ControlInv
<1>10. BatchInv BY <1>5 DEF BatchInv
<1>11. DrainInv
  BY <1>5, <1>6 DEF DrainInv, CountersAreExact, StartedWereReleased, AtMostOnce
<1>12. WakeInv BY <1>4, <1>5 DEF WakeInv, QueuesAreWatched
<1> QED BY <1>1, <1>3, <1>7, <1>8, <1>9, <1>10, <1>11, <1>12 DEF IInv

LEMMA StutterStep ==
    ASSUME IInv, UNCHANGED vars
    PROVE  IInv'
<1>1. /\ TypeOK /\ ErrorIsKept /\ GraphInv /\ BetweenDrains /\ ControlInv /\ BatchInv
      /\ DrainInv /\ WakeInv
  BY DEF IInv
<1>2. /\ UNCHANGED core_vars /\ UNCHANGED idle_vars
      /\ UNCHANGED <<pc, offset, shard_mutex, ws_running, ws_active_workers, seen_epoch>>
  BY DEF vars, core_vars, work_vars, queue_vars, drain_vars, local_vars
<1>3. InDrain' = InDrain BY <1>2 DEF InDrain
<1>4. UNCHANGED <<call, ws_outstanding, ws_queues, ws_idle_mutex, ws_sleepers, asleep>>
  BY <1>2 DEF core_vars, client_vars, idle_vars
<1>5. ControlInv' BY <1>1, <1>2, <1>4 DEF ControlInv
<1>6. BatchInv' BY <1>1, <1>2, BatchUnchanged
<1>7. WakeInv' BY <1>1, <1>2, <1>4 DEF WakeInv, QueuesAreWatched, WillLook
<1>8. /\ pc' \in [Participant -> Pc]
      /\ shard_mutex' \in [Participant -> Participant \cup {Nobody}]
      /\ ws_running' \in BOOLEAN
      /\ ws_idle_mutex' \in Participant \cup {Nobody}
      /\ sequence_before' \subseteq Participant
      /\ offset' \in [Participant -> Worker]
      /\ seen_epoch' \subseteq Worker
  BY <1>1, <1>2 DEF TypeOK, Pc, idle_vars
<1>9. TypeOK' BY <1>1, <1>2, <1>5, <1>8, CoreTypes
<1>10. ErrorIsKept' BY <1>1, ErrorStep
<1>11. GraphInv' /\ BetweenDrains' /\ DrainInv' BY <1>1, <1>2, <1>3, CoreUnchanged
<1> QED BY <1>5, <1>6, <1>7, <1>9, <1>10, <1>11 DEF IInv

LEMMA NextInv ==
    ASSUME IInv, [Next]_vars
    PROVE  IInv'
<1>1. CASE Client
  <2>1. ASSUME NEW t \in Task, Submit(t) PROVE IInv' BY <2>1, SubmitStep
  <2>2. CASE StartDrain("wait", NoKey) BY <2>2, StartDrainStep
  <2>3. ASSUME NEW k \in Awaited, StartDrain("wait_key", k) PROVE IInv'
    <3>1. k \in Key BY KeyAssumption
    <3> QED BY <2>3, <3>1, StartDrainStep
  <2> QED BY <1>1, <2>1, <2>2, <2>3 DEF Client
<1>2. ASSUME NEW p \in Participant, Drive(p) PROVE IInv'
  <2>1. CASE PopLocalBatch(p) BY <2>1, PopStep
  <2>2. CASE Steal(p) BY <2>2, StealStep
  <2>3. CASE SkipVictim(p) BY <2>3, SkipStep
  <2>4. CASE RunBatch(p) BY <2>4, RunBatchStep
  <2>5. CASE Release(p) BY <2>5, ReleaseStep
  <2>6. CASE Finish(p) BY <2>6, FinishStep
  <2>7. CASE \/ LoadSequence(p) \/ BumpSequence(p) \/ LookForSleepers(p)
             \/ CheckOutstanding(p) \/ RecheckOutstanding(p)
    BY <2>7, ReadingStep
  <2>8. CASE NotifyOne(p) \/ NotifyAll(p) BY <2>8, NotifyStep
  <2>9. CASE RegisterSleeper(p) \/ RecheckSequence(p) \/ LeaveIdle(p) BY <2>9, SleepStep
  <2> QED BY <1>2, <2>1, <2>2, <2>3, <2>4, <2>5, <2>6, <2>7, <2>8, <2>9 DEF Drive
<1>3. ASSUME NEW p \in Participant, TimeOut(p) PROVE IInv' BY <1>3, NotifyStep
<1>4. CASE StopDrain \/ \E w \in Worker : JoinDrain(w) \/ LeaveDrain(w) BY <1>4, JoinStep
<1>5. CASE EndDrain BY <1>5, EndDrainStep
<1>6. CASE UNCHANGED vars BY <1>6, StutterStep
<1> QED BY <1>1, <1>2, <1>3, <1>4, <1>5, <1>6 DEF Next

\* The inductive invariant holds in every reachable state, for every program,
\* number of workers and batch size.
THEOREM Invariance == Spec => []IInv
<1>1. Init => IInv BY InitInv
<1>2. IInv /\ [Next]_vars => IInv' BY NextInv
<1> QED BY <1>1, <1>2, PTL DEF Spec

\* Every variable keeps its type.
THEOREM TypeCorrect == Spec => []TypeOK
<1>1. IInv => TypeOK BY DEF IInv
<1> QED BY <1>1, Invariance, PTL

\* Owners and thieves never take a task twice, whatever their number, the
\* program and the batch size: a task in a deque is there once and was not
\* taken before.
THEOREM TasksRunOnce == Spec => []AtMostOnce
<1>1. IInv => AtMostOnce BY DEF IInv, DrainInv
<1> QED BY <1>1, Invariance, PTL

\* At every moment of a drain a node waits for exactly the edges nobody has
\* released, ws_outstanding_ counts the nodes that are not done, and a deque
\* holds a node exactly when nothing holds it back and nobody has taken it.
THEOREM CountersExact == Spec => []CountersAreExact
<1>1. IInv => CountersAreExact BY DEF IInv, DrainInv
<1> QED BY <1>1, Invariance, PTL

\* With a zero in ws_outstanding_ every task was run.
THEOREM ZeroIsDone == Spec => []ZeroMeansDone
<1>1. IInv => ZeroMeansDone
  <2> SUFFICES ASSUME IInv, ws_outstanding = 0
               PROVE  /\ \A p \in Participant : ws_queues[p] = <<>> /\ batch[p] = {}
                      /\ InDrain => submitted = finished
    BY DEF ZeroMeansDone
  <2>1. CASE InDrain BY <2>1, ZeroFacts
  <2>2. CASE ~InDrain BY <2>2, BetweenFacts
  <2> QED BY <2>1, <2>2
<1> QED BY <1>1, Invariance, PTL

\* A task in a deque is never overlooked by everybody.
THEOREM QueuesWatched == Spec => []QueuesAreWatched
<1>1. IInv => QueuesAreWatched BY DEF IInv, WakeInv
<1> QED BY <1>1, Invariance, PTL

\* The submitter writes the graph only while every worker is parked with an
\* empty deque.
THEOREM GraphStable == Spec => GraphIsStable
<1>1. ASSUME IInv, [Next]_vars, graph_vars' # graph_vars
      PROVE  \A w \in Worker : pc[w] = "parked" /\ ws_queues[w] = <<>>
  <2>1. CASE EndDrain
    <3>1. TypeOK /\ ControlInv BY <1>1 DEF IInv
    <3>2. pc[0] = "join" /\ ws_active_workers = 0 BY <2>1 DEF EndDrain, WorkersLeft
    <3>3. InDrain /\ ws_outstanding = 0
      BY <3>1, <3>2, ParticipantFacts DEF InDrain, ControlInv
    <3>4. \A w \in Worker : ws_queues[w] = <<>> BY <1>1, <3>3, ZeroFacts, ParticipantFacts
    <3>5. {w \in Worker : pc[w] # "parked"} = {}
      <4>1. Cardinality({w \in Worker : pc[w] # "parked"}) = 0 BY <3>1, <3>2 DEF ControlInv
      <4>2. {w \in Worker : pc[w] # "parked"} \in SUBSET Worker OBVIOUS
      <4>3. IsFiniteSet({w \in Worker : pc[w] # "parked"}) BY <4>2, ParticipantFacts
      <4> QED BY <4>1, <4>3, FS_EmptySet
    <3> QED BY <3>4, <3>5
  <2>2. ASSUME NEW t \in Task, Submit(t)
        PROVE  \A w \in Worker : pc[w] = "parked" /\ ws_queues[w] = <<>>
    <3>1. ~InDrain BY <2>2 DEF Submit, InDrain
    <3> QED BY <1>1, <3>1, BetweenFacts, ParticipantFacts
  <2>3. ASSUME NEW op, NEW k, StartDrain(op, k) PROVE FALSE
    BY <1>1, <2>3 DEF StartDrain
  <2>4. ASSUME NEW p \in Participant, Drive(p) PROVE FALSE
    <3>1. CASE LoadSequence(p) \/ PopLocalBatch(p) \/ Steal(p) \/ SkipVictim(p)
      BY <1>1, <3>1 DEF LoadSequence, PopLocalBatch, Steal, SkipVictim, client_vars
    <3>2. CASE RunBatch(p) \/ Release(p) \/ BumpSequence(p) \/ LookForSleepers(p)
      BY <1>1, <3>2 DEF RunBatch, Release, BumpSequence, LookForSleepers, client_vars
    <3>3. CASE NotifyOne(p) \/ Finish(p) \/ NotifyAll(p) \/ CheckOutstanding(p)
      BY <1>1, <3>3 DEF NotifyOne, Finish, NotifyAll, CheckOutstanding, client_vars
    <3>4. CASE RegisterSleeper(p) \/ RecheckOutstanding(p) \/ RecheckSequence(p) \/ LeaveIdle(p)
      BY <1>1, <3>4
      DEF RegisterSleeper, RecheckOutstanding, RecheckSequence, LeaveIdle, client_vars
    <3> QED BY <2>4, <3>1, <3>2, <3>3, <3>4 DEF Drive
  <2>5. CASE \/ StopDrain \/ \E p \in Participant : TimeOut(p)
             \/ \E w \in Worker : JoinDrain(w) \/ LeaveDrain(w)
    BY <1>1, <2>5 DEF StopDrain, TimeOut, JoinDrain, LeaveDrain, client_vars
  <2>6. CASE UNCHANGED vars BY <1>1, <2>6 DEF vars, client_vars
  <2> QED BY <1>1, <2>1, <2>2, <2>3, <2>4, <2>5, <2>6 DEF Next, Client
<1>2. IInv /\ [Next]_vars =>
        [(graph_vars' # graph_vars) =>
            \A w \in Worker : pc[w] = "parked" /\ ws_queues[w] = <<>>]_vars
  BY <1>1
<1> QED BY <1>2, Invariance, PTL DEF Spec, GraphIsStable

-----------------------------------------------------------------------------
(* Nobody sleeps for ever. *)

LEMMA LeastElement ==
    ASSUME NEW S, S \subseteq Nat, S # {}
    PROVE  \E m \in S : \A i \in S : m <= i
<1>1. PICK m \in S : \A i \in S : ~(<<i, m>> \in OpToRel(<, Nat))
  BY NatLessThanWellFounded, WFMin, Zenon
<1>2. ASSUME NEW i \in S PROVE m <= i
  <2>1. ~(i < m) BY <1>1, Zenon DEF OpToRel
  <2> QED BY <2>1
<1> QED BY <1>2

\* As long as something is outstanding, a batch is worked on or a deque holds
\* a task: the first incomplete node has no predecessor left to wait for.
LEMMA SomethingToDo ==
    ASSUME IInv, InDrain, ws_outstanding # 0
    PROVE  \/ \E p \in Participant : batch[p] # {}
           \/ \E v \in Participant : ws_queues[v] # <<>>
<1>1. TypeOK /\ GraphInv /\ BatchInv /\ DrainInv BY DEF IInv
<1> SUFFICES ASSUME \A p \in Participant : batch[p] = {}
             PROVE  \E v \in Participant : ws_queues[v] # <<>>
  OBVIOUS
<1>2. \A p \in Participant : edges[p] = {} BY <1>1 DEF BatchInv
<1>3. Incomplete # {} BY <1>1, FS_EmptySet DEF DrainInv, CountersAreExact
<1>4. Incomplete \subseteq Nat /\ Incomplete \subseteq Node BY <1>1, NodeTypes DEF Incomplete
<1>5. PICK m \in Incomplete : \A i \in Incomplete : m <= i BY <1>3, <1>4, LeastElement
<1>6. m \in Node /\ TaskOf(m) \notin finished BY DEF Incomplete
<1>7. Unreleased(m) = {}
  <2> SUFFICES ASSUME NEW j \in Unreleased(m) PROVE FALSE OBVIOUS
  <2>1. j \in Node /\ m \in Successors(j) /\ TaskOf(j) \notin finished
    BY <1>2 DEF Unreleased, Predecessors
  <2>2. j < m BY <1>1, <2>1 DEF GraphInv, EdgesPointForward
  <2>3. j \in Incomplete BY <2>1 DEF Incomplete
  <2> QED BY <1>4, <1>5, <2>2, <2>3
<1>8. ws_pending[m] = 0 BY <1>1, <1>6, <1>7, FS_EmptySet DEF DrainInv, CountersAreExact
<1>9. TaskOf(m) \notin started BY <1>1, <1>6 DEF BatchInv
<1>10. Queued(m) BY <1>1, <1>6, <1>8, <1>9 DEF DrainInv, CountersAreExact
<1>11. PICK v \in Participant : \E i \in DOMAIN ws_queues[v] : ws_queues[v][i] = m
  BY <1>10 DEF Queued
<1>12. ws_queues[v] # <<>>
  <2>1. /\ DOMAIN ws_queues[v] = 1..Len(ws_queues[v])
        /\ ws_queues[v] # <<>> <=> Len(ws_queues[v]) # 0
    BY <1>1, QueueTypes
  <2> QED BY <1>11, <2>1
<1> QED BY <1>12

\* Whenever somebody sleeps, somebody else is awake in the drain, and after
\* the last task it is the participant that still has to notify everybody.
THEOREM SleepersWoken == Spec => []SleepersAreWoken
<1>1. IInv => SleepersAreWoken
  <2> SUFFICES ASSUME IInv, asleep # {}
               PROVE  \E p \in Participant \ asleep :
                          /\ pc[p] \in Driving
                          /\ ws_outstanding = 0 => pc[p] = "last"
    BY DEF SleepersAreWoken
  <2>1. BetweenDrains /\ ControlInv /\ BatchInv /\ WakeInv BY DEF IInv
  <2>2. PICK q \in Participant : pc[q] = "asleep" BY <2>1 DEF ControlInv
  <2>3. \A p \in Participant : p \in asleep <=> pc[p] = "asleep" BY <2>1 DEF ControlInv
  <2>4. InDrain BY <2>1, <2>2, DrivingIsInDrain
  <2>5. CASE ws_outstanding = 0
    <3>1. PICK p \in Participant : pc[p] = "last" BY <2>1, <2>2, <2>5 DEF WakeInv
    <3> QED BY <2>3, <3>1 DEF Driving
  <2>6. CASE ws_outstanding # 0
    <3>1. PICK p \in Participant : pc[p] \in Looking \cup {"steal"}
      <4>1. CASE \E p \in Participant : batch[p] # {} BY <2>1, <4>1 DEF BatchInv, Looking
      <4>2. CASE \E v \in Participant : ws_queues[v] # <<>>
        <5>1. PICK v \in Participant : \E p \in Participant : WillLook(p, v)
          BY <2>1, <4>2 DEF WakeInv, QueuesAreWatched
        <5> QED BY <5>1, LookingWatches
      <4> QED BY <2>4, <2>6, <4>1, <4>2, SomethingToDo
    <3>2. pc[p] \in Driving /\ pc[p] # "asleep"
      BY <3>1 DEF Looking, Working, Releasing, Driving
    <3> QED BY <2>3, <2>6, <3>2
  <2> QED BY <2>5, <2>6
<1> QED BY <1>1, Invariance, PTL

-----------------------------------------------------------------------------
(* The scheduler implements TaskGraph. *)

LEMMA GoalCases ==
    /\ ~InDrain => Goal = Contract!NoGoal
    /\ InDrain /\ call.op = "wait" => Goal = Contract!WaitAll
    /\ InDrain /\ call.op = "wait_key" => Goal = Contract!WaitKey(call.key)
BY DEF Goal, Contract!NoGoal, Contract!WaitAll, Contract!WaitKey

\* A submission of the program is one that the contract allows.
LEMMA SubmitRefines ==
    ASSUME IInv, NEW t \in Task, Submit(t)
    PROVE  Contract!Next
<1> DEFINE r == Program[t]
<1>1. ~InDrain /\ submitted = 1..(t - 1) BY DEF Submit, InDrain
<1>2. t \notin submitted
  <2>1. t \in Nat BY DEF Task
  <2> QED BY <1>1, <2>1
<1>3. r.deps \in SUBSET Key /\ r.output \in Key \cup {NoKey} BY ProgramTypes
<1>4. Goal = Contract!NoGoal /\ Goal' = Goal
  <2>1. call' = call /\ InDrain' = InDrain BY DEF Submit, InDrain
  <2> QED BY <1>1, <2>1, GoalCases DEF Goal
<1>5. Contract!Submit(t, r.deps, r.output)
  BY <1>2, <1>4 DEF Submit, Contract!Submit
<1> HIDE DEF r
<1> QED BY <1>3, <1>5 DEF Contract!Next

\* A drain begins when a wait blocks.
LEMMA StartDrainRefines ==
    ASSUME IInv, NEW op \in {"wait", "wait_key"}, NEW k,
           op = "wait_key" => k \in Key, StartDrain(op, k)
    PROVE  Contract!Next
<1>1. pc[0] = "client" /\ call' = [op |-> op, key |-> k]
      /\ UNCHANGED <<submitted, started, finished, after, last_writer>>
  BY DEF StartDrain, history_vars
<1>2. pc'[0] = "load"
  <2>1. TypeOK BY DEF IInv
  <2> QED BY <2>1, ParticipantFacts DEF StartDrain, TypeOK
<1>3. Goal = Contract!NoGoal BY <1>1, GoalCases DEF InDrain
<1>4. \/ op = "wait" /\ Goal' = Contract!WaitAll
      \/ op = "wait_key" /\ Goal' = Contract!WaitKey(k)
  BY <1>1, <1>2 DEF Goal, InDrain, Contract!WaitAll, Contract!WaitKey
<1>5. Goal' \in Contract!Goal /\ Goal' # Contract!NoGoal
  BY <1>4 DEF Contract!Goal, Contract!WaitAll, Contract!WaitKey, Contract!NoGoal
<1>6. Contract!Block(Goal') BY <1>1, <1>3, <1>5 DEF Contract!Block
<1> QED BY <1>5, <1>6 DEF Contract!Next

\* What a deque holds may start.
LEMMA QueuedMayStart ==
    ASSUME IInv, InDrain, NEW v \in Participant, NEW i \in DOMAIN ws_queues[v]
    PROVE  LET t == TaskOf(ws_queues[v][i]) IN
           t \in Task /\ t \in submitted \ started /\ after[t] \subseteq finished
<1>1. TypeOK /\ GraphInv /\ DrainInv BY DEF IInv
<1> DEFINE n == ws_queues[v][i]
<1>2. n \in Node /\ TaskOf(n) \notin started /\ ws_pending[n] = 0 BY <1>1, QueuedFacts
<1> HIDE DEF n
<1>3. TaskOf(n) \in Task /\ TaskOf(n) \in submitted
  BY <1>1, <1>2, NodeTypes DEF GraphInv, NodesAreTasks
<1>4. Unreleased(n) = {}
  <2>1. Unreleased(n) \subseteq Node BY DEF Unreleased, Predecessors
  <2>2. IsFiniteSet(Unreleased(n)) BY <1>1, <2>1, NodeTypes, FS_Subset
  <2>3. Cardinality(Unreleased(n)) = 0 BY <1>1, <1>2 DEF DrainInv, CountersAreExact
  <2> QED BY <2>2, <2>3, FS_EmptySet
<1>5. \A m \in Predecessors(n) : TaskOf(m) \in finished BY <1>4 DEF Unreleased
<1>6. TasksOf(Predecessors(n)) \subseteq finished BY <1>5 DEF TasksOf, TaskOf
<1>7. after[TaskOf(n)] \subseteq finished BY <1>1, <1>2, <1>6 DEF GraphInv, OrderIsWired
<1> QED BY <1>2, <1>3, <1>7 DEF n

\* Popping and stealing start tasks.
LEMMA TakeRefines ==
    ASSUME IInv, InDrain, NEW p \in Participant, NEW v \in Participant,
           NEW shift \in Nat, NEW kept \in Nat, TakesFrom(p, v, shift, kept),
           UNCHANGED <<submitted, finished, after, last_writer>>, Goal' = Goal
    PROVE  Contract!Next
<1>1. TypeOK BY DEF IInv
<1> DEFINE taken == Taken(ws_queues[v], shift, kept)
<1>2. taken # {} BY <1>1, TakenFacts
<1>3. \A n \in taken : \E i \in DOMAIN ws_queues[v] : n = ws_queues[v][i]
  BY <1>1, QueueTypes DEF Taken
<1>4. started' = started \cup TasksOf(taken) BY DEF TakesFrom, Take
<1> HIDE DEF taken
<1>5. TasksOf(taken) = {TaskOf(n) : n \in taken} BY DEF TasksOf, TaskOf
<1>6. \A t \in TasksOf(taken) :
        t \in Task /\ t \in submitted \ started /\ after[t] \subseteq finished
  BY <1>3, <1>5, QueuedMayStart
<1>7. TasksOf(taken) # {} BY <1>2, <1>5
<1>8. Contract!Start(TasksOf(taken)) BY <1>4, <1>6, <1>7 DEF Contract!Start
<1>9. TasksOf(taken) \in SUBSET Task BY <1>6
<1> QED BY <1>8, <1>9 DEF Contract!Next

\* Running a batch finishes its tasks.
LEMMA RunRefines ==
    ASSUME IInv, NEW p \in Participant, RunBatch(p), Goal' = Goal
    PROVE  [Contract!Next]_(Contract!vars)
<1>1. TypeOK /\ BatchInv BY DEF IInv
<1>2. /\ pc[p] = "run" /\ finished' = finished \cup TasksOf(batch[p])
      /\ UNCHANGED <<submitted, started, after, last_writer>>
  BY DEF RunBatch
<1>3. TasksOf(batch[p]) \subseteq started \ finished
  BY <1>1, <1>2 DEF BatchInv, TasksOf, TaskOf
<1>4. CASE TasksOf(batch[p]) = {} BY <1>2, <1>4 DEF Contract!vars
<1>5. CASE TasksOf(batch[p]) # {}
  <2>1. Contract!Finish(TasksOf(batch[p])) BY <1>2, <1>3, <1>5 DEF Contract!Finish
  <2>2. TasksOf(batch[p]) \in SUBSET Task BY <1>1, <1>3 DEF TypeOK
  <2> QED BY <2>1, <2>2 DEF Contract!Next
<1> QED BY <1>4, <1>5

\* A drain that ends has run everything, so both kinds of wait may return.
LEMMA EndDrainRefines ==
    ASSUME IInv, EndDrain
    PROVE  Contract!Next
<1>1. TypeOK /\ GraphInv /\ BetweenDrains /\ ControlInv BY DEF IInv
<1>2. pc[0] = "join" BY DEF EndDrain
<1>3. InDrain BY <1>2 DEF InDrain
<1>4. ws_outstanding = 0 BY <1>1, <1>2, ParticipantFacts DEF ControlInv
<1>5. submitted = finished /\ \A n \in Node : TaskOf(n) \in finished BY <1>3, <1>4, ZeroFacts
<1>6. UNCHANGED <<submitted, started, finished, after, last_writer>> BY DEF EndDrain
<1>7. Goal' = Contract!NoGoal
  <2>1. call'.op = "none" BY DEF EndDrain
  <2> QED BY <2>1 DEF Goal, Contract!NoGoal
<1>8. call.op \in {"wait", "wait_key"} BY <1>1, <1>3 DEF BetweenDrains, TypeOK
<1>9. CASE call.op = "wait"
  <2>1. Goal = Contract!WaitAll BY <1>3, <1>9, GoalCases
  <2>2. Contract!Return
    BY <1>5, <1>6, <1>7, <2>1
    DEF Contract!Return, Contract!Reached, Contract!WaitAll, Contract!NoGoal
  <2> QED BY <2>2 DEF Contract!Next
<1>10. CASE call.op = "wait_key"
  <2> DEFINE k == call.key
  <2>1. Goal = Contract!WaitKey(k) BY <1>3, <1>10, GoalCases
  <2>2. k \in Key BY <1>1, <1>10 DEF ControlInv
  <2>3. last_writer[k] \in finished \cup {NoTask}
    <3>1. latest_producer[k] # 0 => latest_producer[k] \in Node
      BY <1>1, <2>2, NodeTypes DEF TypeOK, Node
    <3> QED BY <1>1, <1>5, <2>2, <3>1 DEF GraphInv, ProducerIsLastWriter
  <2> HIDE DEF k
  <2>4. Contract!Return
    BY <1>6, <1>7, <2>1, <2>3
    DEF Contract!Return, Contract!Reached, Contract!WaitKey, Contract!NoGoal
  <2> QED BY <2>4 DEF Contract!Next
<1> QED BY <1>8, <1>9, <1>10

\* The steps that only look for work, wait or release successors are
\* invisible to the client.
LEMMA StepRefines ==
    ASSUME IInv, [Next]_vars
    PROVE  [Contract!Next]_(Contract!vars)
<1>1. TypeOK /\ BetweenDrains /\ ControlInv BY DEF IInv
<1>2. ASSUME UNCHANGED history_vars, Goal' = Goal PROVE UNCHANGED Contract!vars
  BY <1>2 DEF Contract!vars, history_vars
<1>3. CASE Client
  <2>1. ASSUME NEW t \in Task, Submit(t) PROVE Contract!Next BY <2>1, SubmitRefines
  <2>2. CASE StartDrain("wait", NoKey) BY <2>2, StartDrainRefines
  <2>3. ASSUME NEW k \in Awaited, StartDrain("wait_key", k) PROVE Contract!Next
    <3>1. k \in Key BY KeyAssumption
    <3> QED BY <2>3, <3>1, StartDrainRefines
  <2> QED BY <1>3, <2>1, <2>2, <2>3 DEF Client
<1>4. CASE EndDrain BY <1>4, EndDrainRefines
\* Every other step leaves the call alone and keeps the client in its drain.
<1>5. ASSUME NEW p \in Participant, Drive(p) \/ TimeOut(p) PROVE InDrain /\ Goal' = Goal
  <2>1. IInv' BY NextInv
  <2>2. pc[p] \notin {"client", "parked"}
    BY <1>1, <1>5 DEF Drive, LoadSequence, PopLocalBatch, Steal, SkipVictim, RunBatch, Release,
       BumpSequence, LookForSleepers, NotifyOne, Finish, NotifyAll, CheckOutstanding,
       RegisterSleeper, RecheckOutstanding, RecheckSequence, LeaveIdle, TimeOut, ControlInv
  <2>3. InDrain BY <1>1, <2>2, DrivingIsInDrain
  <2>4. call' = call /\ outcome' = outcome
    <3>1. CASE LoadSequence(p) \/ PopLocalBatch(p) \/ Steal(p) \/ SkipVictim(p)
      BY <3>1 DEF LoadSequence, PopLocalBatch, Steal, SkipVictim, client_vars
    <3>2. CASE RunBatch(p) \/ Release(p) \/ BumpSequence(p) \/ LookForSleepers(p)
      BY <3>2 DEF RunBatch, Release, BumpSequence, LookForSleepers, client_vars
    <3>3. CASE NotifyOne(p) \/ Finish(p) \/ NotifyAll(p) \/ CheckOutstanding(p)
      BY <3>3 DEF NotifyOne, Finish, NotifyAll, CheckOutstanding, client_vars
    <3>4. CASE \/ RegisterSleeper(p) \/ RecheckOutstanding(p) \/ RecheckSequence(p)
               \/ LeaveIdle(p) \/ TimeOut(p)
      BY <3>4
      DEF RegisterSleeper, RecheckOutstanding, RecheckSequence, LeaveIdle, TimeOut, client_vars
    <3> QED BY <1>5, <3>1, <3>2, <3>3, <3>4 DEF Drive
  <2>5. call.op # "none" BY <1>1, <2>3 DEF BetweenDrains
  <2>6. InDrain' BY <2>1, <2>4, <2>5 DEF IInv, BetweenDrains
  <2> QED BY <2>3, <2>4, <2>6 DEF Goal
<1>6. ASSUME NEW p \in Participant, Drive(p) \/ TimeOut(p)
      PROVE  [Contract!Next]_(Contract!vars)
  <2>1. InDrain /\ Goal' = Goal BY <1>5, <1>6
  <2>2. CASE PopLocalBatch(p)
    <3>1. CASE PopLocal(p)
      <4>1. PICK kept \in Nat : TakesFrom(p, p, 0, kept) BY <1>1, <3>1, PopTakes
      <4>2. UNCHANGED <<submitted, finished, after, last_writer>> BY <2>2 DEF PopLocalBatch
      <4> QED BY <2>1, <4>1, <4>2, TakeRefines
    <3>2. CASE ~PopLocal(p)
      <4>1. UNCHANGED history_vars BY <2>2, <3>2 DEF PopLocalBatch, history_vars
      <4> QED BY <1>2, <2>1, <4>1
    <3> QED BY <3>1, <3>2
  <2>3. CASE Steal(p)
    <3>1. PICK kept \in Nat : TakesFrom(p, Victim(p), 1, kept) BY <1>1, <2>3, StealTakes
    <3>2. Victim(p) \in Participant BY <1>1, VictimType
    <3>3. UNCHANGED <<submitted, finished, after, last_writer>> BY <2>3 DEF Steal
    <3> QED BY <2>1, <3>1, <3>2, <3>3, TakeRefines
  <2>4. CASE RunBatch(p) BY <2>1, <2>4, RunRefines
  <2>5. CASE LoadSequence(p) \/ SkipVictim(p) \/ Release(p) \/ BumpSequence(p) \/ LookForSleepers(p)
    <3>1. UNCHANGED history_vars
      BY <2>5 DEF LoadSequence, SkipVictim, Release, BumpSequence, LookForSleepers
    <3> QED BY <1>2, <2>1, <3>1
  <2>6. CASE NotifyOne(p) \/ Finish(p) \/ NotifyAll(p) \/ CheckOutstanding(p)
    <3>1. UNCHANGED history_vars
      BY <2>6 DEF NotifyOne, Finish, NotifyAll, CheckOutstanding
    <3> QED BY <1>2, <2>1, <3>1
  <2>7. CASE \/ RegisterSleeper(p) \/ RecheckOutstanding(p) \/ RecheckSequence(p)
             \/ LeaveIdle(p) \/ TimeOut(p)
    <3>1. UNCHANGED history_vars
      BY <2>7 DEF RegisterSleeper, RecheckOutstanding, RecheckSequence, LeaveIdle, TimeOut
    <3> QED BY <1>2, <2>1, <3>1
  <2> QED BY <1>6, <2>2, <2>3, <2>4, <2>5, <2>6, <2>7 DEF Drive
<1>7. CASE StopDrain \/ \E w \in Worker : JoinDrain(w) \/ LeaveDrain(w)
  <2>1. UNCHANGED history_vars /\ call' = call
    BY <1>7 DEF StopDrain, JoinDrain, LeaveDrain, client_vars
  <2>2. InDrain' = InDrain
    <3>1. pc \in [Participant -> Pc] BY <1>1 DEF TypeOK, Pc
    <3> QED BY <1>7, <3>1, ParticipantFacts
        DEF StopDrain, JoinDrain, LeaveDrain, Goto, InDrain
  <2> QED BY <1>2, <2>1, <2>2 DEF Goal
<1>8. CASE UNCHANGED vars
  BY <1>8 DEF vars, history_vars, client_vars, Goal, InDrain, Contract!vars
<1> QED BY <1>3, <1>4, <1>6, <1>7, <1>8 DEF Next

\* The work-stealing scheduler implements the contract: it starts only what
\* was submitted, once and in order, and a wait returns when its goal is
\* reached.
THEOREM ImplementsContract == Spec => RefinesContract
<1>1. Init => Contract!Init
  BY ParticipantFacts DEF Init, Goal, InDrain, Contract!Init, Contract!NoGoal
<1>2. IInv /\ [Next]_vars => [Contract!Next]_(Contract!vars) BY StepRefines
<1> QED BY <1>1, <1>2, Invariance, PTL DEF Spec, RefinesContract, Contract!Spec
=============================================================================
