--------------------------- MODULE DagGraphProofs ---------------------------
(***************************************************************************)
(* Every critical section of DagScheduler preserves the graph part of the  *)
(* inductive invariant, GraphInv: one lemma per operation.                 *)
(***************************************************************************)
EXTENDS DagSchedulerProperties, FiniteSetTheorems, SequenceTheorems, TLAPS

-----------------------------------------------------------------------------
(* Cardinalities. *)

LEMMA DisjointUnion ==
    ASSUME NEW S, NEW T, IsFiniteSet(S), IsFiniteSet(T), S \cap T = {}
    PROVE  /\ Cardinality(S) \in Nat
           /\ Cardinality(T) \in Nat
           /\ IsFiniteSet(S \cup T)
           /\ Cardinality(S \cup T) = Cardinality(S) + Cardinality(T)
<1>1. Cardinality(S) \in Nat /\ Cardinality(T) \in Nat BY FS_CardinalityType
<1>2. /\ IsFiniteSet(S \cup T)
      /\ Cardinality(S \cup T) = Cardinality(S) + Cardinality(T) - Cardinality(S \cap T)
  BY FS_Union
<1>3. Cardinality(S \cap T) = 0 BY FS_EmptySet
<1>4. QED BY <1>1, <1>2, <1>3

LEMMA SubsetDifference ==
    ASSUME NEW S, NEW T, IsFiniteSet(S), T \subseteq S
    PROVE  /\ Cardinality(T) \in 0..Cardinality(S)
           /\ IsFiniteSet(S \ T)
           /\ Cardinality(S \ T) = Cardinality(S) - Cardinality(T)
<1>1. IsFiniteSet(T) /\ Cardinality(T) <= Cardinality(S) BY FS_Subset
<1>2. Cardinality(S) \in Nat /\ Cardinality(T) \in Nat BY <1>1, FS_CardinalityType
<1>3. S \cap T = T OBVIOUS
<1>4. IsFiniteSet(S \ T) /\ Cardinality(S \ T) = Cardinality(S) - Cardinality(T)
  BY <1>3, FS_Difference
<1>5. QED BY <1>1, <1>2, <1>3, <1>4

\* A function on 1..n is a sequence of length n.
LEMMA IsASeqOfLength ==
    ASSUME NEW S, NEW n \in Nat, NEW f, f = [i \in 1..n |-> f[i]], \A i \in 1..n : f[i] \in S
    PROVE  f \in Seq(S) /\ Len(f) = n /\ DOMAIN f = 1..n
BY SMT

-----------------------------------------------------------------------------
(* What TypeOK says of nodes, stages and entries. *)

LEMMA NodeTypes ==
    ASSUME TypeOK
    PROVE  /\ Len(dag_nodes) \in Nat
           /\ Len(dag_staging) \in Nat
           /\ Index = DOMAIN dag_nodes
           /\ Index \subseteq Predicted
           /\ Predicted \subseteq Nat
           /\ \A i \in Index : dag_nodes[i] \in DagNode /\ TaskAt(i) = dag_nodes[i].task
           /\ DOMAIN dag_staging = 1..Len(dag_staging)
           /\ \A s \in DOMAIN dag_staging :
                /\ dag_staging[s] \in StagedSubmit
                /\ Len(dag_nodes) + s \in Predicted \ Index
                /\ TaskAt(Len(dag_nodes) + s) = dag_staging[s].task
<1>1. /\ dag_nodes \in Seq(DagNode)
      /\ dag_staging \in Seq(StagedSubmit)
  BY DEF TypeOK
<1>2. /\ Len(dag_nodes) \in Nat /\ DOMAIN dag_nodes = 1..Len(dag_nodes)
      /\ Len(dag_staging) \in Nat /\ DOMAIN dag_staging = 1..Len(dag_staging)
  BY <1>1
<1>3. /\ \A i \in Index : dag_nodes[i] \in DagNode
      /\ \A s \in DOMAIN dag_staging : dag_staging[s] \in StagedSubmit
  BY <1>1, <1>2, ElementOfSeq DEF Index
<1>4. QED BY <1>2, <1>3 DEF Index, Predicted, TaskAt

LEMMA NodeSets ==
    ASSUME TypeOK
    PROVE  /\ IsFiniteSet(Index)
           /\ IsFiniteSet(Incomplete)
           /\ \A i : Preds(i) \subseteq Incomplete /\ IsFiniteSet(Preds(i))
<1>1. IsFiniteSet(Index) BY NodeTypes, FS_Interval DEF Index
<1>2. IsFiniteSet(Incomplete) BY <1>1, FS_Subset DEF Incomplete
<1>3. ASSUME NEW i PROVE Preds(i) \subseteq Incomplete /\ IsFiniteSet(Preds(i))
  BY <1>2, FS_Subset DEF Preds
<1>4. QED BY <1>1, <1>2, <1>3

\* The queue and the batches are finite, because no task has two entries.
LEMMA QueuedIsFinite ==
    ASSUME TypeOK, EntriesAreTasks
    PROVE  /\ Queued \subseteq Entry
           /\ IsFiniteSet(Queued)
           /\ IsFiniteSet(ready)
           /\ IsFiniteSet(InFlight)
           /\ \A p \in Participant : batch[p] \subseteq InFlight /\ IsFiniteSet(batch[p])
<1>1. Queued \subseteq Entry
  <2>1. ready \subseteq Entry /\ \A p \in Participant : batch[p] \subseteq Entry
    BY DEF TypeOK
  <2> QED BY <2>1 DEF Queued, InFlight
<1> DEFINE f == [e \in Queued |-> e.task]
<1>2. f \in Injection(Queued, Task)
  <2>1. \A e \in Queued : e.task \in Task BY <1>1 DEF Entry
  <2>2. f \in [Queued -> Task] BY <2>1
  <2>3. \A d, e \in Queued : f[d] = f[e] => d = e BY DEF EntriesAreTasks
  <2> HIDE DEF f
  <2> QED BY <2>2, <2>3 DEF Injection, IsInjective
<1>3. IsFiniteSet(Queued) BY <1>2, TaskAssumption, FS_Injection
<1>4. /\ ready \subseteq Queued /\ InFlight \subseteq Queued
      /\ \A p \in Participant : batch[p] \subseteq InFlight
  BY DEF Queued, InFlight
<1>5. IsFiniteSet(ready) /\ IsFiniteSet(InFlight) BY <1>3, <1>4, FS_Subset
<1>6. \A p \in Participant : IsFiniteSet(batch[p]) BY <1>4, <1>5, FS_Subset
<1>7. QED BY <1>1, <1>3, <1>4, <1>5, <1>6

\* The definitions over the graph change only with the graph.
LEMMA NodesUnchanged ==
    ASSUME dag_nodes' = dag_nodes, dag_staging' = dag_staging
    PROVE  /\ Index' = Index
           /\ Incomplete' = Incomplete
           /\ Predicted' = Predicted
           /\ \A i : TaskAt(i)' = TaskAt(i)
           /\ \A i : Preds(i)' = Preds(i)
BY DEF Index, Incomplete, Predicted, TaskAt, Preds

-----------------------------------------------------------------------------
(* Steps that leave the graph alone. *)

\* The variables the graph part of the invariant reads.
graph_vars == <<dag_nodes, ready, batch, pending_dag_tasks, active_tasks, pending_tasks,
                dag_staging, dag_next_node_index, latest_producer, submitted, finished,
                runs, after, last_writer>>

LEMMA GraphUnchanged ==
    ASSUME GraphInv, UNCHANGED graph_vars
    PROVE  GraphInv'
<1>1. /\ dag_nodes' = dag_nodes /\ ready' = ready /\ batch' = batch
      /\ pending_dag_tasks' = pending_dag_tasks /\ active_tasks' = active_tasks
      /\ pending_tasks' = pending_tasks /\ dag_staging' = dag_staging
      /\ dag_next_node_index' = dag_next_node_index
      /\ latest_producer' = latest_producer
      /\ submitted' = submitted /\ finished' = finished /\ runs' = runs
      /\ after' = after /\ last_writer' = last_writer
  BY DEF graph_vars
<1>2. /\ InFlight' = InFlight
      /\ Queued' = Queued
      /\ Index' = Index
      /\ Incomplete' = Incomplete
      /\ Predicted' = Predicted
      /\ \A i : TaskAt(i)' = TaskAt(i)
      /\ \A i : Preds(i)' = Preds(i)
  BY <1>1, NodesUnchanged DEF InFlight, Queued
<1>3. NodesAreTasks' /\ StagesAreSubmitted'
  BY <1>1, <1>2 DEF GraphInv, NodesAreTasks, StagesAreSubmitted
<1>4. EntriesAreTasks' BY <1>1, <1>2 DEF GraphInv, EntriesAreTasks
<1>5. BatchesAreDisjoint' /\ RunsAreExact' /\ NothingIsLost'
  BY <1>1, <1>2 DEF GraphInv, BatchesAreDisjoint, RunsAreExact, NothingIsLost, TasksOf
<1>6. EdgesPointForward' /\ ReleasedAreQueued'
  BY <1>1, <1>2 DEF GraphInv, EdgesPointForward, ReleasedAreQueued
<1>7. OrderIsWired' /\ OrderIsStaged'
  BY <1>1, <1>2 DEF GraphInv, OrderIsWired, OrderIsStaged
<1>8. CountersAreExact' /\ ProducerIsLastWriter'
  BY <1>1, <1>2 DEF GraphInv, CountersAreExact, ProducerIsLastWriter
<1>9. QED BY <1>3, <1>4, <1>5, <1>6, <1>7, <1>8 DEF GraphInv

-----------------------------------------------------------------------------
(* Taking a batch: entries move from the queue to the participant. *)

LEMMA TakeGraph ==
    ASSUME TypeOK, GraphInv,
           NEW p \in Participant, batch[p] = {},
           TakeReadyTasksLocked(p),
           UNCHANGED <<dag_nodes, pending_dag_tasks, pending_tasks, dag_staging,
                       dag_next_node_index, latest_producer, submitted, finished, after,
                       last_writer>>
    PROVE  GraphInv'
<1>1. PICK taken \in SUBSET Level(TopLevel) :
        /\ ready' = ready \ taken
        /\ batch' = [batch EXCEPT ![p] = taken]
        /\ active_tasks' = active_tasks + Cardinality(taken)
        /\ runs' = [t \in Task |-> IF t \in TasksOf(taken) THEN runs[t] + 1 ELSE runs[t]]
  BY DEF TakeReadyTasksLocked
<1>2. taken \subseteq ready BY DEF Level
<1>3. /\ dag_nodes' = dag_nodes /\ pending_dag_tasks' = pending_dag_tasks
      /\ pending_tasks' = pending_tasks /\ dag_staging' = dag_staging
      /\ dag_next_node_index' = dag_next_node_index
      /\ latest_producer' = latest_producer
      /\ submitted' = submitted /\ finished' = finished
      /\ after' = after /\ last_writer' = last_writer
  OBVIOUS
<1>4. /\ Index' = Index /\ Incomplete' = Incomplete /\ Predicted' = Predicted
      /\ \A i : TaskAt(i)' = TaskAt(i)
      /\ \A i : Preds(i)' = Preds(i)
  BY <1>3, NodesUnchanged
<1>5. \A q \in Participant : batch'[q] = IF q = p THEN taken ELSE batch[q]
  BY <1>1 DEF TypeOK
<1>6. /\ InFlight' = InFlight \cup taken
      /\ InFlight \cap taken = {}
      /\ Queued' = Queued
  <2>1. InFlight' = InFlight \cup taken BY <1>5 DEF InFlight
  <2>2. InFlight \cap taken = {} BY <1>2 DEF GraphInv, BatchesAreDisjoint
  <2>3. QED BY <1>1, <1>2, <2>1, <2>2 DEF Queued
<1>7. NodesAreTasks' /\ StagesAreSubmitted' /\ EdgesPointForward' /\ OrderIsWired'
      /\ OrderIsStaged' /\ ProducerIsLastWriter'
  <2>1. NodesAreTasks' /\ StagesAreSubmitted'
    BY <1>3, <1>4 DEF GraphInv, NodesAreTasks, StagesAreSubmitted
  <2>2. EdgesPointForward' /\ OrderIsWired'
    BY <1>3, <1>4 DEF GraphInv, EdgesPointForward, OrderIsWired
  <2>3. OrderIsStaged' /\ ProducerIsLastWriter'
    BY <1>3, <1>4 DEF GraphInv, OrderIsStaged, ProducerIsLastWriter
  <2> QED BY <2>1, <2>2, <2>3
<1>8. EntriesAreTasks' /\ NothingIsLost' /\ ReleasedAreQueued'
  <2>1. EntriesAreTasks' BY <1>3, <1>4, <1>6 DEF GraphInv, EntriesAreTasks
  <2>2. NothingIsLost' BY <1>3, <1>4, <1>6 DEF GraphInv, NothingIsLost, TasksOf
  <2>3. ReleasedAreQueued' BY <1>3, <1>4, <1>6 DEF GraphInv, ReleasedAreQueued
  <2> QED BY <2>1, <2>2, <2>3
<1>9. BatchesAreDisjoint'
  <2>1. \A q \in Participant : batch[q] \subseteq InFlight BY DEF InFlight
  <2>2. ASSUME NEW q \in Participant, NEW r \in Participant, q # r
        PROVE  batch'[q] \cap batch'[r] = {}
    BY <2>1, <2>2, <1>5, <1>6 DEF GraphInv, BatchesAreDisjoint
  <2>3. ready' \cap InFlight' = {}
    BY <1>1, <1>6 DEF GraphInv, BatchesAreDisjoint
  <2> QED BY <2>2, <2>3 DEF BatchesAreDisjoint
<1>10. RunsAreExact'
  <2>1. \A t \in TasksOf(taken) : t \notin finished \cup TasksOf(InFlight)
    BY <1>2, <1>6 DEF GraphInv, EntriesAreTasks, Queued, TasksOf
  <2>2. TasksOf(InFlight') = TasksOf(InFlight) \cup TasksOf(taken)
    BY <1>6 DEF TasksOf
  <2>3. ASSUME NEW t \in Task
        PROVE  runs'[t] = IF t \in finished \cup TasksOf(InFlight') THEN 1 ELSE 0
    BY <1>1, <2>1, <2>2 DEF GraphInv, RunsAreExact
  <2> QED BY <2>3, <1>3, <1>6 DEF RunsAreExact, TasksOf
<1>11. CountersAreExact'
  <2>1. IsFiniteSet(InFlight) /\ IsFiniteSet(taken)
    BY <1>2, QueuedIsFinite, FS_Subset DEF GraphInv
  <2>2. Cardinality(InFlight') = Cardinality(InFlight) + Cardinality(taken)
    BY <1>6, <2>1, DisjointUnion
  <2>3. active_tasks' = Cardinality(InFlight')
    BY <1>1, <2>2 DEF GraphInv, CountersAreExact
  <2> QED BY <1>3, <1>4, <2>3 DEF GraphInv, CountersAreExact
<1>12. QED BY <1>7, <1>8, <1>9, <1>10, <1>11 DEF GraphInv

-----------------------------------------------------------------------------
(* Completing a batch. *)

\* The entries of a batch that stand for nodes stand for incomplete ones.
LEMMA CompletedNodes ==
    ASSUME TypeOK, GraphInv, NEW p \in Participant
    PROVE  /\ NodesCompletedBy(batch[p]) \subseteq Incomplete
           /\ \A i \in Index :
                i \in NodesCompletedBy(batch[p]) <=> \E e \in batch[p] : e.dag_node = i
           /\ \A i \in Index :
                i \in NodesCompletedBy(batch[p]) <=>
                    dag_nodes[i].task \in TasksOf(batch[p])
<1> DEFINE done == NodesCompletedBy(batch[p])
<1>1. batch[p] \subseteq Queued BY DEF Queued, InFlight
<1>2. \A e \in batch[p] : e.dag_node # 0 =>
        e.dag_node \in Incomplete /\ dag_nodes[e.dag_node].task = e.task
  BY <1>1 DEF GraphInv, EntriesAreTasks
<1>3. done = {e.dag_node : e \in batch[p]} \ {0}
  BY <1>2 DEF NodesCompletedBy, Incomplete
<1>4. done \subseteq Incomplete BY <1>2, <1>3
<1>5. \A i \in Index : i \in done <=> \E e \in batch[p] : e.dag_node = i
  BY <1>3, NodeTypes DEF Index
<1>6. ASSUME NEW i \in Index, i \in done PROVE dag_nodes[i].task \in TasksOf(batch[p])
  BY <1>2, <1>3, <1>6 DEF TasksOf
<1>7. ASSUME NEW i \in Index, dag_nodes[i].task \in TasksOf(batch[p]) PROVE i \in done
  <2>1. PICK e \in batch[p] : e.task = dag_nodes[i].task BY <1>7 DEF TasksOf
  <2>2. i \in Predicted /\ TaskAt(i) = dag_nodes[i].task BY NodeTypes
  <2>3. e.dag_node # 0
    BY <1>1, <2>1, <2>2 DEF GraphInv, EntriesAreTasks
  <2>4. e.dag_node \in Incomplete /\ dag_nodes[e.dag_node].task = dag_nodes[i].task
    BY <1>2, <2>1, <2>3
  <2>5. e.dag_node \in Predicted /\ TaskAt(e.dag_node) = TaskAt(i)
    BY <2>2, <2>4, NodeTypes DEF Incomplete
  <2>6. e.dag_node = i BY <2>2, <2>5 DEF GraphInv, NodesAreTasks
  <2> QED BY <2>6, <1>5
<1> QED BY <1>4, <1>5, <1>6, <1>7

\* What a completion does to the nodes.
LEMMA NodesAfterCompletion ==
    ASSUME TypeOK, GraphInv, NEW done, done \subseteq Incomplete,
           dag_nodes' = NodesAfter(done), dag_staging' = dag_staging
    PROVE  /\ dag_nodes' \in Seq(DagNode)
           /\ Len(dag_nodes') = Len(dag_nodes)
           /\ Index' = Index
           /\ Predicted' = Predicted
           /\ \A i \in Predicted : TaskAt(i)' = TaskAt(i)
           /\ \A i \in Index :
                /\ dag_nodes'[i].task = dag_nodes[i].task
                /\ dag_nodes'[i].successors = dag_nodes[i].successors
                /\ dag_nodes'[i].completed <=> dag_nodes[i].completed \/ i \in done
                /\ dag_nodes'[i].pending = Cardinality(Preds(i) \ done)
           /\ Incomplete' = Incomplete \ done
           /\ \A i : Preds(i)' = Preds(i) \ done
<1> DEFINE n == Len(dag_nodes)
           Held(i) == {j \in done : i \in dag_nodes[j].successors}
<1>1. n \in Nat /\ Index = 1..n BY NodeTypes DEF Index
<1>2. ASSUME NEW i \in Index
      PROVE  /\ dag_nodes[i].pending - Cardinality(Held(i)) = Cardinality(Preds(i) \ done)
             /\ Cardinality(Preds(i) \ done) \in Nat
  <2>1. Held(i) \subseteq Preds(i) /\ Preds(i) \ done = Preds(i) \ Held(i)
    BY DEF Preds
  <2>2. IsFiniteSet(Preds(i)) BY NodeSets
  <2>3. /\ Cardinality(Preds(i) \ Held(i)) = Cardinality(Preds(i)) - Cardinality(Held(i))
        /\ IsFiniteSet(Preds(i) \ Held(i))
    BY <2>1, <2>2, SubsetDifference
  <2>4. dag_nodes[i].pending = Cardinality(Preds(i)) BY DEF GraphInv, CountersAreExact
  <2>5. Cardinality(Preds(i) \ Held(i)) \in Nat BY <2>3, FS_CardinalityType
  <2> HIDE DEF Held
  <2> QED BY <2>1, <2>3, <2>4, <2>5
<1>3. dag_nodes' = [i \in 1..n |->
                        [dag_nodes[i] EXCEPT !.completed = @ \/ i \in done,
                                             !.pending = @ - Cardinality(Held(i))]]
  BY DEF NodesAfter
<1>4. ASSUME NEW i \in Index
      PROVE  /\ dag_nodes'[i].task = dag_nodes[i].task
             /\ dag_nodes'[i].successors = dag_nodes[i].successors
             /\ dag_nodes'[i].completed <=> dag_nodes[i].completed \/ i \in done
             /\ dag_nodes'[i].pending = Cardinality(Preds(i) \ done)
             /\ dag_nodes'[i] \in DagNode
  <2> HIDE DEF Held
  <2>1. dag_nodes[i] \in DagNode BY NodeTypes
  <2>2. dag_nodes'[i] = [dag_nodes[i] EXCEPT !.completed = @ \/ i \in done,
                                             !.pending = @ - Cardinality(Held(i))]
    BY <1>1, <1>3
  <2>3. /\ dag_nodes'[i].task = dag_nodes[i].task
        /\ dag_nodes'[i].successors = dag_nodes[i].successors
        /\ dag_nodes'[i].completed = (dag_nodes[i].completed \/ i \in done)
        /\ dag_nodes'[i].pending = dag_nodes[i].pending - Cardinality(Held(i))
    BY <2>1, <2>2 DEF DagNode
  <2>4. dag_nodes[i].pending - Cardinality(Held(i)) \in Nat BY <1>2
  <2>5. dag_nodes'[i] \in DagNode
    BY <2>1, <2>2, <2>4 DEF DagNode
  <2> QED BY <2>3, <2>5, <1>2
<1>5. /\ dag_nodes' \in Seq(DagNode)
      /\ Len(dag_nodes') = n
  <2>1. dag_nodes' = [i \in 1..n |-> dag_nodes'[i]] BY <1>3
  <2>2. \A i \in 1..n : dag_nodes'[i] \in DagNode BY <1>1, <1>4
  <2> HIDE DEF n
  <2> QED BY <1>1, <2>1, <2>2, IsASeqOfLength
<1> HIDE DEF n
<1>6. Index' = Index /\ Predicted' = Predicted
  BY <1>1, <1>5 DEF Index, Predicted, n
<1>7. ASSUME NEW i \in Predicted PROVE TaskAt(i)' = TaskAt(i)
  <2>1. CASE i \in Index BY <1>1, <1>4, <1>5, <2>1 DEF TaskAt, n
  <2>2. CASE i \notin Index
    <3>1. ~(i <= Len(dag_nodes)) /\ ~(i <= Len(dag_nodes'))
      BY <1>1, <1>5, <2>2 DEF Predicted, n
    <3> QED BY <1>5, <3>1 DEF TaskAt, n
  <2> QED BY <2>1, <2>2
<1>8. Incomplete' = Incomplete \ done
  BY <1>4, <1>6 DEF Incomplete
<1>9. \A i : Preds(i)' = Preds(i) \ done
  BY <1>4, <1>8 DEF Preds, Incomplete
<1> QED BY <1>4, <1>5, <1>6, <1>7, <1>8, <1>9 DEF n

\* The nodes that a completion releases were held back by it alone, are not
\* completed by it and have no entry yet.
LEMMA ReleasedNodes ==
    ASSUME TypeOK, GraphInv, NEW p \in Participant,
           dag_nodes' = NodesAfter(NodesCompletedBy(batch[p])), dag_staging' = dag_staging
    PROVE  /\ ReleasedBy(NodesCompletedBy(batch[p])) =
                {i \in Index : /\ Preds(i) # {}
                               /\ Preds(i) \subseteq NodesCompletedBy(batch[p])}
           /\ \A i \in ReleasedBy(NodesCompletedBy(batch[p])) :
                /\ i \in Incomplete \ NodesCompletedBy(batch[p])
                /\ \A e \in Queued : e.dag_node # i /\ e.task # dag_nodes[i].task
<1> DEFINE done == NodesCompletedBy(batch[p])
           released == ReleasedBy(done)
<1>1. /\ done \subseteq Incomplete
      /\ \A i \in Index : i \in done <=> \E e \in batch[p] : e.dag_node = i
  BY CompletedNodes
<1> HIDE DEF done
<1>2. \A i \in Index : dag_nodes'[i].pending = Cardinality(Preds(i) \ done)
  BY <1>1, NodesAfterCompletion DEF done
<1>3. \A j \in done : dag_nodes[j].successors \subseteq Index
  BY <1>1, NodeTypes DEF GraphInv, EdgesPointForward, Incomplete, Index
<1>4. released = {i \in UNION {dag_nodes[j].successors : j \in done} : dag_nodes'[i].pending = 0}
  BY DEF ReleasedBy, done
<1>5. released = {i \in Index : Preds(i) # {} /\ Preds(i) \subseteq done}
  <2>1. ASSUME NEW i \in Index
        PROVE  (\E j \in done : i \in dag_nodes[j].successors) <=> Preds(i) \cap done # {}
    BY <1>1 DEF Preds
  <2>2. ASSUME NEW i \in Index
        PROVE  dag_nodes'[i].pending = 0 <=> Preds(i) \subseteq done
    <3>1. IsFiniteSet(Preds(i) \ done) BY NodeSets, FS_Difference
    <3> QED BY <1>2, <3>1, FS_EmptySet
  <2> HIDE DEF released
  <2> QED BY <1>3, <1>4, <2>1, <2>2
<1>6. ASSUME NEW i \in released
      PROVE  /\ i \in Incomplete \ done
             /\ \A e \in Queued : e.dag_node # i /\ e.task # dag_nodes[i].task
  <2>1. i \in Index /\ Preds(i) # {} BY <1>5
  <2>2. ~dag_nodes[i].completed /\ \A e \in Queued : e.dag_node # i
    BY <2>1 DEF GraphInv, ReleasedAreQueued
  <2>3. i \notin done BY <1>1, <2>1, <2>2 DEF Queued, InFlight
  <2>4. ASSUME NEW e \in Queued PROVE e.task # dag_nodes[i].task
    <3>1. i \in Predicted /\ TaskAt(i) = dag_nodes[i].task BY <2>1, NodeTypes
    <3>2. CASE e.dag_node = 0 BY <3>1, <3>2 DEF GraphInv, EntriesAreTasks
    <3>3. CASE e.dag_node # 0
      <4>1. e.dag_node \in Incomplete /\ dag_nodes[e.dag_node].task = e.task
        BY <3>3 DEF GraphInv, EntriesAreTasks
      <4>2. e.dag_node \in Predicted /\ TaskAt(e.dag_node) = e.task
        BY <4>1, NodeTypes DEF Incomplete
      <4> QED BY <2>2, <3>1, <4>2 DEF GraphInv, NodesAreTasks
    <3> QED BY <3>2, <3>3
  <2> QED BY <2>1, <2>2, <2>3, <2>4 DEF Incomplete
<1> QED BY <1>5, <1>6 DEF done

LEMMA CompleteGraph ==
    ASSUME TypeOK, GraphInv, NEW p \in Participant,
           Complete(p),
           UNCHANGED <<pending_tasks, dag_staging, dag_next_node_index, latest_producer,
                       submitted, runs, after, last_writer>>
    PROVE  GraphInv'
<1> DEFINE done == NodesCompletedBy(batch[p])
           released == ReleasedBy(done)
           new == {EntryOf(dag_nodes, i) : i \in released}
<1>1. /\ batch[p] # {}
      /\ batch' = [batch EXCEPT ![p] = {}]
      /\ active_tasks' = active_tasks - Cardinality(batch[p])
      /\ dag_nodes' = NodesAfter(done)
      /\ pending_dag_tasks' = pending_dag_tasks - Cardinality(done)
      /\ ready' = ready \cup new
      /\ finished' = finished \cup TasksOf(batch[p])
      /\ pending_tasks' = pending_tasks /\ dag_staging' = dag_staging
      /\ dag_next_node_index' = dag_next_node_index
      /\ latest_producer' = latest_producer
      /\ submitted' = submitted /\ runs' = runs
      /\ after' = after /\ last_writer' = last_writer
  BY DEF Complete
<1>2. /\ done \subseteq Incomplete
      /\ \A i \in Index : i \in done <=> \E e \in batch[p] : e.dag_node = i
      /\ \A i \in Index : i \in done <=> dag_nodes[i].task \in TasksOf(batch[p])
  BY CompletedNodes
<1>3. /\ released = {i \in Index : Preds(i) # {} /\ Preds(i) \subseteq done}
      /\ \A i \in released :
            /\ i \in Incomplete \ done
            /\ \A e \in Queued : e.dag_node # i /\ e.task # dag_nodes[i].task
  BY <1>1, ReleasedNodes
<1>4. /\ Len(dag_nodes') = Len(dag_nodes)
      /\ Index' = Index
      /\ Predicted' = Predicted
      /\ \A i \in Predicted : TaskAt(i)' = TaskAt(i)
      /\ \A i \in Index :
            /\ dag_nodes'[i].task = dag_nodes[i].task
            /\ dag_nodes'[i].successors = dag_nodes[i].successors
            /\ dag_nodes'[i].completed <=> dag_nodes[i].completed \/ i \in done
            /\ dag_nodes'[i].pending = Cardinality(Preds(i) \ done)
      /\ Incomplete' = Incomplete \ done
      /\ \A i : Preds(i)' = Preds(i) \ done
  BY <1>1, <1>2, NodesAfterCompletion
<1> HIDE DEF done, released
<1>5. /\ \A i \in Index : TaskAt(i) = dag_nodes[i].task
      /\ Index \subseteq Predicted /\ Predicted \subseteq Nat
      /\ \A i \in Index : i # 0
  BY NodeTypes DEF Index
<1>6. /\ batch[p] \subseteq InFlight
      /\ InFlight' = InFlight \ batch[p]
      /\ Queued' = (Queued \ batch[p]) \cup new
  <2>1. \A q \in Participant : batch'[q] = IF q = p THEN {} ELSE batch[q]
    BY <1>1 DEF TypeOK
  <2>2. batch[p] \subseteq InFlight BY DEF InFlight
  <2>3. InFlight' = InFlight \ batch[p]
    <3>1. \A q \in Participant : q # p => batch[q] \cap batch[p] = {}
      BY DEF GraphInv, BatchesAreDisjoint
    <3> QED BY <2>1, <3>1 DEF InFlight
  <2>4. ready \cap batch[p] = {} BY <2>2 DEF GraphInv, BatchesAreDisjoint
  <2> HIDE DEF new
  <2> QED BY <1>1, <2>2, <2>3, <2>4 DEF Queued
<1>7. \A e \in new : /\ e.dag_node \in released
                     /\ e.task = dag_nodes[e.dag_node].task
                     /\ e = EntryOf(dag_nodes, e.dag_node)
  BY DEF EntryOf
<1>8. ASSUME NEW i \in released PROVE \E e \in new : e.dag_node = i
  <2>1. EntryOf(dag_nodes, i) \in new OBVIOUS
  <2>2. EntryOf(dag_nodes, i).dag_node = i BY DEF EntryOf
  <2> HIDE DEF new
  <2> QED BY <2>1, <2>2
<1> HIDE DEF new
<1>9. \A e \in Queued \ batch[p] : e.task \notin TasksOf(batch[p])
  BY <1>6 DEF GraphInv, EntriesAreTasks, TasksOf, Queued
<1>10. NodesAreTasks'
  BY <1>1, <1>4 DEF GraphInv, NodesAreTasks
<1>11. StagesAreSubmitted'
  <2>1. finished' \subseteq submitted \ pending_tasks
    BY <1>1, <1>6 DEF GraphInv, StagesAreSubmitted, EntriesAreTasks, TasksOf, Queued
  <2>2. ASSUME NEW i \in Index
        PROVE  dag_nodes'[i].completed <=> dag_nodes'[i].task \in finished'
    BY <1>1, <1>2, <1>4 DEF GraphInv, StagesAreSubmitted
  <2>3. ASSUME NEW s \in DOMAIN dag_staging PROVE dag_staging[s].task \notin finished'
    <3>1. dag_staging[s].task \notin finished BY DEF GraphInv, StagesAreSubmitted
    <3>2. /\ Len(dag_nodes) + s \in Predicted \ Index
          /\ TaskAt(Len(dag_nodes) + s) = dag_staging[s].task
      BY NodeTypes
    <3>3. ASSUME NEW e \in batch[p] PROVE e.task # dag_staging[s].task
      <4>1. e \in Queued BY <1>6 DEF Queued
      <4>2. CASE e.dag_node = 0 BY <3>2, <4>1, <4>2 DEF GraphInv, EntriesAreTasks
      <4>3. CASE e.dag_node # 0
        <5>1. e.dag_node \in Index /\ TaskAt(e.dag_node) = e.task
          BY <1>5, <4>1, <4>3 DEF GraphInv, EntriesAreTasks, Incomplete
        <5> QED BY <1>5, <3>2, <5>1 DEF GraphInv, NodesAreTasks
      <4> QED BY <4>2, <4>3
    <3> QED BY <1>1, <3>1, <3>3 DEF TasksOf
  <2> QED BY <1>1, <1>4, <2>1, <2>2, <2>3 DEF GraphInv, StagesAreSubmitted
<1>12. EntriesAreTasks'
  <2>1. ASSUME NEW e \in new
        PROVE  /\ e.task \in submitted \ (pending_tasks \cup finished')
               /\ e.dag_node \in Incomplete' /\ dag_nodes'[e.dag_node].task = e.task
               /\ e.dag_node # 0
    <3>1. /\ e.dag_node \in Incomplete \ done /\ e.dag_node \in Index
          /\ e.task = dag_nodes[e.dag_node].task
      BY <1>3, <1>7
    <3>2. e.task \in submitted \ pending_tasks
      BY <1>5, <3>1 DEF GraphInv, NodesAreTasks
    <3>3. e.task \notin finished
      BY <3>1 DEF GraphInv, StagesAreSubmitted, Incomplete
    <3>4. e.task \notin TasksOf(batch[p]) BY <1>2, <3>1
    <3> QED BY <1>1, <1>4, <1>5, <3>1, <3>2, <3>3, <3>4
  <2>2. ASSUME NEW e \in Queued \ batch[p]
        PROVE  /\ e.task \in submitted \ (pending_tasks \cup finished')
               /\ e.dag_node = 0 =>
                    after[e.task] = {} /\ \A i \in Predicted : TaskAt(i) # e.task
               /\ e.dag_node # 0 =>
                    e.dag_node \in Incomplete' /\ dag_nodes'[e.dag_node].task = e.task
    <3>1. e.task \in submitted \ (pending_tasks \cup finished')
      BY <1>1, <1>9 DEF GraphInv, EntriesAreTasks
    <3>2. e.dag_node = 0 => after[e.task] = {} /\ \A i \in Predicted : TaskAt(i) # e.task
      BY DEF GraphInv, EntriesAreTasks
    <3>3. ASSUME e.dag_node # 0
          PROVE  e.dag_node \in Incomplete' /\ dag_nodes'[e.dag_node].task = e.task
      <4>1. e.dag_node \in Incomplete /\ dag_nodes[e.dag_node].task = e.task
        BY <3>3 DEF GraphInv, EntriesAreTasks
      <4>2. e.dag_node \in Index BY <4>1 DEF Incomplete
      <4>3. e.dag_node \notin done BY <1>2, <1>9, <4>1, <4>2
      <4> QED BY <1>4, <4>1, <4>2, <4>3
    <3> QED BY <3>1, <3>2, <3>3
  <2>3. ASSUME NEW e \in Queued', NEW f \in Queued', e.task = f.task PROVE e = f
    <3>1. CASE e \in Queued /\ f \in Queued
      BY <2>3, <3>1 DEF GraphInv, EntriesAreTasks
    <3>2. CASE e \in new /\ f \in new
      <4>1. e.dag_node \in Index /\ f.dag_node \in Index BY <1>3, <1>7, <3>2
      <4>2. TaskAt(e.dag_node) = TaskAt(f.dag_node) BY <1>5, <1>7, <2>3, <3>2, <4>1
      <4>3. e.dag_node = f.dag_node
        BY <1>5, <4>1, <4>2 DEF GraphInv, NodesAreTasks
      <4> QED BY <1>7, <3>2, <4>3
    <3>3. ASSUME NEW d \in new, NEW g \in Queued PROVE d.task # g.task
      BY <1>3, <1>7
    <3> QED BY <1>6, <2>3, <3>1, <3>2, <3>3
  <2> QED BY <1>1, <1>4, <1>6, <2>1, <2>2, <2>3 DEF EntriesAreTasks
<1>13. BatchesAreDisjoint'
  <2>1. \A q \in Participant : batch'[q] \subseteq batch[q] BY <1>1 DEF TypeOK
  <2>2. \A e \in new : e \notin InFlight BY <1>3, <1>7 DEF Queued
  <2> QED BY <1>1, <1>6, <2>1, <2>2 DEF GraphInv, BatchesAreDisjoint
<1>14. RunsAreExact'
  <2>1. finished' \cup TasksOf(InFlight') = finished \cup TasksOf(InFlight)
    BY <1>1, <1>6 DEF TasksOf
  <2> QED BY <1>1, <2>1 DEF GraphInv, RunsAreExact, TasksOf
<1>15. NothingIsLost'
  <2>1. TasksOf(Queued) \subseteq finished' \cup TasksOf(Queued')
    BY <1>1, <1>6 DEF TasksOf
  <2>2. {TaskAt(i)' : i \in Predicted} = {TaskAt(i) : i \in Predicted} BY <1>4
  <2> QED BY <1>1, <1>4, <2>1, <2>2 DEF GraphInv, NothingIsLost, TasksOf
<1>16. EdgesPointForward' BY <1>4 DEF GraphInv, EdgesPointForward
<1>17. ReleasedAreQueued'
  <2>1. ASSUME NEW i \in Index, Preds(i) \ done = {}
        PROVE  dag_nodes'[i].completed \/ \E e \in Queued' : e.dag_node = i
    <3>1. CASE Preds(i) # {}
      <4>1. i \in released BY <1>3, <2>1, <3>1
      <4> QED BY <1>6, <1>8, <4>1
    <3>2. CASE Preds(i) = {}
      <4>1. dag_nodes[i].completed \/ \E e \in Queued : e.dag_node = i
        BY <3>2 DEF GraphInv, ReleasedAreQueued
      <4> QED BY <1>2, <1>4, <1>6, <4>1
    <3> QED BY <3>1, <3>2
  <2>2. ASSUME NEW i \in Index,
               dag_nodes'[i].completed \/ \E e \in Queued' : e.dag_node = i
        PROVE  Preds(i) \ done = {}
    <3>1. CASE dag_nodes[i].completed \/ \E e \in Queued : e.dag_node = i
      BY <3>1 DEF GraphInv, ReleasedAreQueued
    <3>2. CASE i \in done
      <4>1. \E e \in Queued : e.dag_node = i BY <1>2, <1>6, <3>2 DEF Queued
      <4> QED BY <3>1, <4>1
    <3>3. CASE \E e \in new : e.dag_node = i BY <1>3, <1>7, <3>3
    <3> QED BY <1>4, <1>6, <2>2, <3>1, <3>2, <3>3
  <2> QED BY <1>4, <2>1, <2>2 DEF ReleasedAreQueued
<1>18. OrderIsWired'
  <2>1. ASSUME NEW i \in Index, NEW u \in after[dag_nodes[i].task], u \notin finished'
        PROVE  \E j \in Preds(i) \ done : dag_nodes'[j].task = u
    <3>1. PICK j \in Preds(i) : dag_nodes[j].task = u
      BY <1>1, <2>1 DEF GraphInv, OrderIsWired
    <3>2. j \in Index BY DEF Preds, Incomplete
    <3>3. j \notin done BY <1>1, <1>2, <2>1, <3>1, <3>2
    <3> QED BY <1>4, <3>1, <3>2, <3>3
  <2>2. ASSUME NEW i \in Index', NEW u \in after'[dag_nodes'[i].task]
        PROVE  u \in finished' \/ \E j \in Preds(i)' : dag_nodes'[j].task = u
    <3>1. i \in Index /\ u \in after[dag_nodes[i].task] BY <1>1, <1>4
    <3>2. Preds(i)' = Preds(i) \ done BY <1>4
    <3> QED BY <2>1, <3>1, <3>2
  <2> QED BY <2>2 DEF OrderIsWired
<1>19. OrderIsStaged'
  <2>1. ASSUME NEW s \in DOMAIN dag_staging
        PROVE  dag_staging[s].dep_nodes \subseteq Predicted
    <3>1. s \in 1..Len(dag_staging) /\ Len(dag_nodes) \in Nat /\ Len(dag_staging) \in Nat
      BY NodeTypes
    <3> QED BY <3>1 DEF GraphInv, OrderIsStaged, Predicted
  <2> QED BY <1>1, <1>4, <2>1 DEF GraphInv, OrderIsStaged
<1>20. CountersAreExact'
  <2>1. pending_dag_tasks' = Cardinality(Incomplete')
    <3>1. Cardinality(Incomplete \ done) = Cardinality(Incomplete) - Cardinality(done)
      BY <1>2, NodeSets, SubsetDifference
    <3> QED BY <1>1, <1>4, <3>1 DEF GraphInv, CountersAreExact
  <2>2. active_tasks' = Cardinality(InFlight')
    <3>1. IsFiniteSet(InFlight) BY QueuedIsFinite DEF GraphInv
    <3>2. Cardinality(InFlight \ batch[p]) = Cardinality(InFlight) - Cardinality(batch[p])
      BY <1>6, <3>1, SubsetDifference
    <3> QED BY <1>1, <1>6, <3>2 DEF GraphInv, CountersAreExact
  <2> QED BY <1>4, <2>1, <2>2 DEF CountersAreExact
<1>21. ProducerIsLastWriter'
  BY <1>1, <1>4 DEF GraphInv, ProducerIsLastWriter
<1> QED
  BY <1>10, <1>11, <1>12, <1>13, <1>14, <1>15, <1>16, <1>17, <1>18, <1>19, <1>20, <1>21
  DEF GraphInv

-----------------------------------------------------------------------------
(* Publishing the staged tasks. *)

\* The producers a staged task waits for come before it and are incomplete.
LEMMA LiveProducersFacts ==
    ASSUME TypeOK, GraphInv, NEW s \in DOMAIN dag_staging
    PROVE  /\ LiveProducers(s) \subseteq 1..(Len(dag_nodes) + s - 1)
           /\ LiveProducers(s) \cap Index \subseteq Incomplete
           /\ IsFiniteSet(LiveProducers(s))
           /\ Cardinality(LiveProducers(s)) \in Nat
<1>1. LiveProducers(s) \subseteq 1..(Len(dag_nodes) + s - 1)
  BY DEF GraphInv, OrderIsStaged, LiveProducers
<1>2. LiveProducers(s) \cap Index \subseteq Incomplete
  BY DEF LiveProducers, Index, Incomplete
<1>3. Len(dag_nodes) + s - 1 \in Nat
  <2>1. Len(dag_nodes) \in Nat /\ Len(dag_staging) \in Nat /\ s \in 1..Len(dag_staging)
    BY NodeTypes
  <2> QED BY <2>1
<1>4. IsFiniteSet(LiveProducers(s))
  <2>1. IsFiniteSet(1..(Len(dag_nodes) + s - 1)) BY <1>3, FS_Interval
  <2> QED BY <1>1, <2>1, FS_Subset
<1>5. QED BY <1>1, <1>2, <1>4, FS_CardinalityType

\* What a publish does to the nodes.
LEMMA NodesAfterPublish ==
    ASSUME TypeOK, GraphInv, dag_nodes' = PublishedNodes, dag_staging' = <<>>
    PROVE  /\ dag_nodes' \in Seq(DagNode)
           /\ Len(dag_nodes') = Len(dag_nodes) + Len(dag_staging)
           /\ Index' = Predicted
           /\ Predicted' = Predicted
           /\ \A i \in Predicted :
                /\ dag_nodes'[i].task = TaskAt(i)
                /\ TaskAt(i)' = TaskAt(i)
                /\ dag_nodes'[i].successors
                        \subseteq (i + 1)..(Len(dag_nodes) + Len(dag_staging))
           /\ \A i \in Index :
                /\ dag_nodes'[i].completed = dag_nodes[i].completed
                /\ dag_nodes'[i].pending = dag_nodes[i].pending
           /\ \A s \in DOMAIN dag_staging :
                /\ ~dag_nodes'[Len(dag_nodes) + s].completed
                /\ dag_nodes'[Len(dag_nodes) + s].pending = Cardinality(LiveProducers(s))
           /\ Incomplete' = Incomplete \cup (Predicted \ Index)
           /\ \A i \in Index : Preds(i)' = Preds(i)
           /\ \A s \in DOMAIN dag_staging, i \in Predicted :
                i = Len(dag_nodes) + s => Preds(i)' = LiveProducers(s)
<1> DEFINE base == Len(dag_nodes)
           m == Len(dag_staging)
           New(i) == {s + base : s \in {r \in DOMAIN dag_staging : i \in LiveProducers(r)}}
<1>1. /\ base \in Nat /\ m \in Nat
      /\ Index = 1..base
      /\ Predicted = 1..(base + m)
      /\ DOMAIN dag_staging = 1..m
      /\ \A i \in Index : dag_nodes[i] \in DagNode /\ TaskAt(i) = dag_nodes[i].task
      /\ \A s \in DOMAIN dag_staging :
            /\ dag_staging[s] \in StagedSubmit
            /\ TaskAt(base + s) = dag_staging[s].task
  BY NodeTypes DEF Index, Predicted
<1>2. \A s \in 1..m :
        /\ LiveProducers(s) \subseteq 1..(base + s - 1)
        /\ LiveProducers(s) \cap Index \subseteq Incomplete
        /\ Cardinality(LiveProducers(s)) \in Nat
  BY <1>1, LiveProducersFacts
<1>3. dag_nodes' =
        [i \in 1..(base + m) |->
            IF i <= base
            THEN [dag_nodes[i] EXCEPT !.successors = @ \cup New(i)]
            ELSE [task |-> dag_staging[i - base].task,
                  pending |-> Cardinality(LiveProducers(i - base)),
                  completed |-> FALSE,
                  priority |-> dag_staging[i - base].priority,
                  successors |-> New(i)]]
  BY DEF PublishedNodes
<1>4. \A i, j : j \in New(i) <=> \E s \in 1..m : j = s + base /\ i \in LiveProducers(s)
  BY <1>1
<1> HIDE DEF base, m, New
<1>5. \A i \in 1..(base + m) : New(i) \subseteq (i + 1)..(base + m) /\ New(i) \subseteq (base + 1)..(base + m)
  BY <1>1, <1>2, <1>4
<1>6. ASSUME NEW i \in Index
      PROVE  /\ dag_nodes'[i] \in DagNode
             /\ dag_nodes'[i].task = dag_nodes[i].task
             /\ dag_nodes'[i].completed = dag_nodes[i].completed
             /\ dag_nodes'[i].pending = dag_nodes[i].pending
             /\ dag_nodes'[i].successors = dag_nodes[i].successors \cup New(i)
  <2>1. i \in 1..(base + m) /\ i <= base BY <1>1
  <2>2. dag_nodes'[i] = [dag_nodes[i] EXCEPT !.successors = @ \cup New(i)] BY <1>3, <2>1
  <2>3. dag_nodes[i] \in DagNode BY <1>1
  <2>4. New(i) \subseteq Nat BY <1>1, <1>5, <2>1
  <2> QED BY <2>2, <2>3, <2>4 DEF DagNode
<1>7. ASSUME NEW s \in 1..m
      PROVE  /\ base + s \in 1..(base + m)
             /\ dag_nodes'[base + s] \in DagNode
             /\ dag_nodes'[base + s].task = dag_staging[s].task
             /\ ~dag_nodes'[base + s].completed
             /\ dag_nodes'[base + s].pending = Cardinality(LiveProducers(s))
             /\ dag_nodes'[base + s].successors = New(base + s)
  <2>1. /\ base + s \in 1..(base + m) /\ ~(base + s <= base) /\ (base + s) - base = s
        /\ s \in DOMAIN dag_staging
    BY <1>1
  <2>2. dag_nodes'[base + s] =
            [task |-> dag_staging[s].task, pending |-> Cardinality(LiveProducers(s)),
             completed |-> FALSE, priority |-> dag_staging[s].priority,
             successors |-> New(base + s)]
    BY <1>3, <2>1
  <2>3. dag_staging[s] \in StagedSubmit BY <1>1, <2>1
  <2>4. New(base + s) \subseteq Nat BY <1>1, <1>5, <2>1
  <2> QED BY <1>2, <2>1, <2>2, <2>3, <2>4 DEF DagNode, StagedSubmit
<1>8. ASSUME NEW i \in Predicted, i \notin Index
      PROVE  \E s \in 1..m : i = base + s
  <2>1. i - base \in 1..m /\ i = base + (i - base) BY <1>1, <1>8
  <2> QED BY <2>1
<1>9. /\ dag_nodes' \in Seq(DagNode)
      /\ Len(dag_nodes') = base + m
  <2>1. dag_nodes' = [i \in 1..(base + m) |-> dag_nodes'[i]] BY <1>3
  <2>2. \A i \in 1..(base + m) : dag_nodes'[i] \in DagNode BY <1>1, <1>6, <1>7, <1>8
  <2> QED BY <1>1, <2>1, <2>2, IsASeqOfLength
<1>10. Index' = Predicted /\ Predicted' = Predicted
  <2>1. Len(dag_staging') = 0 OBVIOUS
  <2> QED BY <1>1, <1>9, <2>1 DEF Index, Predicted
<1>11. ASSUME NEW i \in Predicted
       PROVE  /\ dag_nodes'[i].task = TaskAt(i)
              /\ TaskAt(i)' = TaskAt(i)
              /\ dag_nodes'[i].successors \subseteq (i + 1)..(base + m)
  <2>1. dag_nodes'[i].task = TaskAt(i)
    <3>1. CASE i \in Index BY <1>1, <1>6, <3>1
    <3>2. CASE i \notin Index
      <4>1. PICK s \in 1..m : i = base + s BY <1>8, <3>2
      <4> QED BY <1>1, <1>7, <4>1
    <3> QED BY <3>1, <3>2
  <2>2. TaskAt(i)' = dag_nodes'[i].task BY <1>1, <1>9 DEF TaskAt
  <2>3. CASE i \in Index
    <3>1. dag_nodes[i].successors \subseteq (i + 1)..base
      BY <2>3 DEF GraphInv, EdgesPointForward, base
    <3> QED BY <1>1, <1>5, <1>6, <2>3, <3>1, <2>1, <2>2
  <2>4. CASE i \notin Index BY <1>1, <1>5, <1>7, <1>8, <2>4, <2>1, <2>2
  <2> QED BY <2>3, <2>4
<1>12. Incomplete' = Incomplete \cup (Predicted \ Index)
  <2>1. \A i \in Index : i \in Incomplete' <=> i \in Incomplete
    BY <1>1, <1>6, <1>10 DEF Incomplete
  <2>2. \A i \in Predicted \ Index : i \in Incomplete'
    BY <1>7, <1>8, <1>10 DEF Incomplete
  <2>3. Incomplete' \subseteq Predicted /\ Incomplete \subseteq Index
    BY <1>10 DEF Incomplete
  <2> QED BY <2>1, <2>2, <2>3
<1>13. ASSUME NEW i \in Index PROVE Preds(i)' = Preds(i)
  <2>1. ASSUME NEW j \in Predicted \ Index PROVE i \notin dag_nodes'[j].successors
    BY <1>1, <1>11, <2>1
  <2>2. ASSUME NEW j \in Index
        PROVE  i \in dag_nodes'[j].successors <=> i \in dag_nodes[j].successors
    <3>1. i \notin New(j) BY <1>1, <1>5
    <3> QED BY <1>6, <3>1
  <2>3. Incomplete \subseteq Index BY DEF Incomplete
  <2> QED BY <1>12, <2>1, <2>2, <2>3 DEF Preds
<1>14. ASSUME NEW s \in 1..m, NEW i \in Predicted, i = base + s
       PROVE  Preds(i)' = LiveProducers(s)
  <2>1. ASSUME NEW j \in Predicted
        PROVE  i \in dag_nodes'[j].successors <=> j \in LiveProducers(s)
    <3>1. i \in New(j) <=> j \in LiveProducers(s)
      BY <1>1, <1>4, <1>14
    <3>2. CASE j \in Index
      <4>1. i \notin dag_nodes[j].successors
        BY <1>1, <1>14, <3>2 DEF GraphInv, EdgesPointForward, base
      <4> QED BY <1>6, <3>1, <3>2, <4>1
    <3>3. CASE j \notin Index BY <1>7, <1>8, <3>1, <3>3
    <3> QED BY <3>2, <3>3
  <2>2. LiveProducers(s) \subseteq Incomplete'
    BY <1>1, <1>2, <1>12
  <2>3. Incomplete' \subseteq Predicted BY <1>10 DEF Incomplete
  <2> QED BY <2>1, <2>2, <2>3 DEF Preds
<1> QED
  BY <1>1, <1>6, <1>7, <1>9, <1>10, <1>11, <1>12, <1>13, <1>14 DEF base, m

\* The entries that a publish adds stand for staged tasks that wait for nothing.
LEMMA FlushDagGraph ==
    ASSUME TypeOK, GraphInv, FlushDagStaging
    PROVE  GraphInv'
<1> DEFINE base == Len(dag_nodes)
           m == Len(dag_staging)
           initial == {i \in (base + 1)..Len(dag_nodes') : dag_nodes'[i].pending = 0}
           new == {EntryOf(dag_nodes', i) : i \in initial}
<1>1. /\ dag_nodes' = PublishedNodes
      /\ ready' = ready \cup new
      /\ pending_dag_tasks' = pending_dag_tasks + m
      /\ dag_next_node_index' = dag_next_node_index + m
      /\ dag_staging' = <<>>
      /\ pending_tasks' = pending_tasks /\ latest_producer' = latest_producer
      /\ active_tasks' = active_tasks /\ batch' = batch
      /\ submitted' = submitted /\ finished' = finished /\ runs' = runs
      /\ after' = after /\ last_writer' = last_writer
  BY DEF FlushDagStaging, history_vars
<1>2. /\ base \in Nat /\ m \in Nat
      /\ Index = 1..base /\ Predicted = 1..(base + m)
      /\ DOMAIN dag_staging = 1..m
      /\ \A i \in Index : TaskAt(i) = dag_nodes[i].task
      /\ \A s \in 1..m : base + s \in Predicted \ Index
                         /\ TaskAt(base + s) = dag_staging[s].task
  BY NodeTypes DEF Index, Predicted
<1>3. /\ Len(dag_nodes') = base + m
      /\ Index' = Predicted
      /\ Predicted' = Predicted
      /\ \A i \in Predicted : /\ dag_nodes'[i].task = TaskAt(i)
                              /\ TaskAt(i)' = TaskAt(i)
                              /\ dag_nodes'[i].successors \subseteq (i + 1)..(base + m)
      /\ \A i \in Index : /\ dag_nodes'[i].completed = dag_nodes[i].completed
                          /\ dag_nodes'[i].pending = dag_nodes[i].pending
      /\ \A s \in 1..m : /\ ~dag_nodes'[base + s].completed
                         /\ dag_nodes'[base + s].pending = Cardinality(LiveProducers(s))
      /\ Incomplete' = Incomplete \cup (Predicted \ Index)
      /\ \A i \in Index : Preds(i)' = Preds(i)
      /\ \A s \in 1..m, i \in Predicted : i = base + s => Preds(i)' = LiveProducers(s)
  BY <1>1, <1>2, NodesAfterPublish
<1>4. ASSUME NEW i \in Predicted, i \notin Index
      PROVE  \E s \in 1..m : i = base + s
  <2>1. i - base \in 1..m /\ i = base + (i - base) BY <1>2, <1>4
  <2> QED BY <2>1
<1>5. \A s \in 1..m : IsFiniteSet(LiveProducers(s)) BY <1>2, LiveProducersFacts
<1>6. initial = {i \in Predicted \ Index : Preds(i)' = {}}
  <2>1. (base + 1)..Len(dag_nodes') = Predicted \ Index BY <1>2, <1>3
  <2>2. ASSUME NEW i \in Predicted, i \notin Index
        PROVE  dag_nodes'[i].pending = 0 <=> Preds(i)' = {}
    <3>1. PICK s \in 1..m : i = base + s BY <1>4, <2>2
    <3>2. dag_nodes'[i].pending = Cardinality(LiveProducers(s)) /\ Preds(i)' = LiveProducers(s)
      BY <1>3, <3>1
    <3> QED BY <1>5, <3>2, FS_EmptySet
  <2> HIDE DEF base
  <2> QED BY <2>1, <2>2
<1> HIDE DEF initial, base, m
<1>7. \A e \in new : /\ e.dag_node \in initial
                     /\ e.task = TaskAt(e.dag_node)
                     /\ e.dag_node # 0
                     /\ e = EntryOf(dag_nodes', e.dag_node)
  BY <1>2, <1>3, <1>6 DEF EntryOf
<1>8. ASSUME NEW i \in initial PROVE \E e \in new : e.dag_node = i
  <2>1. EntryOf(dag_nodes', i) \in new OBVIOUS
  <2>2. EntryOf(dag_nodes', i).dag_node = i BY DEF EntryOf
  <2> HIDE DEF new
  <2> QED BY <2>1, <2>2
<1> HIDE DEF new
<1>9. InFlight' = InFlight /\ Queued' = Queued \cup new
  BY <1>1 DEF InFlight, Queued
<1>10. \A e \in Queued : e.dag_node # 0 => e.dag_node \in Incomplete /\ e.dag_node \in Index
  BY DEF GraphInv, EntriesAreTasks, Incomplete
<1>11. ASSUME NEW e \in Queued, NEW i \in Predicted \ Index PROVE e.task # TaskAt(i)
  <2>1. CASE e.dag_node = 0 BY <2>1 DEF GraphInv, EntriesAreTasks
  <2>2. CASE e.dag_node # 0
    <3>1. e.dag_node \in Index /\ TaskAt(e.dag_node) = e.task
      BY <1>2, <1>10, <2>2 DEF GraphInv, EntriesAreTasks
    <3>2. e.dag_node \in Predicted BY <1>2, <3>1
    <3> QED BY <3>1, <3>2 DEF GraphInv, NodesAreTasks
  <2> QED BY <2>1, <2>2
<1>12. NodesAreTasks'
  <2>1. dag_next_node_index' = Len(dag_nodes')
    BY <1>1, <1>3 DEF GraphInv, NodesAreTasks, base
  <2> QED BY <1>1, <1>3, <2>1 DEF GraphInv, NodesAreTasks
<1>13. StagesAreSubmitted'
  <2>1. ASSUME NEW i \in Predicted
        PROVE  dag_nodes'[i].completed <=> dag_nodes'[i].task \in finished
    <3>1. CASE i \in Index
      BY <1>2, <1>3, <3>1 DEF GraphInv, StagesAreSubmitted
    <3>2. CASE i \notin Index
      <4>1. PICK s \in 1..m : i = base + s BY <1>4, <3>2
      <4>2. ~dag_nodes'[i].completed /\ dag_nodes'[i].task = dag_staging[s].task
        BY <1>2, <1>3, <4>1
      <4> QED BY <1>2, <4>1, <4>2 DEF GraphInv, StagesAreSubmitted
    <3> QED BY <3>1, <3>2
  <2> QED BY <1>1, <1>3, <2>1 DEF GraphInv, StagesAreSubmitted
<1>14. EntriesAreTasks'
  <2>1. ASSUME NEW e \in Queued'
        PROVE  /\ e.task \in submitted \ (pending_tasks \cup finished)
               /\ e.dag_node = 0 =>
                    after[e.task] = {} /\ \A i \in Predicted : TaskAt(i) # e.task
               /\ e.dag_node # 0 =>
                    e.dag_node \in Incomplete' /\ dag_nodes'[e.dag_node].task = e.task
    <3>1. CASE e \in Queued
      <4>1. e.dag_node # 0 =>
                e.dag_node \in Incomplete' /\ dag_nodes'[e.dag_node].task = e.task
        BY <1>2, <1>3, <1>10, <3>1 DEF GraphInv, EntriesAreTasks
      <4> QED BY <3>1, <4>1 DEF GraphInv, EntriesAreTasks
    <3>2. CASE e \in new
      <4>1. /\ e.dag_node \in Predicted \ Index /\ e.dag_node # 0
            /\ e.task = TaskAt(e.dag_node)
        BY <1>6, <1>7, <3>2
      <4>2. e.task \in submitted \ pending_tasks
        BY <4>1 DEF GraphInv, NodesAreTasks
      <4>3. e.task \notin finished
        <5>1. PICK s \in 1..m : e.dag_node = base + s BY <1>4, <4>1
        <5>2. e.task = dag_staging[s].task BY <1>2, <4>1, <5>1
        <5>3. dag_staging[s].task \notin finished
          BY <1>2, <5>1 DEF GraphInv, StagesAreSubmitted
        <5> QED BY ONLY <5>2, <5>3
      <4> QED BY <1>3, <4>1, <4>2, <4>3
    <3> QED BY <1>9, <3>1, <3>2
  <2>2. ASSUME NEW e \in Queued', NEW f \in Queued', e.task = f.task PROVE e = f
    <3>1. CASE e \in Queued /\ f \in Queued
      BY <2>2, <3>1 DEF GraphInv, EntriesAreTasks
    <3>2. CASE e \in new /\ f \in new
      <4>1. e.dag_node \in Predicted /\ f.dag_node \in Predicted BY <1>6, <1>7, <3>2
      <4>2. TaskAt(e.dag_node) = TaskAt(f.dag_node) BY <1>7, <2>2, <3>2
      <4>3. e.dag_node = f.dag_node BY <4>1, <4>2 DEF GraphInv, NodesAreTasks
      <4> QED BY <1>7, <3>2, <4>3
    <3>3. ASSUME NEW d \in new, NEW g \in Queued PROVE d.task # g.task
      BY <1>6, <1>7, <1>11
    <3> QED BY <1>9, <2>2, <3>1, <3>2, <3>3
  <2> QED BY <1>1, <1>3, <2>1, <2>2 DEF EntriesAreTasks
<1>15. BatchesAreDisjoint'
  <2>1. \A e \in new : e \notin InFlight
    BY <1>6, <1>7, <1>11 DEF Queued
  <2> QED BY <1>1, <1>9, <2>1 DEF GraphInv, BatchesAreDisjoint
<1>16. RunsAreExact' BY <1>1, <1>9 DEF GraphInv, RunsAreExact, TasksOf
<1>17. NothingIsLost'
  <2>1. {TaskAt(i)' : i \in Predicted} = {TaskAt(i) : i \in Predicted} BY <1>3
  <2>2. TasksOf(Queued) \subseteq TasksOf(Queued') BY <1>9 DEF TasksOf
  <2> QED BY <1>1, <1>3, <2>1, <2>2 DEF GraphInv, NothingIsLost, TasksOf
<1>18. EdgesPointForward' BY <1>3 DEF EdgesPointForward
<1>19. ReleasedAreQueued'
  <2>1. ASSUME NEW i \in Predicted
        PROVE  Preds(i)' = {} <=>
                 dag_nodes'[i].completed \/ \E e \in Queued' : e.dag_node = i
    <3>1. CASE i \in Index
      <4>1. \A e \in new : e.dag_node # i BY <1>6, <1>7, <3>1
      <4> QED BY <1>3, <1>9, <3>1, <4>1 DEF GraphInv, ReleasedAreQueued
    <3>2. CASE i \notin Index
      <4>1. PICK s \in 1..m : i = base + s BY <1>4, <3>2
      <4>2. ~dag_nodes'[i].completed BY <1>3, <4>1
      <4>3. \A e \in Queued : e.dag_node # i
        BY <1>10, <1>2, <3>2
      <4> QED BY <1>6, <1>7, <1>8, <1>9, <3>2, <4>2, <4>3
    <3> QED BY <3>1, <3>2
  <2>2. ASSUME NEW i \in Index'
        PROVE  Preds(i)' = {} <=>
                 dag_nodes'[i].completed \/ \E e \in Queued' : e.dag_node = i
    BY <1>3, <2>1
  <2> QED BY <2>2 DEF ReleasedAreQueued
<1>20. OrderIsWired'
  <2>1. ASSUME NEW i \in Predicted, NEW u \in after[TaskAt(i)], u \notin finished
        PROVE  \E j \in Preds(i)' : dag_nodes'[j].task = u
    <3>1. CASE i \in Index
      <4>1. PICK j \in Preds(i) : dag_nodes[j].task = u
        BY <1>2, <2>1, <3>1 DEF GraphInv, OrderIsWired
      <4>2. j \in Index BY DEF Preds, Incomplete
      <4> QED BY <1>2, <1>3, <3>1, <4>1, <4>2
    <3>2. CASE i \notin Index
      <4>1. PICK s \in 1..m : i = base + s BY <1>4, <3>2
      <4>2. PICK j \in dag_staging[s].dep_nodes : TaskAt(j) = u
        BY <1>2, <2>1, <4>1 DEF GraphInv, OrderIsStaged
      <4>3. j \in Predicted
        <5>1. s \in DOMAIN dag_staging BY <1>2
        <5>2. dag_staging[s].dep_nodes \subseteq 1..(base + s - 1)
          BY <5>1 DEF GraphInv, OrderIsStaged, base
        <5> QED BY <1>2, <5>2
      <4>4. j \in LiveProducers(s)
        BY <1>2, <2>1, <4>2 DEF LiveProducers, GraphInv, StagesAreSubmitted, Index
      <4>5. Preds(i)' = LiveProducers(s) BY <1>3, <4>1
      <4> QED BY <1>3, <4>2, <4>3, <4>4, <4>5
    <3> QED BY <3>1, <3>2
  <2>2. ASSUME NEW i \in Index', NEW u \in after'[dag_nodes'[i].task]
        PROVE  u \in finished' \/ \E j \in Preds(i)' : dag_nodes'[j].task = u
    <3>1. i \in Predicted /\ u \in after[TaskAt(i)] BY <1>1, <1>3
    <3> QED BY <1>1, <2>1, <3>1
  <2> QED BY <2>2 DEF OrderIsWired
<1>21. OrderIsStaged'
  <2>1. DOMAIN dag_staging' = {} BY <1>1
  <2> QED BY <2>1 DEF OrderIsStaged
<1>22. CountersAreExact'
  <2>1. ASSUME NEW i \in Predicted PROVE dag_nodes'[i].pending = Cardinality(Preds(i)')
    <3>1. CASE i \in Index
      BY <1>3, <3>1 DEF GraphInv, CountersAreExact
    <3>2. CASE i \notin Index
      <4>1. PICK s \in 1..m : i = base + s BY <1>4, <3>2
      <4>2. Preds(i)' = LiveProducers(s) BY <1>3, <4>1
      <4> QED BY <1>3, <4>1, <4>2
    <3> QED BY <3>1, <3>2
  <2>2. Cardinality(Incomplete') = Cardinality(Incomplete) + m
    <3>1. Predicted \ Index = (base + 1)..(base + m) BY <1>2
    <3>2. IsFiniteSet(Predicted \ Index) /\ Cardinality(Predicted \ Index) = m
      <4>1. base + 1 \in Int /\ base + m \in Int BY <1>2
      <4>2. /\ IsFiniteSet((base + 1)..(base + m))
            /\ Cardinality((base + 1)..(base + m)) =
                 IF base + 1 > base + m THEN 0 ELSE (base + m) - (base + 1) + 1
        BY <4>1, FS_Interval
      <4>3. (IF base + 1 > base + m THEN 0 ELSE (base + m) - (base + 1) + 1) = m
        BY <1>2
      <4> QED BY <3>1, <4>2, <4>3
    <3>3. Incomplete \cap (Predicted \ Index) = {} BY DEF Incomplete
    <3>4. IsFiniteSet(Incomplete) BY NodeSets
    <3> QED BY <1>3, <3>2, <3>3, <3>4, DisjointUnion
  <2>3. \A i \in Index' : dag_nodes'[i].pending = Cardinality(Preds(i)')
    BY <1>3, <2>1
  <2>4. active_tasks' = Cardinality(InFlight')
    BY <1>1, <1>9 DEF GraphInv, CountersAreExact
  <2> QED BY <1>1, <2>2, <2>3, <2>4 DEF GraphInv, CountersAreExact
<1>23. ProducerIsLastWriter'
  BY <1>1, <1>3 DEF GraphInv, ProducerIsLastWriter
<1> QED
  BY <1>12, <1>13, <1>14, <1>15, <1>16, <1>17, <1>18, <1>19, <1>20, <1>21, <1>22, <1>23
  DEF GraphInv

\* Dependency-free tasks move from their stage to the queue.
LEMMA FlushPendingGraph ==
    ASSUME TypeOK, GraphInv, FlushPendingTasks
    PROVE  GraphInv'
<1> DEFINE new == {[task |-> t, dag_node |-> 0, priority |-> 0] : t \in pending_tasks}
<1>1. /\ ready' = ready \cup new
      /\ pending_tasks' = {}
      /\ dag_nodes' = dag_nodes /\ dag_staging' = dag_staging
      /\ pending_dag_tasks' = pending_dag_tasks /\ active_tasks' = active_tasks
      /\ batch' = batch
      /\ dag_next_node_index' = dag_next_node_index
      /\ latest_producer' = latest_producer
      /\ submitted' = submitted /\ finished' = finished /\ runs' = runs
      /\ after' = after /\ last_writer' = last_writer
  BY DEF FlushPendingTasks, history_vars
<1>2. /\ Index' = Index /\ Incomplete' = Incomplete /\ Predicted' = Predicted
      /\ \A i : TaskAt(i)' = TaskAt(i)
      /\ \A i : Preds(i)' = Preds(i)
  BY <1>1, NodesUnchanged
<1>3. \A e \in new : e.dag_node = 0 /\ e.task \in pending_tasks
                     /\ e = [task |-> e.task, dag_node |-> 0, priority |-> 0]
  OBVIOUS
<1>4. ASSUME NEW t \in pending_tasks PROVE t \in TasksOf(new)
  <2>1. [task |-> t, dag_node |-> 0, priority |-> 0] \in new OBVIOUS
  <2>2. [task |-> t, dag_node |-> 0, priority |-> 0].task = t OBVIOUS
  <2> HIDE DEF new
  <2> QED BY <2>1, <2>2 DEF TasksOf
<1> HIDE DEF new
<1>5. InFlight' = InFlight /\ Queued' = Queued \cup new BY <1>1 DEF InFlight, Queued
<1>6. \A e \in Queued : e.task \notin pending_tasks BY DEF GraphInv, EntriesAreTasks
<1>7. NodesAreTasks' BY <1>1, <1>2 DEF GraphInv, NodesAreTasks
<1>8. StagesAreSubmitted' BY <1>1, <1>2 DEF GraphInv, StagesAreSubmitted
<1>9. EntriesAreTasks'
  <2>1. ASSUME NEW e \in Queued'
        PROVE  /\ e.task \in submitted \ finished
               /\ e.dag_node = 0 =>
                    after[e.task] = {} /\ \A i \in Predicted : TaskAt(i) # e.task
               /\ e.dag_node # 0 =>
                    e.dag_node \in Incomplete /\ dag_nodes[e.dag_node].task = e.task
    <3>1. CASE e \in Queued BY <3>1 DEF GraphInv, EntriesAreTasks
    <3>2. CASE e \in new
      <4>1. e.dag_node = 0 /\ e.task \in pending_tasks BY <1>3, <3>2
      <4>2. e.task \in submitted \ finished /\ after[e.task] = {}
        BY <4>1 DEF GraphInv, StagesAreSubmitted
      <4>3. \A i \in Predicted : TaskAt(i) # e.task
        BY <4>1 DEF GraphInv, NodesAreTasks
      <4> QED BY <4>1, <4>2, <4>3
    <3> QED BY <1>5, <3>1, <3>2
  <2>2. ASSUME NEW e \in Queued', NEW f \in Queued', e.task = f.task PROVE e = f
    <3>1. CASE e \in Queued /\ f \in Queued BY <2>2, <3>1 DEF GraphInv, EntriesAreTasks
    <3>2. CASE e \in new /\ f \in new BY <1>3, <2>2, <3>2
    <3> QED BY <1>3, <1>5, <1>6, <2>2, <3>1, <3>2
  <2> QED BY <1>1, <1>2, <2>1, <2>2 DEF EntriesAreTasks
<1>10. BatchesAreDisjoint'
  <2>1. \A e \in new : e \notin InFlight BY <1>3, <1>6 DEF Queued
  <2> QED BY <1>1, <1>5, <2>1 DEF GraphInv, BatchesAreDisjoint
<1>11. RunsAreExact' BY <1>1, <1>5 DEF GraphInv, RunsAreExact, TasksOf
<1>12. NothingIsLost'
  <2>1. TasksOf(Queued') = TasksOf(Queued) \cup TasksOf(new) BY <1>5 DEF TasksOf
  <2>2. pending_tasks \subseteq TasksOf(new) BY <1>4
  <2> QED BY <1>1, <1>2, <2>1, <2>2 DEF GraphInv, NothingIsLost, TasksOf
<1>13. EdgesPointForward' /\ OrderIsWired' /\ OrderIsStaged' /\ ProducerIsLastWriter'
  <2>1. EdgesPointForward' /\ OrderIsWired'
    BY <1>1, <1>2 DEF GraphInv, EdgesPointForward, OrderIsWired
  <2>2. OrderIsStaged' /\ ProducerIsLastWriter'
    BY <1>1, <1>2 DEF GraphInv, OrderIsStaged, ProducerIsLastWriter
  <2> QED BY <2>1, <2>2
<1>14. ReleasedAreQueued'
  <2>1. \A e \in new : e.dag_node \notin Index BY <1>3, NodeTypes DEF Index
  <2> QED BY <1>1, <1>2, <1>5, <2>1 DEF GraphInv, ReleasedAreQueued
<1>15. CountersAreExact' BY <1>1, <1>2, <1>5 DEF GraphInv, CountersAreExact
<1> QED
  BY <1>7, <1>8, <1>9, <1>10, <1>11, <1>12, <1>13, <1>14, <1>15 DEF GraphInv

-----------------------------------------------------------------------------
(* Submissions. *)

\* A submission adds a task nothing else knows of.
LEMMA NewTask ==
    ASSUME TypeOK, GraphInv, NEW t \in Task, t \notin submitted
    PROVE  /\ t \notin pending_tasks
           /\ t \notin finished
           /\ t \notin TasksOf(Queued)
           /\ t \notin TasksOf(InFlight)
           /\ \A i \in Predicted : TaskAt(i) # t
           /\ \A i \in Index : dag_nodes[i].task # t
           /\ \A s \in DOMAIN dag_staging : dag_staging[s].task # t
<1>1. t \notin pending_tasks /\ t \notin finished
  BY DEF GraphInv, StagesAreSubmitted
<1>2. t \notin TasksOf(Queued) BY DEF GraphInv, EntriesAreTasks, TasksOf
<1>3. t \notin TasksOf(InFlight) BY <1>2 DEF TasksOf, Queued
<1>4. \A i \in Predicted : TaskAt(i) # t BY DEF GraphInv, NodesAreTasks
<1>5. QED BY <1>1, <1>2, <1>3, <1>4, NodeTypes

\* The history of the other tasks is left alone.
LEMMA RecordFacts ==
    ASSUME TypeOK, NEW t \in Task, NEW deps, NEW output, Record(t, deps, output)
    PROVE  /\ submitted' = submitted \cup {t}
           /\ after'[t] = {last_writer[k] : k \in deps} \ {NoTask}
           /\ \A u \in Task : u # t => after'[u] = after[u]
           /\ \A k \in Key : last_writer'[k] = IF k = output THEN t ELSE last_writer[k]
           /\ finished' = finished /\ runs' = runs
<1>1. after \in [Task -> SUBSET Task] BY DEF TypeOK
<1>2. after' = [after EXCEPT ![t] = {last_writer[k] : k \in deps} \ {NoTask}]
  BY DEF Record
<1>3. QED BY <1>1, <1>2 DEF Record

\* A dependency-free task is staged.
LEMMA SubmitGraph ==
    ASSUME TypeOK, GraphInv, NEW t \in Task, Submit(t)
    PROVE  GraphInv'
<1>1. /\ t \notin submitted
      /\ pending_tasks' = pending_tasks \cup {t}
      /\ Record(t, {}, NoKey)
      /\ dag_nodes' = dag_nodes /\ dag_staging' = dag_staging
      /\ ready' = ready /\ batch' = batch
      /\ pending_dag_tasks' = pending_dag_tasks /\ active_tasks' = active_tasks
      /\ dag_next_node_index' = dag_next_node_index
      /\ latest_producer' = latest_producer
  BY DEF Submit, shared_vars
<1>2. /\ submitted' = submitted \cup {t}
      /\ after'[t] = {}
      /\ \A u \in Task : u # t => after'[u] = after[u]
      /\ \A k \in Key : last_writer'[k] = last_writer[k]
      /\ finished' = finished /\ runs' = runs
  <2>1. {last_writer[k] : k \in {}} \ {NoTask} = {} OBVIOUS
  <2> QED BY <1>1, <2>1, RecordFacts, KeyAssumption
<1>3. /\ t \notin pending_tasks /\ t \notin finished
      /\ t \notin TasksOf(Queued) /\ t \notin TasksOf(InFlight)
      /\ \A i \in Predicted : TaskAt(i) # t
      /\ \A i \in Index : dag_nodes[i].task # t
      /\ \A s \in DOMAIN dag_staging : dag_staging[s].task # t
  BY <1>1, NewTask
<1>4. /\ Index' = Index /\ Incomplete' = Incomplete /\ Predicted' = Predicted
      /\ \A i : TaskAt(i)' = TaskAt(i)
      /\ \A i : Preds(i)' = Preds(i)
      /\ InFlight' = InFlight /\ Queued' = Queued
  BY <1>1, NodesUnchanged DEF InFlight, Queued
<1>5. /\ \A i \in Index : dag_nodes[i].task \in Task
      /\ \A s \in DOMAIN dag_staging : dag_staging[s].task \in Task
      /\ \A e \in Queued : e.task \in Task /\ e.task # t
      /\ pending_tasks \subseteq Task
  <2>1. \A e \in Queued : e.task \in Task
    BY QueuedIsFinite DEF GraphInv, Entry
  <2>2. \A e \in Queued : e.task # t BY <1>3 DEF TasksOf
  <2> QED BY <2>1, <2>2, NodeTypes DEF DagNode, StagedSubmit, TypeOK
<1>6. NodesAreTasks' BY <1>1, <1>2, <1>3, <1>4 DEF GraphInv, NodesAreTasks
<1>7. StagesAreSubmitted'
  BY <1>1, <1>2, <1>3, <1>4, <1>5 DEF GraphInv, StagesAreSubmitted
<1>8. EntriesAreTasks'
  <2>1. ASSUME NEW e \in Queued
        PROVE  /\ e.task \in submitted' \ (pending_tasks' \cup finished)
               /\ e.dag_node = 0 =>
                    after'[e.task] = {} /\ \A i \in Predicted : TaskAt(i) # e.task
               /\ e.dag_node # 0 =>
                    e.dag_node \in Incomplete /\ dag_nodes[e.dag_node].task = e.task
    BY <1>1, <1>2, <1>5 DEF GraphInv, EntriesAreTasks
  <2>2. \A e, f \in Queued : e.task = f.task => e = f BY DEF GraphInv, EntriesAreTasks
  <2> QED BY <1>1, <1>2, <1>4, <2>1, <2>2 DEF EntriesAreTasks
<1>9. BatchesAreDisjoint' /\ RunsAreExact'
  BY <1>1, <1>2, <1>4 DEF GraphInv, BatchesAreDisjoint, RunsAreExact, TasksOf
<1>10. NothingIsLost' BY <1>1, <1>2, <1>4 DEF GraphInv, NothingIsLost, TasksOf
<1>11. EdgesPointForward' /\ ReleasedAreQueued' /\ CountersAreExact'
  BY <1>1, <1>4 DEF GraphInv, EdgesPointForward, ReleasedAreQueued, CountersAreExact
<1>12. OrderIsWired' /\ OrderIsStaged'
  BY <1>1, <1>2, <1>3, <1>4, <1>5 DEF GraphInv, OrderIsWired, OrderIsStaged
<1>13. ProducerIsLastWriter' BY <1>1, <1>2, <1>4 DEF GraphInv, ProducerIsLastWriter
<1> QED
  BY <1>6, <1>7, <1>8, <1>9, <1>10, <1>11, <1>12, <1>13 DEF GraphInv

\* A dependency-free task goes straight to the queue.
LEMMA EnqueueGraph ==
    ASSUME TypeOK, GraphInv, NEW t \in Task, EnqueueTask(t)
    PROVE  GraphInv'
<1> DEFINE entry == [task |-> t, dag_node |-> 0, priority |-> 0]
<1>1. /\ t \notin submitted
      /\ ready' = ready \cup {entry}
      /\ Record(t, {}, NoKey)
      /\ dag_nodes' = dag_nodes /\ dag_staging' = dag_staging
      /\ pending_tasks' = pending_tasks /\ batch' = batch
      /\ pending_dag_tasks' = pending_dag_tasks /\ active_tasks' = active_tasks
      /\ dag_next_node_index' = dag_next_node_index
      /\ latest_producer' = latest_producer
  BY DEF EnqueueTask
<1>2. /\ submitted' = submitted \cup {t}
      /\ after'[t] = {}
      /\ \A u \in Task : u # t => after'[u] = after[u]
      /\ \A k \in Key : last_writer'[k] = last_writer[k]
      /\ finished' = finished /\ runs' = runs
  <2>1. {last_writer[k] : k \in {}} \ {NoTask} = {} OBVIOUS
  <2> QED BY <1>1, <2>1, RecordFacts, KeyAssumption
<1>3. /\ t \notin pending_tasks /\ t \notin finished
      /\ t \notin TasksOf(Queued) /\ t \notin TasksOf(InFlight)
      /\ \A i \in Predicted : TaskAt(i) # t
      /\ \A i \in Index : dag_nodes[i].task # t
      /\ \A s \in DOMAIN dag_staging : dag_staging[s].task # t
  BY <1>1, NewTask
<1>4. /\ Index' = Index /\ Incomplete' = Incomplete /\ Predicted' = Predicted
      /\ \A i : TaskAt(i)' = TaskAt(i)
      /\ \A i : Preds(i)' = Preds(i)
      /\ InFlight' = InFlight /\ Queued' = Queued \cup {entry}
  BY <1>1, NodesUnchanged DEF InFlight, Queued
<1>5. /\ \A i \in Index : dag_nodes[i].task \in Task
      /\ \A s \in DOMAIN dag_staging : dag_staging[s].task \in Task
      /\ \A e \in Queued : e.task \in Task /\ e.task # t
      /\ pending_tasks \subseteq Task
  <2>1. \A e \in Queued : e.task \in Task
    BY QueuedIsFinite DEF GraphInv, Entry
  <2>2. \A e \in Queued : e.task # t BY <1>3 DEF TasksOf
  <2> QED BY <2>1, <2>2, NodeTypes DEF DagNode, StagedSubmit, TypeOK
<1>6. entry.task = t /\ entry.dag_node = 0 OBVIOUS
<1> HIDE DEF entry
<1>7. NodesAreTasks' BY <1>1, <1>2, <1>3, <1>4 DEF GraphInv, NodesAreTasks
<1>8. StagesAreSubmitted'
  BY <1>1, <1>2, <1>3, <1>4, <1>5 DEF GraphInv, StagesAreSubmitted
<1>9. EntriesAreTasks'
  <2>1. ASSUME NEW e \in Queued \cup {entry}
        PROVE  /\ e.task \in submitted' \ (pending_tasks \cup finished)
               /\ e.dag_node = 0 =>
                    after'[e.task] = {} /\ \A i \in Predicted : TaskAt(i) # e.task
               /\ e.dag_node # 0 =>
                    e.dag_node \in Incomplete /\ dag_nodes[e.dag_node].task = e.task
    <3>1. CASE e \in Queued
      BY <1>2, <1>5, <3>1 DEF GraphInv, EntriesAreTasks
    <3>2. CASE e = entry BY <1>2, <1>3, <1>6, <3>2
    <3> QED BY <3>1, <3>2
  <2>2. ASSUME NEW e \in Queued \cup {entry}, NEW f \in Queued \cup {entry},
               e.task = f.task
        PROVE  e = f
    <3>1. CASE e \in Queued /\ f \in Queued BY <2>2, <3>1 DEF GraphInv, EntriesAreTasks
    <3> QED BY <1>5, <1>6, <2>2, <3>1
  <2> QED BY <1>1, <1>2, <1>4, <2>1, <2>2 DEF EntriesAreTasks
<1>10. BatchesAreDisjoint'
  <2>1. entry \notin InFlight BY <1>5, <1>6 DEF Queued
  <2> QED BY <1>1, <1>4, <2>1 DEF GraphInv, BatchesAreDisjoint
<1>11. RunsAreExact' BY <1>1, <1>2, <1>4 DEF GraphInv, RunsAreExact, TasksOf
<1>12. NothingIsLost'
  <2>1. TasksOf(Queued') = TasksOf(Queued) \cup {t} BY <1>4, <1>6 DEF TasksOf
  <2> QED BY <1>1, <1>2, <1>4, <2>1 DEF GraphInv, NothingIsLost, TasksOf
<1>13. EdgesPointForward' /\ CountersAreExact'
  BY <1>1, <1>4 DEF GraphInv, EdgesPointForward, CountersAreExact
<1>14. ReleasedAreQueued'
  <2>1. entry.dag_node \notin Index BY <1>6, NodeTypes DEF Index
  <2> QED BY <1>1, <1>4, <2>1 DEF GraphInv, ReleasedAreQueued
<1>15. OrderIsWired' /\ OrderIsStaged'
  BY <1>1, <1>2, <1>3, <1>4, <1>5 DEF GraphInv, OrderIsWired, OrderIsStaged
<1>16. ProducerIsLastWriter' BY <1>1, <1>2, <1>4 DEF GraphInv, ProducerIsLastWriter
<1> QED
  BY <1>7, <1>8, <1>9, <1>10, <1>11, <1>12, <1>13, <1>14, <1>15, <1>16 DEF GraphInv

\* A dependency-aware task is staged: the keys it reads lead to the tasks
\* that last wrote them, and its own key now leads to its predicted index.
LEMMA SubmitDepsGraph ==
    ASSUME TypeOK, GraphInv, NEW t \in Task, NEW r \in Requests, SubmitWithDeps(t, r)
    PROVE  GraphInv'
<1> DEFINE base == Len(dag_nodes)
           m == Len(dag_staging)
           n == base + m + 1
           staged == [task |-> t,
                      dep_nodes |-> {latest_producer[k] : k \in r.deps} \ {0},
                      priority |-> r.priority]
<1>1. /\ t \notin submitted
      /\ latest_producer' = [k \in Key |-> IF k = r.output THEN n ELSE latest_producer[k]]
      /\ dag_staging' = Append(dag_staging, staged)
      /\ Record(t, r.deps, r.output)
      /\ dag_nodes' = dag_nodes
      /\ ready' = ready /\ batch' = batch
      /\ pending_tasks' = pending_tasks
      /\ pending_dag_tasks' = pending_dag_tasks /\ active_tasks' = active_tasks
      /\ dag_next_node_index' = dag_next_node_index
  BY DEF SubmitWithDeps, shared_vars, GraphInv, NodesAreTasks
<1>2. /\ submitted' = submitted \cup {t}
      /\ after'[t] = {last_writer[k] : k \in r.deps} \ {NoTask}
      /\ \A u \in Task : u # t => after'[u] = after[u]
      /\ \A k \in Key : last_writer'[k] = IF k = r.output THEN t ELSE last_writer[k]
      /\ finished' = finished /\ runs' = runs
  BY <1>1, RecordFacts
<1>3. /\ t \notin pending_tasks /\ t \notin finished
      /\ t \notin TasksOf(Queued) /\ t \notin TasksOf(InFlight)
      /\ \A i \in Predicted : TaskAt(i) # t
      /\ \A i \in Index : dag_nodes[i].task # t
      /\ \A s \in DOMAIN dag_staging : dag_staging[s].task # t
  BY <1>1, NewTask
<1>4. /\ base \in Nat /\ m \in Nat
      /\ Index = 1..base /\ Predicted = 1..(base + m)
      /\ DOMAIN dag_staging = 1..m
      /\ \A i \in Index : dag_nodes[i] \in DagNode /\ TaskAt(i) = dag_nodes[i].task
      /\ \A s \in 1..m : dag_staging[s] \in StagedSubmit
                         /\ TaskAt(base + s) = dag_staging[s].task
  BY NodeTypes DEF Index, Predicted
<1>5. /\ \A i \in Index : dag_nodes[i].task \in Task
      /\ \A s \in 1..m : dag_staging[s].task \in Task
      /\ \A e \in Queued : e.task \in Task /\ e.task # t
      /\ pending_tasks \subseteq Task
  <2>1. \A e \in Queued : e.task \in Task
    BY QueuedIsFinite DEF GraphInv, Entry
  <2>2. \A e \in Queued : e.task # t BY <1>3 DEF TasksOf
  <2> QED BY <1>4, <2>1, <2>2 DEF DagNode, StagedSubmit, TypeOK
<1>6. r.deps \subseteq Key /\ r.output \in Key \cup {NoKey} BY RequestAssumption
<1>7. /\ Len(dag_staging') = m + 1
      /\ DOMAIN dag_staging' = 1..(m + 1)
      /\ dag_staging'[m + 1] = staged
      /\ \A s \in 1..m : dag_staging'[s] = dag_staging[s]
  <2>1. dag_staging \in Seq(StagedSubmit) BY DEF TypeOK
  <2> HIDE DEF staged
  <2> QED BY <1>1, <1>4, <2>1
<1>8. staged.task = t /\ staged.dep_nodes = {latest_producer[k] : k \in r.deps} \ {0}
  OBVIOUS
<1> HIDE DEF staged, n, base, m
<1>9. /\ Index' = Index
      /\ Incomplete' = Incomplete
      /\ \A i : Preds(i)' = Preds(i)
      /\ Predicted' = Predicted \cup {n} /\ n \notin Predicted /\ n \notin Index
      /\ n # 0 /\ n \in Nat
      /\ InFlight' = InFlight /\ Queued' = Queued
  <2>1. Predicted' = Predicted \cup {n}
    <3>1. Predicted' = 1..(base + (m + 1)) BY <1>1, <1>7 DEF Predicted, base
    <3>2. 1..(base + (m + 1)) = 1..(base + m) \cup {base + m + 1} BY <1>4
    <3> QED BY <1>4, <3>1, <3>2 DEF n
  <2>2. n \notin Predicted /\ n \notin Index /\ n # 0 /\ n \in Nat BY <1>4 DEF n
  <2>3. Index' = Index /\ Incomplete' = Incomplete /\ \A i : Preds(i)' = Preds(i)
    BY <1>1 DEF Index, Incomplete, Preds
  <2> QED BY <1>1, <2>1, <2>2, <2>3 DEF InFlight, Queued
<1>10. \A i \in Predicted : TaskAt(i)' = TaskAt(i)
  <2>1. ASSUME NEW i \in Predicted, ~(i <= base)
        PROVE  dag_staging'[i - base] = dag_staging[i - base]
    <3>1. i - base \in 1..m BY <1>4, <2>1
    <3> QED BY <1>7, <3>1
  <2> QED BY <1>1, <2>1 DEF TaskAt, base
<1>11. ASSUME NEW i, i = n PROVE TaskAt(i)' = t
  <2>1. ~(n <= base) /\ n - base = m + 1 BY <1>4 DEF n
  <2> QED BY <1>1, <1>7, <1>8, <1>11, <2>1 DEF TaskAt, base
<1>12. \A i \in Predicted' : i = n \/ (i \in Predicted /\ i # n) BY <1>9
<1>13. NodesAreTasks'
  <2>1. ASSUME NEW i \in Predicted', NEW j \in Predicted', TaskAt(i)' = TaskAt(j)'
        PROVE  i = j
    BY <1>3, <1>10, <1>11, <1>12, <2>1 DEF GraphInv, NodesAreTasks
  <2>2. ASSUME NEW i \in Predicted' PROVE TaskAt(i)' \in submitted' \ pending_tasks
    BY <1>2, <1>3, <1>10, <1>11, <1>12 DEF GraphInv, NodesAreTasks
  <2> QED BY <1>1, <2>1, <2>2 DEF GraphInv, NodesAreTasks
<1>14. StagesAreSubmitted'
  <2>1. ASSUME NEW s \in DOMAIN dag_staging' PROVE dag_staging'[s].task \notin finished
    <3>1. CASE s = m + 1 BY <1>3, <1>7, <1>8, <3>1
    <3>2. CASE s # m + 1
      <4>1. s \in 1..m BY <1>4, <1>7, <3>2
      <4> QED BY <1>4, <1>7, <4>1 DEF GraphInv, StagesAreSubmitted
    <3> QED BY <3>1, <3>2
  <2>2. pending_tasks \subseteq submitted' /\ \A u \in pending_tasks : after'[u] = {}
    BY <1>2, <1>3, <1>5 DEF GraphInv, StagesAreSubmitted
  <2>3. /\ finished \subseteq submitted' \ pending_tasks
        /\ \A i \in Index : dag_nodes[i].completed <=> dag_nodes[i].task \in finished
    BY <1>2 DEF GraphInv, StagesAreSubmitted
  <2> QED BY <1>1, <1>2, <1>9, <2>1, <2>2, <2>3 DEF StagesAreSubmitted
<1>15. EntriesAreTasks'
  <2>1. ASSUME NEW e \in Queued
        PROVE  /\ e.task \in submitted' \ (pending_tasks \cup finished)
               /\ e.dag_node = 0 => after'[e.task] = {}
               /\ e.dag_node # 0 =>
                    e.dag_node \in Incomplete /\ dag_nodes[e.dag_node].task = e.task
    BY <1>2, <1>5 DEF GraphInv, EntriesAreTasks
  <2>2. ASSUME NEW e \in Queued, e.dag_node = 0, NEW i \in Predicted'
        PROVE  TaskAt(i)' # e.task
    BY <1>5, <1>10, <1>11, <1>12, <2>2 DEF GraphInv, EntriesAreTasks
  <2>3. \A e, f \in Queued : e.task = f.task => e = f BY DEF GraphInv, EntriesAreTasks
  <2> QED BY <1>1, <1>2, <1>9, <2>1, <2>2, <2>3 DEF EntriesAreTasks
<1>16. BatchesAreDisjoint' /\ RunsAreExact'
  BY <1>1, <1>2, <1>9 DEF GraphInv, BatchesAreDisjoint, RunsAreExact, TasksOf
<1>17. NothingIsLost'
  <2>1. {TaskAt(i) : i \in Predicted} \cup {t} \subseteq {TaskAt(i)' : i \in Predicted'}
    BY <1>9, <1>10, <1>11
  <2> QED BY <1>1, <1>2, <1>9, <2>1 DEF GraphInv, NothingIsLost, TasksOf
<1>18. EdgesPointForward' /\ ReleasedAreQueued' /\ CountersAreExact'
  BY <1>1, <1>9 DEF GraphInv, EdgesPointForward, ReleasedAreQueued, CountersAreExact
<1>19. OrderIsWired'
  BY <1>1, <1>2, <1>3, <1>5, <1>9 DEF GraphInv, OrderIsWired
<1>20. OrderIsStaged'
  <2>1. ASSUME NEW s \in 1..m
        PROVE  /\ dag_staging'[s].dep_nodes \subseteq 1..(base + s - 1)
               /\ \A u \in after'[dag_staging'[s].task] :
                    u \in finished \/ \E j \in dag_staging'[s].dep_nodes : TaskAt(j)' = u
    <3>1. s \in DOMAIN dag_staging /\ dag_staging'[s] = dag_staging[s] BY <1>4, <1>7
    <3>2. dag_staging[s].dep_nodes \subseteq 1..(base + s - 1)
      BY <3>1 DEF GraphInv, OrderIsStaged, base
    <3>3. dag_staging[s].dep_nodes \subseteq Predicted BY <1>4, <3>2
    <3>4. \A u \in after[dag_staging[s].task] :
            u \in finished \/ \E j \in dag_staging[s].dep_nodes : TaskAt(j) = u
      BY <3>1 DEF GraphInv, OrderIsStaged
    <3>5. after'[dag_staging[s].task] = after[dag_staging[s].task]
      BY <1>2, <1>3, <1>5, <3>1
    <3> QED BY <1>10, <3>1, <3>2, <3>3, <3>4, <3>5
  <2>2. /\ staged.dep_nodes \subseteq Predicted
        /\ \A u \in after'[t] :
             u \in finished \/ \E j \in staged.dep_nodes : TaskAt(j)' = u
    <3>1. staged.dep_nodes \subseteq Predicted
      BY <1>6, <1>8 DEF GraphInv, ProducerIsLastWriter
    <3>2. ASSUME NEW u \in after'[t], u \notin finished
          PROVE  \E j \in staged.dep_nodes : TaskAt(j)' = u
      <4>1. PICK k \in r.deps : u = last_writer[k] /\ u # NoTask BY <1>2
      <4>2. /\ latest_producer[k] # 0
            /\ latest_producer[k] \in Predicted
            /\ TaskAt(latest_producer[k]) = u
        BY <1>6, <3>2, <4>1 DEF GraphInv, ProducerIsLastWriter
      <4>3. latest_producer[k] \in staged.dep_nodes BY <1>8, <4>1, <4>2
      <4>4. PICK j : j = latest_producer[k] OBVIOUS
      <4>5. TaskAt(j)' = TaskAt(j) BY <1>10, <4>2, <4>4
      <4>6. TaskAt(j) = u BY <4>2, <4>4
      <4> QED BY <4>3, <4>4, <4>5, <4>6
    <3> QED BY <3>1, <3>2
  <2>3. ASSUME NEW s \in DOMAIN dag_staging'
        PROVE  /\ dag_staging'[s].dep_nodes \subseteq 1..(base + s - 1)
               /\ \A u \in after'[dag_staging'[s].task] :
                    u \in finished \/ \E j \in dag_staging'[s].dep_nodes : TaskAt(j)' = u
    <3>1. CASE s = m + 1
      <4>1. base + s - 1 = base + m BY <1>4, <3>1
      <4> QED BY <1>4, <1>7, <1>8, <2>2, <3>1, <4>1
    <3>2. CASE s # m + 1
      <4>1. s \in 1..m BY <1>4, <1>7, <3>2
      <4> QED BY <2>1, <4>1
    <3> QED BY <3>1, <3>2
  <2> QED BY <1>1, <1>2, <2>3 DEF OrderIsStaged, base
<1>21. ProducerIsLastWriter'
  <2>1. ASSUME NEW k \in Key
        PROVE  IF latest_producer'[k] = 0
               THEN last_writer'[k] \in finished \cup {NoTask}
               ELSE /\ latest_producer'[k] \in Predicted'
                    /\ \A i : i = latest_producer'[k] => TaskAt(i)' = last_writer'[k]
    <3>1. CASE k = r.output
      <4>1. latest_producer'[k] = n /\ last_writer'[k] = t BY <1>1, <1>2, <3>1
      <4> QED BY <1>9, <1>11, <4>1
    <3>2. CASE k # r.output
      <4>1. latest_producer'[k] = latest_producer[k] /\ last_writer'[k] = last_writer[k]
        BY <1>1, <1>2, <3>2
      <4> QED BY <1>9, <1>10, <4>1 DEF GraphInv, ProducerIsLastWriter
    <3> QED BY <3>1, <3>2
  <2> QED BY <1>2, <2>1 DEF ProducerIsLastWriter
<1> QED
  BY <1>13, <1>14, <1>15, <1>16, <1>17, <1>18, <1>19, <1>20, <1>21 DEF GraphInv

-----------------------------------------------------------------------------
(* The end of a wait. *)

\* With nothing staged, queued or running, the counters say whether the
\* graph is complete.
LEMMA DrainedGraph ==
    ASSUME TypeOK, GraphInv,
           dag_staging = <<>>, pending_tasks = {}, ready = {}, active_tasks = 0
    PROVE  /\ InFlight = {}
           /\ Queued = {}
           /\ Predicted = Index
           /\ pending_dag_tasks = 0 => Incomplete = {} /\ submitted = finished
<1>1. InFlight = {}
  BY QueuedIsFinite, FS_EmptySet DEF GraphInv, CountersAreExact
<1>2. Queued = {} BY <1>1 DEF Queued
<1>3. Predicted = Index
  <2>1. Len(dag_staging) = 0 OBVIOUS
  <2>2. Len(dag_nodes) \in Nat BY NodeTypes
  <2> QED BY <2>1, <2>2 DEF Predicted, Index
<1>4. ASSUME pending_dag_tasks = 0 PROVE Incomplete = {} /\ submitted = finished
  <2>1. Incomplete = {} BY <1>4, NodeSets, FS_EmptySet DEF GraphInv, CountersAreExact
  <2>2. \A i \in Predicted : TaskAt(i) \in finished
    BY <1>3, <2>1, NodeTypes DEF GraphInv, StagesAreSubmitted, Incomplete
  <2>3. submitted \subseteq finished
    BY <1>2, <2>2 DEF GraphInv, NothingIsLost, TasksOf
  <2>4. finished \subseteq submitted BY DEF GraphInv, StagesAreSubmitted
  <2> QED BY <2>1, <2>3, <2>4
<1> QED BY <1>1, <1>2, <1>3, <1>4

\* Clearing the graph forgets only completed nodes.
LEMMA ClearGraph ==
    ASSUME TypeOK, GraphInv,
           dag_staging = <<>>, pending_tasks = {}, ready = {}, active_tasks = 0,
           pending_dag_tasks = 0,
           ClearCompletedDagStateLocked,
           UNCHANGED <<pending_tasks, dag_staging, ready, pending_dag_tasks, active_tasks,
                       batch, submitted, finished, runs, after, last_writer>>
    PROVE  GraphInv'
<1>1. /\ dag_nodes' = <<>>
      /\ latest_producer' = [k \in Key |-> 0]
      /\ dag_next_node_index' = 0
      /\ pending_tasks' = {} /\ dag_staging' = <<>> /\ ready' = {}
      /\ pending_dag_tasks' = 0 /\ active_tasks' = 0
      /\ batch' = batch /\ submitted' = submitted /\ finished' = finished
      /\ runs' = runs /\ after' = after /\ last_writer' = last_writer
  BY DEF ClearCompletedDagStateLocked
<1>2. /\ InFlight = {} /\ Queued = {} /\ Predicted = Index
      /\ Incomplete = {} /\ submitted = finished
  BY DrainedGraph
<1>3. InFlight' = {} /\ Queued' = {}
  <2>1. InFlight' = InFlight BY <1>1 DEF InFlight
  <2> QED BY <1>1, <1>2, <2>1 DEF Queued
<1>4. Index' = {} /\ Predicted' = {} /\ Incomplete' = {}
  <2>1. Len(dag_nodes') = 0 /\ Len(dag_staging') = 0 BY <1>1
  <2> QED BY <2>1 DEF Index, Predicted, Incomplete
<1>5. NodesAreTasks'
  <2>1. dag_next_node_index' = Len(dag_nodes') BY <1>1
  <2> QED BY <1>4, <2>1 DEF NodesAreTasks
<1>6. DOMAIN dag_staging' = {} BY <1>1
<1>7. StagesAreSubmitted' /\ OrderIsStaged'
  BY <1>1, <1>4, <1>6 DEF GraphInv, StagesAreSubmitted, OrderIsStaged
<1>8. EntriesAreTasks' BY <1>3 DEF EntriesAreTasks
<1>9. BatchesAreDisjoint' BY <1>1, <1>3 DEF GraphInv, BatchesAreDisjoint
<1>10. RunsAreExact' BY <1>1, <1>2, <1>3 DEF GraphInv, RunsAreExact, TasksOf
<1>11. NothingIsLost' BY <1>1, <1>2 DEF NothingIsLost
<1>12. EdgesPointForward' /\ ReleasedAreQueued' /\ OrderIsWired'
  BY <1>4 DEF EdgesPointForward, ReleasedAreQueued, OrderIsWired
<1>13. CountersAreExact' BY <1>1, <1>3, <1>4, FS_EmptySet DEF CountersAreExact
<1>14. ProducerIsLastWriter'
  <2>1. ASSUME NEW k \in Key PROVE last_writer[k] \in finished \cup {NoTask}
    BY <1>2, NodeTypes DEF GraphInv, ProducerIsLastWriter, StagesAreSubmitted, Incomplete
  <2> QED BY <1>1, <2>1 DEF ProducerIsLastWriter
<1> QED
  BY <1>5, <1>7, <1>8, <1>9, <1>10, <1>11, <1>12, <1>13, <1>14 DEF GraphInv

-----------------------------------------------------------------------------
(* Initial states. *)

LEMMA InitGraph == Init => GraphInv
<1> SUFFICES ASSUME Init PROVE GraphInv OBVIOUS
<1>1. InFlight = {} /\ Queued = {} BY DEF Init, InFlight, Queued
<1>2. Index = {} /\ Predicted = {} /\ Incomplete = {}
  <2>1. Len(dag_nodes) = 0 /\ Len(dag_staging) = 0 BY DEF Init
  <2> QED BY <2>1 DEF Index, Predicted, Incomplete
<1>3. NodesAreTasks
  <2>1. dag_next_node_index = Len(dag_nodes) BY DEF Init
  <2> QED BY <1>2, <2>1 DEF NodesAreTasks
<1>4. DOMAIN dag_staging = {} BY DEF Init
<1>5. StagesAreSubmitted /\ OrderIsStaged
  BY <1>2, <1>4 DEF Init, StagesAreSubmitted, OrderIsStaged
<1>6. EntriesAreTasks BY <1>1 DEF EntriesAreTasks
<1>7. BatchesAreDisjoint BY <1>1 DEF Init, BatchesAreDisjoint
<1>8. RunsAreExact BY <1>1 DEF Init, RunsAreExact, TasksOf
<1>9. NothingIsLost BY DEF Init, NothingIsLost
<1>10. EdgesPointForward /\ ReleasedAreQueued /\ OrderIsWired
  BY <1>2 DEF EdgesPointForward, ReleasedAreQueued, OrderIsWired
<1>11. CountersAreExact BY <1>1, <1>2, FS_EmptySet DEF Init, CountersAreExact
<1>12. ProducerIsLastWriter BY DEF Init, ProducerIsLastWriter
<1> QED
  BY <1>3, <1>5, <1>6, <1>7, <1>8, <1>9, <1>10, <1>11, <1>12 DEF GraphInv
=============================================================================
