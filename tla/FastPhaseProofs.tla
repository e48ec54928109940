--------------------------- MODULE FastPhaseProofs ---------------------------
(***************************************************************************)
(* The inductive invariant of FastPhase and what follows from it, for any  *)
(* pool, any sequence of calls and any number of tasks.                    *)
(***************************************************************************)
EXTENDS FastPhaseProperties, FiniteSetTheorems, TLAPS

-----------------------------------------------------------------------------
(* Facts about the constants and the types. *)

LEMMA PoolFacts ==
    /\ PoolSize \in Nat /\ PoolSize >= 1 /\ Worker = 0..(PoolSize - 1) /\ Worker \subseteq Nat
    /\ MaxTasks \in Nat /\ StageSize \in Nat /\ MaxCalls \in Nat
    /\ ActiveCounts \subseteq 0..PoolSize /\ FastModes \subseteq BOOLEAN
BY PoolAssumption, BoundAssumption DEF Worker

\* What the proofs use of the types of Main's variables.
LEMMA MainTypes ==
    ASSUME TypeOK
    PROVE  /\ active_workers \in Nat /\ owed \in Nat /\ submitted \in Nat
           /\ fast_session_active \in BOOLEAN /\ fast_phase_enabled \in BOOLEAN
           /\ pending_tasks \in Seq(TaskId) /\ Len(pending_tasks) \in Nat
           /\ DOMAIN pending_tasks = 1..Len(pending_tasks)
           /\ pending_tasks # <<>> <=> Len(pending_tasks) > 0
<1>1. pending_tasks \in Seq(TaskId) BY DEF TypeOK, MainTypeOK
<1>2. pending_tasks # <<>> <=> Len(pending_tasks) > 0 BY <1>1
<1> QED BY <1>1, <1>2, PoolFacts DEF TypeOK, MainTypeOK, SharedTypeOK, HistoryTypeOK

-----------------------------------------------------------------------------
(* Control. *)

LEMMA MainControlStep ==
    ASSUME TypeOK, ControlInv, active_workers = 0 => pending_tasks = <<>>,
           Client \/ MainStep \/ MainSpuriousWake
    PROVE  ControlInv'
<1> USE MainTypes DEF fast_vars, mode_vars, ControlInv, InPhase, Publishing, Drained,
                      ActiveWorkerCount
<1>1. CASE \E active \in ActiveCounts, fast \in FastModes : Begin(active, fast)
  BY <1>1 DEF Begin
<1>2. CASE Submit BY <1>2 DEF Submit
<1>3. CASE \E o \in {"wait", "end", "destroy"} : Request(o) BY <1>3 DEF Request
<1>4. CASE TryFastPhase BY <1>4 DEF TryFastPhase
<1>5. CASE CountPhase BY <1>5 DEF CountPhase
<1>6. CASE Activate BY <1>6 DEF Activate
<1>7. CASE Recount \/ Bump BY <1>7 DEF Recount, Bump
<1>8. CASE NotifyFast \/ MainPhase BY <1>8 DEF NotifyFast, MainPhase
<1>9. CASE Join BY <1>9 DEF Join, ReturnFromWait, AfterWait
<1>10. CASE LeaveSession BY <1>10 DEF LeaveSession, EndFastSession
<1>11. CASE FlushPendingTasks BY <1>11 DEF FlushPendingTasks
<1>12. CASE AfterFlush BY <1>12 DEF AfterFlush, AfterWait
<1>13. CASE NotifyWorkers BY <1>13 DEF NotifyWorkers
<1>14. CASE MainTake \/ MainRun BY <1>14 DEF MainTake, MainRun
<1>15. CASE MainDrained BY <1>15 DEF MainDrained, ReturnFromWait, AfterWait
<1>16. CASE Reconfigure \/ NotifyPark \/ ResetQueue
  BY <1>16 DEF Reconfigure, NotifyPark, ResetQueue
<1>17. CASE Stop \/ NotifyStop \/ JoinThreads \/ MainSpuriousWake
  BY <1>17 DEF Stop, NotifyStop, JoinThreads, MainSpuriousWake
<1> QED BY <1>1, <1>2, <1>3, <1>4, <1>5, <1>6, <1>7, <1>8, <1>9, <1>10, <1>11, <1>12,
           <1>13, <1>14, <1>15, <1>16, <1>17 DEF Client, MainStep

LEMMA WorkerControlStep ==
    ASSUME ControlInv, NEW w \in Worker, WorkerStep(w) \/ WorkerStart(w) \/ SpuriousWake(w)
    PROVE  ControlInv'
<1> USE DEF main_and_shared, main_vars, fast_vars, mode_vars, ControlInv, InPhase, Publishing, Drained
<1>1. CASE FastLane(w) \/ WorkerStart(w) \/ SpuriousWake(w)
  <2>1. UNCHANGED main_and_shared
    BY <1>1 DEF FastLane, WorkerStart, SpuriousWake, LookForEpoch, Admit, SkipEpoch,
                EnterSession, CheckSession, CheckEpoch, BeginPhase, RunSlot, Acknowledge,
                ExitSession
  <2> QED BY <2>1
<1>2. CASE QueueLane(w) BY <1>2 DEF QueueLane, Gate, Spin, Relock, Block, WorkerRun
<1> QED BY <1>1, <1>2 DEF WorkerStep

-----------------------------------------------------------------------------
(* The session. *)

LEMMA LaneTypes ==
    ASSUME TypeOK
    PROVE  /\ fast_worker_count \in Nat /\ fast_phase_epoch \in Nat /\ cursor \in Nat
           /\ fast_session_active \in BOOLEAN
           /\ DOMAIN wpc = Worker /\ wpc = [w \in Worker |-> wpc[w]]
           /\ DOMAIN seen = Worker /\ seen = [w \in Worker |-> seen[w]]
           /\ DOMAIN done_epoch = Worker /\ done_epoch = [w \in Worker |-> done_epoch[w]]
           /\ DOMAIN in_session = Worker /\ in_session = [w \in Worker |-> in_session[w]]
           /\ \A w \in Worker : /\ w \in Nat
                                /\ seen[w] \in Nat /\ done_epoch[w] \in Nat
                                /\ in_session[w] \in BOOLEAN
BY PoolFacts DEF TypeOK, MainTypeOK, SharedTypeOK, WorkerTypeOK, Epoch

LEMMA LaneStep ==
    ASSUME TypeOK, ControlInv, SessionInv, NEW w \in Worker, FastLane(w)
    PROVE  SessionInv'
<1> SUFFICES ASSUME NEW v \in Worker PROVE LaneInv(v)' BY DEF SessionInv
<1>1. LaneInv(w) /\ LaneInv(v) BY DEF SessionInv
<1> USE LaneTypes DEF main_vars, fast_vars, main_and_shared, lane_vars, Goto, LaneInv, InLane, Publishing
<1>2. CASE LookForEpoch(w) BY <1>1, <1>2 DEF LookForEpoch
<1>3. CASE Admit(w) BY <1>1, <1>3 DEF Admit, ControlInv, InPhase
<1>4. CASE SkipEpoch(w) BY <1>1, <1>4 DEF SkipEpoch
<1>5. CASE EnterSession(w) BY <1>1, <1>5 DEF EnterSession
<1>6. CASE CheckSession(w) BY <1>1, <1>6 DEF CheckSession, ControlInv, InPhase
<1>7. CASE CheckEpoch(w) BY <1>1, <1>7 DEF CheckEpoch
<1>8. CASE BeginPhase(w) BY <1>1, <1>8 DEF BeginPhase
<1>9. CASE RunSlot(w)
  <2>1. UNCHANGED <<mpc, cursor, fast_vars, wpc, seen, in_session, done_epoch>>
    BY <1>9 DEF RunSlot
  <2> QED BY <1>1, <2>1
<1>10. CASE Acknowledge(w) BY <1>1, <1>10 DEF Acknowledge
<1>11. CASE ExitSession(w) BY <1>1, <1>11 DEF ExitSession
<1> QED BY <1>2, <1>3, <1>4, <1>5, <1>6, <1>7, <1>8, <1>9, <1>10, <1>11 DEF FastLane

LEMMA QueueLaneStep ==
    ASSUME TypeOK, SessionInv, NEW w \in Worker, QueueLane(w) \/ WorkerStart(w) \/ SpuriousWake(w)
    PROVE  SessionInv'
<1> SUFFICES ASSUME NEW v \in Worker PROVE LaneInv(v)' BY DEF SessionInv
<1>1. LaneInv(w) /\ LaneInv(v) BY DEF SessionInv
<1> USE LaneTypes DEF main_vars, fast_vars, main_and_shared, lane_vars, Goto, LaneInv, InLane, Publishing
<1>2. CASE Gate(w) BY <1>1, <1>2 DEF Gate, WorkerTake
<1>3. CASE Relock(w) BY <1>1, <1>3 DEF Relock, WorkerTake
<1>4. CASE WorkerRun(w) BY <1>1, <1>4 DEF WorkerRun
<1>5. CASE Spin(w) \/ Block(w) BY <1>1, <1>5 DEF Spin, Block
<1>6. CASE WorkerStart(w) BY <1>1, <1>6 DEF WorkerStart
<1>7. CASE SpuriousWake(w) BY <1>1, <1>7 DEF SpuriousWake
<1> QED BY <1>2, <1>3, <1>4, <1>5, <1>6, <1>7 DEF QueueLane

LEMMA MainLaneStep ==
    ASSUME TypeOK, ControlInv, SessionInv, Client \/ MainStep \/ MainSpuriousWake
    PROVE  SessionInv'
<1> SUFFICES ASSUME NEW v \in Worker PROVE LaneInv(v)' BY DEF SessionInv
<1>1. LaneInv(v) BY DEF SessionInv
<1> USE LaneTypes DEF LaneInv, InLane, Publishing, fast_vars, lane_vars, ControlInv, InPhase
<1>2. CASE Client BY <1>1, <1>2 DEF Client, Begin, Submit, Request
<1>3. CASE TryFastPhase \/ CountPhase BY <1>1, <1>3 DEF TryFastPhase, CountPhase
<1>4. CASE Activate \/ Recount \/ Bump BY <1>1, <1>4 DEF Activate, Recount, Bump
<1>5. CASE NotifyFast BY <1>1, <1>5 DEF NotifyFast
<1>6. CASE MainPhase BY <1>1, <1>6 DEF MainPhase
<1>7. CASE Join BY <1>1, <1>7 DEF Join, ReturnFromWait, AfterWait
<1>8. CASE LeaveSession BY <1>1, <1>8 DEF LeaveSession, EndFastSession
<1>9. CASE FlushPendingTasks \/ AfterFlush
  BY <1>1, <1>9 DEF FlushPendingTasks, AfterFlush, AfterWait
<1>10. CASE NotifyWorkers BY <1>1, <1>10 DEF NotifyWorkers, Wake, Asleep
<1>11. CASE MainTake \/ MainRun BY <1>1, <1>11 DEF MainTake, MainRun
<1>12. CASE MainDrained BY <1>1, <1>12 DEF MainDrained, ReturnFromWait, AfterWait
<1>13. CASE Reconfigure \/ ResetQueue \/ Stop \/ JoinThreads \/ MainSpuriousWake
  BY <1>1, <1>13 DEF Reconfigure, ResetQueue, Stop, JoinThreads, MainSpuriousWake
<1>14. CASE NotifyPark \/ NotifyStop BY <1>1, <1>14 DEF NotifyPark, NotifyStop
<1> QED BY <1>2, <1>3, <1>4, <1>5, <1>6, <1>7, <1>8, <1>9, <1>10, <1>11, <1>12, <1>13, <1>14
        DEF MainStep

-----------------------------------------------------------------------------
\* Epochs.

LEMMA EpochStep ==
    ASSUME TypeOK, ControlInv, EpochInv, [Next]_vars
    PROVE  EpochInv'
<1>1. fast_phase_epoch \in Nat BY PoolFacts DEF TypeOK, SharedTypeOK, Epoch
<1> USE <1>1, MainTypes DEF EpochInv, Published, ControlInv, InPhase, Publishing, fast_vars,
                            main_vars, main_and_shared
<1>2. Len(<<>>) = 0 OBVIOUS
<1>3. CASE \E active \in ActiveCounts, fast \in FastModes : Begin(active, fast)
  BY <1>3 DEF Begin
<1>4. CASE Submit
  <2>1. submitted + 1 \in TaskId BY <1>4, PoolFacts DEF Submit, TaskId
  <2>2. Len(Append(pending_tasks, submitted + 1)) = Len(pending_tasks) + 1 BY <2>1
  <2> QED BY <1>4, <2>2 DEF Submit
<1>5. CASE \E o \in {"wait", "end", "destroy"} : Request(o) BY <1>5 DEF Request
<1>6. CASE TryFastPhase \/ CountPhase BY <1>6 DEF TryFastPhase, CountPhase
<1>7. CASE Activate \/ Recount \/ Bump BY <1>7 DEF Activate, Recount, Bump
<1>8. CASE NotifyFast \/ MainPhase BY <1>8 DEF NotifyFast, MainPhase
<1>9. CASE Join BY <1>2, <1>9 DEF Join, ReturnFromWait, AfterWait
<1>10. CASE LeaveSession BY <1>10 DEF LeaveSession, EndFastSession
<1>11. CASE FlushPendingTasks BY <1>2, <1>11 DEF FlushPendingTasks
<1>12. CASE AfterFlush BY <1>12 DEF AfterFlush, AfterWait
<1>13. CASE NotifyWorkers BY <1>13 DEF NotifyWorkers
<1>14. CASE MainTake \/ MainRun BY <1>14 DEF MainTake, MainRun
<1>15. CASE MainDrained BY <1>15 DEF MainDrained, ReturnFromWait, AfterWait
<1>16. CASE Reconfigure \/ NotifyPark \/ ResetQueue
  BY <1>2, <1>16 DEF Reconfigure, NotifyPark, ResetQueue
<1>17. CASE Stop \/ NotifyStop \/ JoinThreads \/ MainSpuriousWake
  BY <1>17 DEF Stop, NotifyStop, JoinThreads, MainSpuriousWake
<1>18. ASSUME NEW w \in Worker, FastLane(w) \/ WorkerStart(w) \/ SpuriousWake(w)
       PROVE  EpochInv'
  <2>1. UNCHANGED main_and_shared
    BY <1>18 DEF FastLane, WorkerStart, SpuriousWake, LookForEpoch, Admit, SkipEpoch,
                EnterSession, CheckSession, CheckEpoch, BeginPhase, RunSlot, Acknowledge,
                ExitSession
  <2> QED BY <2>1
<1>19. ASSUME NEW w \in Worker, QueueLane(w) PROVE EpochInv'
  BY <1>19 DEF QueueLane, Gate, Spin, Relock, Block, WorkerRun
<1>20. CASE UNCHANGED vars BY <1>20 DEF vars
<1> QED BY <1>3, <1>4, <1>5, <1>6, <1>7, <1>8, <1>9, <1>10, <1>11, <1>12, <1>13, <1>14,
           <1>15, <1>16, <1>17, <1>18, <1>19, <1>20 DEF Next, Client, MainStep, WorkerStep

-----------------------------------------------------------------------------
\* An empty queue when it is relied upon.

LEMMA RunningFacts ==
    ASSUME TypeOK, PlacesInv
    PROVE  /\ IsFiniteSet(Running) /\ active_tasks \in Nat
           /\ Cardinality(Running) <= submitted
           /\ active_tasks = 0 => main_batch = {} /\ \A w \in Worker : wbatch[w] = {}
<1>1. IsFiniteSet(1..submitted) /\ Cardinality(1..submitted) = submitted
  BY MainTypes, FS_Interval
<1>2. Running \subseteq 1..submitted BY DEF PlacesInv, TasksInv
<1>3. /\ IsFiniteSet(Running) /\ Cardinality(Running) \in Nat
      /\ Cardinality(Running) <= submitted
      /\ Cardinality(Running) = 0 <=> Running = {}
  <2>1. IsFiniteSet(Running) /\ Cardinality(Running) <= submitted BY <1>1, <1>2, FS_Subset
  <2> QED BY <2>1, FS_CardinalityType, FS_EmptySet
<1>4. active_tasks = Cardinality(Running) BY DEF PlacesInv, TasksInv
<1>5. Running = {} => main_batch = {} /\ \A w \in Worker : wbatch[w] = {} BY DEF Running
<1> QED BY <1>3, <1>4, <1>5

LEMMA DrainedStep ==
    ASSUME TypeOK, ControlInv, PlacesInv, DrainedInv, [Next]_vars
    PROVE  DrainedInv'
<1> USE MainTypes DEF DrainedInv, Drained, ControlInv, InPhase, Publishing, ActiveWorkerCount,
                      main_vars, fast_vars, queue_vars, mode_vars, main_and_shared
<1>2. /\ active_tasks = 0 => main_batch = {} /\ \A w \in Worker : wbatch[w] = {}
      /\ Cardinality({}) = 0
  BY RunningFacts, FS_EmptySet
<1>3. CASE \E active \in ActiveCounts, fast \in FastModes : Begin(active, fast)
  BY <1>3 DEF Begin
<1>4. CASE Submit BY <1>4 DEF Submit
<1>5. CASE \E o \in {"wait", "end", "destroy"} : Request(o) BY <1>5 DEF Request
<1>6. CASE TryFastPhase \/ CountPhase BY <1>6 DEF TryFastPhase, CountPhase
<1>7. CASE Activate \/ Recount \/ Bump BY <1>7 DEF Activate, Recount, Bump
<1>8. CASE NotifyFast \/ MainPhase BY <1>8 DEF NotifyFast, MainPhase
<1>9. CASE Join BY <1>9 DEF Join, ReturnFromWait, AfterWait
<1>10. CASE LeaveSession BY <1>10 DEF LeaveSession, EndFastSession
<1>11. CASE FlushPendingTasks BY <1>11 DEF FlushPendingTasks
<1>12. CASE AfterFlush BY <1>12 DEF AfterFlush, AfterWait
<1>13. CASE NotifyWorkers BY <1>13 DEF NotifyWorkers
<1>14. CASE MainTake \/ MainRun
  <2>1. CASE MainTake BY <2>1 DEF MainTake
  <2>2. CASE MainRun
    <3>3. active_tasks' = active_tasks - Cardinality(main_batch) BY <2>2 DEF MainRun
    <3>4. active_tasks = 0 => Cardinality(main_batch) = 0 BY <1>2, Zenon
    <3>1. active_tasks = 0 => active_tasks' = 0 BY ONLY <3>3, <3>4
    <3>2. /\ mpc' = "drain"
          /\ UNCHANGED <<tasks, pending_tasks, fast_session_active, active_workers>>
      BY <2>2 DEF MainRun
    <3> QED BY <3>1, <3>2
  <2> QED BY <1>14, <2>1, <2>2
<1>15. CASE MainDrained BY <1>15 DEF MainDrained, ReturnFromWait, AfterWait
<1>16. CASE Reconfigure \/ NotifyPark \/ ResetQueue
  BY <1>16 DEF Reconfigure, NotifyPark, ResetQueue
<1>17. CASE Stop \/ NotifyStop \/ JoinThreads \/ MainSpuriousWake
  BY <1>17 DEF Stop, NotifyStop, JoinThreads, MainSpuriousWake
<1>18. ASSUME NEW w \in Worker, FastLane(w) \/ WorkerStart(w) \/ SpuriousWake(w)
       PROVE  DrainedInv'
  <2>1. UNCHANGED main_and_shared
    BY <1>18 DEF FastLane, WorkerStart, SpuriousWake, LookForEpoch, Admit, SkipEpoch,
                EnterSession, CheckSession, CheckEpoch, BeginPhase, RunSlot, Acknowledge,
                ExitSession
  <2> QED BY <2>1
<1>19. ASSUME NEW w \in Worker, QueueLane(w) PROVE DrainedInv'
  <2>1. CASE WorkerRun(w)
    <3>3. active_tasks' = active_tasks - Cardinality(wbatch[w]) BY <2>1 DEF WorkerRun
    <3>4. active_tasks = 0 => Cardinality(wbatch[w]) = 0 BY <1>2, Zenon
    <3>1. active_tasks = 0 => active_tasks' = 0 BY ONLY <3>3, <3>4
    <3>2. /\ mpc' \in {mpc, "drain"}
          /\ UNCHANGED <<tasks, pending_tasks, fast_session_active, active_workers>>
      BY <2>1 DEF WorkerRun
    <3> QED BY <3>1, <3>2
  <2>2. CASE Gate(w) BY <2>2 DEF Gate, WorkerTake
  <2>3. CASE Relock(w) BY <2>3 DEF Relock, WorkerTake
  <2>4. CASE Spin(w) \/ Block(w) BY <2>4 DEF Spin, Block
  <2> QED BY <1>19, <2>1, <2>2, <2>3, <2>4 DEF QueueLane
<1>20. CASE UNCHANGED vars BY <1>20 DEF vars
<1> QED BY <1>3, <1>4, <1>5, <1>6, <1>7, <1>8, <1>9, <1>10, <1>11, <1>12, <1>13, <1>14,
           <1>15, <1>16, <1>17, <1>18, <1>19, <1>20 DEF Next, Client, MainStep, WorkerStep

-----------------------------------------------------------------------------
(* Where the tasks are. *)

\* The size of a set of submitted tasks.
LEMMA SubmittedSize ==
    ASSUME NEW n \in Nat, NEW R, R \subseteq 1..n
    PROVE  IsFiniteSet(R) /\ Cardinality(R) \in 0..n
<1>1. IsFiniteSet(1..n) /\ Cardinality(1..n) = n BY FS_Interval
<1>2. IsFiniteSet(R) /\ Cardinality(R) <= n BY <1>1, FS_Subset
<1> QED BY <1>2, FS_CardinalityType

LEMMA DisjointUnion ==
    ASSUME NEW A, NEW B, IsFiniteSet(A), IsFiniteSet(B), A \cap B = {}
    PROVE  /\ Cardinality(A \cup B) = Cardinality(A) + Cardinality(B)
           /\ Cardinality((A \cup B) \ B) = Cardinality(A \cup B) - Cardinality(B)
<1>1. Cardinality(A) \in Nat /\ Cardinality(B) \in Nat BY FS_CardinalityType
<1>2. Cardinality(A \cup B) = Cardinality(A) + Cardinality(B) - Cardinality(A \cap B)
  BY FS_Union
<1>3. Cardinality(A \cap B) = 0 BY FS_EmptySet
<1>4. (A \cup B) \ B = A OBVIOUS
<1>5. Cardinality(A \cup B) = Cardinality(A) + Cardinality(B) BY <1>1, <1>2, <1>3
<1> QED BY <1>1, <1>4, <1>5

\* Running a set of tasks only adds to the counts.
LEMMA RunAllCounts ==
    ASSUME NEW set, runs \in [TaskId -> Nat], RunAll(set)
    PROVE  /\ runs' \in [TaskId -> Nat]
           /\ \A t \in TaskId : runs'[t] >= runs[t] /\ (t \in set => runs'[t] >= 1)
BY DEF RunAll

\* The tasks stay where they are, and some may have run.
LEMMA PlacesUnchanged ==
    ASSUME PlacesInv, submitted \in 0..MaxTasks, runs \in [TaskId -> Nat],
           UNCHANGED <<pending_tasks, tasks, main_batch, wbatch, active_tasks, submitted>>,
           \A t \in TaskId : runs'[t] \in Nat /\ runs'[t] >= runs[t],
           mpc = "run" => mpc' = "run",
           \A w \in Worker : wpc[w] = "run" => wpc'[w] = "run"
    PROVE  PlacesInv'
<1>1. Staged' = Staged /\ Running' = Running BY DEF Staged, Running
<1>2. 1..submitted \subseteq TaskId BY PoolFacts DEF TaskId
<1>3. \A t \in 1..submitted : runs'[t] = 0 => runs[t] = 0 BY <1>2
<1>4. TasksInv' BY <1>1, <1>3 DEF PlacesInv, TasksInv
<1>5. BatchesInv' BY DEF PlacesInv, BatchesInv
<1> QED BY <1>4, <1>5 DEF PlacesInv

\* Taking from the queue moves tasks into a batch.
LEMMA TakeTasks ==
    ASSUME TypeOK, TasksInv, TakeReadyTasksLocked, Running' = Running \cup Oldest,
           UNCHANGED <<pending_tasks, submitted, runs>>
    PROVE  TasksInv'
<1>1. Staged' = Staged /\ Oldest \subseteq tasks /\ tasks' = tasks \ Oldest
  BY DEF Staged, Oldest, TakeReadyTasksLocked
<1>2. active_tasks' = active_tasks + Cardinality(Oldest) BY DEF TakeReadyTasksLocked
<1>3. Cardinality(Running \cup Oldest) = Cardinality(Running) + Cardinality(Oldest)
  <2>1. Running \subseteq 1..submitted /\ Oldest \subseteq 1..submitted BY <1>1 DEF TasksInv
  <2>2. IsFiniteSet(Running) /\ IsFiniteSet(Oldest) BY <2>1, MainTypes, SubmittedSize
  <2>3. Running \cap Oldest = {} BY <1>1 DEF TasksInv
  <2> QED BY <2>2, <2>3, DisjointUnion
<1>4. active_tasks' = Cardinality(Running') BY <1>2, <1>3 DEF TasksInv
<1> QED BY <1>1, <1>4 DEF TasksInv

\* Completing a batch removes it from the running tasks.
LEMMA BatchRuns ==
    ASSUME TypeOK, TasksInv, NEW set, RunAll(set), set \subseteq Running,
           Running' = Running \ set, active_tasks' = active_tasks - Cardinality(set),
           UNCHANGED <<pending_tasks, tasks, submitted>>
    PROVE  TasksInv'
<1>1. Staged' = Staged BY DEF Staged
<1>2. Cardinality(Running \ set) = Cardinality(Running) - Cardinality(set)
  <2>1. Running \subseteq 1..submitted BY DEF TasksInv
  <2>2. IsFiniteSet(Running \ set) /\ IsFiniteSet(set) BY <2>1, MainTypes, SubmittedSize
  <2>3. (Running \ set) \cup set = Running /\ (Running \ set) \cap set = {} OBVIOUS
  <2> QED BY <2>2, <2>3, DisjointUnion
<1>3. active_tasks' = Cardinality(Running') BY <1>2 DEF TasksInv
<1>4. runs \in [TaskId -> Nat] /\ 1..submitted \subseteq TaskId
  BY PoolFacts DEF TypeOK, HistoryTypeOK, TaskId
<1>5. \A t \in 1..submitted : runs'[t] = 0 => runs[t] = 0 /\ t \notin set
  BY <1>4, RunAllCounts
<1> QED BY <1>1, <1>3, <1>5 DEF TasksInv

\* Once every worker of the session acknowledged the epoch, the staged tasks
\* have run: each slot belongs to Main or to one worker.
LEMMA PhaseCovers ==
    ASSUME TypeOK, PhaseInv, mpc = "join",
           \A w \in Worker : w < fast_worker_count => done_epoch[w] = fast_phase_epoch
    PROVE  \A t \in Staged : runs[t] >= 1
<1> SUFFICES ASSUME NEW j \in DOMAIN pending_tasks PROVE runs[pending_tasks[j]] >= 1
  BY DEF Staged
<1>1. j \in 1..Len(pending_tasks) /\ Len(pending_tasks) \in Nat BY MainTypes
<1>2. fast_worker_count \in Nat /\ fast_worker_count <= PoolSize /\ PoolSize \in Nat
  BY PoolFacts DEF TypeOK, SharedTypeOK
<1> DEFINE p == (j - 1) % Participants
<1>3. p \in 0..fast_worker_count BY <1>1, <1>2 DEF Participants
<1>4. Served(p, Len(pending_tasks))
  <2>1. CASE p = fast_worker_count BY <2>1 DEF PhaseInv
  <2>2. CASE p < fast_worker_count
    <3>1. p \in Worker BY <1>2, <1>3, <2>2, PoolFacts
    <3> QED BY <3>1, <2>2 DEF PhaseInv, ShareInv, Published
  <2> QED BY <1>2, <1>3, <2>1, <2>2
<1>5. j - 1 \in 0..(Len(pending_tasks) - 1) /\ j - 1 < Len(pending_tasks) /\ (j - 1) + 1 = j
  BY <1>1
<1> QED BY <1>4, <1>5 DEF Served

\* Main's steps that move no task.
LEMMA MainPlacesQuiet ==
    ASSUME TypeOK, PlacesInv,
           \/ \E active \in ActiveCounts, fast \in FastModes : Begin(active, fast)
           \/ \E o \in {"wait", "end", "destroy"} : Request(o)
           \/ TryFastPhase \/ CountPhase \/ Activate \/ Recount \/ Bump \/ NotifyFast
           \/ LeaveSession \/ AfterFlush \/ NotifyWorkers \/ MainDrained \/ Reconfigure
           \/ NotifyPark \/ Stop \/ NotifyStop \/ JoinThreads \/ MainSpuriousWake
    PROVE  PlacesInv'
<1> DEFINE Same == UNCHANGED <<pending_tasks, tasks, main_batch, wbatch, active_tasks,
                               submitted, runs>>
           Control == mpc # "run" /\ \A w \in Worker : wpc[w] = "run" => wpc'[w] = "run"
<1> USE DEF fast_vars, queue_vars, mode_vars
<1>1. CASE \/ \E active \in ActiveCounts, fast \in FastModes : Begin(active, fast)
           \/ \E o \in {"wait", "end", "destroy"} : Request(o)
           \/ TryFastPhase \/ CountPhase \/ Activate \/ Recount \/ Bump
  <2>1. Same /\ Control
    BY <1>1 DEF Begin, Request, TryFastPhase, CountPhase, Activate, Recount, Bump
  <2> QED BY <2>1, PlacesUnchanged DEF TypeOK, HistoryTypeOK
<1>2. CASE NotifyFast \/ NotifyWorkers \/ NotifyPark \/ NotifyStop
  <2>1. Same /\ Control
    BY <1>2 DEF NotifyFast, NotifyWorkers, NotifyPark, NotifyStop, Wake, Asleep
  <2> QED BY <2>1, PlacesUnchanged DEF TypeOK, HistoryTypeOK
<1>3. CASE LeaveSession \/ AfterFlush \/ MainDrained
  <2>1. Same /\ Control
    BY <1>3 DEF LeaveSession, EndFastSession, AfterFlush, MainDrained
  <2> QED BY <2>1, PlacesUnchanged DEF TypeOK, HistoryTypeOK
<1>4. CASE Reconfigure \/ Stop \/ JoinThreads \/ MainSpuriousWake
  <2>1. Same /\ Control BY <1>4 DEF Reconfigure, Stop, JoinThreads, MainSpuriousWake
  <2> QED BY <2>1, PlacesUnchanged DEF TypeOK, HistoryTypeOK
<1> QED BY <1>1, <1>2, <1>3, <1>4

\* Main's steps that stage, queue, take or run tasks.
LEMMA MainPlacesStep ==
    ASSUME TypeOK, ControlInv, PlacesInv, DrainedInv, PhaseInv,
           \/ Submit \/ MainPhase \/ Join \/ FlushPendingTasks \/ MainTake \/ MainRun
           \/ ResetQueue
    PROVE  PlacesInv'
<1> USE DEF fast_vars, queue_vars, mode_vars
<1>1. TasksInv /\ BatchesInv BY DEF PlacesInv
<1>2. runs \in [TaskId -> Nat] /\ submitted \in Nat /\ 1..submitted \subseteq TaskId
  BY PoolFacts DEF TypeOK, HistoryTypeOK, TaskId
<1>3. CASE Submit
  <2>1. Running' = Running /\ BatchesInv'
    BY <1>1, <1>3 DEF Submit, Running, BatchesInv
  <2>2. submitted' = submitted + 1 /\ submitted' \in TaskId /\ UNCHANGED <<tasks, active_tasks>>
    BY <1>2, <1>3, PoolFacts DEF Submit, TaskId
  <2>3. CASE ActiveWorkerCount = 0
    <3>1. Staged' = Staged BY <1>3, <2>3 DEF Submit, Staged
    <3>2. \A t \in TaskId : runs'[t] >= runs[t] /\ (t = submitted' => runs'[t] >= 1)
      BY <1>2, <1>3, <2>3, RunAllCounts DEF Submit
    <3>3. \A t \in 1..submitted' : runs'[t] = 0 => t \in 1..submitted /\ runs[t] = 0
      <4> SUFFICES ASSUME NEW t \in 1..submitted', runs'[t] = 0
                   PROVE  t \in 1..submitted /\ runs[t] = 0
        OBVIOUS
      <4>1. t \in TaskId BY <1>2, <2>2, PoolFacts DEF TaskId
      <4>2. t # submitted' BY <3>2, <4>1
      <4>3. t \in 1..submitted BY <1>2, <2>2, <4>2
      <4>4. runs[t] \in Nat /\ runs'[t] >= runs[t] BY <1>2, <3>2, <4>1
      <4> QED BY <4>3, <4>4
    <3>4. 1..submitted \subseteq 1..submitted' BY <1>2, <2>2
    <3>5. TasksInv' BY <1>1, <2>1, <2>2, <3>1, <3>3, <3>4 DEF TasksInv
    <3> QED BY <2>1, <3>5 DEF PlacesInv
  <2>4. CASE ActiveWorkerCount # 0
    <3>1. pending_tasks' = Append(pending_tasks, submitted') /\ runs' = runs
      BY <1>3, <2>4 DEF Submit
    <3>2. Staged' = Staged \cup {submitted'}
      <4>1. pending_tasks \in Seq(TaskId) /\ Len(pending_tasks) \in Nat BY MainTypes
      <4>2. /\ DOMAIN pending_tasks = 1..Len(pending_tasks)
            /\ DOMAIN pending_tasks' = 1..(Len(pending_tasks) + 1)
            /\ pending_tasks'[Len(pending_tasks) + 1] = submitted'
            /\ \A i \in 1..Len(pending_tasks) : pending_tasks'[i] = pending_tasks[i]
        BY <2>2, <3>1, <4>1
      <4>3. 1..(Len(pending_tasks) + 1) = 1..Len(pending_tasks) \cup {Len(pending_tasks) + 1}
        BY <4>1
      <4> QED BY <4>2, <4>3 DEF Staged
    <3>3. 1..submitted' = 1..submitted \cup {submitted'} /\ submitted' \notin 1..submitted
      BY <1>2, <2>2
    <3>4. TasksInv' BY <1>1, <2>1, <2>2, <3>1, <3>2, <3>3 DEF TasksInv
    <3> QED BY <2>1, <3>4 DEF PlacesInv
  <2> QED BY <2>3, <2>4
<1>4. CASE MainPhase
  <2>1. /\ UNCHANGED <<pending_tasks, tasks, main_batch, wbatch, active_tasks, submitted, wpc>>
        /\ mpc # "run"
    BY <1>4 DEF MainPhase
  <2>2. \A t \in TaskId : runs'[t] \in Nat /\ runs'[t] >= runs[t]
    BY <1>2, <1>4, RunAllCounts DEF MainPhase
  <2> QED BY <2>1, <2>2, PlacesUnchanged DEF TypeOK, HistoryTypeOK
<1>5. CASE Join
  <2>1. \A t \in Staged : runs[t] >= 1 BY <1>5, PhaseCovers DEF Join
  <2>2. /\ UNCHANGED <<tasks, main_batch, wbatch, active_tasks, submitted, runs, wpc>>
        /\ pending_tasks' = <<>> /\ mpc # "run"
    BY <1>5 DEF Join
  <2>3. Staged' = {} /\ Running' = Running BY <2>2 DEF Staged, Running
  <2>4. TasksInv' BY <1>1, <2>1, <2>2, <2>3 DEF TasksInv
  <2>5. BatchesInv' BY <1>1, <2>2 DEF BatchesInv
  <2> QED BY <2>4, <2>5 DEF PlacesInv
<1>6. CASE FlushPendingTasks
  <2>1. /\ UNCHANGED <<main_batch, wbatch, active_tasks, submitted, runs, wpc>>
        /\ tasks' = tasks \cup Staged /\ pending_tasks' = <<>> /\ mpc # "run"
    BY <1>6 DEF FlushPendingTasks, Staged
  <2>2. Staged' = {} /\ Running' = Running BY <2>1 DEF Staged, Running
  <2>3. TasksInv' BY <1>1, <2>1, <2>2 DEF TasksInv
  <2>4. BatchesInv' BY <1>1, <2>1 DEF BatchesInv
  <2> QED BY <2>3, <2>4 DEF PlacesInv
<1>7. CASE MainTake
  <2>1. /\ UNCHANGED <<pending_tasks, wbatch, submitted, runs, wpc>>
        /\ main_batch' = Oldest /\ mpc # "run" /\ mpc' = "run" /\ TakeReadyTasksLocked
    BY <1>7 DEF MainTake
  <2>2. main_batch = {} /\ Oldest \subseteq tasks BY <1>1, <2>1 DEF BatchesInv, Oldest
  <2>3. Running' = Running \cup Oldest BY <2>1, <2>2 DEF Running
  <2>4. TasksInv' BY <1>1, <2>1, <2>3, TakeTasks
  <2>5. \A w \in Worker : wbatch[w] \cap Oldest = {}
    BY <1>1, <2>2 DEF TasksInv, Running
  <2>6. BatchesInv' BY <1>1, <2>1, <2>5 DEF BatchesInv
  <2> QED BY <2>4, <2>6 DEF PlacesInv
<1>8. CASE MainRun
  <2>1. /\ UNCHANGED <<pending_tasks, tasks, wbatch, submitted, wpc>>
        /\ main_batch' = {} /\ RunAll(main_batch)
        /\ active_tasks' = active_tasks - Cardinality(main_batch)
    BY <1>8 DEF MainRun
  <2>2. Running' = Running \ main_batch /\ main_batch \subseteq Running
    BY <1>1, <2>1 DEF Running, BatchesInv
  <2>3. TasksInv' BY <1>1, <2>1, <2>2, BatchRuns
  <2>4. BatchesInv' BY <1>1, <2>1 DEF BatchesInv
  <2> QED BY <2>3, <2>4 DEF PlacesInv
<1>9. CASE ResetQueue
  <2>1. tasks = {} /\ pending_tasks = <<>> BY <1>9 DEF ResetQueue, DrainedInv, Drained, ControlInv
  <2>2. UNCHANGED <<pending_tasks, tasks, main_batch, wbatch, active_tasks, submitted, runs, wpc>>
    BY <1>9, <2>1 DEF ResetQueue
  <2> QED BY <1>2, <1>9, <2>2, PlacesUnchanged DEF ResetQueue, TypeOK, HistoryTypeOK
<1> QED BY <1>3, <1>4, <1>5, <1>6, <1>7, <1>8, <1>9

LEMMA WorkerPlacesStep ==
    ASSUME TypeOK, PlacesInv, NEW w \in Worker,
           WorkerStep(w) \/ WorkerStart(w) \/ SpuriousWake(w)
    PROVE  PlacesInv'
<1> USE DEF main_vars, fast_vars, queue_vars, mode_vars, main_and_shared, lane_vars
<1>1. TasksInv /\ BatchesInv /\ DOMAIN wpc = Worker /\ DOMAIN wbatch = Worker
  BY DEF PlacesInv, TypeOK, WorkerTypeOK
<1>2. runs \in [TaskId -> Nat] /\ submitted \in 0..MaxTasks BY DEF TypeOK, HistoryTypeOK
<1>3. CASE \/ WorkerStart(w) \/ SpuriousWake(w) \/ Spin(w) \/ Block(w) \/ LookForEpoch(w)
           \/ Admit(w) \/ SkipEpoch(w) \/ EnterSession(w) \/ CheckSession(w) \/ CheckEpoch(w)
           \/ BeginPhase(w) \/ Acknowledge(w) \/ ExitSession(w)
  <2>1. /\ UNCHANGED <<mpc, pending_tasks, tasks, main_batch, wbatch, active_tasks, submitted,
                       runs>>
        /\ wpc[w] # "run" /\ \A v \in Worker \ {w} : wpc'[v] = wpc[v]
    BY <1>1, <1>3 DEF WorkerStart, SpuriousWake, Spin, Block, LookForEpoch, Admit, SkipEpoch,
                EnterSession, CheckSession, CheckEpoch, BeginPhase, Acknowledge, ExitSession,
                Goto
  <2>2. \A v \in Worker : wpc[v] = "run" => wpc'[v] = "run" BY <2>1
  <2> QED BY <1>2, <2>1, <2>2, PlacesUnchanged
<1>4. CASE RunSlot(w)
  <2>1. UNCHANGED <<mpc, wpc, pending_tasks, tasks, main_batch, wbatch, active_tasks, submitted>>
    BY <1>4 DEF RunSlot
  <2>2. \A t \in TaskId : runs'[t] \in Nat /\ runs'[t] >= runs[t]
    BY <1>2, <1>4, RunAllCounts DEF RunSlot
  <2> QED BY <1>2, <2>1, <2>2, PlacesUnchanged
<1>5. ASSUME wpc[w] # "run", WorkerTake(w),
             UNCHANGED <<mpc, pending_tasks, main_batch, submitted, runs>>
      PROVE  PlacesInv'
  <2>1. /\ TakeReadyTasksLocked /\ wbatch' = [wbatch EXCEPT ![w] = Oldest]
        /\ wpc' = [wpc EXCEPT ![w] = "run"]
    BY <1>5 DEF WorkerTake, Goto
  <2>2. wbatch[w] = {} /\ Oldest \subseteq tasks BY <1>1, <1>5 DEF BatchesInv, Oldest
  <2>3. /\ wbatch'[w] = Oldest /\ wpc'[w] = "run"
        /\ \A v \in Worker \ {w} : wbatch'[v] = wbatch[v] /\ wpc'[v] = wpc[v]
    BY <1>1, <2>1
  <2>4. Running' = Running \cup Oldest BY <1>5, <2>2, <2>3 DEF Running
  <2>5. TasksInv' BY <1>1, <1>5, <2>1, <2>4, TakeTasks
  <2>6. /\ main_batch \cap Oldest = {}
        /\ \A v \in Worker : wbatch[v] \cap Oldest = {}
    BY <1>1, <2>2 DEF TasksInv, Running
  <2>7. BatchesInv' BY <1>1, <1>5, <2>3, <2>6 DEF BatchesInv
  <2> QED BY <2>5, <2>7 DEF PlacesInv
<1>6. CASE Gate(w) \/ Relock(w)
  <2>1. /\ wpc[w] # "run" /\ UNCHANGED <<mpc, pending_tasks, main_batch, submitted, runs>>
        /\ \/ WorkerTake(w)
           \/ /\ UNCHANGED <<tasks, active_tasks, wbatch>>
              /\ \A v \in Worker \ {w} : wpc'[v] = wpc[v]
    BY <1>1, <1>6 DEF Gate, Relock, Goto
  <2>2. CASE WorkerTake(w) BY <1>5, <2>1, <2>2
  <2>3. CASE /\ UNCHANGED <<tasks, active_tasks, wbatch>>
             /\ \A v \in Worker \ {w} : wpc'[v] = wpc[v]
    <3>1. \A v \in Worker : wpc[v] = "run" => wpc'[v] = "run" BY <2>1, <2>3
    <3> QED BY <1>2, <2>1, <2>3, <3>1, PlacesUnchanged
  <2> QED BY <2>1, <2>2, <2>3
<1>7. CASE WorkerRun(w)
  <2>1. /\ UNCHANGED <<pending_tasks, tasks, main_batch, submitted>>
        /\ RunAll(wbatch[w]) /\ active_tasks' = active_tasks - Cardinality(wbatch[w])
        /\ wbatch' = [wbatch EXCEPT ![w] = {}] /\ wpc' = [wpc EXCEPT ![w] = "loop"]
        /\ mpc = "run" => mpc' = "run"
    BY <1>7 DEF WorkerRun, Goto
  <2>2. /\ wbatch'[w] = {}
        /\ \A v \in Worker \ {w} : wbatch'[v] = wbatch[v] /\ wpc'[v] = wpc[v]
    BY <1>1, <2>1
  <2>3. Running' = Running \ wbatch[w] /\ wbatch[w] \subseteq Running
    BY <1>1, <2>1, <2>2 DEF Running, BatchesInv
  <2>4. TasksInv' BY <1>1, <2>1, <2>3, BatchRuns
  <2>5. BatchesInv' BY <1>1, <2>1, <2>2 DEF BatchesInv
  <2> QED BY <2>4, <2>5 DEF PlacesInv
<1> QED BY <1>3, <1>4, <1>6, <1>7 DEF WorkerStep, FastLane, QueueLane

-----------------------------------------------------------------------------
(* The shares of a phase. *)

\* Two slots of one participant that are less than a round apart are one.
LEMMA SameSlot ==
    ASSUME NEW n \in Nat \ {0}, NEW a \in Nat, NEW b \in Nat,
           a % n = b % n, a <= b, b < a + n
    PROVE  a = b
<1> DEFINE q == a \div n
           r == b \div n
           s == a % n
<1>1. a = n * q + s /\ b = n * r + s /\ q \in Nat /\ r \in Nat /\ s \in Nat OBVIOUS
<1> HIDE DEF q, r, s
<1>2. CASE r > q
  <2>1. n * r >= n * (q + 1) /\ n * (q + 1) = n * q + n BY <1>1, <1>2
  <2> QED BY <1>1, <2>1
<1>3. CASE r <= q
  <2>1. n * r <= n * q BY <1>1, <1>3
  <2> QED BY <1>1, <2>1
<1> QED BY <1>1, <1>2, <1>3

\* The next slot of a participant is one round further.
LEMMA NextSlot ==
    ASSUME NEW n \in Nat \ {0}, NEW a \in Nat
    PROVE  (a + n) % n = a % n
<1> DEFINE q == a \div n
           s == a % n
<1>1. a = n * q + s /\ q \in Nat /\ s \in 0..(n - 1) OBVIOUS
<1> HIDE DEF q, s
<1>2. a + n = n * (q + 1) + s /\ q + 1 \in Nat BY <1>1
<1>3. ASSUME NEW k \in Nat, NEW t \in 0..(n - 1) PROVE (n * k + t) % n = t OBVIOUS
<1> QED BY <1>1, <1>2, <1>3 DEF s

\* What the proofs about a phase use of the types.
LEMMA PhaseTypes ==
    ASSUME TypeOK
    PROVE  /\ fast_worker_count \in Nat /\ fast_task_count \in Nat /\ cursor \in Nat
           /\ Participants \in Nat \ {0} /\ Participants = fast_worker_count + 1
           /\ DOMAIN slot = Worker /\ DOMAIN count = Worker /\ DOMAIN stride = Worker
           /\ \A w \in Worker : w \in Nat /\ slot[w] \in Nat /\ count[w] \in Nat
           /\ runs \in [TaskId -> Nat]
           /\ \A i \in 1..Len(pending_tasks) : pending_tasks[i] \in TaskId
<1>1. \A i \in 1..Len(pending_tasks) : pending_tasks[i] \in TaskId BY DEF TypeOK, MainTypeOK
<1> QED BY <1>1, PoolFacts DEF TypeOK, MainTypeOK, SharedTypeOK, WorkerTypeOK, HistoryTypeOK, Participants

\* A worker is in a phase only while Main is, and then it belongs to the
\* session.
LEMMA InsidePhase ==
    ASSUME TypeOK, SessionInv, NEW w \in Worker, wpc[w] \in {"begin", "phase"}
    PROVE  /\ mpc \in {"bump_start", "notify_fast", "phase", "join"}
           /\ w < fast_worker_count /\ done_epoch[w] # fast_phase_epoch
BY LaneTypes DEF SessionInv, LaneInv, InLane, Publishing

\* Slots that were served stay served while the buffer is not touched.
LEMMA ServedKept ==
    ASSUME TypeOK, NEW p, NEW limit, Served(p, limit),
           UNCHANGED <<pending_tasks, fast_worker_count>>,
           \A t \in TaskId : runs'[t] \in Nat /\ runs'[t] >= runs[t]
    PROVE  Served(p, limit)'
<1> SUFFICES ASSUME NEW i \in 0..(Len(pending_tasks) - 1), i % Participants = p, i < limit
             PROVE  runs'[pending_tasks[i + 1]] >= 1
  BY DEF Served, Participants
<1>1. runs[pending_tasks[i + 1]] >= 1 BY DEF Served
<1>2. pending_tasks[i + 1] \in TaskId /\ runs[pending_tasks[i + 1]] \in Nat
  BY PhaseTypes, MainTypes
<1> QED BY <1>1, <1>2

\* Running one slot serves the participant up to its next one.
LEMMA ServedNext ==
    ASSUME TypeOK, NEW p \in Nat, NEW s \in 0..(Len(pending_tasks) - 1),
           s % Participants = p, Served(p, s),
           RunAll({pending_tasks[s + 1]}), UNCHANGED <<pending_tasks, fast_worker_count>>
    PROVE  /\ Served(p, s + Participants)'
           /\ (s + Participants) % Participants = p
<1>1. s \in Nat /\ Participants \in Nat \ {0} BY MainTypes, PhaseTypes
<1>2. \A t \in TaskId : runs'[t] \in Nat /\ runs'[t] >= runs[t]
  BY PhaseTypes, RunAllCounts
<1>3. Served(p, s)' BY <1>2, ServedKept
<1>4. pending_tasks[s + 1] \in TaskId BY PhaseTypes, MainTypes
<1>5. runs'[pending_tasks[s + 1]] >= 1 BY <1>4, PhaseTypes, RunAllCounts
<1>6. ASSUME NEW i \in 0..(Len(pending_tasks) - 1), i % Participants = p,
             i < s + Participants
      PROVE  runs'[pending_tasks[i + 1]] >= 1
  <2>1. CASE i < s BY <1>3, <1>6, <2>1 DEF Served, Participants
  <2>2. CASE i >= s
    <3>1. i \in Nat BY MainTypes
    <3>2. i = s BY <1>1, <1>6, <2>2, <3>1, SameSlot
    <3> QED BY <1>5, <3>2
  <2> QED BY <1>1, MainTypes, <2>1, <2>2
<1>7. (s + Participants) % Participants = p BY <1>1, NextSlot
<1> QED BY <1>6, <1>7 DEF Served, Participants

\* Nothing of a participant comes before its first slot.
LEMMA ServedFirst ==
    ASSUME TypeOK, NEW p \in 0..fast_worker_count
    PROVE  Served(p, p) /\ p % Participants = p
<1>1. p \in Nat /\ p < Participants /\ Participants \in Nat \ {0} BY PhaseTypes
<1>2. \A i \in Nat : i < Participants => i % Participants = i BY <1>1
<1>3. \A i \in 0..(Len(pending_tasks) - 1) : i \in Nat BY MainTypes
<1> QED BY <1>1, <1>2, <1>3 DEF Served

\* Outside a phase there is nothing to show.
LEMMA OutOfPhase ==
    ASSUME mpc' \notin InPhase \ {"count", "recount"}, \A w \in Worker : wpc'[w] # "phase"
    PROVE  PhaseInv'
BY DEF PhaseInv, ShareInv, Publishing, InPhase, Published

\* A step that leaves the phase alone, except for tasks that run.
LEMMA SamePhase ==
    ASSUME TypeOK, PhaseInv,
           UNCHANGED <<mpc, cursor, pending_tasks, fast_vars, slot, count, stride, done_epoch>>,
           \A t \in TaskId : runs'[t] \in Nat /\ runs'[t] >= runs[t],
           \A w \in Worker : wpc'[w] = "phase" => wpc[w] = "phase"
    PROVE  PhaseInv'
<1>1. \A i \in 0..(Len(pending_tasks) - 1) :
        runs[pending_tasks[i + 1]] >= 1 => runs'[pending_tasks[i + 1]] >= 1
  <2> SUFFICES ASSUME NEW i \in 0..(Len(pending_tasks) - 1), runs[pending_tasks[i + 1]] >= 1
               PROVE  runs'[pending_tasks[i + 1]] >= 1
    OBVIOUS
  <2>1. pending_tasks[i + 1] \in TaskId /\ runs[pending_tasks[i + 1]] \in Nat
    BY PhaseTypes, MainTypes
  <2> QED BY <2>1
<1>2. UNCHANGED <<fast_worker_count, fast_task_count, fast_phase_epoch>> /\ Participants' = Participants
  BY DEF Participants, fast_vars
<1>3. ASSUME NEW w \in Worker PROVE ShareInv(w)'
  <2>1. ShareInv(w) BY DEF PhaseInv
  <2>2. Served(w, slot[w]) => Served(w, slot[w])' BY <1>1, <1>2 DEF Served
  <2>3. Served(w, Len(pending_tasks)) => Served(w, Len(pending_tasks))'
    BY <1>1, <1>2 DEF Served
  <2> QED BY <1>2, <2>1, <2>2, <2>3 DEF ShareInv
<1>4. Served(fast_worker_count, cursor) => Served(fast_worker_count, cursor)'
  BY <1>1, <1>2 DEF Served
<1>5. Served(fast_worker_count, Len(pending_tasks))
        => Served(fast_worker_count, Len(pending_tasks))'
  BY <1>1, <1>2 DEF Served
<1> QED BY <1>2, <1>3, <1>4, <1>5 DEF PhaseInv

LEMMA MainPhaseStep ==
    ASSUME TypeOK, ControlInv, SessionInv, PhaseInv, Client \/ MainStep \/ MainSpuriousWake
    PROVE  PhaseInv'
<1> DEFINE Outside == mpc' \notin InPhase \ {"count", "recount"}
           Stays == \A w \in Worker : wpc'[w] = "phase" => wpc[w] = "phase"
<1> USE DEF fast_vars, lane_vars, mode_vars
<1>1. mpc \notin {"bump_start", "notify_fast", "phase", "join"} =>
            \A w \in Worker : wpc[w] # "phase"
  BY InsidePhase
<1>2. CASE Client
  <2>1. Outside /\ wpc' = wpc /\ mpc = "client"
    BY <1>2 DEF Client, Begin, Submit, Request, InPhase, Publishing
  <2> QED BY <1>1, <2>1, OutOfPhase
<1>3. CASE TryFastPhase
  <2>1. Outside /\ wpc' = wpc /\ mpc = "try"
    BY <1>3 DEF TryFastPhase, InPhase, Publishing
  <2> QED BY <1>1, <2>1, OutOfPhase
<1>4. CASE CountPhase
  <2>1. wpc' = wpc /\ mpc = "count" BY <1>4 DEF CountPhase
  <2>2. \A w \in Worker : wpc'[w] # "phase" BY <1>1, <2>1
  <2>3. CASE Outside BY <2>2, <2>3, OutOfPhase
  <2>4. CASE ~Outside
    <3>1. mpc' = "activate" /\ fast_task_count' = Len(pending_tasks')
      BY <1>4, <2>4 DEF CountPhase, InPhase, Publishing
    <3> QED BY <2>2, <3>1 DEF PhaseInv, ShareInv, Published
  <2> QED BY <2>3, <2>4
<1>5. CASE Activate
  <2>1. /\ mpc = "activate" /\ mpc' = "bump_start"
        /\ UNCHANGED <<wpc, fast_task_count, pending_tasks>>
    BY <1>5 DEF Activate
  <2>2. \A w \in Worker : wpc'[w] # "phase" BY <1>1, <2>1
  <2> QED BY <2>1, <2>2 DEF PhaseInv, ShareInv, Published, InPhase, Publishing
<1>6. CASE Recount
  <2>1. /\ mpc = "recount" /\ mpc' = "bump" /\ wpc' = wpc
        /\ fast_task_count' = Len(pending_tasks) /\ pending_tasks' = pending_tasks
    BY <1>6 DEF Recount
  <2>2. \A w \in Worker : wpc'[w] # "phase" BY <1>1, <2>1
  <2> QED BY <2>1, <2>2 DEF PhaseInv, ShareInv, Published
<1>7. CASE Bump
  <2>1. /\ mpc \in {"bump_start", "bump"} /\ mpc' \in {"notify_fast", "phase"}
        /\ cursor' = fast_worker_count /\ fast_phase_epoch' = fast_phase_epoch + 1
        /\ UNCHANGED <<fast_task_count, fast_worker_count, pending_tasks, runs, wpc, slot, count,
                       stride, done_epoch>>
    BY <1>7 DEF Bump
  <2>2. fast_task_count' = Len(pending_tasks') BY <2>1 DEF PhaseInv, InPhase, Publishing
  <2>3. Participants' = Participants BY <2>1 DEF Participants
  <2>4. ASSUME NEW w \in Worker PROVE ShareInv(w)'
    <3>1. done_epoch[w] < fast_phase_epoch + 1 BY LaneTypes DEF SessionInv, LaneInv
    <3>2. done_epoch'[w] # fast_phase_epoch' BY <2>1, <3>1, LaneTypes
    <3>3. Served(w, slot[w]) => Served(w, slot[w])' BY <2>1, <2>3 DEF Served
    <3>4. ShareInv(w) BY DEF PhaseInv
    <3> QED BY <2>1, <2>3, <3>2, <3>3, <3>4 DEF ShareInv
  <2>5. /\ Served(fast_worker_count, fast_worker_count)
        /\ fast_worker_count % Participants = fast_worker_count
    BY ServedFirst, PhaseTypes
  <2>6. Served(fast_worker_count, cursor)' BY <2>1, <2>3, <2>5 DEF Served
  <2> QED BY <2>1, <2>2, <2>3, <2>4, <2>5, <2>6 DEF PhaseInv
<1>8. CASE NotifyFast
  <2>1. /\ mpc = "notify_fast" /\ mpc' = "phase" /\ Stays
        /\ UNCHANGED <<cursor, fast_task_count, fast_worker_count, fast_phase_epoch, pending_tasks,
                       runs, slot, count, stride, done_epoch>>
    BY <1>8 DEF NotifyFast
  <2>2. Participants' = Participants BY <2>1 DEF Participants
  <2>3. ASSUME NEW w \in Worker PROVE ShareInv(w)'
    <3>1. ShareInv(w) BY DEF PhaseInv
    <3>2. Served(w, slot[w]) => Served(w, slot[w])' BY <2>1, <2>2 DEF Served
    <3>3. Served(w, Len(pending_tasks)) => Served(w, Len(pending_tasks))'
      BY <2>1, <2>2 DEF Served
    <3> QED BY <2>1, <2>2, <3>1, <3>2, <3>3 DEF ShareInv, Published
  <2>4. /\ Served(fast_worker_count, fast_worker_count)
        /\ fast_worker_count % Participants = fast_worker_count
    BY ServedFirst, PhaseTypes
  <2>5. cursor = fast_worker_count /\ fast_task_count = Len(pending_tasks)
    BY <2>1 DEF PhaseInv, InPhase, Publishing
  <2>6. Served(fast_worker_count, cursor)' BY <2>1, <2>2, <2>4, <2>5 DEF Served
  <2> QED BY <2>1, <2>2, <2>3, <2>4, <2>5, <2>6 DEF PhaseInv
<1>9. CASE MainPhase
  <2>1. /\ mpc = "phase"
        /\ UNCHANGED <<fast_vars, pending_tasks, wpc, lane_vars>>
    BY <1>9 DEF MainPhase
  <2>2. /\ cursor % Participants = fast_worker_count /\ Served(fast_worker_count, cursor)
        /\ fast_task_count = Len(pending_tasks)
    BY <2>1 DEF PhaseInv, InPhase, Publishing
  <2>3. Participants' = Participants BY <2>1 DEF Participants
  <2>4. ASSUME \A t \in TaskId : runs'[t] \in Nat /\ runs'[t] >= runs[t],
               mpc' \in Published, NEW w \in Worker
        PROVE  ShareInv(w)'
    <3>1. ShareInv(w) BY DEF PhaseInv
    <3>2. \A i \in 0..(Len(pending_tasks) - 1) :
            runs[pending_tasks[i + 1]] >= 1 => runs'[pending_tasks[i + 1]] >= 1
      <4>1. \A i \in 0..(Len(pending_tasks) - 1) : pending_tasks[i + 1] \in TaskId
        BY PhaseTypes, MainTypes
      <4> QED BY <2>4, <4>1, PhaseTypes
    <3>3. Served(w, slot[w]) => Served(w, slot[w])' BY <2>1, <2>3, <3>2 DEF Served
    <3>4. Served(w, Len(pending_tasks)) => Served(w, Len(pending_tasks))'
      BY <2>1, <2>3, <3>2 DEF Served
    <3> QED BY <2>1, <2>3, <3>1, <3>3, <3>4 DEF ShareInv, Published
  <2>5. CASE cursor < fast_task_count
    <3>1. /\ RunAll({pending_tasks[cursor + 1]}) /\ mpc' = "phase"
          /\ cursor' = cursor + Participants
      BY <1>9, <2>5, PhaseTypes DEF MainPhase
    <3>2. \A t \in TaskId : runs'[t] \in Nat /\ runs'[t] >= runs[t]
      BY <3>1, PhaseTypes, RunAllCounts
    <3>3. cursor \in 0..(Len(pending_tasks) - 1) BY <2>2, <2>5, PhaseTypes, MainTypes
    <3>4. PICK p, c : p = fast_worker_count /\ c = cursor OBVIOUS
    <3>5. /\ Served(p, c + Participants)'
          /\ (c + Participants) % Participants = p
      BY <2>1, <2>2, <3>1, <3>3, <3>4, ServedNext, PhaseTypes
    <3>7. /\ Served(fast_worker_count, cursor)'
          /\ (cursor + Participants) % Participants = fast_worker_count
      BY <2>1, <2>3, <3>1, <3>4, <3>5
    <3>6. \A w \in Worker : ShareInv(w)' BY <2>4, <3>1, <3>2 DEF Published
    <3> QED BY <2>1, <2>2, <2>3, <3>1, <3>6, <3>7 DEF PhaseInv
  <2>6. CASE ~(cursor < fast_task_count)
    <3>1. mpc' = "join" /\ runs' = runs BY <1>9, <2>6 DEF MainPhase
    <3>2. \A t \in TaskId : runs'[t] \in Nat /\ runs'[t] >= runs[t]
      BY <3>1, PhaseTypes
    <3>3. \A w \in Worker : ShareInv(w)' BY <2>4, <3>1, <3>2 DEF Published
    <3>4. \A i \in 0..(Len(pending_tasks) - 1) : i < cursor
      BY <2>2, <2>6, PhaseTypes, MainTypes
    <3>5. Served(fast_worker_count, Len(pending_tasks))'
      BY <2>1, <2>2, <2>3, <3>1, <3>4 DEF Served
    <3> QED BY <2>1, <2>2, <3>1, <3>3, <3>5 DEF PhaseInv
  <2> QED BY <2>5, <2>6
<1>10. CASE Join
  <2>1. mpc = "join" /\ wpc' = wpc /\ Outside
    BY <1>10 DEF Join, ReturnFromWait, AfterWait, InPhase, Publishing
  <2>2. \A w \in Worker : wpc[w] # "phase" BY <1>10, InsidePhase DEF Join
  <2> QED BY <2>1, <2>2, OutOfPhase
<1>11. CASE LeaveSession
  <2>1. wpc' = wpc /\ Outside /\ mpc \in {"exchange", "quiesce", "leave", "left"}
    BY <1>11 DEF LeaveSession, EndFastSession, InPhase, Publishing
  <2> QED BY <1>1, <2>1, OutOfPhase
<1>12. CASE FlushPendingTasks \/ AfterFlush
  <2>1. wpc' = wpc /\ Outside /\ mpc = "flush"
    BY <1>12 DEF FlushPendingTasks, AfterFlush, AfterWait, InPhase, Publishing
  <2> QED BY <1>1, <2>1, OutOfPhase
<1>13. CASE NotifyWorkers
  <2>1. Stays /\ Outside /\ mpc = "notify"
    BY <1>13 DEF NotifyWorkers, Wake, InPhase, Publishing
  <2> QED BY <1>1, <2>1, OutOfPhase
<1>14. CASE MainTake \/ MainRun \/ MainDrained \/ MainSpuriousWake
  <2>1. wpc' = wpc /\ Outside /\ mpc \in {"drain", "run", "asleep"}
    BY <1>14 DEF MainTake, MainRun, MainDrained, MainSpuriousWake, ReturnFromWait, AfterWait,
                 InPhase, Publishing
  <2> QED BY <1>1, <2>1, OutOfPhase
<1>15. CASE Reconfigure \/ ResetQueue \/ Stop \/ JoinThreads
  <2>1. wpc' = wpc /\ Outside /\ mpc \in {"reconfigure", "reset", "stop", "joining"}
    BY <1>15 DEF Reconfigure, ResetQueue, Stop, JoinThreads, InPhase, Publishing
  <2> QED BY <1>1, <2>1, OutOfPhase
<1>16. CASE NotifyPark \/ NotifyStop
  <2>1. Stays /\ Outside /\ mpc \in {"notify_park", "notify_stop"}
    BY <1>16 DEF NotifyPark, NotifyStop, InPhase, Publishing
  <2> QED BY <1>1, <2>1, OutOfPhase
<1> QED BY <1>2, <1>3, <1>4, <1>5, <1>6, <1>7, <1>8, <1>9, <1>10, <1>11, <1>12, <1>13, <1>14,
           <1>15, <1>16 DEF MainStep

LEMMA WorkerPhaseStep ==
    ASSUME TypeOK, SessionInv, PhaseInv, NEW w \in Worker,
           WorkerStep(w) \/ WorkerStart(w) \/ SpuriousWake(w)
    PROVE  PhaseInv'
<1> USE DEF main_vars, main_and_shared, fast_vars, lane_vars, mode_vars
<1>1. DOMAIN wpc = Worker /\ DOMAIN done_epoch = Worker BY LaneTypes
<1>2. runs' = runs => \A t \in TaskId : runs'[t] \in Nat /\ runs'[t] >= runs[t]
  BY PhaseTypes
<1>3. CASE \/ WorkerStart(w) \/ SpuriousWake(w) \/ LookForEpoch(w) \/ Admit(w) \/ SkipEpoch(w)
           \/ EnterSession(w) \/ CheckSession(w) \/ CheckEpoch(w) \/ ExitSession(w)
  <2>1. /\ UNCHANGED <<mpc, cursor, pending_tasks, fast_vars, slot, count, stride, done_epoch,
                       runs>>
        /\ \A v \in Worker : wpc'[v] = "phase" => wpc[v] = "phase"
    BY <1>1, <1>3 DEF WorkerStart, SpuriousWake, LookForEpoch, Admit, SkipEpoch, EnterSession,
                CheckSession, CheckEpoch, ExitSession, Goto
  <2> QED BY <1>2, <2>1, SamePhase
<1>4. CASE Gate(w) \/ Spin(w) \/ Relock(w) \/ Block(w)
  <2>1. /\ UNCHANGED <<mpc, cursor, pending_tasks, fast_vars, slot, count, stride, done_epoch,
                       runs>>
        /\ \A v \in Worker : wpc'[v] = "phase" => wpc[v] = "phase"
    BY <1>1, <1>4 DEF Gate, Spin, Relock, Block, WorkerTake, Goto
  <2> QED BY <1>2, <2>1, SamePhase
<1>5. CASE WorkerRun(w)
  <2>1. \A t \in TaskId : runs'[t] \in Nat /\ runs'[t] >= runs[t]
    BY <1>5, PhaseTypes, RunAllCounts DEF WorkerRun
  <2>2. CASE mpc' = mpc
    <3>1. /\ UNCHANGED <<mpc, cursor, pending_tasks, fast_vars, slot, count, stride, done_epoch>>
          /\ \A v \in Worker : wpc'[v] = "phase" => wpc[v] = "phase"
      BY <1>1, <1>5, <2>2 DEF WorkerRun, Goto
    <3> QED BY <2>1, <3>1, SamePhase
  <2>3. CASE mpc' # mpc
    <3>1. /\ mpc = "asleep" /\ mpc' = "drain"
          /\ \A v \in Worker : wpc'[v] = "phase" => wpc[v] = "phase"
      BY <1>1, <1>5, <2>3 DEF WorkerRun, Goto
    <3>2. \A v \in Worker : wpc'[v] # "phase" BY <3>1, InsidePhase
    <3> QED BY <3>1, <3>2, OutOfPhase DEF InPhase, Publishing
  <2> QED BY <2>2, <2>3
<1>6. CASE BeginPhase(w)
  <2>1. /\ UNCHANGED <<mpc, cursor, pending_tasks, fast_vars, done_epoch, runs>>
        /\ wpc[w] = "begin"
    BY <1>6 DEF BeginPhase
  <2>2. /\ count'[w] = fast_task_count /\ stride'[w] = fast_worker_count + 1 /\ slot'[w] = w
        /\ \A v \in Worker \ {w} : /\ wpc'[v] = wpc[v] /\ count'[v] = count[v]
                                   /\ stride'[v] = stride[v] /\ slot'[v] = slot[v]
    BY <1>1, <1>6, PhaseTypes DEF BeginPhase, Goto
  <2>3. Participants' = Participants BY <2>1 DEF Participants
  <2>4. w < fast_worker_count BY <2>1, InsidePhase
  <2>6. Served(w, w) /\ w % Participants = w BY <2>4, ServedFirst, PhaseTypes
  <2>7. ASSUME NEW v \in Worker PROVE ShareInv(v)'
    <3>1. ShareInv(v) BY DEF PhaseInv
    <3>2. Served(v, Len(pending_tasks)) => Served(v, Len(pending_tasks))'
      BY <2>1, <2>3 DEF Served
    <3>3. CASE v = w
      <4>1. Served(w, slot[w])' BY <2>1, <2>2, <2>3, <2>6 DEF Served
      <4> QED BY <2>1, <2>2, <2>3, <2>6, <3>1, <3>2, <3>3, <4>1, PhaseTypes
              DEF ShareInv, Participants
    <3>4. CASE v # w
      <4>1. Served(v, slot[v]) => Served(v, slot[v])' BY <2>1, <2>2, <2>3, <3>4 DEF Served
      <4> QED BY <2>1, <2>2, <2>3, <3>1, <3>2, <3>4, <4>1 DEF ShareInv
    <3> QED BY <3>3, <3>4
  <2>8. Served(fast_worker_count, cursor) => Served(fast_worker_count, cursor)'
    BY <2>1, <2>3 DEF Served
  <2>9. Served(fast_worker_count, Len(pending_tasks))
            => Served(fast_worker_count, Len(pending_tasks))'
    BY <2>1, <2>3 DEF Served
  <2> QED BY <2>1, <2>3, <2>7, <2>8, <2>9 DEF PhaseInv
<1>7. CASE RunSlot(w)
  <2>1. /\ UNCHANGED <<mpc, cursor, pending_tasks, fast_vars, wpc, count, stride, done_epoch>>
        /\ wpc[w] = "phase" /\ slot[w] < count[w] /\ RunAll({pending_tasks[slot[w] + 1]})
    BY <1>7 DEF RunSlot
  <2>2. /\ slot'[w] = slot[w] + stride[w]
        /\ \A v \in Worker \ {w} : slot'[v] = slot[v]
    BY <1>7, PhaseTypes DEF RunSlot
  <2>3. Participants' = Participants BY <2>1 DEF Participants
  <2>4. /\ mpc \in {"bump_start", "notify_fast", "phase", "join"}
        /\ fast_task_count = Len(pending_tasks)
    BY <2>1, InsidePhase DEF PhaseInv, InPhase, Publishing
  <2>5. /\ count[w] = fast_task_count /\ stride[w] = Participants
        /\ slot[w] % Participants = w /\ Served(w, slot[w])
    BY <2>1 DEF PhaseInv, ShareInv
  <2>6. slot[w] \in 0..(Len(pending_tasks) - 1)
    BY <2>1, <2>4, <2>5, PhaseTypes, MainTypes
  <2>7. PICK s : s = slot[w] OBVIOUS
  <2>8. Served(w, s + Participants)' /\ (s + Participants) % Participants = w
    BY <2>1, <2>5, <2>6, <2>7, ServedNext, PhaseTypes
  <2>9. Served(w, slot[w])' /\ slot'[w] % Participants = w
    BY <2>2, <2>3, <2>5, <2>7, <2>8 DEF Served
  <2>10. \A i \in 0..(Len(pending_tasks) - 1) :
            runs[pending_tasks[i + 1]] >= 1 => runs'[pending_tasks[i + 1]] >= 1
    <3>1. \A i \in 0..(Len(pending_tasks) - 1) : pending_tasks[i + 1] \in TaskId
      BY PhaseTypes, MainTypes
    <3>2. \A t \in TaskId : runs[t] >= 1 => runs'[t] >= 1
      <4>1. runs \in [TaskId -> Nat] BY PhaseTypes
      <4>2. \A t \in TaskId : runs[t] \in Nat /\ runs'[t] \in Nat /\ runs'[t] >= runs[t]
        BY <2>1, <4>1, RunAllCounts
      <4> QED BY ONLY <4>2
    <3> QED BY ONLY <3>1, <3>2
  <2>11. ASSUME NEW v \in Worker PROVE ShareInv(v)'
    <3>1. ShareInv(v) BY DEF PhaseInv
    <3>2. Served(v, Len(pending_tasks)) => Served(v, Len(pending_tasks))'
      BY ONLY <2>1, <2>3, <2>10 DEF Served, fast_vars
    <3>3. CASE v = w BY <2>1, <2>3, <2>9, <3>1, <3>2, <3>3 DEF ShareInv
    <3>4. CASE v # w
      <4>1. Served(v, slot[v]) => Served(v, slot[v])'
        BY <2>1, <2>2, <2>3, <2>10, <3>4 DEF Served
      <4> QED BY <2>1, <2>2, <2>3, <3>1, <3>2, <3>4, <4>1 DEF ShareInv
    <3> QED BY <3>3, <3>4
  <2>12. Served(fast_worker_count, cursor) => Served(fast_worker_count, cursor)'
    BY <2>1, <2>3, <2>10 DEF Served
  <2>13. Served(fast_worker_count, Len(pending_tasks))
            => Served(fast_worker_count, Len(pending_tasks))'
    BY <2>1, <2>3, <2>10 DEF Served
  <2> QED BY <2>1, <2>3, <2>11, <2>12, <2>13 DEF PhaseInv
<1>8. CASE Acknowledge(w)
  <2>1. /\ UNCHANGED <<mpc, cursor, pending_tasks, fast_vars, slot, count, stride, runs>>
        /\ wpc[w] = "phase" /\ slot[w] >= count[w]
    BY <1>8 DEF Acknowledge
  <2>2. /\ wpc'[w] = "session"
        /\ \A v \in Worker \ {w} : wpc'[v] = wpc[v] /\ done_epoch'[v] = done_epoch[v]
    BY <1>1, <1>8 DEF Acknowledge, Goto
  <2>3. Participants' = Participants BY <2>1 DEF Participants
  <2>4. fast_task_count = Len(pending_tasks)
    BY <2>1, InsidePhase DEF PhaseInv, InPhase, Publishing
  <2>5. count[w] = fast_task_count /\ Served(w, slot[w])
    BY <2>1 DEF PhaseInv, ShareInv
  <2>6. \A i \in 0..(Len(pending_tasks) - 1) : i < slot[w]
    BY <2>1, <2>4, <2>5, PhaseTypes, MainTypes
  <2>7. Served(w, Len(pending_tasks))' BY <2>1, <2>3, <2>5, <2>6 DEF Served
  <2>8. ASSUME NEW v \in Worker PROVE ShareInv(v)'
    <3>1. ShareInv(v) BY DEF PhaseInv
    <3>2. CASE v = w BY <2>1, <2>2, <2>7, <3>2 DEF ShareInv
    <3>3. CASE v # w
      <4>1. Served(v, slot[v]) => Served(v, slot[v])' BY <2>1, <2>3 DEF Served
      <4>2. Served(v, Len(pending_tasks)) => Served(v, Len(pending_tasks))'
        BY <2>1, <2>3 DEF Served
      <4> QED BY <2>1, <2>2, <2>3, <3>1, <3>3, <4>1, <4>2 DEF ShareInv
    <3> QED BY <3>2, <3>3
  <2>9. Served(fast_worker_count, cursor) => Served(fast_worker_count, cursor)'
    BY <2>1, <2>3 DEF Served
  <2>10. Served(fast_worker_count, Len(pending_tasks))
            => Served(fast_worker_count, Len(pending_tasks))'
    BY <2>1, <2>3 DEF Served
  <2> QED BY <2>1, <2>3, <2>8, <2>9, <2>10 DEF PhaseInv
<1> QED BY <1>3, <1>4, <1>5, <1>6, <1>7, <1>8 DEF WorkerStep, FastLane, QueueLane

-----------------------------------------------------------------------------
(* Types. *)

LEMMA MainOwnTypeStep ==
    ASSUME TypeOK, ControlInv, submitted' \in 0..MaxTasks, Client \/ MainStep \/ MainSpuriousWake
    PROVE  MainTypeOK'
<1> USE PoolFacts DEF TypeOK, MainTypeOK, SharedTypeOK, fast_vars, queue_vars, mode_vars,
                      ActiveWorkerCount
<1>1. CASE \E active \in ActiveCounts, fast \in FastModes : Begin(active, fast)
  BY <1>1 DEF Begin
<1>2. CASE Submit
  <2>1. submitted' \in TaskId BY <1>2 DEF Submit, HistoryTypeOK, TaskId
  <2>2. pending_tasks' \in Seq(TaskId)
    <3>1. pending_tasks' = Append(pending_tasks, submitted') \/ pending_tasks' = pending_tasks
      BY <1>2, Zenon DEF Submit
    <3>2. pending_tasks \in Seq(TaskId) OBVIOUS
    <3> QED BY ONLY <2>1, <3>1, <3>2
  <2> QED BY <1>2, <2>2 DEF Submit
<1>3. CASE \E o \in {"wait", "end", "destroy"} : Request(o) BY <1>3 DEF Request
<1>4. CASE TryFastPhase \/ CountPhase \/ Activate \/ Recount
  BY <1>4 DEF TryFastPhase, CountPhase, Activate, Recount
<1>5. CASE Bump \/ NotifyFast \/ MainPhase
  <2>1. CASE Bump BY <2>1 DEF Bump
  <2>2. CASE NotifyFast BY <2>2 DEF NotifyFast
  <2>3. CASE MainPhase BY <2>3 DEF MainPhase
  <2> QED BY <1>5, <2>1, <2>2, <2>3
<1>6. CASE Join
  <2>1. pending_tasks' \in Seq(TaskId) BY <1>6 DEF Join
  <2> QED BY <1>6, <2>1 DEF Join, ReturnFromWait, AfterWait
<1>7. CASE LeaveSession BY <1>7 DEF LeaveSession, EndFastSession
<1>8. CASE FlushPendingTasks
  <2>1. pending_tasks' \in Seq(TaskId) BY <1>8 DEF FlushPendingTasks
  <2>2. owed' \in 0..PoolSize BY <1>8, MainTypes DEF FlushPendingTasks
  <2> QED BY <1>8, <2>1, <2>2 DEF FlushPendingTasks
<1>9. CASE AfterFlush BY <1>9 DEF AfterFlush, AfterWait
<1>10. CASE NotifyWorkers
  <2>1. owed' \in 0..PoolSize BY <1>10 DEF NotifyWorkers, ControlInv
  <2> QED BY <1>10, <2>1 DEF NotifyWorkers
<1>11. CASE MainTake \/ MainRun BY <1>11 DEF MainTake, MainRun, Oldest
<1>12. CASE MainDrained \/ MainSpuriousWake
  BY <1>12 DEF MainDrained, MainSpuriousWake, ReturnFromWait, AfterWait
<1>13. CASE Reconfigure \/ NotifyPark BY <1>13 DEF Reconfigure, NotifyPark
<1>14. CASE ResetQueue
  <2>1. pending_tasks' \in Seq(TaskId) BY <1>14 DEF ResetQueue
  <2> QED BY <1>14, <2>1 DEF ResetQueue
<1>15. CASE Stop \/ NotifyStop \/ JoinThreads BY <1>15 DEF Stop, NotifyStop, JoinThreads
<1> QED BY <1>1, <1>2, <1>3, <1>4, <1>5, <1>6, <1>7, <1>8, <1>9, <1>10, <1>11, <1>12, <1>13,
           <1>14, <1>15 DEF Client, MainStep

LEMMA MainSharedTypeStep ==
    ASSUME TypeOK, ControlInv, EpochInv, active_tasks' \in 0..MaxTasks,
           Client \/ MainStep \/ MainSpuriousWake
    PROVE  SharedTypeOK'
<1> USE PoolFacts DEF TypeOK, SharedTypeOK, fast_vars, queue_vars, mode_vars,
                      ActiveWorkerCount
<1>1. CASE Client BY <1>1 DEF Client, Begin, Submit, Request, RunAll
<1>2. mpc \in InPhase =>
        \/ fast_phase_epoch + 1 <= MaxTasks /\ Len(pending_tasks) <= MaxTasks
        \/ mpc \in Published
  BY MainTypes DEF EpochInv, ControlInv, HistoryTypeOK, Epoch
<1>3. CASE CountPhase \/ Recount
  BY <1>2, <1>3, MainTypes
     DEF CountPhase, Recount, InPhase, Publishing, Published, Epoch
<1>4. CASE Bump BY <1>2, <1>4 DEF Bump, InPhase, Publishing, Published, Epoch
<1>5. CASE TryFastPhase \/ Activate \/ NotifyFast \/ MainPhase
  BY <1>5 DEF TryFastPhase, Activate, NotifyFast, MainPhase, RunAll
<1>6. CASE Join BY <1>6 DEF Join, ReturnFromWait
<1>7. CASE LeaveSession BY <1>7 DEF LeaveSession, EndFastSession
<1>8. CASE FlushPendingTasks
  <2>1. tasks' \subseteq TaskId BY <1>8, MainTypes DEF FlushPendingTasks
  <2> QED BY <1>8, <2>1 DEF FlushPendingTasks
<1>9. CASE AfterFlush \/ NotifyWorkers BY <1>9 DEF AfterFlush, NotifyWorkers
<1>10. CASE MainTake \/ MainRun \/ MainDrained \/ MainSpuriousWake
  BY <1>10 DEF MainTake, TakeReadyTasksLocked, MainRun, RunAll, MainDrained, ReturnFromWait,
               MainSpuriousWake
<1>11. CASE Reconfigure \/ NotifyPark \/ ResetQueue
  BY <1>11 DEF Reconfigure, NotifyPark, ResetQueue, MainTypeOK
<1>12. CASE Stop \/ NotifyStop \/ JoinThreads BY <1>12 DEF Stop, NotifyStop, JoinThreads
<1> QED BY <1>1, <1>3, <1>4, <1>5, <1>6, <1>7, <1>8, <1>9, <1>10, <1>11, <1>12 DEF MainStep

LEMMA RunAllTypes ==
    ASSUME TypeOK, NEW set, RunAll(set)
    PROVE  runs' \in [TaskId -> Nat] /\ worker_error' \in BOOLEAN /\ unreported' \in BOOLEAN
<1>1. runs' \in [TaskId -> Nat] BY RunAllCounts DEF TypeOK, HistoryTypeOK
<1>2. worker_error' \in BOOLEAN /\ unreported' \in BOOLEAN
  BY DEF RunAll, TypeOK, SharedTypeOK, HistoryTypeOK
<1> QED BY <1>1, <1>2

LEMMA MainOtherTypeStep ==
    ASSUME TypeOK, Client \/ MainStep \/ MainSpuriousWake
    PROVE  WorkerTypeOK' /\ HistoryTypeOK'
<1> USE PoolFacts DEF TypeOK, WorkerTypeOK, HistoryTypeOK, lane_vars
<1>1. CASE Client
  <2>1. CASE Submit
    <3>1. runs' \in [TaskId -> Nat] /\ unreported' \in BOOLEAN
      <4>1. CASE ActiveWorkerCount = 0 BY <2>1, <4>1, RunAllTypes DEF Submit
      <4>2. CASE ActiveWorkerCount # 0 BY <2>1, <4>2 DEF Submit
      <4> QED BY <4>1, <4>2
    <3>2. submitted' \in 0..MaxTasks BY <2>1 DEF Submit
    <3>3. UNCHANGED <<wpc, lane_vars, wbatch, calls>> BY <2>1 DEF Submit
    <3> QED BY <3>1, <3>2, <3>3
  <2>2. CASE ~Submit
    <3>1. /\ UNCHANGED <<wpc, lane_vars, wbatch, submitted, runs, unreported>>
          /\ calls' = calls \/ (calls < MaxCalls /\ calls' = calls + 1)
      <4>1. ASSUME NEW active \in ActiveCounts, NEW fast \in FastModes, Begin(active, fast)
            PROVE  <3>1
        BY <4>1 DEF Begin
      <4>2. ASSUME NEW o \in {"wait", "end", "destroy"}, Request(o) PROVE <3>1
        BY <4>2 DEF Request
      <4> QED BY ONLY <1>1, <2>2, <4>1, <4>2 DEF Client
    <3>2. calls' \in 0..MaxCalls BY <3>1
    <3> QED BY <3>1, <3>2
  <2> QED BY <2>1, <2>2
<1>2. CASE TryFastPhase \/ CountPhase \/ Activate \/ Recount \/ Bump
  BY <1>2 DEF TryFastPhase, CountPhase, Activate, Recount, Bump
<1>3. CASE NotifyFast \/ NotifyPark \/ NotifyStop
  BY <1>3 DEF NotifyFast, NotifyPark, NotifyStop
<1>4. CASE MainPhase \/ MainRun BY <1>4, RunAllTypes DEF MainPhase, MainRun
<1>5. CASE Join \/ MainDrained
  BY <1>5 DEF Join, MainDrained, ReturnFromWait, SharedTypeOK
<1>6. CASE LeaveSession \/ FlushPendingTasks \/ AfterFlush
  BY <1>6 DEF LeaveSession, FlushPendingTasks, AfterFlush
<1>7. CASE NotifyWorkers BY <1>7 DEF NotifyWorkers, Wake
<1>8. CASE MainTake \/ MainSpuriousWake \/ Reconfigure \/ ResetQueue \/ Stop \/ JoinThreads
  BY <1>8 DEF MainTake, MainSpuriousWake, Reconfigure, ResetQueue, Stop, JoinThreads
<1> QED BY <1>1, <1>2, <1>3, <1>4, <1>5, <1>6, <1>7, <1>8 DEF MainStep

\* A worker that goes to one of its places is at one of its places.
LEMMA GotoTypes ==
    ASSUME TypeOK, NEW w \in Worker,
           \/ Goto(w, "loop") \/ Goto(w, "session") \/ Goto(w, "begin") \/ Goto(w, "parked")
           \/ Goto(w, "spin") \/ Goto(w, "blocking") \/ Goto(w, "run") \/ Goto(w, "exited")
    PROVE  wpc' \in [Worker -> {"start", "loop", "admit", "skip", "enter", "session", "epoch",
                               "begin", "phase", "leave", "gate", "parked", "spin", "relock",
                               "blocking", "asleep", "run", "exited"}]
BY DEF Goto, TypeOK, WorkerTypeOK

LEMMA WorkerTypeStep ==
    ASSUME TypeOK, SessionInv, PhaseInv, active_tasks' \in 0..MaxTasks, NEW w \in Worker,
           WorkerStep(w) \/ WorkerStart(w) \/ SpuriousWake(w)
    PROVE  TypeOK'
<1> USE PoolFacts DEF main_and_shared, main_vars, fast_vars, mode_vars, queue_vars
<1>1. CASE FastLane(w) \/ WorkerStart(w) \/ SpuriousWake(w) \/ Spin(w) \/ Block(w)
  <2>1. MainTypeOK' /\ UNCHANGED main_and_shared
    BY <1>1 DEF TypeOK, MainTypeOK, FastLane, WorkerStart, SpuriousWake, LookForEpoch, Admit,
                SkipEpoch, EnterSession, CheckSession, CheckEpoch, BeginPhase, RunSlot,
                Acknowledge, ExitSession, Spin, Block
  <2>2. worker_error' \in BOOLEAN /\ HistoryTypeOK'
    <3>1. CASE RunSlot(w)
      BY <3>1, RunAllTypes DEF TypeOK, HistoryTypeOK, SharedTypeOK, RunSlot
    <3>2. CASE ~RunSlot(w)
      BY <1>1, <3>2
         DEF TypeOK, HistoryTypeOK, SharedTypeOK, FastLane, WorkerStart, SpuriousWake,
             LookForEpoch, Admit, SkipEpoch, EnterSession, CheckSession, CheckEpoch,
             BeginPhase, Acknowledge, ExitSession, Spin, Block
    <3> QED BY <3>1, <3>2
  <2>3. SharedTypeOK' BY <2>1, <2>2 DEF TypeOK, SharedTypeOK
  <2>4. WorkerTypeOK'
    <3> USE DEF TypeOK, WorkerTypeOK, SharedTypeOK, Goto, lane_vars
    <3>1. CASE SpuriousWake(w) \/ Spin(w) \/ Block(w) \/ LookForEpoch(w)
      BY <3>1 DEF SpuriousWake, Spin, Block, LookForEpoch
    <3>2. CASE Admit(w) \/ CheckSession(w) BY <3>2 DEF Admit, CheckSession
    <3>3. CASE WorkerStart(w) \/ SkipEpoch(w) \/ CheckEpoch(w)
      <4>4. /\ seen' = [seen EXCEPT ![w] = fast_phase_epoch]
            /\ fast_phase_epoch \in Epoch /\ seen \in [Worker -> Epoch]
        BY <3>3 DEF WorkerStart, SkipEpoch, CheckEpoch
      <4>1. seen' \in [Worker -> Epoch] BY ONLY <4>4
      <4>2. wpc' \in [Worker -> {"start", "loop", "admit", "skip", "enter", "session", "epoch",
                           "begin", "phase", "leave", "gate", "parked", "spin", "relock",
                           "blocking", "asleep", "run", "exited"}]
        <5>1. Goto(w, "loop") \/ Goto(w, "session") \/ Goto(w, "begin")
          BY <3>3 DEF WorkerStart, SkipEpoch, CheckEpoch
        <5> QED BY ONLY <5>1, GotoTypes, TypeOK, w \in Worker
      <4>3. UNCHANGED <<slot, count, stride, in_session, done_epoch, wbatch>>
        BY <3>3 DEF WorkerStart, SkipEpoch, CheckEpoch
      <4> QED BY <4>1, <4>2, <4>3
    <3>6. CASE EnterSession(w) BY <3>6 DEF EnterSession
    <3>7. CASE ExitSession(w) BY <3>7 DEF ExitSession
    <3>8. CASE Acknowledge(w) BY <3>8 DEF Acknowledge
    <3>4. CASE BeginPhase(w)
      <4>1. w \in 0..(MaxTasks + PoolSize + 1) BY DEF Worker
      <4>2. fast_worker_count + 1 \in 0..(PoolSize + 1) OBVIOUS
      <4> QED BY <3>4, <4>1, <4>2 DEF BeginPhase
    <3>5. CASE RunSlot(w)
      <4>1. stride[w] \in 0..(PoolSize + 1) /\ slot[w] \in Nat /\ count[w] \in 0..MaxTasks
            /\ slot[w] < count[w]
        BY <3>5 DEF RunSlot
      <4>2. slot[w] + stride[w] \in 0..(MaxTasks + PoolSize + 1) BY <4>1
      <4> QED BY <3>5, <4>2 DEF RunSlot
    <3> QED BY <1>1, <3>1, <3>2, <3>3, <3>4, <3>5, <3>6, <3>7, <3>8 DEF FastLane
  <2> QED BY <2>1, <2>2, <2>3, <2>4 DEF TypeOK
<1>2. CASE Gate(w) \/ Relock(w)
  <2>1. MainTypeOK' /\ HistoryTypeOK'
    <3>1. UNCHANGED <<main_vars, submitted, runs, unreported, worker_error, calls>>
      BY <1>2, Zenon DEF Gate, Relock
    <3> QED BY <3>1 DEF TypeOK, MainTypeOK, HistoryTypeOK
  <2>2. SharedTypeOK'
    BY <1>2 DEF TypeOK, SharedTypeOK, Gate, Relock, WorkerTake, TakeReadyTasksLocked
  <2>3. Oldest \subseteq TaskId BY DEF TypeOK, SharedTypeOK, Oldest
  <2>4. WorkerTypeOK'
    <3>1. \/ Goto(w, "loop") \/ Goto(w, "parked") \/ Goto(w, "spin") \/ Goto(w, "blocking")
          \/ Goto(w, "run") \/ Goto(w, "exited")
      BY <1>2 DEF Gate, Relock, WorkerTake
    <3>2. wbatch' = wbatch \/ wbatch' = [wbatch EXCEPT ![w] = Oldest]
      BY <1>2 DEF Gate, Relock, WorkerTake
    <3>3. UNCHANGED lane_vars BY <1>2 DEF Gate, Relock
    <3>4. wbatch' \in [Worker -> SUBSET TaskId] BY <2>3, <3>2 DEF TypeOK, WorkerTypeOK
    <3> QED BY <3>1, <3>3, <3>4, GotoTypes DEF TypeOK, WorkerTypeOK, lane_vars
  <2> QED BY <2>1, <2>2, <2>4 DEF TypeOK
<1>3. CASE WorkerRun(w)
  <2>1. MainTypeOK' BY <1>3 DEF TypeOK, MainTypeOK, WorkerRun
  <2>2. SharedTypeOK' BY <1>3 DEF TypeOK, SharedTypeOK, WorkerRun, RunAll
  <2>3. HistoryTypeOK' BY <1>3 DEF TypeOK, HistoryTypeOK, WorkerRun, RunAll
  <2>4. WorkerTypeOK' BY <1>3 DEF TypeOK, WorkerTypeOK, WorkerRun, Goto, lane_vars
  <2> QED BY <2>1, <2>2, <2>3, <2>4 DEF TypeOK
<1> QED BY <1>1, <1>2, <1>3 DEF WorkerStep, QueueLane

-----------------------------------------------------------------------------
(* The invariant. *)

LEMMA InitFacts == Init => IInv
<1> SUFFICES ASSUME Init PROVE IInv OBVIOUS
<1> USE PoolFacts DEF Init
<1>1. TypeOK
  <2>1. MainTypeOK BY DEF MainTypeOK
  <2>5. /\ 0 \in 0..MaxTasks /\ 0 \in 0..PoolSize /\ PoolSize \in 0..PoolSize
        /\ 0 \in 0..MaxCalls
    OBVIOUS
  <2>2. SharedTypeOK BY <2>5 DEF SharedTypeOK, Epoch
  <2>3. WorkerTypeOK BY DEF WorkerTypeOK, Epoch
  <2>4. HistoryTypeOK
    <3>1. runs \in [TaskId -> Nat] OBVIOUS
    <3>2. submitted = 0 /\ calls = 0 /\ unreported = FALSE OBVIOUS
    <3> QED BY ONLY <2>5, <3>1, <3>2 DEF HistoryTypeOK
  <2> QED BY <2>1, <2>2, <2>3, <2>4 DEF TypeOK
<1>2. ControlInv BY DEF ControlInv, InPhase, Publishing, Drained
<1>3. SessionInv BY DEF SessionInv, LaneInv, InLane, Publishing
<1>4. PlacesInv
  <2>1. Staged = {} /\ Running = {} BY DEF Staged, Running
  <2>2. TasksInv BY <2>1, FS_EmptySet DEF TasksInv
  <2> QED BY <2>2 DEF PlacesInv, BatchesInv
<1>5. DrainedInv BY DEF DrainedInv
<1>6. PhaseInv BY DEF PhaseInv, ShareInv, InPhase, Publishing, Published
<1>7. EpochInv BY DEF EpochInv, Published
<1> QED BY <1>1, <1>2, <1>3, <1>4, <1>5, <1>6, <1>7 DEF IInv

LEMMA InvStep == IInv /\ [Next]_vars => IInv'
<1> SUFFICES ASSUME IInv, [Next]_vars PROVE IInv' OBVIOUS
<1>1. /\ TypeOK /\ ControlInv /\ SessionInv /\ PlacesInv /\ DrainedInv /\ PhaseInv
      /\ EpochInv
  BY DEF IInv
<1>2. DrainedInv' /\ EpochInv' BY <1>1, DrainedStep, EpochStep
<1>3. active_workers = 0 => pending_tasks = <<>> BY <1>1 DEF DrainedInv
<1>4. submitted' \in 0..MaxTasks
  <2>1. \/ submitted' = submitted
        \/ submitted < MaxTasks /\ submitted' = submitted + 1
    <3> USE DEF main_and_shared, main_vars, fast_vars, queue_vars, mode_vars, lane_vars
    <3>1. CASE Client \/ MainSpuriousWake
      BY <3>1 DEF Client, Begin, Submit, Request, MainSpuriousWake
    <3>2. CASE MainStep
      BY <3>2 DEF MainStep, TryFastPhase, CountPhase, Activate, Recount, Bump, NotifyFast,
                  MainPhase, Join, LeaveSession, FlushPendingTasks, AfterFlush, NotifyWorkers,
                  MainTake, MainRun, MainDrained, Reconfigure, NotifyPark, ResetQueue, Stop,
                  NotifyStop, JoinThreads
    <3>3. ASSUME NEW w \in Worker, WorkerStep(w) \/ WorkerStart(w) \/ SpuriousWake(w)
          PROVE  submitted' = submitted
      BY <3>3 DEF WorkerStep, FastLane, QueueLane, WorkerStart, SpuriousWake, LookForEpoch,
                  Admit, SkipEpoch, EnterSession, CheckSession, CheckEpoch, BeginPhase, RunSlot,
                  Acknowledge, ExitSession, Gate, Spin, Relock, Block, WorkerRun
    <3>4. CASE UNCHANGED vars BY <3>4 DEF vars
    <3> QED BY <3>1, <3>2, <3>3, <3>4 DEF Next
  <2> QED BY <1>1, <2>1, PoolFacts DEF TypeOK, HistoryTypeOK
<1>5. ASSUME TasksInv' PROVE active_tasks' \in 0..MaxTasks
  <2>1. Running' \subseteq 1..submitted' /\ active_tasks' = Cardinality(Running')
    BY <1>5 DEF TasksInv
  <2>2. submitted' \in Nat /\ submitted' <= MaxTasks BY <1>4, PoolFacts
  <2>3. Cardinality(Running') \in 0..submitted' BY <2>1, <2>2, SubmittedSize
  <2> QED BY <2>1, <2>2, <2>3, PoolFacts
<1>6. CASE Client \/ MainStep \/ MainSpuriousWake
  <2>1. ControlInv' BY <1>1, <1>3, <1>6, MainControlStep
  <2>2. SessionInv' BY <1>1, <1>6, MainLaneStep
  <2>3. PlacesInv'
    BY <1>1, <1>6, MainPlacesQuiet, MainPlacesStep DEF Client, MainStep
  <2>4. PhaseInv' BY <1>1, <1>6, MainPhaseStep
  <2>5. active_tasks' \in 0..MaxTasks BY <1>5, <2>3 DEF PlacesInv
  <2>6. TypeOK'
    BY <1>1, <1>4, <1>6, <2>5, MainOwnTypeStep, MainSharedTypeStep, MainOtherTypeStep
       DEF TypeOK
  <2> QED BY <1>2, <2>1, <2>2, <2>3, <2>4, <2>6 DEF IInv
<1>7. ASSUME NEW w \in Worker, WorkerStep(w) \/ WorkerStart(w) \/ SpuriousWake(w)
      PROVE  IInv'
  <2>1. ControlInv' BY <1>1, <1>7, WorkerControlStep
  <2>2. SessionInv' BY <1>1, <1>7, LaneStep, QueueLaneStep DEF WorkerStep
  <2>3. PlacesInv' BY <1>1, <1>7, WorkerPlacesStep
  <2>4. PhaseInv' BY <1>1, <1>7, WorkerPhaseStep
  <2>5. active_tasks' \in 0..MaxTasks BY <1>5, <2>3 DEF PlacesInv
  <2>6. TypeOK' BY <1>1, <1>7, <2>5, WorkerTypeStep
  <2> QED BY <1>2, <2>1, <2>2, <2>3, <2>4, <2>6 DEF IInv
<1>8. CASE UNCHANGED vars
  <2>1. UNCHANGED <<main_vars, fast_vars, queue_vars, mode_vars, worker_error, wpc, lane_vars,
                    wbatch, submitted, runs, unreported, calls>>
    BY <1>8 DEF vars
  <2> USE <1>1, <2>1 DEF main_vars, fast_vars, queue_vars, mode_vars, lane_vars
  <2>2. TypeOK' BY DEF TypeOK, MainTypeOK, SharedTypeOK, WorkerTypeOK, HistoryTypeOK
  <2>3. ControlInv' BY DEF ControlInv
  <2>4. SessionInv' BY DEF SessionInv, LaneInv
  <2>5. PlacesInv' BY DEF PlacesInv, TasksInv, BatchesInv, Staged, Running
  <2>6. PhaseInv' BY DEF PhaseInv, ShareInv, Served, Participants
  <2> QED BY <1>2, <2>2, <2>3, <2>4, <2>5, <2>6 DEF IInv
<1> QED BY <1>6, <1>7, <1>8 DEF Next

\* The invariant holds for any pool, any calls and any number of tasks.
THEOREM Invariance == Spec => []IInv
BY InitFacts, InvStep, PTL DEF Spec

-----------------------------------------------------------------------------
(* What follows. *)

\* Every variable keeps its type: no counter leaves its range, and no slot or
\* epoch passes the number of tasks.
THEOREM TypeCorrect == Spec => []TypeOK
<1>1. IInv => TypeOK BY DEF IInv
<1> QED BY <1>1, Invariance, PTL

\* The staging buffer is neither refilled nor moved while a worker runs a
\* phase from it without a lock.
THEOREM BufferStable == Spec => []BufferIsStable
<1>1. IInv => BufferIsStable
  BY InsidePhase DEF IInv, BufferIsStable
<1> QED BY <1>1, Invariance, PTL

\* No worker is in the lock-free lane once endFastSession has returned.
THEOREM SessionOver == Spec => []SessionIsOver
<1>1. IInv => SessionIsOver
  BY InsidePhase DEF IInv, SessionIsOver, ControlInv, InPhase, Publishing
<1> QED BY <1>1, Invariance, PTL

\* resetForCall, resetQueue and the destructor change the configuration over
\* an empty queue, an empty buffer and no running batch.
THEOREM DrainedBeforeReconfigure == Spec => []DrainedWhenReconfigured
<1>1. IInv => DrainedWhenReconfigured
  <2> SUFFICES ASSUME IInv, mpc \in {"reconfigure", "notify_park", "reset", "stop"}
               PROVE  /\ tasks = {} /\ active_tasks = 0 /\ pending_tasks = <<>>
                      /\ \A w \in Worker : wbatch[w] = {}
    BY DEF DrainedWhenReconfigured
  <2>1. tasks = {} /\ active_tasks = 0 /\ pending_tasks = <<>>
    BY DEF IInv, DrainedInv, ControlInv, Drained
  <2> QED BY <2>1, RunningFacts DEF IInv
<1> QED BY <1>1, Invariance, PTL

\* Tasks that are neither queued nor in a batch, nor staged without having
\* run, have run.
LEMMA NowhereMeansRan ==
    ASSUME IInv, tasks = {}, active_tasks = 0, \A t \in Staged : runs[t] >= 1
    PROVE  \A t \in 1..submitted : runs[t] >= 1
<1>1. main_batch = {} /\ \A w \in Worker : wbatch[w] = {} BY RunningFacts DEF IInv
<1>2. Running = {} BY <1>1 DEF Running
<1>3. \A t \in 1..submitted : runs[t] = 0 => t \in Staged
  BY <1>2 DEF IInv, PlacesInv, TasksInv
<1>4. \A t \in 1..submitted : runs[t] \in Nat
  BY PoolFacts DEF IInv, TypeOK, HistoryTypeOK, TaskId
<1> QED BY <1>3, <1>4

\* Every wait is a barrier: when it returns, whichever path the tasks took and
\* however it ended, all submitted tasks have run.
THEOREM Barrier == Spec => WaitIsBarrier
<1>1. IInv /\ [Next]_vars =>
        [mpc # "client" /\ mpc' = "client" /\ op # "submit" =>
            \A t \in 1..submitted : runs'[t] >= 1]_vars
  <2> SUFFICES ASSUME IInv, Next, mpc # "client", mpc' = "client", op # "submit"
               PROVE  \A t \in 1..submitted : runs'[t] >= 1
    OBVIOUS
  <2> USE DEF main_and_shared, main_vars
  <2>1. Join \/ AfterFlush \/ MainDrained \/ ResetQueue
    <3>1. ASSUME NEW w \in Worker, WorkerStep(w) \/ WorkerStart(w) \/ SpuriousWake(w)
          PROVE  FALSE
      BY <3>1 DEF WorkerStep, FastLane, QueueLane, WorkerStart, SpuriousWake, LookForEpoch,
                  Admit, SkipEpoch, EnterSession, CheckSession, CheckEpoch, BeginPhase, RunSlot,
                  Acknowledge, ExitSession, Gate, Spin, Relock, Block, WorkerRun
    <3>2. Client \/ MainStep \/ MainSpuriousWake BY <3>1 DEF Next
    <3> QED
      BY <3>2 DEF Client, Begin, Submit, Request, MainSpuriousWake, MainStep, TryFastPhase,
                  CountPhase, Activate, Recount, Bump, NotifyFast, MainPhase, LeaveSession,
                  EndFastSession, FlushPendingTasks, NotifyWorkers, MainTake, MainRun,
                  Reconfigure, NotifyPark, Stop, NotifyStop, JoinThreads
  <2>2. runs' = runs BY <2>1 DEF Join, AfterFlush, MainDrained, ResetQueue
  <2>3. CASE Join
    <3>1. tasks = {} /\ active_tasks = 0
      BY <2>3 DEF Join, IInv, DrainedInv, ControlInv, InPhase, Publishing
    <3>2. \A t \in Staged : runs[t] >= 1 BY <2>3, PhaseCovers DEF Join, IInv
    <3> QED BY <2>2, <3>1, <3>2, NowhereMeansRan
  <2>4. CASE AfterFlush \/ MainDrained \/ ResetQueue
    <3>1. tasks = {} /\ active_tasks = 0 /\ pending_tasks = <<>>
      <4>1. CASE AfterFlush
        <5>1. ~(active_workers > 0) BY <4>1 DEF AfterFlush, ActiveWorkerCount
        <5>2. active_workers = 0 BY <5>1, MainTypes DEF IInv
        <5> QED BY <5>2 DEF IInv, DrainedInv
      <4>2. CASE MainDrained
        <5>1. pending_tasks = <<>> BY <4>2 DEF MainDrained, IInv, ControlInv
        <5> QED BY <4>2, <5>1 DEF MainDrained
      <4>3. CASE ResetQueue BY <4>3 DEF ResetQueue, IInv, DrainedInv, ControlInv, Drained
      <4> QED BY <2>4, <4>1, <4>2, <4>3
    <3>2. Staged = {} BY <3>1 DEF Staged
    <3> QED BY <2>2, <3>1, <3>2, NowhereMeansRan
  <2> QED BY <2>1, <2>3, <2>4
<1> QED BY <1>1, Invariance, PTL DEF Spec, WaitIsBarrier

-----------------------------------------------------------------------------
(* Exceptions. *)

LEMMA ErrorStep ==
    ASSUME IInv, ErrorInv, [Next]_vars, 0 \notin ActiveCounts
    PROVE  ErrorInv'
<1> USE DEF ErrorInv, ErrorIsKept, main_and_shared, main_vars, mode_vars
<1>1. /\ active_workers \in Nat /\ config.active \in Nat
      /\ worker_error \in BOOLEAN /\ unreported \in BOOLEAN
  BY PoolFacts DEF IInv, TypeOK, SharedTypeOK, MainTypeOK, HistoryTypeOK
<1>2. CASE \E active \in ActiveCounts, fast \in FastModes : Begin(active, fast)
  <2>1. PICK active \in ActiveCounts, fast \in FastModes : Begin(active, fast) BY <1>2
  <2>2. active > 0 BY PoolFacts
  <2>3. config'.active = active BY <2>1 DEF Begin
  <2> QED BY <2>1, <2>2, <2>3 DEF Begin
<1>3. ASSUME NEW set, RunAll(set), UNCHANGED <<active_workers, config>>,
             mpc' \notin {"reconfigure", "notify_park", "reset"} \/ (set = {} /\ mpc' = mpc)
      PROVE  ErrorInv'
  <2>1. CASE set = {}
    <3>1. set \cap Throwing = {} BY <2>1
    <3>2. worker_error' = worker_error /\ unreported' = unreported
      BY <1>1, <1>3, <3>1 DEF RunAll
    <3> QED BY <1>3, <3>2
  <2>2. CASE set # {}
    <3>1. unreported' => worker_error' BY <1>3 DEF RunAll
    <3> QED BY <1>3, <2>2, <3>1
  <2> QED BY <2>1, <2>2
<1>4. CASE Submit
  <2>1. RunAll({submitted'}) \/ UNCHANGED <<worker_error, unreported>> BY <1>4 DEF Submit
  <2>2. mpc' \in {"client", "flush"} /\ UNCHANGED <<active_workers, config>>
    BY <1>4 DEF Submit
  <2> QED BY <2>1, <2>2, <1>3
<1>5. CASE MainPhase
  <2>1. \/ RunAll({pending_tasks[cursor + 1]})
        \/ UNCHANGED <<worker_error, unreported>>
    BY <1>5 DEF MainPhase
  <2>2. mpc' \in {"phase", "join"} /\ UNCHANGED <<active_workers, config>>
    BY <1>5 DEF MainPhase
  <2> QED BY <2>1, <2>2, <1>3
<1>6. CASE MainRun
  <2>1. /\ RunAll(main_batch) /\ mpc' = "drain" /\ UNCHANGED <<active_workers, config>>
    BY <1>6 DEF MainRun
  <2> QED BY <2>1, <1>3
<1>7. CASE Join \/ MainDrained
  <2>1. \/ ReturnFromWait
        \/ mpc' = "asleep" /\ UNCHANGED <<worker_error, unreported>>
    BY <1>7 DEF Join, MainDrained
  <2>2. UNCHANGED <<active_workers, config>> BY <1>7 DEF Join, MainDrained
  <2>3. ReturnFromWait => ~unreported'
    <3>1. ReturnFromWait => unreported' = (unreported /\ ~worker_error) BY DEF ReturnFromWait
    <3>2. ~(unreported /\ ~worker_error) OBVIOUS
    <3> QED BY ONLY <3>1, <3>2
  <2>4. CASE ReturnFromWait BY <2>2, <2>3, <2>4
  <2>5. CASE ~ReturnFromWait BY <2>1, <2>2, <2>5
  <2> QED BY <2>4, <2>5
<1>8. CASE AfterFlush
  <2>1. mpc' \in {"drain", "client"}
    BY <1>8 DEF AfterFlush, AfterWait, ActiveWorkerCount
  <2>2. UNCHANGED <<active_workers, config, worker_error, unreported>> BY <1>8 DEF AfterFlush
  <2> QED BY <2>1, <2>2
<1>9. CASE Reconfigure BY <1>9 DEF Reconfigure
<1>10. CASE NotifyPark \/ ResetQueue BY <1>10 DEF NotifyPark, ResetQueue
<1>11. CASE \/ \E o \in {"wait", "end", "destroy"} : Request(o)
            \/ TryFastPhase \/ CountPhase \/ Activate \/ Recount \/ Bump \/ NotifyFast
            \/ LeaveSession \/ FlushPendingTasks \/ NotifyWorkers \/ MainTake
            \/ MainSpuriousWake \/ Stop \/ NotifyStop \/ JoinThreads
  <2>1. /\ mpc' \notin {"reconfigure", "notify_park", "reset"}
        /\ UNCHANGED <<active_workers, config, worker_error, unreported>>
    BY <1>11 DEF Request, TryFastPhase, CountPhase, Activate, Recount, Bump, NotifyFast,
                 LeaveSession, EndFastSession, FlushPendingTasks, NotifyWorkers, MainTake,
                 MainSpuriousWake, Stop, NotifyStop, JoinThreads
  <2> QED BY <2>1
<1>12. ASSUME NEW w \in Worker, RunSlot(w) PROVE ErrorInv'
  <2>1. mpc \in {"bump_start", "notify_fast", "phase", "join"}
    BY <1>12, InsidePhase DEF RunSlot, IInv
  <2>2. /\ RunAll({pending_tasks[slot[w] + 1]}) /\ mpc' = mpc
        /\ UNCHANGED <<active_workers, config>>
    BY <1>12 DEF RunSlot
  <2> QED BY <2>1, <2>2, <1>3
<1>13. ASSUME NEW w \in Worker, WorkerRun(w) PROVE ErrorInv'
  <2>1. /\ RunAll(wbatch[w]) /\ UNCHANGED <<active_workers, config>>
        /\ mpc' = mpc \/ mpc' = "drain"
    BY <1>13 DEF WorkerRun
  <2>2. mpc \in {"reconfigure", "notify_park", "reset"} => wbatch[w] = {}
    BY RunningFacts DEF IInv, DrainedInv, Drained
  <2> QED BY <2>1, <2>2, <1>3
<1>14. ASSUME NEW w \in Worker, WorkerStep(w) \/ WorkerStart(w) \/ SpuriousWake(w),
              ~RunSlot(w), ~WorkerRun(w)
       PROVE  ErrorInv'
  <2>1. UNCHANGED <<mpc, active_workers, config, worker_error, unreported>>
    BY <1>14 DEF WorkerStep, FastLane, QueueLane, WorkerStart, SpuriousWake, LookForEpoch,
                 Admit, SkipEpoch, EnterSession, CheckSession, CheckEpoch, BeginPhase,
                 Acknowledge, ExitSession, Gate, Spin, Relock, Block
  <2> QED BY <2>1
<1>15. CASE UNCHANGED vars BY <1>15 DEF vars
<1> QED BY <1>2, <1>4, <1>5, <1>6, <1>7, <1>8, <1>9, <1>10, <1>11, <1>12, <1>13, <1>14, <1>15
        DEF Next, Client, MainStep

\* With at least one active worker in every call, the first exception of a drain
\* stays recorded until a wait has rethrown it.  (With none, wait returns before it looks,
\* and resetQueue then drops the record.)
THEOREM ErrorKept ==
    ASSUME 0 \notin ActiveCounts
    PROVE  Spec => []ErrorIsKept
<1>1. Init => ErrorInv BY PoolFacts DEF Init, ErrorInv, ErrorIsKept
<1>2. IInv /\ ErrorInv /\ [Next]_vars => ErrorInv' BY ErrorStep
<1>3. ErrorInv => ErrorIsKept BY DEF ErrorInv
<1> QED BY <1>1, <1>2, <1>3, Invariance, PTL DEF Spec

-----------------------------------------------------------------------------
(* The park gate. *)

\* Before the first call is set up there is nothing to run.
LEMMA NothingToRun ==
    ASSUME IInv, FirstCallInv, FirstCallPending
    PROVE  /\ main_batch = {} /\ pending_tasks = <<>> /\ \A w \in Worker : wbatch[w] = {}
           /\ mpc \notin InPhase /\ \A w \in Worker : wpc[w] # "phase"
<1>1. Staged \cup tasks \cup Running \subseteq 1..submitted BY DEF IInv, PlacesInv, TasksInv
<1>2. 1..submitted = {} BY DEF FirstCallInv
<1>3. Staged = {} /\ Running = {} BY <1>1, <1>2
<1>4. pending_tasks = <<>>
  <2>1. pending_tasks \in Seq(TaskId) BY DEF IInv, TypeOK, MainTypeOK
  <2>2. DOMAIN pending_tasks = {} BY <1>3 DEF Staged
  <2> QED BY <2>1, <2>2
<1>5. main_batch = {} /\ \A w \in Worker : wbatch[w] = {} BY <1>3 DEF Running
<1>6. mpc \notin InPhase BY <1>4 DEF IInv, ControlInv
<1>7. \A w \in Worker : wpc[w] # "phase"
  BY <1>6, InsidePhase DEF IInv, InPhase, Publishing
<1> QED BY <1>4, <1>5, <1>6, <1>7

\* Running nothing raises nothing.
LEMMA NothingRaised ==
    ASSUME TypeOK, RunAll({})
    PROVE  worker_error' = worker_error
BY DEF RunAll, TypeOK, SharedTypeOK

\* The first call is set up by the notification, and stays so.
LEMMA MainFirstCall ==
    ASSUME IInv, FirstCallInv, Client \/ MainStep \/ MainSpuriousWake
    PROVE  /\ FirstCallInv'
           /\ FirstCallPending => FirstCallPending' \/ NotifyPark
           /\ mpc = "notify_park" => NotifyPark
<1> USE DEF FirstCallPending, FirstCallInv
<1>1. calls \in Nat /\ TypeOK BY DEF IInv, TypeOK, HistoryTypeOK
<1>2. CASE \E active \in ActiveCounts, fast \in FastModes : Begin(active, fast)
  BY <1>1, <1>2 DEF Begin
<1>3. CASE Submit \/ \E o \in {"wait", "end", "destroy"} : Request(o)
  BY <1>1, <1>3 DEF Submit, Request
<1>4. CASE TryFastPhase \/ CountPhase \/ Activate \/ Recount \/ Bump \/ NotifyFast
  BY <1>1, <1>4 DEF TryFastPhase, CountPhase, Activate, Recount, Bump, NotifyFast
<1>5. CASE MainPhase \/ Join
  <2>1. mpc \in InPhase BY <1>5 DEF MainPhase, Join, InPhase, Publishing
  <2>2. ~FirstCallPending BY <2>1, NothingToRun
  <2>3. ~FirstCallPending'
    BY <1>1, <1>5, <2>2 DEF MainPhase, Join, ReturnFromWait, AfterWait
  <2> QED BY <1>1, <1>5, <2>2, <2>3 DEF MainPhase, Join
<1>6. CASE LeaveSession \/ FlushPendingTasks \/ NotifyWorkers \/ MainTake
  BY <1>1, <1>6 DEF LeaveSession, EndFastSession, FlushPendingTasks, NotifyWorkers, MainTake
<1>7. CASE AfterFlush
  BY <1>1, <1>7 DEF AfterFlush, AfterWait
<1>8. CASE MainRun
  <2>1. FirstCallPending => worker_error' = worker_error
    <3> SUFFICES ASSUME FirstCallPending PROVE worker_error' = worker_error OBVIOUS
    <3>1. RunAll({}) BY <1>8, NothingToRun DEF MainRun
    <3> QED BY <1>1, <3>1, NothingRaised
  <2> QED BY <1>1, <1>8, <2>1 DEF MainRun
<1>9. CASE MainDrained
  BY <1>1, <1>9 DEF MainDrained, ReturnFromWait, AfterWait
<1>10. CASE MainSpuriousWake \/ Reconfigure \/ NotifyPark \/ ResetQueue
  BY <1>1, <1>10 DEF MainSpuriousWake, Reconfigure, NotifyPark, ResetQueue
<1>11. CASE Stop \/ NotifyStop \/ JoinThreads
  BY <1>1, <1>11 DEF Stop, NotifyStop, JoinThreads
<1> QED BY <1>2, <1>3, <1>4, <1>5, <1>6, <1>7, <1>8, <1>9, <1>10, <1>11 DEF Client, MainStep

\* A worker changes nothing of it.
LEMMA WorkerFirstCall ==
    ASSUME IInv, FirstCallInv, NEW w \in Worker, WorkerStep(w) \/ WorkerStart(w) \/ SpuriousWake(w)
    PROVE  /\ FirstCallInv'
           /\ FirstCallPending' <=> FirstCallPending
           /\ active_workers' = active_workers
           /\ mpc' = "notify_park" <=> mpc = "notify_park"
<1> USE DEF FirstCallPending, FirstCallInv
<1>1. TypeOK BY DEF IInv
<1>2. CASE WorkerRun(w)
  <2>1. /\ UNCHANGED <<calls, op, submitted, active_workers>>
        /\ mpc' = mpc \/ (mpc = "asleep" /\ mpc' = "drain")
        /\ RunAll(wbatch[w])
    BY <1>2 DEF WorkerRun, mode_vars
  <2>2. FirstCallPending => worker_error' = worker_error
    <3> SUFFICES ASSUME FirstCallPending PROVE worker_error' = worker_error OBVIOUS
    <3>1. RunAll({}) BY <2>1, NothingToRun
    <3> QED BY <1>1, <3>1, NothingRaised
  <2> QED BY <2>1, <2>2
<1>3. CASE RunSlot(w)
  <2>1. ~FirstCallPending BY <1>3, NothingToRun DEF RunSlot
  <2>2. UNCHANGED <<calls, op, submitted, active_workers, mpc>>
    BY <1>3 DEF RunSlot, main_and_shared, main_vars, mode_vars
  <2> QED BY <2>1, <2>2
<1>4. CASE Gate(w) \/ Relock(w) \/ Spin(w) \/ Block(w) \/ SpuriousWake(w)
  <2>1. UNCHANGED <<calls, op, submitted, active_workers, mpc, worker_error>>
    BY <1>4 DEF Gate, Relock, Spin, Block, SpuriousWake, main_and_shared, main_vars, mode_vars
  <2> QED BY <2>1
<1>5. CASE WorkerStart(w) \/ (FastLane(w) /\ ~RunSlot(w))
  <2>1. UNCHANGED <<calls, op, submitted, active_workers, mpc, worker_error>>
    BY <1>5 DEF WorkerStart, FastLane, LookForEpoch, Admit, SkipEpoch, EnterSession, CheckSession,
       CheckEpoch, BeginPhase, Acknowledge, ExitSession, main_and_shared, main_vars, mode_vars
  <2> QED BY <2>1
<1> QED BY <1>2, <1>3, <1>4, <1>5 DEF WorkerStep, QueueLane, FastLane

\* Main leaves the workers at the gate where they are, or frees all of them.
LEMMA MainParks ==
    ASSUME IInv, FirstCallInv, ActiveAreUnparked, Client \/ MainStep \/ MainSpuriousWake
    PROVE  ActiveAreUnparked'
<1>1. TypeOK BY DEF IInv
<1>2. \A w \in Worker : wpc'[w] = "parked" => wpc[w] = "parked"
  <2>1. CASE NotifyFast \/ NotifyWorkers \/ NotifyPark \/ NotifyStop
    BY <2>1 DEF NotifyFast, NotifyWorkers, NotifyPark, NotifyStop, Wake, Asleep
  <2>2. CASE UNCHANGED wpc BY <2>2
  <2>3. NotifyFast \/ NotifyWorkers \/ NotifyPark \/ NotifyStop \/ UNCHANGED wpc
    BY DEF Client, MainStep, Begin, Submit, Request, TryFastPhase, CountPhase, Activate, Recount,
       Bump, MainPhase, Join, LeaveSession, FlushPendingTasks, AfterFlush, MainTake, MainRun,
       MainDrained, MainSpuriousWake, Reconfigure, ResetQueue, Stop, JoinThreads
  <2> QED BY <2>1, <2>2, <2>3
<1>3. CASE NotifyPark
  <2>1. \A w \in Worker : wpc'[w] # "parked" BY <1>3 DEF NotifyPark
  <2> QED BY <2>1 DEF ActiveAreUnparked
<1>4. CASE Reconfigure BY <1>4 DEF Reconfigure, ActiveAreUnparked
<1>5. CASE ~NotifyPark /\ ~Reconfigure
  <2>1. FirstCallPending => FirstCallPending' BY <1>5, MainFirstCall
  <2>2. mpc # "notify_park" BY <1>5, MainFirstCall
  <2>3. active_workers' = active_workers
    BY <1>5 DEF Client, MainStep, Begin, Submit, Request, TryFastPhase, CountPhase, Activate,
       Recount, Bump, MainPhase, Join, LeaveSession, FlushPendingTasks, AfterFlush, MainTake,
       MainRun, MainDrained, MainSpuriousWake, ResetQueue, Stop, JoinThreads, NotifyFast,
       NotifyWorkers, NotifyStop, mode_vars
  <2> QED BY <1>2, <2>1, <2>2, <2>3 DEF ActiveAreUnparked, ActiveWorkerCount
<1> QED BY <1>3, <1>4, <1>5

\* A worker parks only where it is surplus, or before the first call.
LEMMA WorkerParks ==
    ASSUME IInv, FirstCallInv, ActiveAreUnparked, NEW w \in Worker,
           WorkerStep(w) \/ WorkerStart(w) \/ SpuriousWake(w)
    PROVE  ActiveAreUnparked'
<1>1. TypeOK BY DEF IInv
<1>2. \A v \in Worker \ {w} : wpc'[v] = wpc[v]
  <2>1. wpc' = wpc \/ \E label : Goto(w, label)
    BY DEF WorkerStep, WorkerStart, SpuriousWake, FastLane, LookForEpoch, Admit, SkipEpoch,
       EnterSession, CheckSession, CheckEpoch, BeginPhase, RunSlot, Acknowledge, ExitSession,
       QueueLane, Gate, Spin, Relock, Block, WorkerRun, WorkerTake
  <2> QED BY <1>1, <2>1, LaneTypes DEF Goto
<1>3. wpc'[w] = "parked" => w >= ActiveWorkerCount \/ calls = 0
  <2>1. CASE Gate(w)
    BY <1>1, <2>1, LaneTypes DEF Gate, WorkerTake, Goto
  <2>2. CASE Spin(w) \/ Relock(w) \/ Block(w) \/ WorkerRun(w)
    BY <1>1, <2>2, LaneTypes DEF Spin, Relock, Block, WorkerRun, WorkerTake, Goto
  <2>3. CASE WorkerStart(w) \/ SpuriousWake(w) \/ FastLane(w)
    BY <1>1, <2>3, LaneTypes DEF WorkerStart, SpuriousWake, FastLane, LookForEpoch, Admit,
       SkipEpoch, EnterSession, CheckSession, CheckEpoch, BeginPhase, RunSlot, Acknowledge,
       ExitSession, Goto
  <2> QED BY <2>1, <2>2, <2>3 DEF WorkerStep, QueueLane
<1>4. calls = 0 => FirstCallPending BY DEF FirstCallPending
<1>5. /\ FirstCallPending' <=> FirstCallPending
      /\ active_workers' = active_workers
      /\ mpc' = "notify_park" <=> mpc = "notify_park"
  BY WorkerFirstCall
<1>6. ASSUME ~FirstCallPending, mpc # "notify_park", NEW v \in Worker, wpc'[v] = "parked"
      PROVE  v >= active_workers
  BY <1>2, <1>3, <1>4, <1>6 DEF ActiveAreUnparked, ActiveWorkerCount
<1> QED BY <1>5, <1>6 DEF ActiveAreUnparked, ActiveWorkerCount

\* Whatever the constructor's race left at the park gate, and however the calls
\* change the number of participants, a worker that a call counts on is not parked
\* once the call is set up.
THEOREM ActiveUnparked == Spec => []ActiveAreUnparked
<1>1. Init => FirstCallInv /\ ActiveAreUnparked
  BY DEF Init, FirstCallInv, ActiveAreUnparked, FirstCallPending
<1>2. IInv /\ FirstCallInv /\ ActiveAreUnparked /\ [Next]_vars
        => FirstCallInv' /\ ActiveAreUnparked'
  <2> SUFFICES ASSUME IInv, FirstCallInv, ActiveAreUnparked, [Next]_vars
               PROVE  FirstCallInv' /\ ActiveAreUnparked'
    OBVIOUS
  <2>1. CASE Client \/ MainStep \/ MainSpuriousWake BY <2>1, MainFirstCall, MainParks
  <2>2. ASSUME NEW w \in Worker, WorkerStep(w) \/ WorkerStart(w) \/ SpuriousWake(w)
        PROVE  FirstCallInv' /\ ActiveAreUnparked'
    BY <2>2, WorkerFirstCall, WorkerParks
  <2>3. CASE UNCHANGED vars
    BY <2>3 DEF vars, main_vars, mode_vars, FirstCallInv, ActiveAreUnparked, FirstCallPending,
                ActiveWorkerCount
  <2> QED BY <2>1, <2>2, <2>3 DEF Next
<1> QED BY <1>1, <1>2, Invariance, PTL DEF Spec

-----------------------------------------------------------------------------
(* At most once, when every call uses the whole pool. *)

LEMMA MainPoolStep ==
    ASSUME TypeOK, ControlInv, SessionInv, SessionInv', TypeOK', PoolInv, ActiveCounts = {PoolSize},
           Client \/ MainStep \/ MainSpuriousWake
    PROVE  PoolInv'
<1> USE DEF fast_vars, mode_vars, lane_vars, Publishing, Published, ActiveWorkerCount
<1>1. /\ active_workers' = PoolSize /\ config'.active = PoolSize
      /\ fast_worker_count' \in {0, PoolSize}
      /\ (mpc' \in Publishing \/ fast_session_active' \/ fast_phase_epoch' # 0) =>
              fast_worker_count' = PoolSize
  <2> USE DEF PoolInv, ControlInv, InPhase
  <2>1. CASE \E active \in ActiveCounts, fast \in FastModes : Begin(active, fast)
    BY <2>1 DEF Begin
  <2>2. CASE Submit BY <2>2 DEF Submit
  <2>3. CASE \E o \in {"wait", "end", "destroy"} : Request(o) BY <2>3 DEF Request
  <2>4. CASE TryFastPhase \/ CountPhase \/ Activate
    BY <2>4 DEF TryFastPhase, CountPhase, Activate
  <2>5. CASE Recount \/ Bump \/ NotifyFast BY <2>5 DEF Recount, Bump, NotifyFast
  <2>6. CASE MainPhase \/ Join BY <2>6 DEF MainPhase, Join, ReturnFromWait, AfterWait
  <2>7. CASE LeaveSession BY <2>7 DEF LeaveSession, EndFastSession
  <2>8. CASE FlushPendingTasks \/ AfterFlush \/ NotifyWorkers
    BY <2>8 DEF FlushPendingTasks, AfterFlush, AfterWait, NotifyWorkers
  <2>9. CASE MainTake \/ MainRun \/ MainDrained \/ MainSpuriousWake
    BY <2>9 DEF MainTake, MainRun, MainDrained, ReturnFromWait, AfterWait, MainSpuriousWake
  <2>10. CASE Reconfigure \/ NotifyPark \/ ResetQueue
    BY <2>10 DEF Reconfigure, NotifyPark, ResetQueue
  <2>11. CASE Stop \/ NotifyStop \/ JoinThreads BY <2>11 DEF Stop, NotifyStop, JoinThreads
  <2> QED BY <2>1, <2>2, <2>3, <2>4, <2>5, <2>6, <2>7, <2>8, <2>9, <2>10, <2>11
             DEF Client, MainStep
<1>2. ASSUME mpc' \notin Published, NEW w \in Worker
      PROVE  done_epoch'[w] = fast_phase_epoch'
  <2>1. CASE mpc' \notin Publishing /\ fast_worker_count' = PoolSize
    <3>1. w < fast_worker_count' BY <2>1, PoolFacts
    <3> QED BY <2>1, <3>1 DEF SessionInv, LaneInv
  <2>2. CASE fast_worker_count' # PoolSize
    <3>1. fast_phase_epoch' = 0 BY <1>1, <2>2
    <3>2. done_epoch'[w] \in Nat /\ seen'[w] \in Nat /\ done_epoch'[w] <= seen'[w]
          /\ seen'[w] <= fast_phase_epoch'
      BY TypeOK', LaneTypes DEF SessionInv, LaneInv, TypeOK, WorkerTypeOK, Epoch
    <3> QED BY <3>1, <3>2
  <2>3. CASE mpc' \in {"activate", "bump_start"}
    <3>1. CountPhase \/ Activate
      <4> USE <2>3 DEF AfterWait
      <4>1. ~Client BY DEF Client, Begin, Submit, Request
      <4>2. /\ ~TryFastPhase /\ ~Recount /\ ~Bump /\ ~NotifyFast /\ ~MainPhase
            /\ ~FlushPendingTasks /\ ~AfterFlush /\ ~NotifyWorkers
        BY DEF TryFastPhase, Recount, Bump, NotifyFast, MainPhase,
               FlushPendingTasks, AfterFlush, NotifyWorkers
      <4>3. /\ ~Join /\ ~LeaveSession /\ ~MainTake /\ ~MainRun /\ ~MainDrained
            /\ ~MainSpuriousWake
        BY DEF Join, ReturnFromWait, LeaveSession, EndFastSession, MainTake, MainRun,
               MainDrained, MainSpuriousWake
      <4>4. /\ ~Reconfigure /\ ~NotifyPark /\ ~ResetQueue /\ ~Stop /\ ~NotifyStop
            /\ ~JoinThreads
        BY DEF Reconfigure, NotifyPark, ResetQueue, Stop, NotifyStop, JoinThreads
      <4> QED BY <4>1, <4>2, <4>3, <4>4 DEF MainStep
    <3>2. UNCHANGED <<done_epoch, fast_phase_epoch>> /\ mpc \notin Published
      BY <3>1, <2>3 DEF CountPhase, Activate
    <3> QED BY <3>2 DEF PoolInv
  <2> QED BY <1>2, <2>1, <2>2, <2>3
<1> QED BY <1>1, <1>2 DEF PoolInv

LEMMA WorkerPoolStep ==
    ASSUME TypeOK, SessionInv, PoolInv, NEW w \in Worker,
           WorkerStep(w) \/ WorkerStart(w) \/ SpuriousWake(w)
    PROVE  PoolInv'
<1> USE DEF PoolInv, main_vars, fast_vars, mode_vars, lane_vars, main_and_shared,
            Publishing, Published
<1>1. CASE Acknowledge(w)
  <2>1. wpc[w] = "phase" /\ UNCHANGED <<mpc, config, fast_vars, mode_vars>>
        /\ done_epoch' = [done_epoch EXCEPT ![w] = seen[w]]
    BY <1>1 DEF Acknowledge
  <2>2. done_epoch[w] # fast_phase_epoch BY <2>1, InsidePhase
  <2> QED BY <2>1, <2>2
<1>2. CASE ~Acknowledge(w)
  <2>1. UNCHANGED <<config, fast_vars, mode_vars, done_epoch>>
        /\ (mpc' = mpc \/ (mpc = "asleep" /\ mpc' = "drain"))
    BY <1>2 DEF WorkerStep, FastLane, QueueLane, WorkerStart, SpuriousWake, LookForEpoch,
                Admit, SkipEpoch, EnterSession, CheckSession, CheckEpoch, BeginPhase, RunSlot,
                ExitSession, Gate, Spin, Relock, Block, WorkerRun
  <2> QED BY <2>1
<1> QED BY <1>1, <1>2

\* Tasks that have not run are run, and leave their place.
LEMMA RunsStep ==
    ASSUME TypeOK, RunsInv, NEW set \in SUBSET TaskId, RunAll(set), submitted' = submitted,
           \A t \in set : runs[t] = 0 /\ t <= submitted,
           (tasks \cup Running)' \subseteq (tasks \cup Running) \ set
    PROVE  RunsInv' /\ \A t \in TaskId \ set : runs'[t] = runs[t]
<1>1. runs \in [TaskId -> Nat] BY DEF TypeOK, HistoryTypeOK
<1>2. /\ \A t \in TaskId \ set : runs'[t] = runs[t]
      /\ \A t \in set : runs'[t] = 1
  BY <1>1 DEF RunAll
<1>3. AtMostOnce' BY <1>2 DEF RunsInv, AtMostOnce
<1>4. ASSUME NEW t \in TaskId, t \in (tasks \cup Running)' \/ t > submitted
      PROVE  runs'[t] = 0
  <2>1. t \notin set BY <1>4, MainTypes DEF TaskId
  <2>2. t \in tasks \cup Running \/ t > submitted BY <1>4
  <2> QED BY <1>2, <2>1, <2>2 DEF RunsInv
<1> QED BY <1>2, <1>3, <1>4 DEF RunsInv

\* Nothing runs, and what is queued or in a batch has not run.
LEMMA RunsKept ==
    ASSUME TypeOK, RunsInv, runs' = runs, submitted' \in Nat, submitted' >= submitted,
           \A t \in TaskId : t \in (tasks \cup Running)' => t \in tasks \cup Running \/ runs[t] = 0
    PROVE  RunsInv'
<1>1. \A t \in TaskId : t > submitted' => t > submitted BY MainTypes DEF TaskId
<1> QED BY <1>1 DEF RunsInv, AtMostOnce

\* The slot at which a participant of the phase is has not run.
LEMMA SlotIsFresh ==
    ASSUME TypeOK, PlacesInv, NEW s \in 0..(Len(pending_tasks) - 1),
           Ahead(s % Participants, s)
    PROVE  /\ pending_tasks[s + 1] \in TaskId /\ pending_tasks[s + 1] <= submitted
           /\ runs[pending_tasks[s + 1]] = 0
           /\ pending_tasks[s + 1] \notin tasks \cup Running
<1>1. s + 1 \in DOMAIN pending_tasks /\ s \in Nat /\ s >= s BY MainTypes
<1>2. pending_tasks[s + 1] \in Staged /\ Staged \subseteq TaskId
  BY <1>1, PhaseTypes, MainTypes DEF Staged
<1>3. runs[pending_tasks[s + 1]] = 0 BY <1>1 DEF Ahead
<1> QED BY <1>2, <1>3, MainTypes DEF PlacesInv, TasksInv

LEMMA MainRunsStep ==
    ASSUME IInv, OnceInv, TypeOK', Client \/ MainStep \/ MainSpuriousWake
    PROVE  RunsInv' /\ \A t \in Staged : (~MainPhase => runs'[t] = runs[t])
<1> USE DEF fast_vars, queue_vars, mode_vars
<1>1. /\ TypeOK /\ ControlInv /\ PlacesInv /\ TasksInv /\ BatchesInv /\ PhaseInv
      /\ RunsInv /\ AheadInv /\ PoolInv
  BY DEF IInv, PlacesInv, OnceInv
<1>2. Staged \subseteq TaskId /\ submitted \in Nat
  BY <1>1, PhaseTypes, MainTypes DEF Staged
<1>3. ASSUME runs' = runs, UNCHANGED <<main_batch, wbatch, submitted>>, tasks' \subseteq tasks
      PROVE  RunsInv'
  BY <1>1, <1>2, <1>3, RunsKept DEF Running
<1>4. CASE Submit
  <2>1. /\ runs' = runs /\ submitted' = submitted + 1 /\ UNCHANGED <<main_batch, wbatch, tasks>>
    BY <1>1, <1>4, PoolFacts DEF Submit, PoolInv, ActiveWorkerCount
  <2> QED BY <1>1, <1>2, <2>1, RunsKept DEF Running
<1>5. CASE MainPhase
  <2>1. CASE cursor < fast_task_count
    <3>1. /\ RunAll({pending_tasks[cursor + 1]}) /\ mpc = "phase"
          /\ UNCHANGED <<tasks, main_batch, wbatch, submitted>>
      BY <1>5, <2>1 DEF MainPhase
    <3>2. cursor % Participants = fast_worker_count /\ cursor \in 0..(Len(pending_tasks) - 1)
      BY <1>1, <2>1, <3>1, PhaseTypes, MainTypes DEF PhaseInv, InPhase, Publishing
    <3>3. /\ pending_tasks[cursor + 1] \in TaskId /\ pending_tasks[cursor + 1] <= submitted
          /\ runs[pending_tasks[cursor + 1]] = 0
          /\ pending_tasks[cursor + 1] \notin tasks \cup Running
      BY <1>1, <3>1, <3>2, SlotIsFresh DEF AheadInv
    <3>4. (tasks \cup Running)' = tasks \cup Running BY <3>1 DEF Running
    <3>5. RunsInv' BY <1>1, <3>1, <3>3, <3>4, RunsStep
    <3> QED BY <1>5, <3>5
  <2>2. CASE ~(cursor < fast_task_count)
    BY <1>3, <1>5, <2>2 DEF MainPhase
  <2> QED BY <2>1, <2>2
<1>6. CASE FlushPendingTasks
  <2>1. /\ runs' = runs /\ tasks' = tasks \cup Staged /\ mpc \notin Published
        /\ UNCHANGED <<main_batch, wbatch, submitted>>
    BY <1>6 DEF FlushPendingTasks, Staged, Published
  <2>2. \A t \in Staged : runs[t] = 0 BY <1>1, <2>1 DEF AheadInv
  <2>3. RunsInv' BY <1>1, <1>2, <2>1, <2>2, RunsKept DEF Running
  <2> QED BY <2>1, <2>3
<1>7. CASE MainTake
  <2>1. /\ runs' = runs /\ tasks' \subseteq tasks /\ main_batch' \subseteq tasks
        /\ UNCHANGED <<wbatch, submitted>>
    BY <1>7 DEF MainTake, TakeReadyTasksLocked, Oldest
  <2>2. RunsInv' BY <1>1, <1>2, <2>1, RunsKept DEF Running
  <2> QED BY <2>1, <2>2
<1>8. CASE MainRun
  <2>1. /\ RunAll(main_batch) /\ main_batch' = {} /\ UNCHANGED <<tasks, wbatch, submitted>>
    BY <1>8 DEF MainRun
  <2>2. main_batch \subseteq TaskId BY <1>1 DEF TypeOK, MainTypeOK
  <2>3. \A t \in main_batch : runs[t] = 0 /\ t <= submitted
    BY <1>1, <1>2, <2>2 DEF RunsInv, Running, TasksInv
  <2>4. (tasks \cup Running)' \subseteq (tasks \cup Running) \ main_batch
    BY <1>1, <2>1 DEF TasksInv, BatchesInv, Running
  <2>5. RunsInv' /\ \A t \in TaskId \ main_batch : runs'[t] = runs[t]
    BY <1>1, <2>1, <2>2, <2>3, <2>4, RunsStep
  <2> QED BY <1>1, <1>2, <2>5 DEF TasksInv, Running
<1>9. CASE ~Submit /\ ~MainPhase /\ ~FlushPendingTasks /\ ~MainTake /\ ~MainRun
  <2>1. runs' = runs /\ UNCHANGED <<main_batch, wbatch, submitted>> /\ tasks' \subseteq tasks
    <3>1. CASE Client \/ MainSpuriousWake
      BY <1>9, <3>1 DEF Client, Begin, Request, MainSpuriousWake
    <3>2. CASE MainStep
      BY <1>9, <3>2 DEF MainStep, TryFastPhase, CountPhase, Activate, Recount, Bump, NotifyFast,
                  Join, LeaveSession, AfterFlush, NotifyWorkers,
                  MainDrained, Reconfigure, NotifyPark, ResetQueue, Stop,
                  NotifyStop, JoinThreads
    <3> QED BY <3>1, <3>2
  <2> QED BY <1>3, <2>1
<1> QED BY <1>4, <1>5, <1>6, <1>7, <1>8, <1>9 DEF Submit, PoolInv

LEMMA WorkerRunsStep ==
    ASSUME IInv, OnceInv, NEW w \in Worker,
           WorkerStep(w) \/ WorkerStart(w) \/ SpuriousWake(w)
    PROVE  RunsInv' /\ \A t \in Staged : (~RunSlot(w) => runs'[t] = runs[t])
<1> USE DEF main_vars, main_and_shared, fast_vars, queue_vars, mode_vars, lane_vars
<1>1. /\ TypeOK /\ SessionInv /\ PlacesInv /\ TasksInv /\ BatchesInv /\ PhaseInv
      /\ RunsInv /\ AheadInv /\ PoolInv /\ DOMAIN wbatch = Worker
  BY DEF IInv, PlacesInv, OnceInv, TypeOK, WorkerTypeOK
<1>2. Staged \subseteq TaskId /\ submitted \in Nat
  BY <1>1, PhaseTypes, MainTypes DEF Staged
<1>3. CASE RunSlot(w)
  <2>1. /\ RunAll({pending_tasks[slot[w] + 1]}) /\ wpc[w] = "phase" /\ slot[w] < count[w]
        /\ UNCHANGED <<tasks, main_batch, wbatch, submitted>>
    BY <1>3 DEF RunSlot
  <2>2. /\ mpc \in Published /\ done_epoch[w] # fast_phase_epoch
        /\ fast_task_count = Len(pending_tasks)
    BY <1>1, <2>1, InsidePhase DEF PoolInv, PhaseInv, InPhase, Publishing, Published
  <2>3. slot[w] % Participants = w /\ slot[w] \in 0..(Len(pending_tasks) - 1)
    BY <1>1, <2>1, <2>2, PhaseTypes, MainTypes DEF PhaseInv, ShareInv
  <2>4. Ahead(w, slot[w]) BY <1>1, <2>1, <2>2 DEF AheadInv
  <2>5. /\ pending_tasks[slot[w] + 1] \in TaskId /\ pending_tasks[slot[w] + 1] <= submitted
        /\ runs[pending_tasks[slot[w] + 1]] = 0
        /\ pending_tasks[slot[w] + 1] \notin tasks \cup Running
    BY <1>1, <2>3, <2>4, SlotIsFresh
  <2>6. (tasks \cup Running)' = tasks \cup Running BY <2>1 DEF Running
  <2>7. RunsInv' BY <1>1, <2>1, <2>5, <2>6, RunsStep
  <2> QED BY <1>3, <2>7
<1>4. CASE WorkerRun(w)
  <2>1. /\ RunAll(wbatch[w]) /\ UNCHANGED <<tasks, main_batch, submitted>>
        /\ wbatch' = [wbatch EXCEPT ![w] = {}]
    BY <1>4 DEF WorkerRun
  <2>2. wbatch[w] \in SUBSET TaskId BY <1>1 DEF TypeOK, WorkerTypeOK
  <2>3. wbatch[w] \subseteq Running BY DEF Running
  <2>4. \A t \in wbatch[w] : runs[t] = 0 /\ t <= submitted
    BY <1>1, <1>2, <2>2, <2>3 DEF RunsInv, TasksInv
  <2>5. (tasks \cup Running)' \subseteq (tasks \cup Running) \ wbatch[w]
    <3>1. wbatch'[w] = {} /\ \A v \in Worker \ {w} : wbatch'[v] = wbatch[v]
      BY <1>1, <2>1
    <3>2. Running' \subseteq Running \ wbatch[w]
      BY <1>1, <2>1, <3>1 DEF BatchesInv, Running
    <3> QED BY <1>1, <2>1, <2>3, <3>2 DEF TasksInv
  <2>6. RunsInv' /\ \A t \in TaskId \ wbatch[w] : runs'[t] = runs[t]
    BY <1>1, <2>1, <2>2, <2>4, <2>5, RunsStep
  <2> QED BY <1>1, <1>2, <2>3, <2>6 DEF TasksInv
<1>5. CASE ~RunSlot(w) /\ ~WorkerRun(w)
  <2>1. /\ runs' = runs /\ UNCHANGED <<main_batch, submitted>> /\ tasks' \subseteq tasks
        /\ wbatch' = wbatch \/ wbatch' = [wbatch EXCEPT ![w] = Oldest]
    BY <1>5 DEF WorkerStep, FastLane, QueueLane, WorkerStart, SpuriousWake, LookForEpoch,
                Admit, SkipEpoch, EnterSession, CheckSession, CheckEpoch, BeginPhase,
                Acknowledge, ExitSession, Gate, Spin, Relock, Block, WorkerTake,
                TakeReadyTasksLocked
  <2>2. \A v \in Worker : wbatch'[v] \subseteq wbatch[v] \cup tasks
    BY <1>1, <2>1 DEF Oldest
  <2>3. (tasks \cup Running)' \subseteq tasks \cup Running BY <2>1, <2>2 DEF Running
  <2> QED BY <1>1, <1>2, <2>1, <2>3, RunsKept
<1> QED BY <1>3, <1>4, <1>5

LEMMA StagedStep ==
    ASSUME IInv, OnceInv, [Next]_vars
    PROVE  StagedOnce'
<1> USE DEF main_vars, main_and_shared, StagedOnce
<1>1. TypeOK /\ PlacesInv /\ TasksInv /\ PoolInv /\ StagedOnce
  BY DEF IInv, PlacesInv, OnceInv
<1>2. \/ pending_tasks' = pending_tasks \/ pending_tasks' = <<>>
      \/ pending_tasks' = Append(pending_tasks, submitted') /\ submitted' = submitted + 1
  <2>1. CASE Client \/ MainSpuriousWake
    BY <2>1 DEF Client, Begin, Submit, Request, MainSpuriousWake
  <2>2. CASE MainStep
    BY <2>2 DEF MainStep, TryFastPhase, CountPhase, Activate, Recount, Bump, NotifyFast,
                MainPhase, Join, LeaveSession, FlushPendingTasks, AfterFlush, NotifyWorkers,
                MainTake, MainRun, MainDrained, Reconfigure, NotifyPark, ResetQueue, Stop,
                NotifyStop, JoinThreads
  <2>3. ASSUME NEW w \in Worker, WorkerStep(w) \/ WorkerStart(w) \/ SpuriousWake(w)
        PROVE  pending_tasks' = pending_tasks
    BY <2>3 DEF WorkerStep, FastLane, QueueLane, WorkerStart, SpuriousWake, LookForEpoch,
                Admit, SkipEpoch, EnterSession, CheckSession, CheckEpoch, BeginPhase, RunSlot,
                Acknowledge, ExitSession, Gate, Spin, Relock, Block, WorkerRun
  <2>4. CASE UNCHANGED vars BY <2>4 DEF vars
  <2> QED BY <2>1, <2>2, <2>3, <2>4 DEF Next
<1>3. CASE pending_tasks' = pending_tasks \/ pending_tasks' = <<>> BY <1>1, <1>3
<1>4. CASE pending_tasks' = Append(pending_tasks, submitted') /\ submitted' = submitted + 1
  <2>1. /\ pending_tasks \in Seq(TaskId) /\ Len(pending_tasks) \in Nat /\ submitted \in Nat
        /\ DOMAIN pending_tasks = 1..Len(pending_tasks)
    BY <1>1, MainTypes
  <2>2. /\ DOMAIN pending_tasks' = 1..(Len(pending_tasks) + 1)
        /\ pending_tasks'[Len(pending_tasks) + 1] = submitted + 1
        /\ \A i \in 1..Len(pending_tasks) : pending_tasks'[i] = pending_tasks[i]
    BY <1>4, <2>1
  <2>3. \A i \in 1..Len(pending_tasks) : pending_tasks[i] \in 1..submitted
    BY <1>1, <2>1 DEF TasksInv, Staged
  <2>4. \A i \in 1..Len(pending_tasks) : pending_tasks[i] # submitted + 1 BY <2>1, <2>3
  <2> QED BY <1>1, <2>1, <2>2, <2>4
<1> QED BY <1>2, <1>3, <1>4

\* A step that moves no participant and runs nothing of the buffer.
LEMMA SameAhead ==
    ASSUME TypeOK, AheadInv, mpc' = mpc \/ (mpc \notin Published /\ mpc' \notin Published),
           UNCHANGED <<pending_tasks, fast_worker_count, fast_phase_epoch, slot, done_epoch>>,
           mpc = "phase" => cursor' = cursor,
           \A t \in Staged : runs'[t] = runs[t],
           \A v \in Worker : wpc'[v] = "phase" <=> wpc[v] = "phase",
           \A v \in Worker : wpc'[v] \in {"begin", "phase"} => seen'[v] = fast_phase_epoch
    PROVE  AheadInv'
<1>1. Staged' = Staged /\ Participants' = Participants BY DEF Staged, Participants
<1>2. \A i \in 0..(Len(pending_tasks) - 1) :
        runs'[pending_tasks[i + 1]] = runs[pending_tasks[i + 1]]
  <2> SUFFICES ASSUME NEW i \in 0..(Len(pending_tasks) - 1)
               PROVE  pending_tasks[i + 1] \in Staged
    OBVIOUS
  <2>1. i + 1 \in DOMAIN pending_tasks BY MainTypes
  <2> QED BY <2>1 DEF Staged
<1>3. ASSUME NEW p, NEW limit, Ahead(p, limit) PROVE Ahead(p, limit)'
  BY <1>1, <1>2, <1>3 DEF Ahead
<1>4. /\ mpc' \notin Published => \A t \in Staged' : runs'[t] = 0
      /\ mpc' = "notify_fast" => Ahead(fast_worker_count, 0)'
      /\ mpc' = "phase" => Ahead(fast_worker_count, cursor)'
  BY <1>1, <1>3 DEF AheadInv, Published
<1>5. ASSUME NEW v \in Worker, mpc' \in Published, done_epoch'[v] # fast_phase_epoch'
      PROVE  Ahead(v, IF wpc[v] = "phase" THEN slot[v] ELSE 0)'
  <2>1. Ahead(v, IF wpc[v] = "phase" THEN slot[v] ELSE 0) BY <1>5 DEF AheadInv
  <2>2. CASE wpc[v] = "phase" BY <1>3, <2>1, <2>2
  <2>3. CASE wpc[v] # "phase" BY <1>3, <2>1, <2>3
  <2> QED BY <2>2, <2>3
<1> QED BY <1>4, <1>5 DEF AheadInv

\* Participant p runs the slot at which it is: it is ahead by a round, and no
\* other participant meets the slot.
LEMMA AheadNext ==
    ASSUME TypeOK, StagedOnce, NEW s \in 0..(Len(pending_tasks) - 1),
           \A t \in TaskId \ {pending_tasks[s + 1]} : runs'[t] = runs[t],
           UNCHANGED <<pending_tasks, fast_worker_count>>,
           NEW p, NEW limit \in Nat, Ahead(p, limit)
    PROVE  /\ p # s % Participants => Ahead(p, limit)'
           /\ limit = s => Ahead(p, s + Participants)'
<1>1. Participants' = Participants /\ Participants \in Nat \ {0}
  BY PhaseTypes DEF Participants
<1>2. ASSUME NEW i \in 0..(Len(pending_tasks) - 1), i # s
      PROVE  runs'[pending_tasks[i + 1]] = runs[pending_tasks[i + 1]]
  <2>1. i + 1 \in DOMAIN pending_tasks /\ s + 1 \in DOMAIN pending_tasks /\ i + 1 # s + 1
    BY <1>2, MainTypes
  <2>2. pending_tasks[i + 1] # pending_tasks[s + 1] BY <2>1 DEF StagedOnce
  <2>3. pending_tasks[i + 1] \in TaskId BY <2>1, PhaseTypes, MainTypes
  <2> QED BY <2>2, <2>3
<1>3. p # s % Participants => Ahead(p, limit)'
  <2> SUFFICES ASSUME p # s % Participants, NEW i \in 0..(Len(pending_tasks) - 1),
                      i % Participants = p, i >= limit
               PROVE  runs'[pending_tasks[i + 1]] = 0
    BY <1>1 DEF Ahead
  <2> QED BY <1>2 DEF Ahead
<1>4. limit = s => Ahead(p, s + Participants)'
  <2> SUFFICES ASSUME limit = s, NEW i \in 0..(Len(pending_tasks) - 1),
                      i % Participants = p, i >= s + Participants
               PROVE  runs'[pending_tasks[i + 1]] = 0
    BY <1>1 DEF Ahead
  <2>1. i # s /\ i >= s BY <1>1, MainTypes
  <2> QED BY <1>2, <2>1 DEF Ahead
<1> QED BY <1>3, <1>4

LEMMA MainAheadStep ==
    ASSUME IInv, OnceInv, Client \/ MainStep \/ MainSpuriousWake
    PROVE  AheadInv'
<1> USE DEF fast_vars, lane_vars
<1>1. /\ TypeOK /\ ControlInv /\ SessionInv /\ PlacesInv /\ PhaseInv
      /\ RunsInv /\ AheadInv /\ PoolInv /\ StagedOnce
  BY DEF IInv, OnceInv
<1>2. DOMAIN wpc = Worker BY <1>1 DEF TypeOK, WorkerTypeOK
<1>3. mpc \notin Published => \A w \in Worker : wpc[w] \notin {"begin", "phase"}
  BY <1>1, InsidePhase DEF PoolInv
<1>4. ASSUME mpc \notin Published, mpc' \notin Published, \A t \in Staged' : runs'[t] = 0,
             \A w \in Worker : wpc'[w] \in {"begin", "phase"} => wpc[w] \in {"begin", "phase"}
      PROVE  AheadInv'
  BY <1>3, <1>4 DEF AheadInv, Published
<1>5. CASE Bump
  <2>1. /\ mpc \notin Published /\ mpc' \in {"notify_fast", "phase"}
        /\ UNCHANGED <<pending_tasks, runs, wpc>>
    BY <1>5 DEF Bump, Published
  <2>2. \A i \in 0..(Len(pending_tasks) - 1) : runs[pending_tasks[i + 1]] = 0
    <3> SUFFICES ASSUME NEW i \in 0..(Len(pending_tasks) - 1)
                 PROVE  pending_tasks[i + 1] \in Staged
      BY <1>1, <2>1 DEF AheadInv
    <3>1. i + 1 \in DOMAIN pending_tasks BY <1>1, MainTypes
    <3> QED BY <3>1 DEF Staged
  <2>3. ASSUME NEW p, NEW limit PROVE Ahead(p, limit)' BY <2>1, <2>2 DEF Ahead
  <2> QED BY <1>3, <2>1, <2>3 DEF AheadInv, Published
<1>6. CASE NotifyFast
  <2>1. /\ mpc = "notify_fast" /\ mpc' = "phase" /\ mpc' \in Published /\ mpc \in Published
        /\ UNCHANGED <<pending_tasks, runs, cursor, fast_vars, lane_vars>>
        /\ \A w \in Worker : /\ wpc'[w] = "phase" <=> wpc[w] = "phase"
                             /\ wpc'[w] = "begin" <=> wpc[w] = "begin"
    BY <1>6 DEF NotifyFast, Published
  <2>2. ASSUME NEW p, NEW limit, Ahead(p, limit) PROVE Ahead(p, limit)'
    BY <2>1, <2>2 DEF Ahead, Participants
  <2>3. Ahead(fast_worker_count, cursor)
    <3>1. Ahead(fast_worker_count, 0) BY <1>1, <2>1 DEF AheadInv
    <3>2. \A i \in 0..(Len(pending_tasks) - 1) : i >= 0 OBVIOUS
    <3> QED BY <3>1, <3>2 DEF Ahead
  <2>4. Ahead(fast_worker_count, cursor)' BY <2>1, <2>2, <2>3
  <2>5. ASSUME NEW v \in Worker, done_epoch'[v] # fast_phase_epoch'
        PROVE  Ahead(v, IF wpc[v] = "phase" THEN slot[v] ELSE 0)'
    <3>1. Ahead(v, IF wpc[v] = "phase" THEN slot[v] ELSE 0)
      BY <1>1, <2>1, <2>5 DEF AheadInv
    <3>2. CASE wpc[v] = "phase" BY <2>1, <2>2, <3>1, <3>2
    <3>3. CASE wpc[v] # "phase" BY <2>1, <2>2, <3>1, <3>3
    <3> QED BY <3>2, <3>3
  <2>6. \A v \in Worker : wpc'[v] \in {"begin", "phase"} => seen'[v] = fast_phase_epoch'
    BY <1>1, <2>1 DEF AheadInv
  <2> QED BY <2>1, <2>4, <2>5, <2>6 DEF AheadInv
<1>7. CASE MainPhase
  <2>1. /\ mpc = "phase" /\ mpc \in Published
        /\ UNCHANGED <<pending_tasks, fast_vars, wpc, lane_vars>>
    BY <1>7 DEF MainPhase, Published
  <2>2. CASE cursor < fast_task_count
    <3>1. /\ RunAll({pending_tasks[cursor + 1]}) /\ mpc' = mpc
          /\ cursor' = cursor + Participants
      BY <1>1, <1>7, <2>2, PhaseTypes DEF MainPhase, Participants
    <3>2. cursor % Participants = fast_worker_count /\ cursor \in 0..(Len(pending_tasks) - 1)
      BY <1>1, <2>1, <2>2, PhaseTypes, MainTypes DEF PhaseInv, InPhase, Publishing
    <3>3. PICK s \in 0..(Len(pending_tasks) - 1) : s = cursor BY <3>2
    <3>4. \A t \in TaskId \ {pending_tasks[s + 1]} : runs'[t] = runs[t]
      BY <1>1, <3>1, <3>3 DEF RunAll, TypeOK, HistoryTypeOK
    <3>5. ASSUME NEW p, NEW limit \in Nat, Ahead(p, limit)
          PROVE  /\ p # fast_worker_count => Ahead(p, limit)'
                 /\ limit = s => Ahead(p, s + Participants)'
      BY <1>1, <2>1, <3>2, <3>3, <3>4, <3>5, AheadNext
    <3>6. s \in Nat /\ Ahead(fast_worker_count, s) BY <1>1, <2>1, <3>3, PhaseTypes DEF AheadInv
    <3>7. Ahead(fast_worker_count, cursor)'
      <4>1. PICK m : m = fast_worker_count OBVIOUS
      <4>2. Ahead(m, s + Participants)' BY <3>5, <3>6, <4>1
      <4> QED BY <2>1, <3>1, <3>3, <4>1, <4>2 DEF Ahead, Participants
    <3>8. ASSUME NEW v \in Worker, done_epoch'[v] # fast_phase_epoch'
          PROVE  Ahead(v, IF wpc[v] = "phase" THEN slot[v] ELSE 0)'
      <4> DEFINE limit == IF wpc[v] = "phase" THEN slot[v] ELSE 0
      <4>1. Ahead(v, limit) /\ limit \in Nat /\ limit' = limit
        BY <1>1, <2>1, <3>8, PhaseTypes DEF AheadInv
      <4>2. v # fast_worker_count BY <1>1, PoolFacts, <2>1 DEF PoolInv, Publishing
      <4> HIDE DEF limit
      <4>3. PICK n \in Nat : n = limit BY <4>1
      <4>4. Ahead(v, n)' BY <3>5, <4>1, <4>2, <4>3
      <4>5. limit' = n' BY <4>1, <4>3
      <4>6. Ahead(v, limit)' BY <4>1, <4>3, <4>4 DEF Ahead
      <4> QED BY <4>6 DEF limit
    <3>9. mpc' = "phase" /\ Ahead(fast_worker_count, cursor)'
      BY <2>1, <3>1, <3>7
    <3>10. \A v \in Worker : wpc'[v] \in {"begin", "phase"} => seen'[v] = fast_phase_epoch'
      BY <1>1, <2>1 DEF AheadInv
    <3> QED BY <2>1, <3>8, <3>9, <3>10 DEF AheadInv
  <2>3. CASE ~(cursor < fast_task_count)
    <3>1. mpc' = "join" /\ runs' = runs /\ mpc' \in Published
      BY <1>7, <2>3 DEF MainPhase, Published
    <3>2. ASSUME NEW p, NEW limit, Ahead(p, limit) PROVE Ahead(p, limit)'
      BY <2>1, <3>1, <3>2 DEF Ahead, Participants
    <3>3. ASSUME NEW v \in Worker, done_epoch'[v] # fast_phase_epoch'
          PROVE  Ahead(v, IF wpc[v] = "phase" THEN slot[v] ELSE 0)'
      <4>1. Ahead(v, IF wpc[v] = "phase" THEN slot[v] ELSE 0)
        BY <1>1, <2>1, <3>3 DEF AheadInv
      <4>2. CASE wpc[v] = "phase" BY <2>1, <3>2, <4>1, <4>2
      <4>3. CASE wpc[v] # "phase" BY <2>1, <3>2, <4>1, <4>3
      <4> QED BY <4>2, <4>3
    <3>4. \A v \in Worker : wpc'[v] \in {"begin", "phase"} => seen'[v] = fast_phase_epoch'
      BY <1>1, <2>1 DEF AheadInv
    <3> QED BY <3>1, <3>3, <3>4 DEF AheadInv
  <2> QED BY <2>2, <2>3
<1>8. CASE Join
  <2>1. /\ mpc' \notin Published /\ pending_tasks' = <<>>
        /\ UNCHANGED <<wpc, lane_vars, fast_phase_epoch>>
    BY <1>1, <1>8 DEF Join, ReturnFromWait, AfterWait, Published
  <2>2. Staged' = {} BY <2>1 DEF Staged
  <2> QED BY <1>1, <2>1, <2>2 DEF AheadInv, Published
<1>9. CASE Submit
  <2>1. /\ mpc \notin Published /\ mpc' \notin Published /\ runs' = runs /\ wpc' = wpc
        /\ pending_tasks' = Append(pending_tasks, submitted') /\ submitted' = submitted + 1
        /\ submitted' \in TaskId
    BY <1>1, <1>9, PoolFacts, MainTypes
       DEF Submit, PoolInv, ActiveWorkerCount, Published, TaskId
  <2>2. Staged' \subseteq Staged \cup {submitted'}
    <3>1. pending_tasks \in Seq(TaskId) /\ Len(pending_tasks) \in Nat BY <1>1, MainTypes
    <3>2. \A i \in DOMAIN pending_tasks' :
            \/ pending_tasks'[i] = submitted'
            \/ i \in DOMAIN pending_tasks /\ pending_tasks'[i] = pending_tasks[i]
      BY <2>1, <3>1
    <3> QED BY <3>2 DEF Staged
  <2>3. runs[submitted'] = 0 BY <1>1, <2>1, MainTypes DEF RunsInv
  <2>4. \A t \in Staged : runs[t] = 0 BY <1>1, <2>1 DEF AheadInv
  <2> QED BY <1>4, <2>1, <2>2, <2>3, <2>4
<1>10. CASE FlushPendingTasks \/ ResetQueue
  <2>1. mpc \notin Published /\ mpc' \notin Published /\ pending_tasks' = <<>> /\ wpc' = wpc
    BY <1>10 DEF FlushPendingTasks, ResetQueue, Published
  <2>2. Staged' = {} BY <2>1 DEF Staged
  <2> QED BY <1>4, <2>1, <2>2
<1>11. CASE ~Submit /\ ~Bump /\ ~NotifyFast /\ ~MainPhase /\ ~Join /\ ~FlushPendingTasks
            /\ ~ResetQueue
  <2>1. /\ mpc \notin Published /\ mpc' \notin Published /\ pending_tasks' = pending_tasks
        /\ \A w \in Worker : wpc'[w] \in {"begin", "phase"} => wpc[w] \in {"begin", "phase"}
    <3> USE DEF Published
    <3>1. CASE Client \/ MainSpuriousWake
      BY <1>11, <3>1 DEF Client, Begin, Request, MainSpuriousWake
    <3>2. CASE TryFastPhase \/ CountPhase \/ Activate \/ Recount \/ LeaveSession
      BY <3>2 DEF TryFastPhase, CountPhase, Activate, Recount, LeaveSession, EndFastSession
    <3>3. CASE AfterFlush \/ MainTake \/ MainRun \/ MainDrained
      BY <3>3 DEF AfterFlush, AfterWait, MainTake, MainRun, MainDrained, ReturnFromWait
    <3>4. CASE NotifyWorkers BY <3>4 DEF NotifyWorkers, Wake
    <3>5. CASE Reconfigure \/ NotifyPark \/ Stop \/ NotifyStop \/ JoinThreads
      BY <3>5 DEF Reconfigure, NotifyPark, Stop, NotifyStop, JoinThreads
    <3> QED BY <1>11, <3>1, <3>2, <3>3, <3>4, <3>5 DEF MainStep
  <2>2. \A t \in Staged : runs'[t] = runs[t]
    <3>1. CASE MainRun
      <4>1. RunAll(main_batch) /\ main_batch \subseteq Running /\ Staged \subseteq TaskId
        BY <1>1, <3>1, PhaseTypes, MainTypes DEF MainRun, Running, Staged
      <4>2. \A t \in Staged : t \notin main_batch BY <1>1, <4>1 DEF PlacesInv, TasksInv
      <4> QED BY <4>1, <4>2 DEF RunAll
    <3>2. CASE ~MainRun
      <4>1. CASE Client \/ MainSpuriousWake
        BY <1>11, <4>1 DEF Client, Begin, Request, MainSpuriousWake
      <4>2. CASE MainStep
        BY <1>11, <3>2, <4>2 DEF MainStep, TryFastPhase, CountPhase, Activate, Recount,
                    LeaveSession, AfterFlush, NotifyWorkers, MainTake, MainDrained,
                    Reconfigure, NotifyPark, Stop, NotifyStop, JoinThreads
      <4> QED BY <4>1, <4>2
    <3> QED BY <3>1, <3>2
  <2>3. Staged' = Staged /\ \A t \in Staged : runs[t] = 0
    BY <1>1, <2>1 DEF AheadInv, Staged
  <2> QED BY <1>4, <2>1, <2>2, <2>3
<1> QED BY <1>5, <1>6, <1>7, <1>8, <1>9, <1>10, <1>11

LEMMA WorkerAheadStep ==
    ASSUME IInv, OnceInv, NEW w \in Worker,
           WorkerStep(w) \/ WorkerStart(w) \/ SpuriousWake(w)
    PROVE  AheadInv'
<1> USE DEF main_vars, main_and_shared, fast_vars, lane_vars, Goto
<1>1. /\ TypeOK /\ SessionInv /\ PlacesInv /\ PhaseInv
      /\ RunsInv /\ AheadInv /\ PoolInv /\ StagedOnce
      /\ DOMAIN wpc = Worker /\ DOMAIN seen = Worker /\ DOMAIN slot = Worker
      /\ DOMAIN done_epoch = Worker
  BY DEF IInv, OnceInv, TypeOK, WorkerTypeOK
<1>2. \A t \in Staged : ~RunSlot(w) => runs'[t] = runs[t] BY WorkerRunsStep
<1>3. CASE RunSlot(w)
  <2>1. /\ wpc[w] = "phase" /\ slot[w] < count[w] /\ slot' = [slot EXCEPT ![w] = @ + stride[w]]
        /\ RunAll({pending_tasks[slot[w] + 1]})
        /\ UNCHANGED <<mpc, cursor, pending_tasks, fast_vars, wpc, seen, done_epoch>>
    BY <1>3 DEF RunSlot
  <2>2. /\ mpc \in Published /\ done_epoch[w] # fast_phase_epoch
        /\ fast_task_count = Len(pending_tasks) /\ w # fast_worker_count
    BY <1>1, <2>1, InsidePhase, PhaseTypes
       DEF PoolInv, PhaseInv, InPhase, Publishing, Published
  <2>3. /\ slot[w] % Participants = w /\ slot[w] \in 0..(Len(pending_tasks) - 1)
        /\ stride[w] = Participants
    BY <1>1, <2>1, <2>2, PhaseTypes, MainTypes DEF PhaseInv, ShareInv
  <2>4. PICK s \in 0..(Len(pending_tasks) - 1) : s = slot[w] BY <2>3
  <2>5. \A t \in TaskId \ {pending_tasks[s + 1]} : runs'[t] = runs[t]
    BY <1>1, <2>1, <2>4 DEF RunAll, TypeOK, HistoryTypeOK
  <2>6. ASSUME NEW p, NEW limit \in Nat, Ahead(p, limit)
        PROVE  /\ p # w => Ahead(p, limit)'
               /\ limit = s => Ahead(p, s + Participants)'
    BY <1>1, <2>1, <2>3, <2>4, <2>5, <2>6, AheadNext
  <2>7. s \in Nat /\ Ahead(w, s) BY <1>1, <2>1, <2>2, <2>4, PhaseTypes DEF AheadInv
  <2>8. Ahead(w, slot[w])'
    <3>1. Ahead(w, s + Participants)' BY <2>6, <2>7
    <3>2. slot'[w] = s + Participants BY <1>1, <2>1, <2>3, <2>4
    <3> QED BY <2>1, <3>1, <3>2 DEF Ahead, Participants
  <2>9. ASSUME NEW v \in Worker \ {w}, done_epoch'[v] # fast_phase_epoch'
        PROVE  Ahead(v, IF wpc[v] = "phase" THEN slot[v] ELSE 0)'
    <3>1. PICK n : n = IF wpc[v] = "phase" THEN slot[v] ELSE 0 OBVIOUS
    <3>2. Ahead(v, n) /\ n \in Nat BY <1>1, <2>1, <2>2, <2>9, <3>1, PhaseTypes DEF AheadInv
    <3>3. Ahead(v, n)' BY <2>6, <3>2
    <3>4. n = IF wpc'[v] = "phase" THEN slot'[v] ELSE 0 BY <1>1, <2>1, <3>1
    <3> QED BY <3>3, <3>4
  <2>10. mpc = "phase" => Ahead(fast_worker_count, cursor)'
    <3> SUFFICES ASSUME mpc = "phase" PROVE Ahead(fast_worker_count, cursor)' OBVIOUS
    <3>1. PICK m, n : m = fast_worker_count /\ n = cursor OBVIOUS
    <3>2. Ahead(m, n) /\ n \in Nat BY <1>1, <3>1, PhaseTypes DEF AheadInv
    <3>3. Ahead(m, n)' BY <2>2, <2>6, <3>1, <3>2
    <3> QED BY <2>1, <3>1, <3>3
  <2>11. mpc = "notify_fast" => Ahead(fast_worker_count, 0)'
    <3> SUFFICES ASSUME mpc = "notify_fast" PROVE Ahead(fast_worker_count, 0)' OBVIOUS
    <3>1. PICK m : m = fast_worker_count OBVIOUS
    <3>2. Ahead(m, 0) BY <1>1, <3>1 DEF AheadInv
    <3>3. Ahead(m, 0)' BY <2>2, <2>6, <3>1, <3>2
    <3> QED BY <2>1, <3>1, <3>3
  <2>12. \A v \in Worker : wpc'[v] \in {"begin", "phase"} => seen'[v] = fast_phase_epoch'
    BY <1>1, <2>1 DEF AheadInv
  <2> QED BY <2>1, <2>2, <2>8, <2>9, <2>10, <2>11, <2>12 DEF AheadInv
<1>4. CASE BeginPhase(w)
  <2>1. /\ wpc[w] = "begin" /\ wpc' = [wpc EXCEPT ![w] = "phase"]
        /\ slot' = [slot EXCEPT ![w] = w]
        /\ UNCHANGED <<mpc, cursor, pending_tasks, fast_vars, seen, done_epoch, runs>>
    BY <1>4 DEF BeginPhase
  <2>2. ASSUME NEW p, NEW limit, Ahead(p, limit) PROVE Ahead(p, limit)'
    BY <2>1, <2>2 DEF Ahead, Participants
  <2>3. ASSUME NEW v \in Worker, mpc \in Published, done_epoch'[v] # fast_phase_epoch'
        PROVE  Ahead(v, IF wpc[v] = "phase" THEN slot[v] ELSE 0)'
    <3>1. PICK n : n = IF wpc[v] = "phase" THEN slot[v] ELSE 0 OBVIOUS
    <3>2. Ahead(v, n) BY <1>1, <2>1, <2>3, <3>1 DEF AheadInv
    <3>3. CASE v = w
      <4>1. n = 0 /\ w \in Nat BY <2>1, <3>1, <3>3, PoolFacts
      <4>2. Ahead(w, w) BY <3>2, <3>3, <4>1, MainTypes, <1>1 DEF Ahead
      <4>3. Ahead(w, w)' BY <2>2, <4>2
      <4>4. wpc'[w] = "phase" /\ slot'[w] = w BY <1>1, <2>1
      <4> QED BY <3>3, <4>3, <4>4
    <3>4. CASE v # w
      <4>1. n = IF wpc'[v] = "phase" THEN slot'[v] ELSE 0 BY <1>1, <2>1, <3>1, <3>4
      <4>2. Ahead(v, n)' BY <2>2, <3>2
      <4> QED BY <4>1, <4>2
    <3> QED BY <3>3, <3>4
  <2>4. /\ mpc' \notin Published => \A t \in Staged' : runs'[t] = 0
        /\ mpc' = "notify_fast" => Ahead(fast_worker_count, 0)'
        /\ mpc' = "phase" => Ahead(fast_worker_count, cursor)'
    BY <1>1, <2>1 DEF AheadInv, Ahead, Participants, Staged
  <2>5. \A v \in Worker : wpc'[v] \in {"begin", "phase"} => seen'[v] = fast_phase_epoch'
    BY <1>1, <2>1 DEF AheadInv
  <2> QED BY <2>1, <2>3, <2>4, <2>5 DEF AheadInv
<1>5. CASE Acknowledge(w)
  <2>1. /\ wpc[w] = "phase" /\ wpc' = [wpc EXCEPT ![w] = "session"]
        /\ done_epoch' = [done_epoch EXCEPT ![w] = seen[w]]
        /\ UNCHANGED <<mpc, cursor, pending_tasks, fast_vars, seen, slot, runs>>
    BY <1>5 DEF Acknowledge
  <2>2. seen[w] = fast_phase_epoch BY <1>1, <2>1 DEF AheadInv
  <2>3. ASSUME NEW v \in Worker, mpc \in Published, done_epoch'[v] # fast_phase_epoch'
        PROVE  Ahead(v, IF wpc[v] = "phase" THEN slot[v] ELSE 0)'
    <3>1. v # w BY <1>1, <2>1, <2>2, <2>3
    <3>2. done_epoch[v] # fast_phase_epoch /\ wpc'[v] = wpc[v] BY <1>1, <2>1, <2>3, <3>1
    <3>3. PICK n : n = IF wpc[v] = "phase" THEN slot[v] ELSE 0 OBVIOUS
    <3>4. Ahead(v, n) BY <1>1, <2>3, <3>2, <3>3 DEF AheadInv
    <3>5. Ahead(v, n)' BY <2>1, <3>4 DEF Ahead, Participants
    <3>6. n = IF wpc'[v] = "phase" THEN slot'[v] ELSE 0 BY <2>1, <3>2, <3>3
    <3> QED BY <3>5, <3>6
  <2>4. /\ mpc' \notin Published => \A t \in Staged' : runs'[t] = 0
        /\ mpc' = "notify_fast" => Ahead(fast_worker_count, 0)'
        /\ mpc' = "phase" => Ahead(fast_worker_count, cursor)'
    BY <1>1, <2>1 DEF AheadInv, Ahead, Participants, Staged
  <2>5. \A v \in Worker : wpc'[v] \in {"begin", "phase"} => seen'[v] = fast_phase_epoch'
    BY <1>1, <2>1 DEF AheadInv
  <2> QED BY <2>1, <2>3, <2>4, <2>5 DEF AheadInv
<1>6. CASE WorkerStart(w) \/ SkipEpoch(w) \/ CheckEpoch(w)
  <2>1. /\ wpc[w] \notin {"begin", "phase"} /\ seen' = [seen EXCEPT ![w] = fast_phase_epoch]
        /\ wpc' = [wpc EXCEPT ![w] = wpc'[w]] /\ wpc'[w] # "phase"
        /\ UNCHANGED <<mpc, cursor, pending_tasks, fast_vars, slot, done_epoch>>
    BY <1>1, <1>6 DEF WorkerStart, SkipEpoch, CheckEpoch
  <2>2. \A v \in Worker : wpc'[v] = "phase" <=> wpc[v] = "phase" BY <1>1, <2>1
  <2>3. \A v \in Worker : wpc'[v] \in {"begin", "phase"} => seen'[v] = fast_phase_epoch
    BY <1>1, <2>1 DEF AheadInv
  <2>4. ~RunSlot(w) BY <2>1 DEF RunSlot
  <2> QED BY <1>1, <1>2, <2>1, <2>2, <2>3, <2>4, SameAhead
<1>7. CASE \/ LookForEpoch(w) \/ Admit(w) \/ EnterSession(w) \/ CheckSession(w)
           \/ ExitSession(w) \/ QueueLane(w) \/ SpuriousWake(w)
  <2>1. /\ wpc[w] \notin {"begin", "phase"} /\ seen' = seen
        /\ wpc'[w] \notin {"begin", "phase"} /\ \A v \in Worker \ {w} : wpc'[v] = wpc[v]
        /\ UNCHANGED <<cursor, pending_tasks, fast_vars, slot, done_epoch>>
        /\ mpc' = mpc \/ (mpc = "asleep" /\ mpc' = "drain")
    <3>1. CASE \/ LookForEpoch(w) \/ Admit(w) \/ EnterSession(w) \/ CheckSession(w)
               \/ ExitSession(w) \/ SpuriousWake(w)
      BY <1>1, <3>1 DEF LookForEpoch, Admit, EnterSession, CheckSession, ExitSession,
                        SpuriousWake
    <3>2. CASE Gate(w) \/ Spin(w) BY <1>1, <3>2 DEF Gate, Spin, WorkerTake
    <3>3. CASE Relock(w) \/ Block(w) BY <1>1, <3>3 DEF Relock, Block, WorkerTake
    <3>4. CASE WorkerRun(w) BY <1>1, <3>4 DEF WorkerRun
    <3> QED BY <1>7, <3>1, <3>2, <3>3, <3>4 DEF QueueLane
  <2>2. \A v \in Worker : wpc'[v] = "phase" <=> wpc[v] = "phase" BY <1>1, <2>1
  <2>3. \A v \in Worker : wpc'[v] \in {"begin", "phase"} => seen'[v] = fast_phase_epoch
    BY <1>1, <2>1 DEF AheadInv
  <2>4. ~RunSlot(w) BY <2>1 DEF RunSlot
  <2>5. mpc' = mpc \/ (mpc \notin Published /\ mpc' \notin Published)
    BY <2>1 DEF Published
  <2> QED BY <1>1, <1>2, <2>1, <2>2, <2>3, <2>4, <2>5, SameAhead
<1> QED BY <1>3, <1>4, <1>5, <1>6, <1>7 DEF WorkerStep, FastLane

LEMMA OnceStep ==
    ASSUME IInv, IInv', OnceInv, [Next]_vars, ActiveCounts = {PoolSize}
    PROVE  OnceInv'
<1>1. StagedOnce' BY StagedStep
<1>2. TypeOK /\ ControlInv /\ SessionInv /\ PoolInv /\ TypeOK' /\ SessionInv'
  BY DEF IInv, OnceInv
<1>3. CASE Client \/ MainStep \/ MainSpuriousWake
  BY <1>1, <1>2, <1>3, MainPoolStep, MainRunsStep, MainAheadStep DEF OnceInv
<1>4. ASSUME NEW w \in Worker, WorkerStep(w) \/ WorkerStart(w) \/ SpuriousWake(w)
      PROVE  OnceInv'
  BY <1>1, <1>2, <1>4, WorkerPoolStep, WorkerRunsStep, WorkerAheadStep DEF OnceInv
<1>5. CASE UNCHANGED vars
  <2>1. UNCHANGED <<main_vars, fast_vars, queue_vars, mode_vars, wpc, lane_vars, wbatch,
                    submitted, runs>>
    BY <1>5 DEF vars
  <2> USE <2>1 DEF main_vars, fast_vars, queue_vars, mode_vars, lane_vars
  <2>2. PoolInv' BY DEF OnceInv, PoolInv
  <2>3. RunsInv' BY DEF OnceInv, RunsInv, AtMostOnce, Running
  <2>4. AheadInv' BY DEF OnceInv, AheadInv, Ahead, Participants, Staged
  <2> QED BY <1>1, <2>2, <2>3, <2>4 DEF OnceInv
<1> QED BY <1>3, <1>4, <1>5 DEF Next

LEMMA OnceInit ==
    ASSUME Init PROVE OnceInv
<1> USE PoolFacts DEF Init
<1>1. PoolInv BY DEF PoolInv, Publishing
<1>2. Running = {} /\ Staged = {} BY DEF Running, Staged
<1>3. RunsInv /\ StagedOnce BY <1>2 DEF RunsInv, AtMostOnce, StagedOnce
<1>4. AheadInv BY <1>2 DEF AheadInv, Published
<1> QED BY <1>1, <1>3, <1>4 DEF OnceInv

\* With the whole pool in every call, no task runs twice.  A worker that joins
\* later than the first call breaks this (run fast_promoted_twice).
THEOREM RunsOnce ==
    ASSUME ActiveCounts = {PoolSize}
    PROVE  Spec => []AtMostOnce
<1>1. IInv /\ IInv' /\ OnceInv /\ [Next]_vars => OnceInv' BY OnceStep
<1>2. Init => OnceInv BY OnceInit
<1>3. OnceInv => AtMostOnce BY DEF OnceInv, RunsInv
<1> QED BY <1>1, <1>2, <1>3, Invariance, PTL DEF Spec

=============================================================================
