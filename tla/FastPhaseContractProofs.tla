----------------------- MODULE FastPhaseContractProofs -----------------------
(***************************************************************************)
(* FastPhase implements TaskGraph, when every call uses the whole pool.    *)
(***************************************************************************)
EXTENDS FastPhaseProofs

-----------------------------------------------------------------------------
(* What has run and what is taken. *)

\* Nothing has run that is not submitted, or twice.
RanInv == AtMostOnce /\ Ran \subseteq 1..submitted

LEMMA LeftIsStaged ==
    ASSUME TypeOK, NEW p, NEW limit
    PROVE  Left(p, limit) \subseteq Staged
<1>1. \A i \in 0..(Len(pending_tasks) - 1) : i + 1 \in DOMAIN pending_tasks BY MainTypes
<1> QED BY <1>1 DEF Left, Staged

LEMMA InHandIsStaged ==
    ASSUME TypeOK
    PROVE  InHand \subseteq Staged
BY LeftIsStaged DEF InHand

\* Only inside a phase is there a share to work on.
LEMMA NoShares ==
    ASSUME TypeOK, SessionInv, mpc \notin {"bump_start", "notify_fast", "phase", "join"}
    PROVE  InHand = {}
<1>1. \A w \in Worker : wpc[w] # "phase" BY InsidePhase
<1> QED BY <1>1 DEF InHand

\* A participant that is through with the buffer has nothing left.
LEMMA NothingLeft ==
    ASSUME TypeOK, NEW p, NEW limit \in Nat, limit >= Len(pending_tasks)
    PROVE  Left(p, limit) = {}
BY MainTypes DEF Left

\* The next task of a participant is the first of what it has left.
LEMMA LeftNext ==
    ASSUME TypeOK, NEW s \in 0..(Len(pending_tasks) - 1)
    PROVE  Left(s % Participants, s)
             = {pending_tasks[s + 1]} \cup Left(s % Participants, s + Participants)
<1>1. s \in Nat /\ Participants \in Nat \ {0} BY MainTypes, PhaseTypes
<1>2. \A i \in 0..(Len(pending_tasks) - 1) : i \in Nat BY MainTypes
<1>3. ASSUME NEW i \in 0..(Len(pending_tasks) - 1), i % Participants = s % Participants, i >= s
      PROVE  i = s \/ i >= s + Participants
  <2>1. i \in Nat BY <1>2
  <2>2. CASE i < s + Participants
    <3>1. s = i BY <1>1, <1>3, <2>1, <2>2, SameSlot
    <3> QED BY <3>1
  <2>3. CASE ~(i < s + Participants) BY <1>1, <2>1, <2>3
  <2> QED BY <2>2, <2>3
<1>4. \A i \in 0..(Len(pending_tasks) - 1) : i >= s + Participants => i >= s BY <1>1, <1>2
<1>5. s >= s BY <1>1
<1> DEFINE N == 0..(Len(pending_tasks) - 1)
           c == s % Participants
<1>6. {i \in N : i % Participants = c /\ i >= s}
        = {s} \cup {i \in N : i % Participants = c /\ i >= s + Participants}
  BY <1>3, <1>4, <1>5
<1> HIDE DEF N, c
<1> QED BY <1>6 DEF Left, N, c

\* What RunAll adds to the tasks that have run, when it runs none of them again.
LEMMA RunAllRan ==
    ASSUME TypeOK, AtMostOnce, AtMostOnce', NEW set, set \subseteq TaskId, RunAll(set)
    PROVE  Ran' = Ran \cup set
<1>1. runs \in [TaskId -> Nat] BY PhaseTypes
<1>2. \A t \in TaskId : runs'[t] = 1 <=> runs[t] = 1 \/ t \in set
  <2> SUFFICES ASSUME NEW t \in TaskId PROVE runs'[t] = 1 <=> runs[t] = 1 \/ t \in set
    OBVIOUS
  <2>1. runs'[t] = IF t \in set THEN runs[t] + 1 ELSE runs[t] BY DEF RunAll
  <2>2. runs[t] \in Nat /\ runs[t] <= 1 /\ runs'[t] <= 1 BY <1>1 DEF AtMostOnce
  <2> QED BY <2>1, <2>2
<1> QED BY <1>2 DEF Ran

LEMMA TakenIsSubmitted ==
    ASSUME IInv, RanInv
    PROVE  /\ Ran \subseteq Taken /\ Taken \subseteq 1..submitted /\ 1..submitted \subseteq TaskId
           /\ Running \subseteq 1..submitted /\ Staged \subseteq 1..submitted
           /\ tasks \subseteq 1..submitted
<1>1. InHand \subseteq Staged BY InHandIsStaged DEF IInv
<1>2. Staged \cup tasks \cup Running \subseteq 1..submitted BY DEF IInv, PlacesInv, TasksInv
<1>3. 1..submitted \subseteq TaskId BY PoolFacts DEF IInv, TypeOK, HistoryTypeOK, TaskId
<1> QED BY <1>1, <1>2, <1>3 DEF Taken, RanInv

-----------------------------------------------------------------------------
(* The kinds of step the client can see. *)

LEMMA GoalFacts ==
    /\ Waiting => [kind |-> IF Waiting THEN "all" ELSE "none", key |-> 0] = Contract!WaitAll
    /\ ~Waiting => [kind |-> IF Waiting THEN "all" ELSE "none", key |-> 0] = Contract!NoGoal
BY DEF Contract!WaitAll, Contract!NoGoal

\* Nothing the client sees changes.
LEMMA Invisible ==
    ASSUME UNCHANGED <<submitted, Taken, Ran>>, Waiting' <=> Waiting
    PROVE  UNCHANGED Contract!vars
BY DEF Contract!vars

\* Tasks are taken.
LEMMA Takes ==
    ASSUME IInv, RanInv, NEW batch \in SUBSET (1..submitted),
           Taken' = Taken \cup batch, UNCHANGED <<submitted, Ran>>, Waiting' <=> Waiting
    PROVE  [Contract!Next]_(Contract!vars)
<1> DEFINE fresh == batch \ Taken
<1>1. Taken' = Taken \cup fresh OBVIOUS
<1>2. fresh \in SUBSET TaskId /\ fresh \subseteq (1..submitted) \ Taken BY TakenIsSubmitted
<1> HIDE DEF fresh
<1>3. CASE fresh = {} BY <1>1, <1>3, Invisible
<1>4. CASE fresh # {}
  <2>1. \A t \in fresh : [u \in TaskId |-> {}][t] \subseteq Ran BY <1>2
  <2>2. Contract!Start(fresh) BY <1>1, <1>2, <1>4, <2>1 DEF Contract!Start
  <2> QED BY <1>2, <2>2 DEF Contract!Next
<1> QED BY <1>3, <1>4

\* Taken tasks finish.
LEMMA Finishes ==
    ASSUME IInv, RanInv, NEW batch \in SUBSET Taken,
           Ran' = Ran \cup batch, UNCHANGED <<submitted, Taken>>, Waiting' <=> Waiting
    PROVE  [Contract!Next]_(Contract!vars)
<1> DEFINE fresh == batch \ Ran
<1>1. Ran' = Ran \cup fresh OBVIOUS
<1>2. fresh \in SUBSET TaskId /\ fresh \subseteq Taken \ Ran BY TakenIsSubmitted
<1> HIDE DEF fresh
<1>3. CASE fresh = {} BY <1>1, <1>3, Invisible
<1>4. CASE fresh # {}
  <2>1. Contract!Finish(fresh) BY <1>1, <1>2, <1>4 DEF Contract!Finish
  <2> QED BY <1>2, <2>1 DEF Contract!Next
<1> QED BY <1>3, <1>4

\* A wait begins.
LEMMA Blocks ==
    ASSUME ~Waiting, Waiting', UNCHANGED <<submitted, Taken, Ran>>
    PROVE  [Contract!Next]_(Contract!vars)
<1>1. Contract!Block(Contract!WaitAll)
  BY GoalFacts DEF Contract!Block, Contract!WaitAll, Contract!NoGoal
<1>2. Contract!WaitAll \in Contract!Goal BY DEF Contract!Goal
<1> QED BY <1>1, <1>2 DEF Contract!Next

\* A wait that returns has seen everything run.
LEMMA Returns ==
    ASSUME IInv, RanInv, ~Waiting', UNCHANGED <<submitted, Taken, Ran>>,
           \A t \in 1..submitted : runs[t] >= 1
    PROVE  [Contract!Next]_(Contract!vars)
<1>1. CASE ~Waiting BY <1>1, Invisible
<1>2. CASE Waiting
  <2>1. \A t \in 1..submitted : t \in TaskId /\ runs[t] = 1
    BY TakenIsSubmitted, PhaseTypes DEF RanInv, AtMostOnce, IInv
  <2>2. Ran = 1..submitted BY <2>1 DEF Ran, RanInv
  <2>3. Contract!Return
    BY <1>2, <2>2 DEF Contract!Return, Contract!Reached, Contract!NoGoal
  <2> QED BY <2>3 DEF Contract!Next
<1> QED BY <1>1, <1>2

LEMMA SameWaiting ==
    ASSUME op' = op, mpc' \in {"client"} \cup Drained <=> mpc \in {"client"} \cup Drained
    PROVE  Waiting' <=> Waiting
BY DEF Waiting, Drained

LEMMA NoSharesNext ==
    ASSUME mpc' \notin {"notify_fast", "phase"}, \A w \in Worker : wpc'[w] # "phase"
    PROVE  InHand' = {}
BY DEF InHand

\* The shares stay as they are.
LEMMA SameShares ==
    ASSUME UNCHANGED <<pending_tasks, fast_worker_count, slot>>,
           \A w \in Worker : wpc'[w] = "phase" <=> wpc[w] = "phase",
           mpc' \in {"notify_fast", "phase"} <=> mpc \in {"notify_fast", "phase"},
           mpc \in {"notify_fast", "phase"} => cursor' = cursor
    PROVE  InHand' = InHand
<1>1. \A p, limit : Left(p, limit)' = Left(p, limit)
  BY DEF Left, Participants
<1>3. {w \in Worker : wpc'[w] = "phase"} = {w \in Worker : wpc[w] = "phase"} OBVIOUS
<1> QED BY <1>1, <1>3 DEF InHand, Left, Participants

-----------------------------------------------------------------------------
(* Main. *)

LEMMA SubmitRefines ==
    ASSUME IInv, RanInv, active_workers > 0, Submit
    PROVE  Contract!Next
<1>1. /\ mpc = "client" /\ op' = "submit" /\ submitted' = submitted + 1
      /\ submitted < MaxTasks /\ mpc' \in {"client", "flush"}
      /\ UNCHANGED <<main_batch, wbatch, wpc, runs>>
  <2>1. ActiveWorkerCount # 0 BY MainTypes DEF ActiveWorkerCount, IInv
  <2> QED BY <2>1 DEF Submit
<1>2. submitted \in Nat /\ submitted' \in TaskId
  BY <1>1, PoolFacts, MainTypes DEF IInv, TaskId
<1>3. \A w \in Worker : wpc[w] # "phase" BY <1>1, InsidePhase DEF IInv
<1>4. InHand = {} /\ InHand' = {} BY <1>1, <1>3, NoSharesNext, NoShares DEF IInv
<1>5. Ran' = Ran /\ Running' = Running BY <1>1 DEF Ran, Running
<1>6. Taken' = Taken BY <1>4, <1>5 DEF Taken
<1>7. ~Waiting /\ ~Waiting' BY <1>1 DEF Waiting
<1>8. submitted' \notin 1..submitted /\ 1..submitted' = (1..submitted) \cup {submitted'}
  BY <1>1, <1>2
<1>9. Contract!Submit(submitted', {}, 0)
  <2>1. [t \in TaskId |-> {}]
          = [[t \in TaskId |-> {}] EXCEPT ![submitted'] = {[k \in {} |-> 0][key] : key \in {}} \ {0}]
    OBVIOUS
  <2>2. [k \in {} |-> 0] = [k \in {} |-> IF k = 0 THEN submitted' ELSE [j \in {} |-> 0][k]]
    OBVIOUS
  <2> QED BY <1>5, <1>6, <1>7, <1>8, <2>1, <2>2, GoalFacts DEF Contract!Submit
<1> QED BY <1>2, <1>9 DEF Contract!Next

\* The calls other than submit block the client.
LEMMA CallRefines ==
    ASSUME IInv, RanInv,
           \/ \E active \in ActiveCounts, fast \in FastModes : Begin(active, fast)
           \/ \E o \in {"wait", "end", "destroy"} : Request(o)
    PROVE  [Contract!Next]_(Contract!vars)
<1>1. /\ mpc = "client" /\ mpc' \in {"try", "leave"} /\ op' \in {"begin", "wait", "end", "destroy"}
      /\ UNCHANGED <<main_batch, wbatch, wpc, runs, submitted>>
  BY DEF Begin, Request
<1>2. \A w \in Worker : wpc[w] # "phase" BY <1>1, InsidePhase DEF IInv
<1>3. InHand = {} /\ InHand' = {} BY <1>1, <1>2, NoSharesNext, NoShares DEF IInv
<1>4. Ran' = Ran /\ Running' = Running BY <1>1 DEF Ran, Running
<1>5. Taken' = Taken BY <1>3, <1>4 DEF Taken
<1>6. ~Waiting /\ Waiting' BY <1>1 DEF Waiting, Drained
<1> QED BY <1>1, <1>4, <1>5, <1>6, Blocks

\* Steps outside a phase that neither take nor run a task.
LEMMA MainInvisible ==
    ASSUME IInv, active_workers > 0,
           \/ TryFastPhase \/ CountPhase \/ Activate \/ Recount \/ LeaveSession
           \/ FlushPendingTasks \/ AfterFlush \/ NotifyWorkers \/ Reconfigure \/ NotifyPark
           \/ ResetQueue \/ Stop \/ NotifyStop \/ JoinThreads \/ MainSpuriousWake
    PROVE  UNCHANGED Contract!vars
<1> DEFINE Still == /\ UNCHANGED <<submitted, runs, main_batch, wbatch, op>>
                    /\ mpc \notin {"bump_start", "notify_fast", "phase", "join"}
                    /\ mpc' \notin {"notify_fast", "phase"}
                    /\ \A w \in Worker : wpc'[w] = "phase" => wpc[w] = "phase"
           Turn == mpc' \in {"client"} \cup Drained <=> mpc \in {"client"} \cup Drained
<1> USE DEF Drained, ActiveWorkerCount
<1>1. ASSUME Still, Waiting' <=> Waiting PROVE UNCHANGED Contract!vars
  <2>1. \A w \in Worker : wpc'[w] # "phase" BY <1>1, InsidePhase DEF IInv
  <2>2. InHand = {} /\ InHand' = {} BY <1>1, <2>1, NoSharesNext, NoShares DEF IInv
  <2>3. Ran' = Ran /\ Taken' = Taken BY <1>1, <2>2 DEF Ran, Running, Taken
  <2> QED BY <1>1, <2>3, Invisible
<1>2. CASE TryFastPhase \/ CountPhase \/ Activate \/ Recount
  <2>1. Still /\ Turn BY <1>2 DEF TryFastPhase, CountPhase, Activate, Recount
  <2> QED BY <1>1, <2>1, SameWaiting
<1>3. CASE LeaveSession \/ FlushPendingTasks
  <2>1. Still /\ Turn BY <1>3 DEF LeaveSession, EndFastSession, FlushPendingTasks
  <2> QED BY <1>1, <2>1, SameWaiting
<1>4. CASE NotifyWorkers \/ NotifyPark \/ NotifyStop
  <2>1. Still /\ Turn BY <1>4 DEF NotifyWorkers, NotifyPark, NotifyStop, Wake, Asleep
  <2> QED BY <1>1, <2>1, SameWaiting
<1>5. CASE Reconfigure \/ ResetQueue \/ Stop \/ JoinThreads \/ MainSpuriousWake
  <2>1. Still /\ Turn
    BY <1>5 DEF Reconfigure, ResetQueue, Stop, JoinThreads, MainSpuriousWake
  <2> QED BY <1>1, <2>1, SameWaiting
<1>6. CASE AfterFlush
  <2>1. Still BY <1>6 DEF AfterFlush, AfterWait
  <2>2. Waiting' <=> Waiting BY <1>6 DEF AfterFlush, Waiting
  <2> QED BY <1>1, <2>1, <2>2
<1> QED BY <1>2, <1>3, <1>4, <1>5, <1>6

\* Publishing the epoch hands Main its share.
LEMMA BumpRefines ==
    ASSUME IInv, RanInv, Bump
    PROVE  [Contract!Next]_(Contract!vars)
<1>1. /\ mpc \in {"bump_start", "bump"} /\ mpc' \in {"notify_fast", "phase"}
      /\ cursor' = fast_worker_count
      /\ UNCHANGED <<submitted, runs, main_batch, wbatch, op, wpc, slot, pending_tasks,
                     fast_worker_count>>
  BY DEF Bump, lane_vars
<1>2. Ran' = Ran /\ Running' = Running /\ Participants' = Participants
  BY <1>1 DEF Ran, Running, Participants
<1>3. InHand' = InHand \cup Left(fast_worker_count, fast_worker_count)
  BY <1>1, <1>2 DEF InHand, Left
<1>4. Taken' = Taken \cup Left(fast_worker_count, fast_worker_count)
  BY <1>2, <1>3 DEF Taken
<1>5. Left(fast_worker_count, fast_worker_count) \in SUBSET (1..submitted)
  BY LeftIsStaged, TakenIsSubmitted DEF IInv
<1>6. Waiting' <=> Waiting BY <1>1, SameWaiting DEF Drained
<1> QED BY <1>1, <1>2, <1>4, <1>5, <1>6, Takes

LEMMA NotifyFastRefines ==
    ASSUME IInv, NotifyFast
    PROVE  UNCHANGED Contract!vars
<1>1. /\ mpc = "notify_fast" /\ mpc' = "phase"
      /\ UNCHANGED <<submitted, runs, main_batch, wbatch, op, slot, pending_tasks, cursor,
                     fast_worker_count>>
      /\ \A w \in Worker : wpc'[w] = "phase" <=> wpc[w] = "phase"
  BY DEF NotifyFast, fast_vars, lane_vars
<1>2. InHand' = InHand BY <1>1, SameShares
<1>3. Ran' = Ran /\ Taken' = Taken BY <1>1, <1>2 DEF Ran, Running, Taken
<1>4. Waiting' <=> Waiting BY <1>1, SameWaiting DEF Drained
<1> QED BY <1>1, <1>3, <1>4, Invisible

\* Main runs its share slot by slot.
LEMMA MainPhaseRefines ==
    ASSUME IInv, RanInv, AtMostOnce', MainPhase
    PROVE  [Contract!Next]_(Contract!vars)
<1>1. TypeOK /\ PhaseInv /\ ControlInv BY DEF IInv
<1>2. /\ mpc = "phase" /\ mpc' \in {"phase", "join"}
      /\ UNCHANGED <<submitted, main_batch, wbatch, op, wpc, slot, pending_tasks,
                     fast_worker_count>>
  BY DEF MainPhase, lane_vars, fast_vars
<1>3. /\ fast_task_count = Len(pending_tasks)
      /\ cursor % Participants = fast_worker_count
  BY <1>1, <1>2 DEF PhaseInv, InPhase, Publishing
<1> DEFINE Others == UNION {Left(w, slot[w]) : w \in {w \in Worker : wpc[w] = "phase"}}
           Mine == Left(fast_worker_count, cursor)
<1>4. InHand = Mine \cup Others BY <1>2 DEF InHand
<1>5. Running' = Running /\ Participants' = Participants /\ Others' = Others
  BY <1>2 DEF Running, Participants, Left
<1>6. Waiting' <=> Waiting BY <1>2, SameWaiting DEF Drained
<1>7. CASE cursor < fast_task_count
  <2> DEFINE t == pending_tasks[cursor + 1]
  <2>1. RunAll({t}) /\ cursor' = cursor + Participants /\ mpc' = "phase"
    BY <1>1, <1>7, PhaseTypes DEF MainPhase
  <2>2. cursor \in 0..(Len(pending_tasks) - 1) BY <1>1, <1>3, <1>7, PhaseTypes, MainTypes
  <2>3. Mine = {t} \cup Left(fast_worker_count, cursor + Participants)
    BY <1>1, <1>3, <2>2, LeftNext
  <2>4. InHand' = Left(fast_worker_count, cursor + Participants) \cup Others
    <3>1. InHand' = Left(fast_worker_count, cursor)' \cup Others' BY <2>1 DEF InHand
    <3>2. Left(fast_worker_count, cursor)' = Left(fast_worker_count, cursor + Participants)
      BY <1>2, <1>5, <2>1 DEF Left
    <3> QED BY <1>5, <3>1, <3>2
  <2>5. t \in TaskId /\ t \in InHand
    <3>1. cursor + 1 \in 1..Len(pending_tasks) BY <2>2, MainTypes, <1>1
    <3> QED BY <1>1, <1>4, <2>3, <3>1, PhaseTypes
  <2> HIDE DEF t, Others, Mine
  <2>6. Ran' = Ran \cup {t} BY <1>1, <2>1, <2>5, RunAllRan DEF RanInv
  <2>7. Taken' = Taken BY <1>4, <1>5, <2>3, <2>4, <2>5, <2>6 DEF Taken
  <2>8. {t} \in SUBSET Taken BY <2>5 DEF Taken
  <2> QED BY <1>2, <1>6, <2>6, <2>7, <2>8, Finishes
<1>8. CASE ~(cursor < fast_task_count)
  <2>1. mpc' = "join" /\ runs' = runs BY <1>8 DEF MainPhase
  <2>2. Mine = {} BY <1>1, <1>3, <1>8, PhaseTypes, MainTypes, NothingLeft
  <2>3. InHand' = Others BY <1>5, <2>1 DEF InHand
  <2>4. Ran' = Ran BY <2>1 DEF Ran
  <2> HIDE DEF Others, Mine
  <2>5. Taken' = Taken BY <1>4, <1>5, <2>2, <2>3, <2>4 DEF Taken
  <2> QED BY <1>2, <1>6, <2>4, <2>5, Invisible
<1> QED BY <1>7, <1>8

\* A phase that is joined has run the whole buffer.
LEMMA JoinRefines ==
    ASSUME IInv, RanInv, Join
    PROVE  [Contract!Next]_(Contract!vars)
<1>1. TypeOK /\ PhaseInv /\ SessionInv /\ ControlInv /\ DrainedInv BY DEF IInv
<1>2. /\ mpc = "join" /\ op = "wait" /\ op' = op /\ mpc' = "client"
      /\ UNCHANGED <<submitted, runs, main_batch, wbatch, wpc>>
  BY <1>1 DEF Join, ReturnFromWait, AfterWait, ControlInv, InPhase, Publishing
<1>3. \A t \in Staged : runs[t] >= 1 BY <1>1, PhaseCovers DEF Join
<1>4. tasks = {} /\ active_tasks = 0
  BY <1>1, <1>2 DEF DrainedInv, ControlInv, InPhase, Publishing
<1>5. \A t \in 1..submitted : runs[t] >= 1 BY <1>3, <1>4, NowhereMeansRan
<1>6. \A w \in Worker : wpc[w] # "phase" BY <1>1, InsidePhase DEF Join
<1>7. InHand' = {} BY <1>2, <1>6, NoSharesNext
<1>8. InHand = {} BY <1>2, <1>6 DEF InHand
<1>9. Ran' = Ran /\ Taken' = Taken BY <1>2, <1>7, <1>8 DEF Ran, Running, Taken
<1>10. ~Waiting' BY <1>2 DEF Waiting
<1> QED BY <1>2, <1>5, <1>9, <1>10, Returns

\* Main as a worker of the ready queue.
LEMMA MainQueueRefines ==
    ASSUME IInv, RanInv, AtMostOnce', MainTake \/ MainRun \/ MainDrained
    PROVE  [Contract!Next]_(Contract!vars)
<1>1. TypeOK /\ SessionInv /\ PlacesInv /\ ControlInv BY DEF IInv
<1>2. /\ mpc \in {"drain", "run"} /\ mpc' \notin {"notify_fast", "phase"} /\ op' = op
      /\ UNCHANGED <<submitted, wbatch, wpc>>
  BY DEF MainTake, MainRun, MainDrained, ReturnFromWait, AfterWait
<1>3. \A w \in Worker : wpc[w] # "phase" BY <1>1, <1>2, InsidePhase
<1>4. InHand = {} /\ InHand' = {} BY <1>1, <1>2, <1>3, NoSharesNext, NoShares
<1> DEFINE Others == UNION {wbatch[w] : w \in Worker}
<1>5. Running = main_batch \cup Others /\ Running' = main_batch' \cup Others
  BY <1>2 DEF Running
<1> HIDE DEF Others
<1>6. CASE MainTake
  <2>1. main_batch = {} /\ main_batch' = Oldest /\ runs' = runs /\ mpc = "drain" /\ mpc' = "run"
    BY <1>1, <1>6 DEF MainTake, PlacesInv, BatchesInv
  <2>2. Ran' = Ran BY <2>1 DEF Ran
  <2>3. Taken' = Taken \cup Oldest BY <1>4, <1>5, <2>1, <2>2 DEF Taken
  <2>4. Oldest \in SUBSET (1..submitted) BY TakenIsSubmitted DEF Oldest
  <2>5. Waiting' <=> Waiting BY <1>2, <2>1, SameWaiting DEF Drained
  <2> QED BY <1>2, <2>2, <2>3, <2>4, <2>5, Takes
<1>7. CASE MainRun
  <2>1. main_batch' = {} /\ RunAll(main_batch) /\ mpc = "run" /\ mpc' = "drain"
    BY <1>7 DEF MainRun
  <2>2. main_batch \subseteq Running /\ main_batch \subseteq TaskId
    BY <1>5, TakenIsSubmitted
  <2>3. Ran' = Ran \cup main_batch BY <1>1, <2>1, <2>2, RunAllRan DEF RanInv
  <2>4. Taken' = Taken BY <1>4, <1>5, <2>1, <2>3 DEF Taken
  <2>5. main_batch \in SUBSET Taken BY <2>2 DEF Taken
  <2>6. Waiting' <=> Waiting BY <1>2, <2>1, SameWaiting DEF Drained
  <2> QED BY <1>2, <2>3, <2>4, <2>5, <2>6, Finishes
<1>8. CASE MainDrained
  <2>1. UNCHANGED <<runs, main_batch>> /\ mpc = "drain" /\ tasks = {} BY <1>8 DEF MainDrained
  <2>2. Ran' = Ran /\ Taken' = Taken BY <1>4, <1>5, <2>1 DEF Ran, Taken
  <2>3. CASE active_tasks = 0
    <3>1. pending_tasks = <<>> BY <1>1, <2>1 DEF ControlInv
    <3>2. Staged = {} BY <3>1 DEF Staged
    <3>3. \A t \in 1..submitted : runs[t] >= 1 BY <2>1, <2>3, <3>2, NowhereMeansRan
    <3>4. ~Waiting'
      BY <1>2, <1>8, <2>3 DEF MainDrained, ReturnFromWait, AfterWait, Waiting, Drained
    <3> QED BY <1>2, <2>2, <3>3, <3>4, Returns
  <2>4. CASE active_tasks # 0
    <3>1. mpc' = "asleep" BY <1>8, <2>4 DEF MainDrained
    <3>2. Waiting' <=> Waiting BY <1>2, <2>1, <3>1, SameWaiting DEF Drained
    <3> QED BY <1>2, <2>2, <3>2, Invisible
  <2> QED BY <2>3, <2>4
<1> QED BY <1>6, <1>7, <1>8

-----------------------------------------------------------------------------
(* The workers. *)

\* A worker inside a phase: its share, and those of the others.
LEMMA ShareOf ==
    ASSUME NEW w \in Worker, wpc[w] = "phase"
    PROVE  InHand = Left(w, slot[w]) \cup
                    ((IF mpc \in {"notify_fast", "phase"} THEN Left(fast_worker_count, cursor) ELSE {})
                        \cup UNION {Left(v, slot[v]) : v \in {v \in Worker \ {w} : wpc[v] = "phase"}})
<1> DEFINE S == {v \in Worker : wpc[v] = "phase"}
           R == {v \in Worker \ {w} : wpc[v] = "phase"}
<1>1. S = R \cup {w} OBVIOUS
<1> HIDE DEF S, R
<1>2. UNION {Left(v, slot[v]) : v \in S} = Left(w, slot[w]) \cup UNION {Left(v, slot[v]) : v \in R}
  BY <1>1
<1> QED BY <1>2 DEF InHand, S, R

\* Beginning the phase takes the worker's share.
LEMMA BeginPhaseRefines ==
    ASSUME IInv, RanInv, NEW w \in Worker, BeginPhase(w)
    PROVE  [Contract!Next]_(Contract!vars)
<1>1. TypeOK BY DEF IInv
<1>2. /\ UNCHANGED <<mpc, op, cursor, submitted, runs, main_batch, wbatch, pending_tasks,
                     fast_worker_count>>
      /\ wpc[w] = "begin" /\ slot'[w] = w /\ wpc'[w] = "phase"
      /\ \A v \in Worker \ {w} : slot'[v] = slot[v] /\ wpc'[v] = wpc[v]
  BY <1>1, LaneTypes, PhaseTypes DEF BeginPhase, main_and_shared, main_vars, fast_vars, Goto
<1> DEFINE S == {v \in Worker : wpc[v] = "phase"}
<1>3. {v \in Worker : wpc'[v] = "phase"} = S \cup {w} /\ w \notin S BY <1>2
<1>4. Participants' = Participants BY <1>2 DEF Participants
<1>5. \A p, l : Left(p, l)' = Left(p, l) BY <1>2, <1>4 DEF Left
<1>6. InHand' = InHand \cup Left(w, w)
  <2>1. UNION {Left(v, slot'[v]) : v \in S \cup {w}}
          = Left(w, w) \cup UNION {Left(v, slot[v]) : v \in S}
    BY <1>2, <1>3
  <2> QED BY <1>2, <1>3, <1>4, <2>1 DEF InHand, Left
<1>7. Ran' = Ran /\ Taken' = Taken \cup Left(w, w)
  BY <1>2, <1>6 DEF Ran, Running, Taken
<1>8. Left(w, w) \in SUBSET (1..submitted)
  BY LeftIsStaged, TakenIsSubmitted DEF IInv
<1>9. Waiting' <=> Waiting BY <1>2, SameWaiting
<1> QED BY <1>2, <1>7, <1>8, <1>9, Takes

\* Running a slot finishes one task of the share.
LEMMA RunSlotRefines ==
    ASSUME IInv, RanInv, AtMostOnce', NEW w \in Worker, RunSlot(w)
    PROVE  [Contract!Next]_(Contract!vars)
<1>1. TypeOK /\ PhaseInv /\ SessionInv BY DEF IInv
<1> DEFINE t == pending_tasks[slot[w] + 1]
           next == slot[w] + Participants
           Others == (IF mpc \in {"notify_fast", "phase"} THEN Left(fast_worker_count, cursor)
                      ELSE {})
                        \cup UNION {Left(v, slot[v]) : v \in {v \in Worker \ {w} : wpc[v] = "phase"}}
<1>2. /\ mpc \in {"bump_start", "notify_fast", "phase", "join"}
      /\ fast_task_count = Len(pending_tasks) /\ count[w] = fast_task_count
      /\ stride[w] = Participants /\ slot[w] % Participants = w /\ slot[w] < count[w]
  BY <1>1, InsidePhase DEF RunSlot, PhaseInv, ShareInv, InPhase, Publishing
<1>3. slot[w] \in 0..(Len(pending_tasks) - 1)
  BY <1>1, <1>2, PhaseTypes, MainTypes
<1>4. /\ UNCHANGED <<mpc, op, cursor, submitted, main_batch, wbatch, pending_tasks,
                     fast_worker_count, wpc>>
      /\ wpc[w] = "phase" /\ slot'[w] = next /\ RunAll({t})
      /\ \A v \in Worker \ {w} : slot'[v] = slot[v]
  BY <1>1, <1>2, PhaseTypes DEF RunSlot, main_and_shared, main_vars, fast_vars
<1>5. Left(w, slot[w]) = {t} \cup Left(w, next) BY <1>1, <1>2, <1>3, LeftNext
<1>6. InHand = Left(w, slot[w]) \cup Others BY <1>4, ShareOf
<1>7. InHand' = Left(w, next) \cup Others
  <2>1. Participants' = Participants BY <1>4 DEF Participants
  <2>2. {v \in Worker : wpc'[v] = "phase"} = {v \in Worker \ {w} : wpc[v] = "phase"} \cup {w}
    BY <1>4
  <2> DEFINE R == {v \in Worker \ {w} : wpc[v] = "phase"}
  <2>3. R \subseteq Worker \ {w} OBVIOUS
  <2> HIDE DEF R, next
  <2>4. UNION {Left(v, slot'[v]) : v \in R \cup {w}}
          = Left(w, next) \cup UNION {Left(v, slot[v]) : v \in R}
    BY <1>4, <2>3
  <2> QED BY <1>4, <2>1, <2>2, <2>4 DEF InHand, Left, R
<1>8. t \in TaskId
  <2>1. slot[w] + 1 \in 1..Len(pending_tasks) BY <1>1, <1>3, MainTypes
  <2> QED BY <1>1, <2>1, PhaseTypes
<1> HIDE DEF Others, t, next
<1>9. Ran' = Ran \cup {t} BY <1>1, <1>4, <1>8, RunAllRan DEF RanInv
<1>10. Running' = Running BY <1>4 DEF Running
<1>11. Taken' = Taken /\ {t} \in SUBSET Taken BY <1>5, <1>6, <1>7, <1>9, <1>10 DEF Taken
<1>12. Waiting' <=> Waiting BY <1>4, SameWaiting
<1> QED BY <1>4, <1>9, <1>11, <1>12, Finishes

\* A worker acknowledges when it has nothing left.
LEMMA AcknowledgeRefines ==
    ASSUME IInv, NEW w \in Worker, Acknowledge(w)
    PROVE  UNCHANGED Contract!vars
<1>1. TypeOK /\ PhaseInv /\ SessionInv BY DEF IInv
<1> DEFINE Others == (IF mpc \in {"notify_fast", "phase"} THEN Left(fast_worker_count, cursor)
                      ELSE {})
                        \cup UNION {Left(v, slot[v]) : v \in {v \in Worker \ {w} : wpc[v] = "phase"}}
<1>2. /\ mpc \in {"bump_start", "notify_fast", "phase", "join"}
      /\ fast_task_count = Len(pending_tasks) /\ count[w] = fast_task_count
      /\ slot[w] >= count[w] /\ wpc[w] = "phase"
  BY <1>1, InsidePhase DEF Acknowledge, PhaseInv, ShareInv, InPhase, Publishing
<1>3. /\ UNCHANGED <<mpc, op, cursor, submitted, runs, main_batch, wbatch, pending_tasks,
                     fast_worker_count, slot>>
      /\ wpc'[w] # "phase" /\ \A v \in Worker \ {w} : wpc'[v] = wpc[v]
  BY <1>1, LaneTypes DEF Acknowledge, main_and_shared, main_vars, fast_vars, Goto
<1>4. Left(w, slot[w]) = {} BY <1>1, <1>2, PhaseTypes, NothingLeft
<1>5. InHand = Others BY <1>2, <1>4, ShareOf
<1>6. InHand' = Others
  <2>1. {v \in Worker : wpc'[v] = "phase"} = {v \in Worker \ {w} : wpc[v] = "phase"} BY <1>3
  <2>2. Participants' = Participants BY <1>3 DEF Participants
  <2> QED BY <1>3, <2>1, <2>2 DEF InHand, Left
<1> HIDE DEF Others
<1>7. Ran' = Ran /\ Taken' = Taken BY <1>3, <1>5, <1>6 DEF Ran, Running, Taken
<1>8. Waiting' <=> Waiting BY <1>3, SameWaiting
<1> QED BY <1>3, <1>7, <1>8, Invisible

\* Taking a batch from the queue.
LEMMA WorkerTakeRefines ==
    ASSUME IInv, RanInv, NEW w \in Worker, Gate(w) \/ Relock(w)
    PROVE  [Contract!Next]_(Contract!vars)
<1>1. TypeOK /\ PlacesInv BY DEF IInv
<1>2. /\ UNCHANGED <<mpc, op, cursor, submitted, runs, main_batch, pending_tasks,
                     fast_worker_count, slot>>
      /\ wpc[w] \in {"gate", "relock"}
      /\ \/ wbatch' = [wbatch EXCEPT ![w] = Oldest]
         \/ wbatch' = wbatch
      /\ \A v \in Worker : wpc'[v] = "phase" <=> wpc[v] = "phase"
  <2>1. CASE Gate(w)
    BY <1>1, <2>1, LaneTypes DEF Gate, WorkerTake, main_vars, fast_vars, lane_vars, Goto
  <2>2. CASE Relock(w)
    BY <1>1, <2>2, LaneTypes DEF Relock, WorkerTake, main_vars, fast_vars, lane_vars, Goto
  <2> QED BY <2>1, <2>2
<1>3. InHand' = InHand BY <1>2, SameShares
<1>4. Ran' = Ran BY <1>2 DEF Ran
<1>5. Waiting' <=> Waiting BY <1>2, SameWaiting
<1>6. CASE wbatch' = wbatch
  <2>1. Taken' = Taken BY <1>2, <1>3, <1>4, <1>6 DEF Taken, Running
  <2> QED BY <1>2, <1>4, <1>5, <2>1, Invisible
<1>7. CASE wbatch' = [wbatch EXCEPT ![w] = Oldest]
  <2>1. wbatch[w] = {} BY <1>1, <1>2 DEF PlacesInv, BatchesInv
  <2>2. wbatch \in [Worker -> SUBSET TaskId] BY <1>1 DEF TypeOK, WorkerTypeOK
  <2>3. UNION {wbatch'[v] : v \in Worker} = Oldest \cup UNION {wbatch[v] : v \in Worker}
    BY <1>7, <2>1, <2>2
  <2>4. Running' = Running \cup Oldest BY <1>2, <2>3 DEF Running
  <2>5. Taken' = Taken \cup Oldest BY <1>3, <1>4, <2>4 DEF Taken
  <2>6. Oldest \in SUBSET (1..submitted) BY TakenIsSubmitted DEF Oldest
  <2> QED BY <1>2, <1>4, <1>5, <2>5, <2>6, Takes
<1> QED BY <1>2, <1>6, <1>7

\* Completing a batch.
LEMMA WorkerRunRefines ==
    ASSUME IInv, RanInv, AtMostOnce', NEW w \in Worker, WorkerRun(w)
    PROVE  [Contract!Next]_(Contract!vars)
<1>1. TypeOK BY DEF IInv
<1>2. /\ UNCHANGED <<op, cursor, submitted, main_batch, pending_tasks, fast_worker_count, slot>>
      /\ mpc' = mpc \/ (mpc = "asleep" /\ mpc' = "drain")
      /\ wbatch' = [wbatch EXCEPT ![w] = {}] /\ RunAll(wbatch[w])
      /\ \A v \in Worker : wpc'[v] = "phase" <=> wpc[v] = "phase"
  BY <1>1, LaneTypes DEF WorkerRun, fast_vars, lane_vars, Goto
<1>3. InHand' = InHand BY <1>2, SameShares
<1>4. Waiting' <=> Waiting BY <1>2, SameWaiting DEF Drained
<1>5. wbatch \in [Worker -> SUBSET TaskId] BY <1>1 DEF TypeOK, WorkerTypeOK
<1>6. UNION {wbatch[v] : v \in Worker} = wbatch[w] \cup UNION {wbatch'[v] : v \in Worker}
  BY <1>2, <1>5
<1>7. Running = Running' \cup wbatch[w] BY <1>2, <1>6 DEF Running
<1>8. wbatch[w] \subseteq TaskId BY <1>5
<1>9. Ran' = Ran \cup wbatch[w] BY <1>1, <1>2, <1>8, RunAllRan DEF RanInv
<1>10. Taken' = Taken BY <1>3, <1>7, <1>9 DEF Taken
<1>11. wbatch[w] \in SUBSET Taken BY <1>7 DEF Taken
<1> QED BY <1>2, <1>4, <1>9, <1>10, <1>11, Finishes

\* The rest of the worker's loops is invisible to the client.
LEMMA WorkerInvisible ==
    ASSUME IInv, NEW w \in Worker,
           \/ WorkerStart(w) \/ LookForEpoch(w) \/ Admit(w) \/ SkipEpoch(w) \/ EnterSession(w)
           \/ CheckSession(w) \/ CheckEpoch(w) \/ ExitSession(w) \/ Spin(w) \/ Block(w)
           \/ SpuriousWake(w)
    PROVE  UNCHANGED Contract!vars
<1>1. TypeOK BY DEF IInv
<1>2. UNCHANGED <<main_and_shared, runs, wbatch, slot>>
      /\ \A v \in Worker : wpc'[v] = "phase" <=> wpc[v] = "phase"
  <2> USE <1>1, LaneTypes DEF Goto, lane_vars
  <2>1. CASE WorkerStart(w) \/ LookForEpoch(w) \/ Admit(w) \/ SkipEpoch(w)
    BY <2>1 DEF WorkerStart, LookForEpoch, Admit, SkipEpoch
  <2>2. CASE EnterSession(w) \/ CheckSession(w) \/ CheckEpoch(w) \/ ExitSession(w)
    BY <2>2 DEF EnterSession, CheckSession, CheckEpoch, ExitSession
  <2>3. CASE Spin(w) \/ Block(w) \/ SpuriousWake(w)
    BY <2>3 DEF Spin, Block, SpuriousWake
  <2> QED BY <2>1, <2>2, <2>3
<1>3. UNCHANGED <<mpc, op, cursor, submitted, main_batch, pending_tasks, fast_worker_count>>
  BY <1>2 DEF main_and_shared, main_vars, fast_vars
<1>4. InHand' = InHand BY <1>2, <1>3, SameShares
<1>5. Ran' = Ran /\ Taken' = Taken BY <1>2, <1>3, <1>4 DEF Ran, Running, Taken
<1>6. Waiting' <=> Waiting BY <1>3, SameWaiting
<1> QED BY <1>3, <1>5, <1>6, Invisible

-----------------------------------------------------------------------------
(* The refinement. *)

LEMMA StepRefines ==
    ASSUME IInv, RanInv, AtMostOnce', active_workers > 0, [Next]_vars
    PROVE  [Contract!Next]_(Contract!vars)
<1>1. CASE Client BY <1>1, SubmitRefines, CallRefines DEF Client
<1>2. CASE MainStep \/ MainSpuriousWake
  BY <1>2, MainInvisible, BumpRefines, NotifyFastRefines, MainPhaseRefines, JoinRefines,
     MainQueueRefines
     DEF MainStep
<1>3. ASSUME NEW w \in Worker, WorkerStep(w) \/ WorkerStart(w) \/ SpuriousWake(w)
      PROVE  [Contract!Next]_(Contract!vars)
  BY <1>3, BeginPhaseRefines, RunSlotRefines, AcknowledgeRefines, WorkerTakeRefines,
     WorkerRunRefines, WorkerInvisible
     DEF WorkerStep, FastLane, QueueLane
<1>4. CASE UNCHANGED vars
  BY <1>4 DEF vars, main_vars, fast_vars, lane_vars, Contract!vars, Taken, Ran, Running, InHand,
              Left, Participants, Waiting
<1> QED BY <1>1, <1>2, <1>3, <1>4 DEF Next

\* The contract starts only what is submitted, and finishes only what is
\* started; so nothing runs that is not submitted.
LEMMA RanStep ==
    ASSUME IInv, RanInv, AtMostOnce', active_workers > 0, [Next]_vars
    PROVE  RanInv'
<1>1. [Contract!Next]_(Contract!vars) BY StepRefines
<1>2. Ran \subseteq Taken /\ Taken \subseteq 1..submitted BY TakenIsSubmitted
<1>3. Ran' \subseteq 1..submitted'
  BY <1>1, <1>2 DEF Contract!Next, Contract!vars, Contract!Submit, Contract!Start,
     Contract!Finish, Contract!Block, Contract!Return
<1> QED BY <1>3 DEF RanInv

\* When every call uses the whole pool, the runtime of the default path implements
\* the contract: it runs each submitted task once, and a call that waits returns
\* only when everything has run.
THEOREM ImplementsContract ==
    ASSUME ActiveCounts = {PoolSize}
    PROVE  Spec => RefinesContract
<1>1. Init => OnceInv /\ RanInv
  <2>1. Init => Ran \subseteq 1..submitted BY PoolFacts DEF Init, Ran
  <2> QED BY <2>1, OnceInit DEF RanInv, OnceInv, RunsInv
<1>2. IInv /\ IInv' /\ OnceInv /\ [Next]_vars => OnceInv' BY OnceStep
<1>3. OnceInv => AtMostOnce /\ active_workers > 0
  BY PoolFacts DEF OnceInv, PoolInv, RunsInv
<1>4. OnceInv' => AtMostOnce' BY DEF OnceInv, RunsInv
<1>5. IInv /\ OnceInv /\ OnceInv' /\ RanInv /\ [Next]_vars => RanInv'
  BY <1>3, <1>4, RanStep
<1>6. IInv /\ OnceInv /\ OnceInv' /\ RanInv /\ [Next]_vars
        => [Contract!Next]_(Contract!vars)
  BY <1>3, <1>4, StepRefines
<1>7. Init => Contract!Init
  <2> SUFFICES ASSUME Init PROVE Contract!Init OBVIOUS
  <2>1. Ran = {} /\ Running = {} /\ InHand = {} /\ ~Waiting /\ 1..submitted = {}
    BY PoolFacts DEF Init, Ran, Running, InHand, Waiting
  <2> QED BY <2>1, GoalFacts DEF Taken, Contract!Init
<1> QED BY <1>1, <1>2, <1>5, <1>6, <1>7, Invariance, PTL
        DEF Spec, RefinesContract, Contract!Spec
=============================================================================
