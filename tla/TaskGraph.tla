----------------------------- MODULE TaskGraph -----------------------------
(***************************************************************************)
(* The contract that the asynchronous runtime owes to the code the Pass    *)
(* generates, without queues, locks, threads or node indices.              *)
(*                                                                         *)
(* The client submits tasks one by one.  A task names the keys it reads    *)
(* and the key it writes (both are tile identities); it must not start     *)
(* before the task that, at the moment of its submission, was the last     *)
(* one submitted to write each of its keys.  Participants start and        *)
(* finish sets of tasks (a batch).  A full wait returns when every         *)
(* submitted task has finished, a key wait when the last writer of its     *)
(* key has finished.                                                       *)
(***************************************************************************)
EXTENDS Naturals, FiniteSets

CONSTANTS
    Task,      \* one identity per submit call
    Key,       \* dependency keys (tiles)
    NoKey,     \* "this task produces no key": a negative output in the code
    NoTask     \* "no submitted task wrote this key"

VARIABLES
    submitted,     \* tasks handed to the runtime
    started,       \* tasks that a participant has taken
    finished,      \* tasks whose batch was completed
    after,         \* after[t]: the tasks t has to come after
    last_writer,   \* last_writer[k]: last task submitted to write k
    goal           \* what the client is blocked on

vars == <<submitted, started, finished, after, last_writer, goal>>

NoGoal == [kind |-> "none", key |-> NoKey]
WaitAll == [kind |-> "all", key |-> NoKey]
WaitKey(k) == [kind |-> "key", key |-> k]
Goal == {NoGoal, WaitAll} \cup {WaitKey(k) : k \in Key}

TypeOK ==
    /\ submitted \subseteq Task
    /\ started \subseteq submitted
    /\ finished \subseteq started
    /\ after \in [Task -> SUBSET Task]
    /\ last_writer \in [Key -> Task \cup {NoTask}]
    /\ goal \in Goal

Init ==
    /\ submitted = {}
    /\ started = {}
    /\ finished = {}
    /\ after = [t \in Task |-> {}]
    /\ last_writer = [k \in Key |-> NoTask]
    /\ goal = NoGoal

\* The order a submission asks for: read-after-write and write-after-write
\* on every key it lists.
Submit(t, deps, output) ==
    /\ goal = NoGoal
    /\ t \notin submitted
    /\ submitted' = submitted \cup {t}
    /\ after' = [after EXCEPT ![t] = {last_writer[k] : k \in deps} \ {NoTask}]
    /\ last_writer' = [k \in Key |-> IF k = output THEN t ELSE last_writer[k]]
    /\ UNCHANGED <<started, finished, goal>>

Start(batch) ==
    /\ batch # {}
    /\ batch \subseteq submitted \ started
    /\ \A t \in batch : after[t] \subseteq finished
    /\ started' = started \cup batch
    /\ UNCHANGED <<submitted, finished, after, last_writer, goal>>

Finish(batch) ==
    /\ batch # {}
    /\ batch \subseteq started \ finished
    /\ finished' = finished \cup batch
    /\ UNCHANGED <<submitted, started, after, last_writer, goal>>

Block(g) ==
    /\ goal = NoGoal
    /\ g # NoGoal
    /\ goal' = g
    /\ UNCHANGED <<submitted, started, finished, after, last_writer>>

Reached(g) ==
    IF g.kind = "all"
    THEN submitted = finished
    ELSE last_writer[g.key] \in finished \cup {NoTask}

Return ==
    /\ goal # NoGoal
    /\ Reached(goal)
    /\ goal' = NoGoal
    /\ UNCHANGED <<submitted, started, finished, after, last_writer>>

Next ==
    \/ \E t \in Task, deps \in SUBSET Key, output \in Key \cup {NoKey} :
            Submit(t, deps, output)
    \/ \E batch \in SUBSET Task : Start(batch)
    \/ \E batch \in SUBSET Task : Finish(batch)
    \/ \E g \in Goal : Block(g)
    \/ Return

Spec == Init /\ [][Next]_vars
=============================================================================
