-------------------------- MODULE CompiledCholesky --------------------------
(***************************************************************************)
(* block_cholesky as the Pass compiles it, running on the runtime.         *)
(*                                                                         *)
(* The submitting thread decides between the serial and the asynchronous   *)
(* version, sizes the call, and then executes the instructions that        *)
(* PassLowering gives for each panel.  The runtime is the contract of      *)
(* TaskGraph, which the schedulers are shown to keep: any participant may  *)
(* start any task that the contract lets start, and tasks run their calls  *)
(* one after the other, beside each other and beside the submitting        *)
(* thread.                                                                 *)
(***************************************************************************)
EXTENDS BlockCholesky, PassLowering

ASSUME InputAssumption ==
    \A m \in Inputs : m.n \in Nat \ {0} /\ m.b \in Nat \ {0} /\ m.env \in Environment

VARIABLES
    shape,          \* the program chosen, "none" before the dispatch
    pool,           \* workers the runtime has
    active_workers, \* workers that take part in this call
    ip,             \* the instruction the submitting thread is at
    done,           \* done[t]: how many of its calls task t has made
    submitted, started, finished, after, last_writer, goal  \* see TaskGraph

graph_vars == <<submitted, started, finished, after, last_writer, goal>>
main_vars == <<input, stage, shape, pool, active_workers, ip>>
vars == <<main_vars, tile, done, graph_vars>>

\* What the submitting thread executes.
Code ==
    [m \in {m \in Inputs : Accepted(m)} |->
        [s \in {"serial", Shape(m)} |-> Lowering(m, s)]]

\* A task is known by the place of its submission in the code; one key per tile.
Submissions(m, s) == {p \in DOMAIN Code[m][s] : Code[m][s][p].kind = "submit"}
Task == UNION {UNION {Submissions(m, s) : s \in DOMAIN Code[m]} : m \in DOMAIN Code}
Key == UNION {0 .. (m.n \div m.b) * (m.n \div m.b) - 1 : m \in Inputs}
NoTask == 0

Runtime == INSTANCE TaskGraph

Init ==
    /\ input \in Inputs
    /\ stage = "factor"
    /\ shape = "none"
    /\ pool \in {0, MaxWorkerThreads(input.env)}
    /\ active_workers = 0
    /\ ip = 1
    /\ tile = BlankTiles(input)
    /\ done = [t \in Task |-> 0]
    /\ Runtime!Init

-----------------------------------------------------------------------------
\* The submitting thread.

\* The dispatch at the entry, and compiler2026_runtime_begin: the pool grows to
\* what any call may want and never shrinks.
Dispatch ==
    LET m == input
        async == ShouldAsync(m.env, m.n, m.b)
        total == TotalThreads(m.env, m.n, m.b)
    IN /\ shape = "none"
       /\ shape' = IF async THEN Shape(m) ELSE "serial"
       /\ pool' = IF async THEN Max({pool, PoolThreads(m.env, m.n, m.b)}) ELSE pool
       /\ active_workers' =
            IF async THEN Min({IF total > 1 THEN total - 1 ELSE 0, pool'}) ELSE 0
       /\ UNCHANGED <<input, stage, ip, tile, done, graph_vars>>

\* The argument check of block_cholesky, which both versions make.
Reject ==
    /\ shape # "none"
    /\ stage = "factor"
    /\ ~Accepted(input)
    /\ stage' = "rejected"
    /\ UNCHANGED <<input, shape, pool, active_workers, ip, tile, done,
                   graph_vars>>

Program == Code[input][shape]
Instruction == Program[ip]

\* The submitting thread is at an instruction of this kind and not in a wait.
AtInstruction(kind) ==
    /\ shape # "none"
    /\ stage \in {"factor", "zeroed"}
    /\ Accepted(input)
    /\ Instruction.kind = kind

Advance ==
    /\ ip' = ip + 1
    /\ UNCHANGED <<input, shape, pool, active_workers>>

MainCall ==
    /\ AtInstruction("call")
    /\ tile' = [tile EXCEPT ![Output(Instruction.call)] = @ + 1]
    /\ Advance
    /\ UNCHANGED <<stage, done, graph_vars>>

\* The output key is registered before the dependencies are looked up.
BugMainSubmitRegistersFirst ==
    /\ AtInstruction("submit")
    /\ goal = Runtime!NoGoal
    /\ submitted' = submitted \cup {ip}
    /\ last_writer' = [k \in Key |-> IF k = Instruction.output THEN ip ELSE last_writer[k]]
    /\ after' = [after EXCEPT ![ip] = {last_writer'[k] : k \in Instruction.deps} \ {NoTask}]
    /\ Advance
    /\ UNCHANGED <<stage, tile, done, started, finished, goal>>

MainSubmit ==
    /\ AtInstruction("submit")
    /\ Runtime!Submit(ip, Instruction.deps, Instruction.output)
    /\ Advance
    /\ UNCHANGED <<stage, tile, done>>

MainBlock ==
    /\ \/ AtInstruction("wait") /\ Runtime!Block(Runtime!WaitAll)
       \/ AtInstruction("wait_key") /\ Runtime!Block(Runtime!WaitKey(Instruction.key))
    /\ UNCHANGED <<main_vars, tile, done>>

MainReturn ==
    /\ Runtime!Return
    /\ Advance
    /\ UNCHANGED <<stage, tile, done>>

ZeroUpperTriangle ==
    /\ AtInstruction("zero")
    /\ stage' = "zeroed"
    /\ Advance
    /\ UNCHANGED <<tile, done, graph_vars>>

Return ==
    /\ AtInstruction("return")
    /\ stage' = "returned"
    /\ UNCHANGED <<input, shape, pool, active_workers, ip, tile, done,
                   graph_vars>>

Main ==
    \/ Dispatch \/ Reject \/ MainCall \/ MainSubmit \/ MainBlock \/ MainReturn
    \/ ZeroUpperTriangle \/ Return

-----------------------------------------------------------------------------
\* The participants.  The submitting thread counts as one although it helps
\* only while it waits.
Running == started \ finished

StartTask(t) ==
    /\ Cardinality(Running) <= active_workers
    /\ Runtime!Start({t})
    /\ UNCHANGED <<main_vars, tile, done>>

\* The next call of a running task; with the last one the task is finished.
CallOf(t) == Program[t].calls[done[t] + 1]

RunCall(t) ==
    /\ t \in Running
    /\ tile' = [tile EXCEPT ![Output(CallOf(t))] = @ + 1]
    /\ done' = [done EXCEPT ![t] = @ + 1]
    /\ IF done'[t] = Len(Program[t].calls)
       THEN Runtime!Finish({t})
       ELSE UNCHANGED graph_vars
    /\ UNCHANGED main_vars

Participants == \E t \in submitted : StartTask(t) \/ RunCall(t)

Next == Main \/ Participants

Spec == Init /\ [][Next]_vars

\* The phases of a small tile go through the lock-free lane.  With keys nothing is
\* staged for it, and the tasks take the ready queue.
UsesLockFreeLane == shape = "phases" /\ FastPhaseEnabledForTile(input.env, input.b)

\* While the submitting thread waits on the ready queue it takes tasks itself, so
\* ready tasks are taken and running ones finish.  In the lock-free lane a worker
\* may fail to serve a phase, and nothing is assumed.
HelpedStep == goal # Runtime!NoGoal /\ ~UsesLockFreeLane /\ Participants

FairSpec == Spec /\ WF_vars(Main) /\ WF_vars(HelpedStep)
=============================================================================
