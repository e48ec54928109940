-------------------- MODULE CompiledCholeskyProperties --------------------
(***************************************************************************)
(* What the compiled program owes to the sequential one.                   *)
(***************************************************************************)
EXTENDS CompiledCholesky, LoweringProperties

\* The calls being made: one of each running task, and the submitting thread's.
CallsUnderWay ==
    {CallOf(t) : t \in Running}
        \cup (IF AtInstruction("call") THEN {Instruction.call} ELSE {})

\* Every call under way is a call of block_cholesky and, as long as it is under
\* way, finds in each of its operands exactly what the sequential program finds
\* there.  This excludes a missing wait or dependency, a data race, a key that
\* names another tile, and a wrong pointer in a task body.
OperandsAreSerial == \A call \in CallsUnderWay : FindsSerialOperands(call)

\* The compiled program implements the sequential one: each call of
\* block_cholesky is made once, the upper triangle is cleared in the finished
\* matrix only, and the function returns only then or rejects its arguments.
RefinesSequential == SequentialSpec

\* A call of block_cholesky that runs serially or on the ready queue ends: the
\* dependencies that the keys make are not circular, and every wait of the Pass is
\* for something that is submitted before it and will finish.  For FairSpec.
CallsEnd == (shape # "none" /\ ~UsesLockFreeLane) ~> (stage \in {"returned", "rejected"})

\* The graph orders two tasks only if one writes what the other uses: the keys of
\* two tiles differ, and no key stands for more than its tile.
OrderIsNecessary ==
    \A t \in submitted : \A u \in after[t] : Conflict(Program[t].calls, Program[u].calls)

\* should_async and begin decide one after the other, with conditions of their own,
\* and must come to the same answer: an asynchronous call has a worker, and all the
\* workers the policy counts on.  Without one the runtime runs every task inside its
\* submission, and wait does not report its exception.
AsyncHasWorkers ==
    shape \in {"phases", "sync", "task"} =>
        /\ active_workers >= 1
        /\ active_workers + 1 = ResolveThreadCount(input.env, input.n, input.b)

\* The runtime relies on its caller in two ways it does not check.  A call that
\* submits tasks with keys submits no others, so no lock-free phase is opened, or
\* goes on, beside a graph.  And a wait follows the last submission, so that
\* finishCall and the destructor, which end the session before they wait, find no
\* staged task that would open the next one.
SubmissionsMade == {Program[p] : p \in {p \in 1 .. ip - 1 : Program[p].kind = "submit"}}

KeepsProtocol ==
    shape # "none" /\ Accepted(input) =>
        /\ \A s1, s2 \in SubmissionsMade : (s1.output = NoKey) <=> (s2.output = NoKey)
        /\ stage \in {"zeroed", "returned"} => submitted = finished
-----------------------------------------------------------------------------
(* The inductive invariant.  Nothing of it is about one lowering: what the   *)
(* instructions have to be like is Sound.                                    *)

ProgramsAreSound == \A m \in DOMAIN Code : \A s \in DOMAIN Code[m] : Sound(m, Code[m][s])

\* The dispatch has chosen a program that will run.
Loaded == shape # "none" /\ Accepted(input)

TypeInv ==
    /\ input \in Inputs
    /\ shape \in {"none", "serial", Shape(input)}
    /\ stage \in {"factor", "zeroed", "returned", "rejected"}
    /\ done \in [Task -> Nat]
    /\ after \in [Task -> SUBSET Task]
    /\ last_writer \in [Key -> Task \cup {NoTask}]
    /\ Accepted(input) => tile \in [DOMAIN FinalTiles[input] -> Nat]
    /\ started \subseteq submitted
    /\ finished \subseteq started

\* Before the dispatch, and with a matrix that is rejected, nothing happens.
IdleInv ==
    ~Loaded =>
        /\ ip = 1
        /\ submitted = {}
        /\ goal = Runtime!NoGoal
        /\ \A key \in Key : last_writer[key] = NoTask
        /\ tile = BlankTiles(input)
        /\ stage \in {"factor", "rejected"}
        /\ stage = "rejected" => ~Accepted(input)

\* Where the submitting thread is.
ControlInv ==
    Loaded =>
        /\ ip \in DOMAIN Program
        /\ submitted = {p \in 1 .. ip - 1 : Program[p].kind = "submit"}
        /\ stage # "rejected"
        /\ stage = "factor" <=> \A p \in 1 .. ip - 1 : Program[p].kind # "zero"
        /\ stage = "returned" => Instruction.kind = "return"
        /\ goal \in {Runtime!NoGoal}
                \cup (IF Instruction.kind = "wait" THEN {Runtime!WaitAll} ELSE {})
                \cup (IF Instruction.kind = "wait_key"
                      THEN {Runtime!WaitKey(Instruction.key)} ELSE {})

\* What the tasks have made.
ProgressInv ==
    /\ \A p \in Task \ started : done[p] = 0
    /\ \A p \in started :
        /\ done[p] <= Len(Program[p].calls)
        /\ p \in finished <=> done[p] = Len(Program[p].calls)

\* The order the runtime keeps is the order of the keys in the program.
OrderInv ==
    Loaded =>
        /\ \A key \in Key :
                /\ last_writer[key] = NoTask =>
                        \A w \in 1 .. ip - 1 : ~Writes(Program[w], key)
                /\ last_writer[key] # NoTask =>
                        LastWriter(Program, key, ip, last_writer[key])
        /\ \A p \in submitted :
                /\ \A key \in Program[p].deps : \A w \in 1 .. p - 1 :
                        LastWriter(Program, key, p, w) => w \in after[p]
                /\ \A w \in after[p] :
                        w \in submitted /\ Program[w].output \in Program[p].deps
        /\ \A p \in started : after[p] \subseteq finished

\* The waits behind the submitting thread have done their work.
WaitInv ==
    Loaded => \A p \in 1 .. ip - 1 : \A w \in 1 .. p - 1 :
        /\ Program[p].kind = "wait" /\ Program[w].kind = "submit" => w \in finished
        /\ Program[p].kind = "wait_key" /\ LastWriter(Program, Program[p].key, p, w)
                => w \in finished

\* The call at place t has been made.
Made(t) ==
    \E p \in 1 .. ip - 1 : \E i \in DOMAIN CallsIn(Program[p]) :
        /\ CallsIn(Program[p])[i] = CallAt(input, t)
        /\ Program[p].kind = "submit" => i <= done[p]

TileOf(m, t) == At(m.n, t.row * m.b, t.col * m.b)

\* A tile has been written in so many panels, from the first one on.
TileInv ==
    Loaded => \A t \in Place(input) :
        /\ tile[TileOf(input, t)] <= t.col + 1
        /\ Made(t) <=> t.panel < tile[TileOf(input, t)]

IInv ==
    /\ TypeInv /\ IdleInv /\ ControlInv /\ ProgressInv /\ OrderInv /\ WaitInv
    /\ TileInv
=============================================================================
