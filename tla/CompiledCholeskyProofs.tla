----------------------- MODULE CompiledCholeskyProofs -----------------------
(***************************************************************************)
(* Theorems about the sizing of a call and the cutting of a range, for     *)
(* every matrix, every environment and every pool.                         *)
(***************************************************************************)
EXTENDS CompiledCholeskyProperties, LoweringProofs

-----------------------------------------------------------------------------
\* The workers of a call.

LEMMA RequestedThreadsType ==
    ASSUME NEW env \in Environment
    PROVE  /\ RequestedThreads(env) \in Nat \ {0}
           /\ MaxWorkerThreads(env) \in Nat
<1>1. env.hardware \in Nat /\ env.threads \in Nat
  BY DEF Environment, Setting
<1>2. Max({1, env.hardware}) = IF 1 >= env.hardware THEN 1 ELSE env.hardware
  BY <1>1, MaxOfTwo
<1>3. Max({1, env.hardware}) \in Nat \ {0}
  BY <1>1, <1>2, SMT
<1>4. RequestedThreads(env) \in Nat \ {0}
  BY <1>1, <1>3, SMT DEF RequestedThreads, Configured
<1> QED
  BY <1>4, SMT DEF MaxWorkerThreads

LEMMA ResolveThreadCountType ==
    ASSUME NEW env \in Environment, NEW n \in Nat, NEW b \in Nat \ {0}
    PROVE  ResolveThreadCount(env, n, b) \in Nat \ {0}
<1>1. CASE TooSmall(n, b)
  BY <1>1 DEF ResolveThreadCount
<1>2. ASSUME NEW k \in Int, NEW l \in Int
      PROVE  Max({1, Min({k, l})}) \in Nat \ {0}
  <2>1. Min({k, l}) \in Int
    BY MinOfTwo
  <2>2. Max({1, Min({k, l})}) = IF 1 >= Min({k, l}) THEN 1 ELSE Min({k, l})
    BY <2>1, MaxOfTwo
  <2> QED
    BY <2>1, <2>2, SMT
<1>3. RequestedThreads(env) \in Int
  BY RequestedThreadsType, SMT
<1>4. SpinSafeCap(RequestedThreads(env)) \in Int
  BY <1>3, SMT DEF SpinSafeCap
<1>5. ShapeCap(n) \in Int
  <2>1. (n \div 128) * 8 \in Int
    BY SMT
  <2> QED
    BY <2>1, MaxOfTwo DEF ShapeCap
<1>6. ParticipantCapForTile(env, b) \in Int
  <2>1. env.cap \in Nat
    BY DEF Environment, Setting
  <2> QED
    BY <2>1, SMT DEF ParticipantCapForTile, Configured, Unlimited
<1> QED
  BY <1>1, <1>2, <1>3, <1>4, <1>5, <1>6, Zenon DEF ResolveThreadCount

\* What makes AsyncHasWorkers inductive: the pool never has a negative size, and
\* the matrix is one of the given ones.
SizingInv ==
    /\ input \in Inputs
    /\ pool \in Nat
    /\ AsyncHasWorkers

LEMMA InitSizing == Init => SizingInv
<1> SUFFICES ASSUME Init PROVE SizingInv
  OBVIOUS
<1>1. input \in Inputs /\ shape = "none" /\ pool \in {0, MaxWorkerThreads(input.env)}
  BY DEF Init
<1>2. pool \in Nat
  BY <1>1, InputAssumption, RequestedThreadsType, SMT
<1>3. AsyncHasWorkers
  BY <1>1 DEF AsyncHasWorkers
<1> QED
  BY <1>1, <1>2, <1>3 DEF SizingInv

\* The dispatch is the only step that sizes a call.
LEMMA DispatchSizing ==
    ASSUME SizingInv, Dispatch
    PROVE  SizingInv'
<1> DEFINE env == input.env
           n == input.n
           b == input.b
           threads == ResolveThreadCount(env, n, b)
           total == TotalThreads(env, n, b)
           wanted == PoolThreads(env, n, b)
<1>1. /\ env \in Environment /\ n \in Nat /\ b \in Nat \ {0}
      /\ input \in Inputs /\ input' = input
  BY InputAssumption DEF SizingInv, Dispatch
<1>2. threads \in Nat \ {0} /\ MaxWorkerThreads(env) \in Nat /\ pool \in Nat
  BY <1>1, ResolveThreadCountType, RequestedThreadsType DEF SizingInv
<1>3. total \in Nat \ {0}
  BY <1>2 DEF TotalThreads
<1>4. wanted \in Nat /\ wanted >= total - 1
  <2>1. wanted = IF total - 1 >= MaxWorkerThreads(env) THEN total - 1
                 ELSE MaxWorkerThreads(env)
    BY <1>2, <1>3, MaxOfTwo DEF PoolThreads
  <2> HIDE DEF total, wanted
  <2> QED
    BY <1>2, <1>3, <2>1, SMT
<1>5. CASE ShouldAsync(env, n, b)
  <2>1. total = threads /\ threads > 1
    <3>1. ~(b < AsyncMinBlockSize(env))
      <4>1. AsyncMinBlockSize(env) \in Nat
        <5>1. env.min_b \in Nat
          BY <1>1 DEF Environment, Setting
        <5> QED
          BY <5>1 DEF AsyncMinBlockSize, Configured
      <4>2. b >= AsyncMinBlockSize(env)
        BY <1>5 DEF ShouldAsync
      <4> QED
        BY <1>1, <4>1, <4>2, SMT
    <3> QED
      BY <1>5, <3>1 DEF ShouldAsync, TotalThreads
  <2>2. pool' = Max({pool, wanted})
    BY <1>5 DEF Dispatch
  <2>3. active_workers' = Min({IF total > 1 THEN total - 1 ELSE 0, pool'})
    BY <1>5 DEF Dispatch
  <2> HIDE DEF env, n, b, threads, total, wanted
  <2>4. pool' = IF pool >= wanted THEN pool ELSE wanted
    BY <1>2, <1>4, <2>2, MaxOfTwo
  <2>5. pool' \in Nat /\ pool' >= total - 1 /\ total - 1 \in Nat
    BY <1>2, <1>3, <1>4, <2>4, SMT
  <2>6. active_workers' = Min({total - 1, pool'})
    BY <1>2, <2>1, <2>3, SMT
  <2>7. active_workers' = IF total - 1 <= pool' THEN total - 1 ELSE pool'
    BY <2>5, <2>6, MinOfTwo
  <2>8. active_workers' >= 1 /\ active_workers' + 1 = threads
    BY <1>2, <2>1, <2>5, <2>7, SMT
  <2>9. AsyncHasWorkers'
    BY <1>1, <2>8 DEF AsyncHasWorkers, env, n, b, threads
  <2> QED
    BY <1>1, <2>5, <2>9 DEF SizingInv
<1>6. CASE ~ShouldAsync(env, n, b)
  <2>1. shape' = "serial" /\ pool' = pool
    BY <1>6 DEF Dispatch
  <2> QED
    BY <1>1, <1>2, <2>1 DEF SizingInv, AsyncHasWorkers
<1> QED
  BY <1>5, <1>6

LEMMA NextSizing == SizingInv /\ [Next]_vars => SizingInv'
<1> SUFFICES ASSUME SizingInv, [Next]_vars PROVE SizingInv'
  OBVIOUS
<1>1. CASE Dispatch
  BY <1>1, DispatchSizing
<1>2. ASSUME UNCHANGED <<input, shape, pool, active_workers>>
      PROVE  SizingInv'
  BY <1>2 DEF SizingInv, AsyncHasWorkers
<1>3. CASE Reject
  BY <1>2, <1>3 DEF Reject
<1>4. CASE MainCall
  BY <1>2, <1>4 DEF MainCall, Advance
<1>5. CASE MainSubmit
  BY <1>2, <1>5 DEF MainSubmit, Advance
<1>6. CASE MainBlock
  BY <1>2, <1>6 DEF MainBlock, main_vars
<1>7. CASE MainReturn
  BY <1>2, <1>7 DEF MainReturn, Advance
<1>8. CASE ZeroUpperTriangle
  BY <1>2, <1>8 DEF ZeroUpperTriangle, Advance
<1>9. CASE Return
  BY <1>2, <1>9 DEF Return
<1>10. CASE Participants
  BY <1>2, <1>10 DEF Participants, StartTask, RunCall, main_vars
<1>11. CASE UNCHANGED vars
  BY <1>2, <1>11 DEF vars, main_vars
<1> QED
  BY <1>1, <1>3, <1>4, <1>5, <1>6, <1>7, <1>8, <1>9, <1>10, <1>11 DEF Next, Main

\* An asynchronous call has all the workers that the policy counts on, and at least
\* one, for every matrix, environment and pool.
THEOREM AsyncCallsHaveWorkers == Spec => []AsyncHasWorkers
<1>1. Init => SizingInv
  BY InitSizing
<1>2. SizingInv /\ [Next]_vars => SizingInv'
  BY NextSizing
<1>3. SizingInv => AsyncHasWorkers
  BY DEF SizingInv
<1> QED
  BY <1>1, <1>2, <1>3, PTL DEF Spec

-----------------------------------------------------------------------------
(* The compiled program, when its instructions are sound. *)

LEMMA CodeFacts ==
    ASSUME ProgramsAreSound, NEW m \in Inputs, Accepted(m), NEW s \in {"serial", Shape(m)}
    PROVE  /\ Regular(m)
           /\ Sound(m, Code[m][s])
           /\ \A p \in DOMAIN Code[m][s] : Code[m][s][p].kind = "submit" => p \in Task
           /\ 0 .. Blocks(m) * Blocks(m) - 1 \subseteq Key
           /\ NoTask \notin Task
<1>1. Regular(m) BY InputAssumption DEF Regular, Accepted
<1>2. m \in DOMAIN Code /\ s \in DOMAIN Code[m] BY DEF Code
<1>3. Sound(m, Code[m][s]) BY <1>2 DEF ProgramsAreSound
<1>4. \A p \in DOMAIN Code[m][s] : Code[m][s][p].kind = "submit" => p \in Task
  BY <1>2 DEF Task, Submissions
<1>5. 0 .. Blocks(m) * Blocks(m) - 1 \subseteq Key BY DEF Key, Blocks
<1>6. NoTask \notin Task
  <2>1. ASSUME NEW n \in DOMAIN Code, NEW r \in DOMAIN Code[n] PROVE 0 \notin Submissions(n, r)
    <3>1. DOMAIN Code[n][r] = 1 .. Len(Code[n][r])
      BY DEF ProgramsAreSound, Sound, WellFormed, IsSequence
    <3> QED BY <3>1 DEF Submissions
  <2> QED BY <2>1 DEF Task, NoTask
<1> QED BY <1>1, <1>3, <1>4, <1>5, <1>6

LEMMA LoadedFacts ==
    ASSUME ProgramsAreSound, TypeInv, Loaded
    PROVE  /\ input \in Inputs /\ Accepted(input) /\ Regular(input)
           /\ shape \in {"serial", Shape(input)}
           /\ Sound(input, Program)
           /\ \A p \in DOMAIN Program : Program[p].kind = "submit" => p \in Task
           /\ 0 .. Blocks(input) * Blocks(input) - 1 \subseteq Key
           /\ NoTask \notin Task
BY CodeFacts DEF TypeInv, Loaded, Program

\* What Sound says of the instructions of one program.
LEMMA SoundFacts ==
    ASSUME NEW m, Regular(m), NEW P, Sound(m, P)
    PROVE  /\ DOMAIN P = 1 .. Len(P) /\ Len(P) \in Nat \ {0} /\ 1 \in DOMAIN P
           /\ P[Len(P)].kind = "return"
           /\ \A p \in 1 .. Len(P) - 1 : P[p].kind \in {"call", "submit", "wait", "wait_key", "zero"}
           /\ \A p \in DOMAIN P : P[p].kind = "submit" =>
                /\ P[p].deps \subseteq 0 .. Blocks(m) * Blocks(m) - 1
                /\ Len(P[p].calls) \in Nat \ {0}
                /\ DOMAIN P[p].calls = 1 .. Len(P[p].calls)
           /\ \A p \in DOMAIN P : P[p].kind = "wait_key" =>
                P[p].key \in 0 .. Blocks(m) * Blocks(m) - 1
<1>1. Len(P) \in Nat \ {0} /\ DOMAIN P = 1 .. Len(P) BY DEF Sound, WellFormed, IsSequence
<1>2. PICK zero \in DOMAIN P :
            /\ P[zero].kind = "zero"
            /\ \A p \in 1 .. zero - 1 : P[p].kind \in {"call", "submit", "wait", "wait_key"}
            /\ \A p \in 1 .. zero - 1 :
                    P[p].kind = "submit" => \E q \in p + 1 .. zero - 1 : P[q].kind = "wait"
            /\ zero < Len(P)
            /\ \A p \in zero + 1 .. Len(P) - 1 : P[p].kind = "wait"
            /\ P[Len(P)].kind = "return"
  BY DEF Sound, EndsInOrder
<1>3. zero \in 1 .. Len(P) BY <1>1
<1>4. \A p \in 1 .. Len(P) - 1 : P[p].kind \in {"call", "submit", "wait", "wait_key", "zero"}
  <2> TAKE p \in 1 .. Len(P) - 1
  <2>1. p \in 1 .. zero - 1 \/ p = zero \/ p \in zero + 1 .. Len(P) - 1 BY <1>3
  <2> QED BY <1>2, <2>1
<1>5. KeysAreSound(m, P) BY DEF Sound
<1>6. 1 \in DOMAIN P BY <1>1
<1>7. \A p \in DOMAIN P : P[p].kind = "submit" => IsSequence(P[p].calls)
  BY DEF Sound, WellFormed
<1> QED BY <1>1, <1>2, <1>4, <1>5, <1>6, <1>7 DEF KeysAreSound, IsSequence

\* No two submissions are the last to write a key.
LEMMA LastWriterIsOne ==
    ASSUME NEW P, NEW key, NEW p \in Nat, NEW w1, NEW w2,
           LastWriter(P, key, p, w1), LastWriter(P, key, p, w2)
    PROVE  w1 = w2
BY DEF LastWriter

LEMMA LastWriterAdvances ==
    ASSUME NEW P, NEW key, NEW p \in Nat \ {0}, NEW w
    PROVE  /\ Writes(P[p], key) => (LastWriter(P, key, p + 1, w) <=> w = p)
           /\ ~Writes(P[p], key) => (LastWriter(P, key, p + 1, w) <=> LastWriter(P, key, p, w))
<1>1. CASE Writes(P[p], key) BY <1>1 DEF LastWriter
<1>2. CASE ~Writes(P[p], key)
  <2>1. ASSUME LastWriter(P, key, p, w) PROVE LastWriter(P, key, p + 1, w)
    <3>1. \A q \in w + 1 .. p : q = p \/ q \in w + 1 .. p - 1 BY <2>1 DEF LastWriter
    <3> QED BY <1>2, <2>1, <3>1 DEF LastWriter
  <2>2. ASSUME LastWriter(P, key, p + 1, w) PROVE LastWriter(P, key, p, w)
    <3>1. w # p BY <1>2, <2>2 DEF LastWriter
    <3> QED BY <2>2, <3>1 DEF LastWriter
  <2> QED BY <1>2, <2>1, <2>2
<1> QED BY <1>1, <1>2

-----------------------------------------------------------------------------
(* The first state, and the dispatch. *)

LEMMA InitIInv == Init => IInv
<1> SUFFICES ASSUME Init PROVE IInv OBVIOUS
<1>1. ~Loaded BY DEF Init, Loaded
<1>2. /\ submitted = {} /\ started = {} /\ finished = {}
      /\ after = [t \in Task |-> {}] /\ last_writer = [k \in Key |-> NoTask]
      /\ goal = Runtime!NoGoal
  BY DEF Init, Runtime!Init
<1>3. /\ input \in Inputs /\ stage = "factor" /\ shape = "none" /\ ip = 1
      /\ tile = BlankTiles(input) /\ done = [t \in Task |-> 0]
  BY DEF Init
<1>4. Accepted(input) => tile \in [DOMAIN FinalTiles[input] -> Nat] BY <1>3 DEF BlankTiles
<1>5. TypeInv BY <1>2, <1>3, <1>4 DEF TypeInv
<1>6. IdleInv BY <1>2, <1>3 DEF IdleInv
<1>7. ProgressInv BY <1>2, <1>3 DEF ProgressInv
<1>8. ControlInv /\ OrderInv /\ WaitInv /\ TileInv
  BY <1>1 DEF ControlInv, OrderInv, WaitInv, TileInv
<1> QED BY <1>5, <1>6, <1>7, <1>8 DEF IInv

\* The dispatch leaves everything as it was before the first instruction.
LEMMA DispatchIInv ==
    ASSUME ProgramsAreSound, IInv, Dispatch
    PROVE  IInv'
<1>1. TypeInv /\ IdleInv /\ ProgressInv BY DEF IInv
<1>2. ~Loaded BY DEF Dispatch, Loaded
<1>3. /\ ip = 1 /\ submitted = {} /\ goal = Runtime!NoGoal
      /\ \A key \in Key : last_writer[key] = NoTask
      /\ tile = BlankTiles(input) /\ stage \in {"factor", "rejected"}
      /\ stage = "rejected" => ~Accepted(input)
  BY <1>1, <1>2 DEF IdleInv
<1>4. started = {} /\ finished = {} BY <1>1, <1>3 DEF TypeInv
<1>5. /\ UNCHANGED <<input, stage, ip, tile, done>>
      /\ UNCHANGED <<submitted, started, finished, after, last_writer, goal>>
      /\ shape' \in {"serial", Shape(input)}
  BY DEF Dispatch, graph_vars
<1>6. TypeInv' BY <1>1, <1>5 DEF TypeInv
<1>7. ProgressInv' BY <1>1, <1>4, <1>5 DEF ProgressInv
<1>8. IdleInv'
  <2>1. Runtime!NoGoal' = Runtime!NoGoal BY DEF Runtime!NoGoal
  <2> QED BY <1>3, <1>5, <2>1 DEF IdleInv
<1>9. ASSUME Loaded' PROVE ControlInv' /\ OrderInv' /\ WaitInv' /\ TileInv'
  <2>1. input \in Inputs /\ Accepted(input) BY <1>1, <1>5, <1>9 DEF TypeInv, Loaded
  <2> DEFINE P == Code[input][shape']
  <2>2. Program' = P BY <1>5 DEF Program
  <2>3. Regular(input) /\ Sound(input, P) BY <1>5, <2>1, CodeFacts
  <2> HIDE DEF P
  <2>4. 1 \in DOMAIN P BY <2>3, SoundFacts
  <2>5. ip' = 1 /\ 1 .. ip' - 1 = {} BY <1>3, <1>5
  <2>6. stage' = "factor" BY <1>3, <1>5, <2>1
  <2>7. Runtime!NoGoal' = Runtime!NoGoal BY DEF Runtime!NoGoal
  <2>8. goal' = Runtime!NoGoal BY <1>3, <1>5
  <2>9. ControlInv' BY <1>3, <1>5, <2>2, <2>4, <2>5, <2>6, <2>7, <2>8 DEF ControlInv
  <2>10. OrderInv' BY <1>3, <1>4, <1>5, <2>5 DEF OrderInv
  <2>11. WaitInv' BY <2>5 DEF WaitInv
  <2>12. TileInv'
    <3>1. ASSUME NEW t \in Place(input)
          PROVE  tile[TileOf(input, t)] = 0 /\ t.panel \in Nat /\ t.col \in Nat
      <4>1. TileOf(input, t) = TileAt(input, t.row, t.col) BY DEF TileOf, TileAt
      <4>2. TileOf(input, t) \in DOMAIN FinalTiles[input] BY <2>1, <2>3, <4>1, FinalTilesAre
      <4> QED BY <1>3, <2>1, <4>2, PlaceTypes DEF BlankTiles
    <3>2. ASSUME NEW t PROVE ~(Made(t)') BY <2>5 DEF Made
    <3>3. \A t \in Place(input) : tile'[TileOf(input, t)] = 0 BY <1>5, <3>1
    <3> QED BY <1>5, <3>1, <3>2, <3>3 DEF TileInv
  <2> QED BY <2>9, <2>10, <2>11, <2>12
<1>10. ASSUME ~Loaded' PROVE ControlInv' /\ OrderInv' /\ WaitInv' /\ TileInv'
  BY <1>10 DEF ControlInv, OrderInv, WaitInv, TileInv
<1> QED BY <1>6, <1>7, <1>8, <1>9, <1>10 DEF IInv

-----------------------------------------------------------------------------
(* The submitting thread goes one instruction on. *)

LEMMA SameProgram ==
    ASSUME UNCHANGED <<input, shape>>
    PROVE  Loaded' = Loaded /\ Program' = Program
BY DEF Loaded, Program

LEMMA Where ==
    ASSUME ProgramsAreSound, IInv, Loaded
    PROVE  /\ ip \in 1 .. Len(Program) /\ ip \in Nat \ {0}
           /\ Len(Program) \in Nat \ {0} /\ DOMAIN Program = 1 .. Len(Program)
           /\ submitted = {p \in 1 .. ip - 1 : Program[p].kind = "submit"}
           /\ Sound(input, Program) /\ Regular(input) /\ input \in Inputs /\ Accepted(input)
           /\ Program[ip].kind # "return" => ip + 1 \in 1 .. Len(Program)
           /\ finished \subseteq started /\ started \subseteq submitted
           /\ \A p \in submitted : /\ p \in Task /\ p \in DOMAIN Program
                                   /\ Program[p].kind = "submit"
<1>1. TypeInv /\ ControlInv BY DEF IInv
<1>2. Sound(input, Program) /\ Regular(input) /\ input \in Inputs /\ Accepted(input)
      /\ \A p \in DOMAIN Program : Program[p].kind = "submit" => p \in Task
  BY <1>1, LoadedFacts
<1>3. /\ DOMAIN Program = 1 .. Len(Program) /\ Len(Program) \in Nat \ {0}
      /\ Program[Len(Program)].kind = "return"
  BY <1>2, SoundFacts
<1>4. ip \in DOMAIN Program /\ submitted = {p \in 1 .. ip - 1 : Program[p].kind = "submit"}
  BY <1>1 DEF ControlInv
<1>5. ip \in 1 .. Len(Program) /\ ip \in Nat \ {0} BY <1>3, <1>4
<1>6. Program[ip].kind # "return" => ip + 1 \in 1 .. Len(Program)
  <2>1. ip = Len(Program) => Program[ip].kind = "return" BY <1>3
  <2> QED BY <1>3, <1>5, <2>1
<1>7. \A p \in submitted : p \in DOMAIN Program /\ Program[p].kind = "submit"
  BY <1>3, <1>4, <1>5
<1> QED BY <1>1, <1>2, <1>3, <1>4, <1>5, <1>6, <1>7 DEF TypeInv

LEMMA AdvanceControl ==
    ASSUME ProgramsAreSound, IInv, Loaded, Advance, Instruction.kind # "return",
           goal' = Runtime!NoGoal, stage \in {"factor", "zeroed"},
           stage' = (IF Instruction.kind = "zero" THEN "zeroed" ELSE stage),
           submitted' = submitted \cup (IF Instruction.kind = "submit" THEN {ip} ELSE {})
    PROVE  ControlInv'
<1>1. ControlInv BY DEF IInv
<1>2. ip' = ip + 1 /\ UNCHANGED <<input, shape>> BY DEF Advance
<1>3. Program' = Program /\ Loaded' BY <1>2, SameProgram
<1>4. Instruction = Program[ip] BY DEF Instruction
<1> DEFINE P == Program
<1>5. /\ ip \in Nat \ {0} /\ DOMAIN P = 1 .. Len(P) /\ ip + 1 \in 1 .. Len(P)
      /\ submitted = {p \in 1 .. ip - 1 : P[p].kind = "submit"}
  BY <1>4, Where
<1>6. stage = "factor" <=> \A p \in 1 .. ip - 1 : P[p].kind # "zero"
  BY <1>1 DEF ControlInv
<1> HIDE DEF P
<1>7. 1 .. ip' - 1 = (1 .. ip - 1) \cup {ip} BY <1>2, <1>5
<1>8. submitted' = {p \in 1 .. ip' - 1 : P[p].kind = "submit"} BY <1>4, <1>5, <1>7 DEF P
<1>9. stage' = "factor" <=> \A p \in 1 .. ip' - 1 : P[p].kind # "zero"
  BY <1>4, <1>6, <1>7 DEF P
<1>10. Runtime!NoGoal' = Runtime!NoGoal BY DEF Runtime!NoGoal
<1>11. stage' # "rejected" /\ stage' # "returned" OBVIOUS
<1>12. ip' \in DOMAIN P BY <1>2, <1>5
<1> QED BY <1>3, <1>8, <1>9, <1>10, <1>11, <1>12 DEF ControlInv, P

LEMMA AdvanceOrder ==
    ASSUME ProgramsAreSound, IInv, Loaded, Advance, Instruction.kind # "submit",
           UNCHANGED <<submitted, started, finished, after, last_writer>>
    PROVE  OrderInv'
<1>1. OrderInv BY DEF IInv
<1>2. ip' = ip + 1 /\ UNCHANGED <<input, shape>> BY DEF Advance
<1>3. Program' = Program /\ Loaded' BY <1>2, SameProgram
<1>4. ip \in Nat \ {0} BY Where
<1>5. \A key : ~Writes(Program[ip], key) BY DEF Writes, Instruction
<1>6. ASSUME NEW key \in Key
      PROVE  /\ last_writer[key] = NoTask => \A w \in 1 .. ip' - 1 : ~Writes(Program[w], key)
             /\ last_writer[key] # NoTask => LastWriter(Program, key, ip', last_writer[key])
  <2>1. CASE last_writer[key] = NoTask
    <3>1. \A w \in 1 .. ip - 1 : ~Writes(Program[w], key) BY <1>1, <2>1 DEF OrderInv
    <3>2. \A w \in 1 .. ip' - 1 : w \in 1 .. ip - 1 \/ w = ip BY <1>2, <1>4
    <3> QED BY <1>5, <2>1, <3>1, <3>2
  <2>2. CASE last_writer[key] # NoTask
    <3>1. LastWriter(Program, key, ip, last_writer[key]) BY <1>1, <2>2 DEF OrderInv
    <3>2. LastWriter(Program, key, ip + 1, last_writer[key])
      BY <1>4, <1>5, <3>1, LastWriterAdvances
    <3> QED BY <1>2, <2>2, <3>2
  <2> QED BY <2>1, <2>2
<1> QED BY <1>1, <1>3, <1>6 DEF OrderInv

LEMMA AdvanceWait ==
    ASSUME ProgramsAreSound, IInv, Loaded, Advance, UNCHANGED finished,
           Instruction.kind = "wait" => submitted \subseteq finished,
           Instruction.kind = "wait_key" =>
                \A w : LastWriter(Program, Instruction.key, ip, w) => w \in finished
    PROVE  WaitInv'
<1>1. WaitInv BY DEF IInv
<1>2. ip' = ip + 1 /\ UNCHANGED <<input, shape>> BY DEF Advance
<1>3. Program' = Program /\ Loaded' BY <1>2, SameProgram
<1>4. ip \in Nat \ {0} /\ submitted = {p \in 1 .. ip - 1 : Program[p].kind = "submit"} BY Where
<1>5. ASSUME NEW p \in 1 .. ip' - 1, NEW w \in 1 .. p - 1
      PROVE  /\ Program[p].kind = "wait" /\ Program[w].kind = "submit" => w \in finished
             /\ Program[p].kind = "wait_key" /\ LastWriter(Program, Program[p].key, p, w)
                    => w \in finished
  <2>1. CASE p = ip BY <1>4, <2>1 DEF Instruction
  <2>2. CASE p # ip
    <3>1. p \in 1 .. ip - 1 BY <1>2, <1>4, <2>2
    <3> QED BY <1>1, <3>1 DEF WaitInv
  <2> QED BY <2>1, <2>2
<1> QED BY <1>3, <1>5 DEF WaitInv

\* No call is made by a submission that no participant has begun, or by a wait.
LEMMA AdvanceTiles ==
    ASSUME ProgramsAreSound, IInv, Loaded, Advance, Instruction.kind # "call",
           UNCHANGED <<tile, done>>
    PROVE  TileInv'
<1>1. TileInv /\ ProgressInv BY DEF IInv
<1>2. ip' = ip + 1 /\ UNCHANGED <<input, shape>> BY DEF Advance
<1>3. Program' = Program /\ Loaded' BY <1>2, SameProgram
<1>4. /\ ip \in Nat \ {0} /\ submitted = {p \in 1 .. ip - 1 : Program[p].kind = "submit"}
      /\ ip \in DOMAIN Program /\ started \subseteq submitted
      /\ Sound(input, Program) /\ Regular(input) /\ input \in Inputs /\ Accepted(input)
  BY Where
<1>5. ASSUME NEW i \in DOMAIN CallsIn(Program[ip])
      PROVE  Program[ip].kind = "submit" /\ ~(i <= done[ip])
  <2>1. CASE Program[ip].kind = "submit"
    <3>1. i \in DOMAIN Program[ip].calls BY <2>1 DEF CallsIn
    <3>2. i \in Nat \ {0} BY <1>4, <2>1, <3>1, SoundFacts
    <3>3. ip \in Task BY <1>1, <1>4, <2>1, LoadedFacts DEF IInv
    <3>4. ip \notin started BY <1>4
    <3> QED BY <1>1, <2>1, <3>2, <3>3, <3>4 DEF ProgressInv
  <2>2. CASE Program[ip].kind # "submit"
    <3>1. CallsIn(Program[ip]) = <<>> BY <2>2 DEF CallsIn, Instruction
    <3> QED BY <3>1
  <2> QED BY <2>1, <2>2
<1>6. ASSUME NEW t PROVE Made(t)' <=> Made(t)
  <2>1. 1 .. ip' - 1 = (1 .. ip - 1) \cup {ip} BY <1>2, <1>4
  <2> QED BY <1>2, <1>3, <1>5, <2>1 DEF Made
<1>7. input' = input BY <1>2
<1> QED BY <1>1, <1>3, <1>6, <1>7 DEF TileInv

-----------------------------------------------------------------------------
(* A call under way, and what it finds. *)

\* The i-th call of the instruction at p is the next of a running task, or the
\* submitting thread is at it.
UnderWay(p, i) ==
    \/ p = ip /\ Program[p].kind = "call" /\ i = 1
    \/ p \in Running /\ i = done[p] + 1

\* Everything that precedes a call under way is done.
LEMMA PrecedingIsDone ==
    ASSUME ProgramsAreSound, IInv, Loaded, NEW p, NEW i, UnderWay(p, i),
           NEW w, Precedes(Program, w, p)
    PROVE  w \in 1 .. ip - 1 /\ (Program[w].kind = "submit" => w \in finished)
<1>1. OrderInv /\ WaitInv BY DEF IInv
<1>2. /\ ip \in Nat \ {0} /\ submitted = {q \in 1 .. ip - 1 : Program[q].kind = "submit"}
      /\ started \subseteq submitted
  BY Where
<1>3. p \in 1 .. ip /\ (p = ip => Program[p].kind = "call") /\ (p # ip => p \in started)
  <2>1. CASE p \in Running
    <3>1. p \in started /\ p \in 1 .. ip - 1 BY <1>2, <2>1 DEF Running
    <3> QED BY <1>2, <3>1
  <2>2. CASE p \notin Running
    <3>1. p = ip /\ Program[p].kind = "call" BY <2>2 DEF UnderWay
    <3> QED BY <1>2, <3>1
  <2> QED BY <2>1, <2>2
<1>4. w \in 1 .. p - 1 /\ w \in 1 .. ip - 1 BY <1>2, <1>3 DEF Precedes
<1>5. CASE Program[w].kind = "call" BY <1>4, <1>5
<1>6. CASE \E q \in w + 1 .. p - 1 : Program[q].kind = "wait"
  <2>1. PICK q \in w + 1 .. p - 1 : Program[q].kind = "wait" BY <1>6
  <2>2. q \in 1 .. ip - 1 /\ w \in 1 .. q - 1 BY <1>2, <1>3, <1>4
  <2> QED BY <1>1, <1>4, <2>1, <2>2 DEF WaitInv
<1>7. CASE \E q \in w + 1 .. p - 1 :
            Program[q].kind = "wait_key" /\ LastWriter(Program, Program[q].key, q, w)
  <2>1. PICK q \in w + 1 .. p - 1 :
            Program[q].kind = "wait_key" /\ LastWriter(Program, Program[q].key, q, w)
    BY <1>7
  <2>2. q \in 1 .. ip - 1 /\ w \in 1 .. q - 1 BY <1>2, <1>3, <1>4
  <2> QED BY <1>1, <1>4, <2>1, <2>2 DEF WaitInv
<1>8. CASE Program[p].kind = "submit"
           /\ \E key \in Program[p].deps : LastWriter(Program, key, p, w)
  <2>1. p \in started /\ p \in submitted BY <1>2, <1>3, <1>8
  <2>2. w \in after[p] BY <1>1, <1>4, <1>8, <2>1 DEF OrderInv
  <2> QED BY <1>1, <1>4, <2>1, <2>2 DEF OrderInv
<1> QED BY <1>5, <1>6, <1>7, <1>8 DEF Precedes

\* A call under way is one of the factorisation, and it is made nowhere else.
LEMMA CallOfPlace ==
    ASSUME ProgramsAreSound, IInv, Loaded, NEW p, NEW i, UnderWay(p, i)
    PROVE  /\ p \in DOMAIN Program /\ i \in DOMAIN CallsIn(Program[p])
           /\ \E t \in Place(input) : CallsIn(Program[p])[i] = CallAt(input, t)
           /\ p \in Running => /\ Program[p].kind = "submit"
                               /\ done[p] \in Nat /\ done[p] < Len(Program[p].calls)
                               /\ CallsIn(Program[p])[i] = CallOf(p)
           /\ p \notin Running => CallsIn(Program[p])[i] = Instruction.call
<1>1. ProgressInv /\ TypeInv BY DEF IInv
<1>2. /\ ip \in 1 .. Len(Program) /\ DOMAIN Program = 1 .. Len(Program)
      /\ Sound(input, Program) /\ Regular(input)
      /\ started \subseteq submitted
      /\ \A q \in submitted : q \in Task /\ q \in DOMAIN Program /\ Program[q].kind = "submit"
  BY Where
<1>3. CASE p \in Running
  <2>1. p \in started /\ p \notin finished /\ p \in submitted /\ p \in Task BY <1>2, <1>3 DEF Running
  <2>2. p \in DOMAIN Program /\ Program[p].kind = "submit" BY <1>2, <2>1
  <2>3. Len(Program[p].calls) \in Nat /\ DOMAIN Program[p].calls = 1 .. Len(Program[p].calls)
    BY <1>2, <2>2, SoundFacts
  <2>4. done[p] \in Nat BY <1>1, <2>1 DEF TypeInv
  <2>5. done[p] <= Len(Program[p].calls) /\ done[p] # Len(Program[p].calls)
    BY <1>1, <2>1 DEF ProgressInv
  <2>6. i = done[p] + 1 BY <1>3, <2>2 DEF UnderWay, Instruction
  <2>7. CallsIn(Program[p]) = Program[p].calls BY <2>2 DEF CallsIn
  <2>8. i \in DOMAIN CallsIn(Program[p]) BY <2>3, <2>4, <2>5, <2>6, <2>7
  <2>9. CallsIn(Program[p])[i] = CallOf(p) BY <2>6, <2>7 DEF CallOf
  <2>10. \E t \in Place(input) : CallsIn(Program[p])[i] = CallAt(input, t)
    BY <1>2, <2>2, <2>8 DEF Sound, Makes, CallsAt
  <2> QED BY <1>3, <2>2, <2>3, <2>4, <2>5, <2>8, <2>9, <2>10
<1>4. CASE p \notin Running
  <2>1. p = ip /\ Program[p].kind = "call" /\ i = 1 BY <1>4 DEF UnderWay
  <2>2. p \in DOMAIN Program BY <1>2, <2>1
  <2>3. CallsIn(Program[p]) = <<Instruction.call>> BY <2>1 DEF CallsIn, Instruction
  <2>4. i \in DOMAIN CallsIn(Program[p]) /\ CallsIn(Program[p])[i] = Instruction.call
    BY <2>1, <2>3
  <2>5. \E t \in Place(input) : CallsIn(Program[p])[i] = CallAt(input, t)
    BY <1>2, <2>2, <2>4 DEF Sound, Makes, CallsAt
  <2> QED BY <1>4, <2>2, <2>4, <2>5
<1> QED BY <1>3, <1>4

LEMMA NotYetMade ==
    ASSUME ProgramsAreSound, IInv, Loaded, NEW p, NEW i, UnderWay(p, i),
           NEW t \in Place(input), CallsIn(Program[p])[i] = CallAt(input, t)
    PROVE  ~Made(t)
<1>1. p \in DOMAIN Program /\ i \in DOMAIN CallsIn(Program[p]) BY CallOfPlace
<1>2. /\ ip \in Nat \ {0} /\ DOMAIN Program = 1 .. Len(Program) /\ ip \in 1 .. Len(Program)
      /\ Sound(input, Program) /\ Len(Program) \in Nat
  BY Where
<1>3. SUFFICES ASSUME Made(t) PROVE FALSE OBVIOUS
<1>4. PICK p1 \in 1 .. ip - 1 : \E i1 \in DOMAIN CallsIn(Program[p1]) :
            /\ CallsIn(Program[p1])[i1] = CallAt(input, t)
            /\ Program[p1].kind = "submit" => i1 <= done[p1]
  BY <1>3 DEF Made
<1>5. PICK i1 \in DOMAIN CallsIn(Program[p1]) :
            /\ CallsIn(Program[p1])[i1] = CallAt(input, t)
            /\ Program[p1].kind = "submit" => i1 <= done[p1]
  BY <1>4
<1>6. p1 \in DOMAIN Program BY <1>2
<1>7. p1 = p /\ i1 = i BY <1>1, <1>2, <1>5, <1>6 DEF Sound, Makes
<1>8. p \in Running BY <1>2, <1>7 DEF UnderWay
<1>9. i = done[p] + 1 /\ Program[p].kind = "submit" /\ done[p] \in Nat
  BY <1>2, <1>7, <1>8, CallOfPlace DEF UnderWay
<1> QED BY <1>5, <1>7, <1>9

\* A call under way finds what the baseline finds.
LEMMA FindsWhatItNeeds ==
    ASSUME ProgramsAreSound, IInv, Loaded, NEW p, NEW i, UnderWay(p, i),
           NEW t \in Place(input), CallsIn(Program[p])[i] = CallAt(input, t)
    PROVE  /\ tile[TileOf(input, t)] = t.panel
           /\ FindsSerialOperands(CallAt(input, t))
<1>1. TileInv /\ TypeInv /\ ProgressInv BY DEF IInv
<1>2. /\ Sound(input, Program) /\ Regular(input) /\ input \in Inputs /\ Accepted(input)
      /\ DOMAIN Program = 1 .. Len(Program) /\ Len(Program) \in Nat
  BY Where
<1>3. p \in DOMAIN Program /\ i \in DOMAIN CallsIn(Program[p]) BY CallOfPlace
<1>4. ASSUME NEW s \in Sources(input, t) PROVE s \in Place(input) /\ Made(s)
  <2>1. s \in Place(input) BY DEF Sources
  <2>2. CallAt(input, s) \in CallsAt(input, Place(input)) BY <2>1 DEF CallsAt
  <2>3. PICK w \in DOMAIN Program : \E k \in DOMAIN CallsIn(Program[w]) :
            CallsIn(Program[w])[k] = CallAt(input, s)
    BY <1>2, <2>2 DEF Sound, Makes
  <2>4. PICK k \in DOMAIN CallsIn(Program[w]) : CallsIn(Program[w])[k] = CallAt(input, s)
    BY <2>3
  <2>5. Precedes(Program, w, p)
    <3>1. CallAt(input, t) \in ToSet(CallsIn(Program[p])) BY <1>3 DEF ToSet
    <3>2. CallAt(input, s) \in ToSet(CallsIn(Program[w])) BY <2>4 DEF ToSet
    <3> QED BY <1>2, <1>3, <3>1, <3>2 DEF Sound, SourcesPrecede
  <2>6. w \in 1 .. ip - 1 /\ (Program[w].kind = "submit" => w \in finished)
    BY <2>5, PrecedingIsDone
  <2>7. ASSUME Program[w].kind = "submit" PROVE k <= done[w]
    <3>1. w \in started /\ w \in finished BY <2>6, <2>7, <1>1 DEF TypeInv
    <3>2. done[w] = Len(Program[w].calls) BY <1>1, <3>1 DEF ProgressInv
    <3>3. CallsIn(Program[w]) = Program[w].calls BY <2>7 DEF CallsIn
    <3>4. k \in 1 .. Len(Program[w].calls) /\ Len(Program[w].calls) \in Nat
      BY <1>2, <2>7, <3>3, SoundFacts
    <3> QED BY <3>2, <3>4
  <2> QED BY <2>1, <2>4, <2>6, <2>7 DEF Made
<1>5. ASSUME NEW s \in Place(input)
      PROVE  /\ TileOf(input, s) = TileAt(input, s.row, s.col)
             /\ tile[TileOf(input, s)] \in Nat
             /\ tile[TileOf(input, s)] <= s.col + 1
             /\ Made(s) <=> s.panel < tile[TileOf(input, s)]
  <2>1. TileOf(input, s) = TileAt(input, s.row, s.col) BY DEF TileOf, TileAt
  <2>2. TileOf(input, s) \in DOMAIN FinalTiles[input] BY <1>2, <2>1, FinalTilesAre
  <2> QED BY <1>1, <1>2, <2>1, <2>2 DEF TypeInv, TileInv
<1>6. /\ t.panel \in Index(input) /\ t.col \in Index(input) /\ t.row \in Index(input)
      /\ t.panel \in Nat /\ t.col \in Nat /\ t.row \in Nat
      /\ t.panel <= t.col /\ t.col <= t.row
      /\ t = [panel |-> t.panel, col |-> t.col, row |-> t.row]
  BY PlaceTypes
<1>7. tile[TileOf(input, t)] = t.panel
  <2>1. ~Made(t) BY NotYetMade
  <2>2. ~(t.panel < tile[TileOf(input, t)]) /\ tile[TileOf(input, t)] \in Nat BY <1>5, <2>1
  <2>3. CASE t.panel = 0 BY <1>6, <2>2, <2>3
  <2>4. CASE t.panel # 0
    <3> DEFINE s == [panel |-> t.panel - 1, col |-> t.col, row |-> t.row]
    <3>1. s \in Place(input)
      <4>1. Blocks(input) \in Nat BY <1>2, BlocksOf
      <4>2. t.panel - 1 \in Index(input) BY <1>6, <2>4, <4>1 DEF Index
      <4> QED BY <1>6, <2>4, <4>2, PlaceIs
    <3>2. s \in Sources(input, t) BY <3>1 DEF Sources
    <3>3. Made(s) BY <1>4, <3>2
    <3>4. s.panel < tile[TileOf(input, s)] BY <1>5, <3>1, <3>3
    <3>5. TileOf(input, s) = TileOf(input, t) BY DEF TileOf
    <3> QED BY <1>6, <2>2, <2>4, <3>4, <3>5
  <2> QED BY <2>3, <2>4
<1>8. ASSUME NEW x \in Operands(CallAt(input, t))
      PROVE  tile[x] = FoundAt(input, t, x)
  <2>1. CASE x = TileAt(input, t.row, t.col) BY <1>5, <1>7, <2>1 DEF FoundAt
  <2>2. CASE x # TileAt(input, t.row, t.col)
    <3>1. PICK r \in {t.row, t.col} : x = TileAt(input, r, t.panel) BY <2>2, CallOperands
    <3> DEFINE s == [panel |-> t.panel, col |-> t.panel, row |-> r]
    <3>2. s \in Place(input) BY <1>6, PlaceIs
    <3>3. s # t BY <2>2, <3>1
    <3>4. s \in Sources(input, t) BY <3>2, <3>3 DEF Sources
    <3>5. Made(s) BY <1>4, <3>4
    <3>6. TileOf(input, s) = x BY <1>5, <3>1, <3>2
    <3>7. t.panel < tile[x] /\ tile[x] <= t.panel + 1 /\ tile[x] \in Nat
      BY <1>5, <3>2, <3>5, <3>6
    <3> QED BY <1>6, <2>2, <3>7 DEF FoundAt
  <2> QED BY <2>1, <2>2
<1>9. CallAt(input, t) \in DOMAIN SerialOperands[input] BY <1>2, SerialOperandsAre DEF CallsAt
<1>10. FindsSerialOperands(CallAt(input, t))
  BY <1>2, <1>8, <1>9, SerialOperandsAre DEF FindsSerialOperands
<1> QED BY <1>7, <1>10

\* The call at t is made, and no other.
LEMMA CallTiles ==
    ASSUME ProgramsAreSound, IInv, Loaded, NEW p, NEW i, UnderWay(p, i),
           NEW t \in Place(input), CallsIn(Program[p])[i] = CallAt(input, t),
           UNCHANGED <<input, shape>>,
           tile' = [tile EXCEPT ![Output(CallAt(input, t))] = @ + 1],
           \A s \in Place(input) : Made(s)' <=> Made(s) \/ s = t
    PROVE  TileInv' /\ tile' \in [DOMAIN FinalTiles[input] -> Nat]
<1>1. TileInv /\ TypeInv BY DEF IInv
<1>2. Regular(input) /\ input \in Inputs /\ Accepted(input) BY Where
<1>3. Program' = Program /\ Loaded' BY SameProgram
<1>4. tile \in [DOMAIN FinalTiles[input] -> Nat] BY <1>1, <1>2 DEF TypeInv
<1>5. \A s \in Place(input) : /\ TileOf(input, s) = TileAt(input, s.row, s.col)
                              /\ TileOf(input, s) \in DOMAIN FinalTiles[input]
  <2> TAKE s \in Place(input)
  <2>1. TileOf(input, s) = TileAt(input, s.row, s.col) BY DEF TileOf, TileAt
  <2> QED BY <1>2, <2>1, FinalTilesAre
<1>6. tile[TileOf(input, t)] = t.panel BY FindsWhatItNeeds
<1>7. Output(CallAt(input, t)) = TileOf(input, t) BY <1>5, CallOperands
<1>8. /\ tile' \in [DOMAIN FinalTiles[input] -> Nat]
      /\ tile'[TileOf(input, t)] = t.panel + 1
      /\ \A x \in DOMAIN FinalTiles[input] : x # TileOf(input, t) => tile'[x] = tile[x]
  BY <1>4, <1>5, <1>6, <1>7, PlaceTypes
<1>9. ASSUME NEW s \in Place(input)
      PROVE  /\ tile'[TileOf(input, s)] <= s.col + 1
             /\ Made(s)' <=> s.panel < tile'[TileOf(input, s)]
  <2>1. /\ s.panel \in Nat /\ s.col \in Nat /\ s.panel <= s.col
        /\ t.panel \in Nat /\ t.col \in Nat /\ t.panel <= t.col
    BY PlaceTypes
  <2>2. /\ tile[TileOf(input, s)] <= s.col + 1
        /\ Made(s) <=> s.panel < tile[TileOf(input, s)]
    BY <1>1, <1>3 DEF TileInv
  <2>3. CASE TileOf(input, s) = TileOf(input, t)
    <3>1. s.row = t.row /\ s.col = t.col
      BY <1>2, <1>5, <2>3, TileInjective, PlaceTypes
    <3>2. s.panel = t.panel => s = t BY <3>1, PlaceTypes
    <3> QED BY <1>6, <1>8, <2>1, <2>2, <2>3, <3>1, <3>2
  <2>4. CASE TileOf(input, s) # TileOf(input, t)
    BY <1>5, <1>8, <2>2, <2>4
  <2> QED BY <2>3, <2>4
<1>10. input' = input OBVIOUS
<1>11. TileInv' BY <1>9, <1>10 DEF TileInv
<1> QED BY <1>8, <1>11

-----------------------------------------------------------------------------
(* The steps. *)

\* While the program runs, only its own variables matter to IdleInv.
LEMMA StaysLoaded ==
    ASSUME Loaded, UNCHANGED <<input, shape>>
    PROVE  IdleInv'
BY SameProgram DEF IdleInv

LEMMA GoalOfInstruction ==
    ASSUME IInv, Loaded, Instruction.kind \notin {"wait", "wait_key"}
    PROVE  goal = Runtime!NoGoal
BY DEF IInv, ControlInv

LEMMA MainCallIInv ==
    ASSUME ProgramsAreSound, IInv, MainCall
    PROVE  IInv'
<1>1. /\ AtInstruction("call") /\ Advance
      /\ tile' = [tile EXCEPT ![Output(Instruction.call)] = @ + 1]
      /\ UNCHANGED <<stage, done>>
      /\ UNCHANGED <<submitted, started, finished, after, last_writer, goal>>
  BY DEF MainCall, graph_vars
<1>2. Loaded /\ Instruction.kind = "call" /\ stage \in {"factor", "zeroed"}
  BY <1>1 DEF AtInstruction, Loaded
<1>3. ip' = ip + 1 /\ UNCHANGED <<input, shape>> BY <1>1 DEF Advance
<1>4. Program' = Program /\ Loaded' BY <1>2, <1>3, SameProgram
<1>5. TypeInv /\ ProgressInv BY DEF IInv
<1>6. /\ ip \in Nat \ {0} /\ Regular(input) /\ input \in Inputs /\ Accepted(input)
  BY <1>2, Where
<1>7. UnderWay(ip, 1) BY <1>2 DEF UnderWay, Instruction
<1>8. CallsIn(Program[ip]) = <<Instruction.call>> BY <1>2 DEF CallsIn, Instruction
<1>9. PICK t \in Place(input) : CallsIn(Program[ip])[1] = CallAt(input, t)
  BY <1>2, <1>7, CallOfPlace
<1>10. Instruction.call = CallAt(input, t) BY <1>8, <1>9
<1>11. ASSUME NEW s \in Place(input) PROVE Made(s)' <=> Made(s) \/ s = t
  <2>1. 1 .. ip' - 1 = (1 .. ip - 1) \cup {ip} BY <1>3, <1>6
  <2>2. Made(s)' <=> \/ Made(s)
                     \/ \E i \in DOMAIN CallsIn(Program[ip]) :
                            /\ CallsIn(Program[ip])[i] = CallAt(input, s)
                            /\ Program[ip].kind = "submit" => i <= done[ip]
    BY <1>1, <1>3, <1>4, <2>1 DEF Made
  <2>3. (\E i \in DOMAIN CallsIn(Program[ip]) :
            /\ CallsIn(Program[ip])[i] = CallAt(input, s)
            /\ Program[ip].kind = "submit" => i <= done[ip])
        <=> CallAt(input, t) = CallAt(input, s)
    <3>1. Program[ip].kind # "submit" BY <1>2 DEF Instruction
    <3>2. DOMAIN <<Instruction.call>> = {1} OBVIOUS
    <3> QED BY <1>8, <1>9, <3>1, <3>2
  <2>4. CallAt(input, t) = CallAt(input, s) <=> s = t BY <1>6, CallInjective
  <2> QED BY <2>2, <2>3, <2>4
<1>12. tile' = [tile EXCEPT ![Output(CallAt(input, t))] = @ + 1] BY <1>1, <1>10
<1>13. TileInv' /\ tile' \in [DOMAIN FinalTiles[input] -> Nat]
  BY <1>2, <1>3, <1>7, <1>9, <1>11, <1>12, CallTiles
<1>14. TypeInv' BY <1>1, <1>3, <1>5, <1>13 DEF TypeInv
<1>15. IdleInv' BY <1>2, <1>3, StaysLoaded
<1>16. ControlInv'
  <2>1. goal' = Runtime!NoGoal BY <1>1, <1>2, GoalOfInstruction
  <2> QED BY <1>1, <1>2, <2>1, AdvanceControl
<1>17. ProgressInv' BY <1>1, <1>4, <1>5 DEF ProgressInv
<1>18. OrderInv' BY <1>1, <1>2, AdvanceOrder
<1>19. WaitInv' BY <1>1, <1>2, AdvanceWait
<1> QED BY <1>13, <1>14, <1>15, <1>16, <1>17, <1>18, <1>19 DEF IInv

LEMMA MainSubmitIInv ==
    ASSUME ProgramsAreSound, IInv, MainSubmit
    PROVE  IInv'
<1> DEFINE deps == Instruction.deps
           output == Instruction.output
<1>1. /\ AtInstruction("submit") /\ Advance
      /\ UNCHANGED <<stage, tile, done>>
  BY DEF MainSubmit
<1>2. /\ goal = Runtime!NoGoal
      /\ submitted' = submitted \cup {ip}
      /\ after' = [after EXCEPT ![ip] = {last_writer[k] : k \in deps} \ {NoTask}]
      /\ last_writer' = [k \in Key |-> IF k = output THEN ip ELSE last_writer[k]]
      /\ UNCHANGED <<started, finished, goal>>
  BY DEF MainSubmit, Runtime!Submit
<1>3. Loaded /\ Instruction.kind = "submit" /\ stage \in {"factor", "zeroed"}
  BY <1>1 DEF AtInstruction, Loaded
<1>4. ip' = ip + 1 /\ UNCHANGED <<input, shape>> BY <1>1 DEF Advance
<1>5. Program' = Program /\ Loaded' BY <1>3, <1>4, SameProgram
<1>6. TypeInv /\ ProgressInv /\ OrderInv BY DEF IInv
<1>7. /\ ip \in Nat \ {0} /\ ip \in DOMAIN Program /\ Sound(input, Program) /\ Regular(input)
      /\ submitted = {p \in 1 .. ip - 1 : Program[p].kind = "submit"}
      /\ started \subseteq submitted
      /\ \A p \in submitted : p \in Task
  BY <1>3, Where
<1>8. Program[ip].kind = "submit" /\ Instruction = Program[ip] BY <1>3 DEF Instruction
<1>9. ip \in Task /\ NoTask \notin Task BY <1>3, <1>6, <1>7, <1>8, LoadedFacts
<1>10. deps \subseteq Key
  <2>1. deps \subseteq 0 .. Blocks(input) * Blocks(input) - 1 BY <1>7, <1>8, SoundFacts
  <2> QED BY <1>3, <1>6, <2>1, LoadedFacts
<1>11. {last_writer[k] : k \in deps} \ {NoTask} \subseteq Task
  BY <1>6, <1>10 DEF TypeInv
<1>12. ip \notin submitted /\ ip \notin started BY <1>7
<1>13. TypeInv'
  <2>1. after' \in [Task -> SUBSET Task] BY <1>2, <1>6, <1>11 DEF TypeInv
  <2>2. last_writer' \in [Key -> Task \cup {NoTask}] BY <1>2, <1>6, <1>9 DEF TypeInv
  <2> QED BY <1>1, <1>2, <1>4, <1>6, <2>1, <2>2 DEF TypeInv
<1>14. IdleInv' BY <1>3, <1>4, StaysLoaded
<1>15. ControlInv' BY <1>1, <1>2, <1>3, AdvanceControl
<1>16. ProgressInv' BY <1>1, <1>2, <1>5, <1>6 DEF ProgressInv
<1>17. WaitInv' BY <1>1, <1>2, <1>3, AdvanceWait
<1>18. TileInv' BY <1>1, <1>3, AdvanceTiles
<1>19. ASSUME NEW key \in Key
       PROVE  /\ last_writer'[key] = NoTask => \A w \in 1 .. ip' - 1 : ~Writes(Program[w], key)
              /\ last_writer'[key] # NoTask => LastWriter(Program, key, ip', last_writer'[key])
  <2>1. CASE key = output
    <3>1. Writes(Program[ip], key) BY <1>8, <2>1 DEF Writes
    <3>2. LastWriter(Program, key, ip + 1, ip) BY <1>7, <3>1, LastWriterAdvances
    <3>3. last_writer'[key] = ip /\ ip # NoTask BY <1>2, <1>9, <2>1
    <3> QED BY <1>4, <3>2, <3>3
  <2>2. CASE key # output
    <3>1. ~Writes(Program[ip], key) BY <1>8, <2>2 DEF Writes
    <3>2. last_writer'[key] = last_writer[key] BY <1>2, <2>2
    <3>3. CASE last_writer[key] = NoTask
      <4>1. \A w \in 1 .. ip - 1 : ~Writes(Program[w], key) BY <1>3, <1>6, <3>3 DEF OrderInv
      <4>2. \A w \in 1 .. ip' - 1 : w \in 1 .. ip - 1 \/ w = ip BY <1>4, <1>7
      <4> QED BY <3>1, <3>2, <3>3, <4>1, <4>2
    <3>4. CASE last_writer[key] # NoTask
      <4>1. LastWriter(Program, key, ip, last_writer[key]) BY <1>3, <1>6, <3>4 DEF OrderInv
      <4>2. LastWriter(Program, key, ip + 1, last_writer[key])
        BY <1>7, <3>1, <4>1, LastWriterAdvances
      <4> QED BY <1>4, <3>2, <3>4, <4>2
    <3> QED BY <3>3, <3>4
  <2> QED BY <2>1, <2>2
<1>20. ASSUME NEW p \in submitted'
       PROVE  /\ \A key \in Program[p].deps : \A w \in 1 .. p - 1 :
                    LastWriter(Program, key, p, w) => w \in after'[p]
              /\ \A w \in after'[p] :
                    w \in submitted' /\ Program[w].output \in Program[p].deps
  <2>1. CASE p = ip
    <3>1. after'[p] = {last_writer[k] : k \in deps} \ {NoTask}
      BY <1>2, <1>6, <1>9, <2>1 DEF TypeInv
    <3>2. ASSUME NEW key \in deps, NEW w \in 1 .. ip - 1, LastWriter(Program, key, ip, w)
          PROVE  w \in after'[p]
      <4>1. Writes(Program[w], key) BY <3>2 DEF LastWriter
      <4>2. last_writer[key] # NoTask BY <1>3, <1>6, <1>10, <4>1 DEF OrderInv
      <4>3. LastWriter(Program, key, ip, last_writer[key])
        BY <1>3, <1>6, <1>10, <4>2 DEF OrderInv
      <4>4. last_writer[key] = w BY <1>7, <3>2, <4>3, LastWriterIsOne
      <4> QED BY <3>1, <4>2, <4>4
    <3>3. ASSUME NEW w \in after'[p]
          PROVE  w \in submitted' /\ Program[w].output \in deps
      <4>1. PICK key \in deps : w = last_writer[key] /\ w # NoTask BY <3>1
      <4>2. LastWriter(Program, key, ip, w) BY <1>3, <1>6, <1>10, <4>1 DEF OrderInv
      <4>3. w \in 1 .. ip - 1 /\ Program[w].kind = "submit" /\ Program[w].output = key
        BY <4>2 DEF LastWriter, Writes
      <4> QED BY <1>2, <1>7, <4>3
    <3> QED BY <1>8, <2>1, <3>2, <3>3
  <2>2. CASE p # ip
    <3>1. p \in submitted BY <1>2, <2>2
    <3>2. after'[p] = after[p] BY <1>2, <2>2, <1>6 DEF TypeInv
    <3> QED BY <1>2, <1>3, <1>6, <3>1, <3>2 DEF OrderInv
  <2> QED BY <2>1, <2>2
<1>21. ASSUME NEW p \in started' PROVE after'[p] \subseteq finished'
  <2>1. p \in started /\ p # ip BY <1>2, <1>12
  <2>2. after'[p] = after[p] BY <1>2, <2>1, <1>6 DEF TypeInv
  <2> QED BY <1>2, <1>3, <1>6, <2>1, <2>2 DEF OrderInv
<1>22. OrderInv' BY <1>5, <1>19, <1>20, <1>21 DEF OrderInv
<1> QED BY <1>13, <1>14, <1>15, <1>16, <1>17, <1>18, <1>22 DEF IInv

LEMMA MainBlockIInv ==
    ASSUME ProgramsAreSound, IInv, MainBlock
    PROVE  IInv'
<1>1. /\ UNCHANGED <<input, stage, shape, pool, active_workers, ip, tile, done>>
      /\ UNCHANGED <<submitted, started, finished, after, last_writer>>
      /\ \/ AtInstruction("wait") /\ goal' = Runtime!WaitAll
         \/ AtInstruction("wait_key") /\ goal' = Runtime!WaitKey(Instruction.key)
  BY DEF MainBlock, main_vars, Runtime!Block
<1>2. Loaded BY <1>1 DEF AtInstruction, Loaded
<1>3. Program' = Program /\ Loaded' /\ Instruction' = Instruction
  BY <1>1, <1>2, SameProgram DEF Instruction
<1>4. TypeInv' /\ IdleInv'
  BY <1>1, <1>2, StaysLoaded DEF IInv, TypeInv
<1>5. ControlInv'
  <2>1. /\ Runtime!NoGoal' = Runtime!NoGoal /\ Runtime!WaitAll' = Runtime!WaitAll
        /\ Runtime!WaitKey(Instruction.key)' = Runtime!WaitKey(Instruction.key)
    BY <1>3 DEF Runtime!NoGoal, Runtime!WaitAll, Runtime!WaitKey
  <2>2. goal' \in {Runtime!NoGoal}
                \cup (IF Instruction.kind = "wait" THEN {Runtime!WaitAll} ELSE {})
                \cup (IF Instruction.kind = "wait_key"
                      THEN {Runtime!WaitKey(Instruction.key)} ELSE {})
    BY <1>1 DEF AtInstruction
  <2>3. ControlInv BY DEF IInv
  <2> QED BY <1>1, <1>2, <1>3, <2>1, <2>2, <2>3 DEF ControlInv
<1>6. ProgressInv' /\ OrderInv' /\ WaitInv'
  BY <1>1, <1>2, <1>3 DEF IInv, ProgressInv, OrderInv, WaitInv
<1>7. TileInv'
  <2>1. \A t : Made(t)' <=> Made(t) BY <1>1, <1>3 DEF Made
  <2> QED BY <1>1, <1>2, <1>3, <2>1 DEF IInv, TileInv
<1> QED BY <1>4, <1>5, <1>6, <1>7 DEF IInv

LEMMA MainReturnIInv ==
    ASSUME ProgramsAreSound, IInv, MainReturn
    PROVE  IInv'
<1>1. /\ Advance
      /\ goal # Runtime!NoGoal /\ Runtime!Reached(goal) /\ goal' = Runtime!NoGoal
      /\ UNCHANGED <<stage, tile, done>>
      /\ UNCHANGED <<submitted, started, finished, after, last_writer>>
  BY DEF MainReturn, Runtime!Return
<1>2. /\ TypeInv /\ IdleInv /\ ControlInv /\ ProgressInv /\ OrderInv BY DEF IInv
<1>3. Loaded BY <1>1, <1>2 DEF IdleInv
<1>4. ip' = ip + 1 /\ UNCHANGED <<input, shape>> BY <1>1 DEF Advance
<1>5. Program' = Program /\ Loaded' BY <1>3, <1>4, SameProgram
<1>6. /\ ip \in DOMAIN Program /\ Sound(input, Program) /\ Regular(input)
      /\ submitted = {p \in 1 .. ip - 1 : Program[p].kind = "submit"}
  BY <1>3, Where
<1>7. \/ Instruction.kind = "wait" /\ goal = Runtime!WaitAll
      \/ Instruction.kind = "wait_key" /\ goal = Runtime!WaitKey(Instruction.key)
  BY <1>1, <1>2, <1>3 DEF ControlInv
<1>8. stage \in {"factor", "zeroed"} BY <1>2, <1>3, <1>7 DEF ControlInv, TypeInv
<1>9. ASSUME Instruction.kind = "wait" PROVE submitted \subseteq finished
  <2>1. goal = Runtime!WaitAll BY <1>7, <1>9
  <2> QED BY <1>1, <2>1 DEF Runtime!Reached, Runtime!WaitAll
<1>10. ASSUME Instruction.kind = "wait_key",
              NEW w, LastWriter(Program, Instruction.key, ip, w)
       PROVE  w \in finished
  <2> DEFINE key == Instruction.key
  <2>1. goal = Runtime!WaitKey(key) BY <1>7, <1>10
  <2>2. last_writer[key] \in finished \cup {NoTask}
    BY <1>1, <2>1 DEF Runtime!Reached, Runtime!WaitKey
  <2>3. key \in Key
    <3>1. key \in 0 .. Blocks(input) * Blocks(input) - 1
      BY <1>6, <1>10, SoundFacts DEF Instruction
    <3> QED BY <1>2, <1>3, <3>1, LoadedFacts
  <2>4. w \in 1 .. ip - 1 /\ Writes(Program[w], key) BY <1>10 DEF LastWriter
  <2>5. last_writer[key] # NoTask BY <1>2, <1>3, <2>3, <2>4 DEF OrderInv
  <2>6. LastWriter(Program, key, ip, last_writer[key]) BY <1>2, <1>3, <2>3, <2>5 DEF OrderInv
  <2>7. ip \in Nat BY <1>3, Where
  <2>8. last_writer[key] = w BY <1>10, <2>6, <2>7, LastWriterIsOne
  <2> QED BY <2>2, <2>5, <2>8
<1>11. TypeInv' BY <1>1, <1>2, <1>4 DEF TypeInv
<1>12. IdleInv' BY <1>3, <1>4, StaysLoaded
<1>13. ControlInv' BY <1>1, <1>3, <1>7, <1>8, AdvanceControl
<1>14. ProgressInv' BY <1>1, <1>2, <1>5 DEF ProgressInv
<1>15. OrderInv' BY <1>1, <1>3, <1>7, AdvanceOrder
<1>16. WaitInv' BY <1>1, <1>3, <1>9, <1>10, AdvanceWait
<1>17. TileInv' BY <1>1, <1>3, <1>7, AdvanceTiles
<1> QED BY <1>11, <1>12, <1>13, <1>14, <1>15, <1>16, <1>17 DEF IInv

LEMMA ZeroIInv ==
    ASSUME ProgramsAreSound, IInv, ZeroUpperTriangle
    PROVE  IInv'
<1>1. /\ AtInstruction("zero") /\ Advance /\ stage' = "zeroed"
      /\ UNCHANGED <<tile, done>>
      /\ UNCHANGED <<submitted, started, finished, after, last_writer, goal>>
  BY DEF ZeroUpperTriangle, graph_vars
<1>2. Loaded /\ Instruction.kind = "zero" /\ stage \in {"factor", "zeroed"}
  BY <1>1 DEF AtInstruction, Loaded
<1>3. ip' = ip + 1 /\ UNCHANGED <<input, shape>> BY <1>1 DEF Advance
<1>4. Program' = Program /\ Loaded' BY <1>2, <1>3, SameProgram
<1>5. TypeInv /\ ProgressInv BY DEF IInv
<1>6. TypeInv' BY <1>1, <1>3, <1>5 DEF TypeInv
<1>7. IdleInv' BY <1>2, <1>3, StaysLoaded
<1>8. ControlInv'
  <2>1. goal' = Runtime!NoGoal BY <1>1, <1>2, GoalOfInstruction
  <2> QED BY <1>1, <1>2, <2>1, AdvanceControl
<1>9. ProgressInv' BY <1>1, <1>4, <1>5 DEF ProgressInv
<1>10. OrderInv' BY <1>1, <1>2, AdvanceOrder
<1>11. WaitInv' BY <1>1, <1>2, AdvanceWait
<1>12. TileInv' BY <1>1, <1>2, AdvanceTiles
<1> QED BY <1>6, <1>7, <1>8, <1>9, <1>10, <1>11, <1>12 DEF IInv

\* Steps that change nothing but the stage.
LEMMA StageIInv ==
    ASSUME IInv, UNCHANGED <<input, shape, ip, tile, done>>,
           UNCHANGED <<submitted, started, finished, after, last_writer, goal>>,
           \/ stage' = stage
           \/ stage' = "returned" /\ AtInstruction("return") /\ stage = "zeroed"
           \/ stage' = "rejected" /\ ~Accepted(input)
    PROVE  IInv'
<1>1. TypeInv /\ IdleInv /\ ControlInv BY DEF IInv
<1>2. Program' = Program /\ Loaded' = Loaded /\ Instruction' = Instruction
  BY SameProgram DEF Instruction
<1>3. AtInstruction("return") => Loaded /\ Instruction.kind = "return"
  BY DEF AtInstruction, Loaded
<1>4. TypeInv' BY <1>1 DEF TypeInv
<1>5. /\ Runtime!NoGoal' = Runtime!NoGoal /\ Runtime!WaitAll' = Runtime!WaitAll
      /\ Runtime!WaitKey(Instruction.key)' = Runtime!WaitKey(Instruction.key)
  BY <1>2 DEF Runtime!NoGoal, Runtime!WaitAll, Runtime!WaitKey
<1>6. IdleInv'
  <2>1. ASSUME ~Loaded PROVE stage' \in {"factor", "rejected"}
                             /\ (stage' = "rejected" => ~Accepted(input))
    BY <1>1, <1>3, <2>1 DEF IdleInv
  <2> QED BY <1>1, <1>2, <1>5, <2>1 DEF IdleInv
<1>7. ControlInv'
  <2>1. ASSUME Loaded
        PROVE  /\ stage' # "rejected"
               /\ stage' = "factor" <=> stage = "factor"
               /\ stage' = "returned" => Instruction.kind = "return"
    BY <1>1, <1>3, <2>1 DEF ControlInv, Loaded
  <2> QED BY <1>1, <1>2, <1>5, <2>1 DEF ControlInv
<1>8. ProgressInv' /\ OrderInv' /\ WaitInv' BY <1>2 DEF IInv, ProgressInv, OrderInv, WaitInv
<1>9. TileInv'
  <2>1. \A t : Made(t)' <=> Made(t) BY <1>2 DEF Made
  <2> QED BY <1>2, <2>1 DEF IInv, TileInv
<1> QED BY <1>4, <1>6, <1>7, <1>8, <1>9 DEF IInv

\* The program ends in order: everything is awaited when the upper triangle is
\* cleared, and that comes before the return.
LEMMA EndFacts ==
    ASSUME ProgramsAreSound, IInv, Loaded
    PROVE  \E zero \in DOMAIN Program :
            /\ zero \in Nat
            /\ stage = "factor" <=> ip <= zero
            /\ Instruction.kind = "zero" => ip = zero
            /\ Instruction.kind = "call" => ip < zero
            /\ Instruction.kind = "return" => ip > zero
            /\ \A p \in DOMAIN Program : Program[p].kind \in {"call", "submit"} => p < zero
            /\ ip >= zero => submitted = finished
<1> DEFINE P == Program
<1>1. ControlInv /\ WaitInv /\ TypeInv BY DEF IInv
<1>2. /\ ip \in 1 .. Len(P) /\ ip \in Nat \ {0} /\ Len(P) \in Nat \ {0}
      /\ DOMAIN P = 1 .. Len(P)
      /\ submitted = {p \in 1 .. ip - 1 : P[p].kind = "submit"}
      /\ Sound(input, P)
      /\ finished \subseteq started /\ started \subseteq submitted
  BY Where
<1>3. PICK zero \in DOMAIN P :
            /\ P[zero].kind = "zero"
            /\ \A p \in 1 .. zero - 1 : P[p].kind \in {"call", "submit", "wait", "wait_key"}
            /\ \A p \in 1 .. zero - 1 :
                    P[p].kind = "submit" => \E q \in p + 1 .. zero - 1 : P[q].kind = "wait"
            /\ zero < Len(P)
            /\ \A p \in zero + 1 .. Len(P) - 1 : P[p].kind = "wait"
            /\ P[Len(P)].kind = "return"
  BY <1>2 DEF Sound, EndsInOrder
<1>4. zero \in 1 .. Len(P) BY <1>2
<1>5. stage = "factor" <=> \A p \in 1 .. ip - 1 : P[p].kind # "zero"
  BY <1>1 DEF ControlInv
<1>6. WaitInv => \A p \in 1 .. ip - 1 : \A w \in 1 .. p - 1 :
        P[p].kind = "wait" /\ P[w].kind = "submit" => w \in finished
  BY DEF WaitInv
<1>7. Instruction = P[ip] BY DEF Instruction
<1> HIDE DEF P
<1>8. \A p \in DOMAIN P : /\ P[p].kind \in {"call", "submit"} => p < zero
                          /\ P[p].kind = "zero" => p = zero
                          /\ P[p].kind = "return" => p > zero
  <2> TAKE p \in DOMAIN P
  <2>1. p \in 1 .. zero - 1 \/ p = zero \/ p \in zero + 1 .. Len(P) - 1 \/ p = Len(P)
    BY <1>2, <1>4
  <2> QED BY <1>2, <1>3, <1>4, <2>1
<1>9. stage = "factor" <=> ip <= zero
  <2>1. ASSUME ip <= zero PROVE \A p \in 1 .. ip - 1 : P[p].kind # "zero"
    <3> TAKE p \in 1 .. ip - 1
    <3>1. p \in DOMAIN P /\ p # zero BY <1>2, <1>4, <2>1
    <3> QED BY <1>8, <3>1
  <2>2. ASSUME ~(ip <= zero) PROVE \E p \in 1 .. ip - 1 : P[p].kind = "zero"
    BY <1>2, <1>3, <1>4, <2>2
  <2> QED BY <1>5, <2>1, <2>2
<1>10. ASSUME ip >= zero PROVE submitted = finished
  <2>1. ASSUME NEW p \in submitted PROVE p \in finished
    <3>1. p \in 1 .. ip - 1 /\ P[p].kind = "submit" /\ p \in DOMAIN P BY <1>2
    <3>2. p \in 1 .. zero - 1 BY <1>4, <1>8, <3>1
    <3>3. PICK q \in p + 1 .. zero - 1 : P[q].kind = "wait" BY <1>3, <3>1, <3>2
    <3>4. q \in 1 .. ip - 1 /\ p \in 1 .. q - 1 BY <1>2, <1>4, <1>10, <3>2
    <3> QED BY <1>1, <1>6, <3>1, <3>3, <3>4
  <2> QED BY <1>2, <2>1
<1>11. ip \in DOMAIN P BY <1>2
<1>12. zero \in Nat BY <1>4
<1> QED BY <1>7, <1>8, <1>9, <1>10, <1>11, <1>12 DEF P

LEMMA ReturnIInv ==
    ASSUME ProgramsAreSound, IInv, Return
    PROVE  IInv'
<1>1. /\ AtInstruction("return") /\ stage' = "returned"
      /\ UNCHANGED <<input, shape, ip, tile, done>>
      /\ UNCHANGED <<submitted, started, finished, after, last_writer, goal>>
  BY DEF Return, graph_vars
<1>2. Loaded /\ Instruction.kind = "return" /\ stage \in {"factor", "zeroed"}
  BY <1>1 DEF AtInstruction, Loaded
<1>3. stage # "factor"
  <2>1. PICK zero \in DOMAIN Program :
            zero \in Nat /\ (stage = "factor" <=> ip <= zero) /\ ip > zero
    BY <1>2, EndFacts
  <2>2. ip \in Nat BY <1>2, Where
  <2> QED BY <2>1, <2>2
<1> QED BY <1>1, <1>2, <1>3, StageIInv

LEMMA RejectIInv ==
    ASSUME IInv, Reject
    PROVE  IInv'
BY StageIInv DEF Reject, graph_vars

LEMMA StutterIInv ==
    ASSUME IInv, UNCHANGED vars
    PROVE  IInv'
BY StageIInv DEF vars, main_vars, graph_vars

LEMMA StartTaskIInv ==
    ASSUME ProgramsAreSound, IInv, NEW t \in submitted, StartTask(t)
    PROVE  IInv'
<1>1. /\ t \in submitted \ started /\ after[t] \subseteq finished
      /\ started' = started \cup {t}
      /\ UNCHANGED <<submitted, finished, after, last_writer, goal>>
      /\ UNCHANGED <<input, stage, shape, pool, active_workers, ip, tile, done>>
  BY DEF StartTask, Runtime!Start, main_vars
<1>2. TypeInv /\ IdleInv /\ ControlInv /\ ProgressInv /\ OrderInv /\ WaitInv /\ TileInv
  BY DEF IInv
<1>3. Loaded BY <1>1, <1>2 DEF IdleInv
<1>4. Program' = Program /\ Loaded' /\ Instruction' = Instruction
  BY <1>1, <1>3, SameProgram DEF Instruction
<1>5. TypeInv' BY <1>1, <1>2 DEF TypeInv
<1>6. IdleInv' BY <1>1, <1>3, StaysLoaded
<1>7. ControlInv'
  <2>1. /\ Runtime!NoGoal' = Runtime!NoGoal /\ Runtime!WaitAll' = Runtime!WaitAll
        /\ Runtime!WaitKey(Instruction.key)' = Runtime!WaitKey(Instruction.key)
    BY <1>4 DEF Runtime!NoGoal, Runtime!WaitAll, Runtime!WaitKey
  <2> QED BY <1>1, <1>2, <1>3, <1>4, <2>1 DEF ControlInv
<1>8. ProgressInv'
  <2>1. t \in Task /\ t \in DOMAIN Program /\ Program[t].kind = "submit"
        /\ Sound(input, Program) /\ Regular(input)
    BY <1>1, <1>3, Where
  <2>2. done[t] = 0 /\ Len(Program[t].calls) \in Nat \ {0}
    BY <1>1, <1>2, <2>1, SoundFacts DEF ProgressInv
  <2>3. t \notin finished BY <1>1, <1>2 DEF TypeInv
  <2> QED BY <1>1, <1>2, <1>4, <2>2, <2>3 DEF ProgressInv
<1>9. OrderInv' BY <1>1, <1>2, <1>3, <1>4 DEF OrderInv
<1>10. WaitInv' BY <1>1, <1>2, <1>3, <1>4 DEF WaitInv
<1>11. TileInv'
  <2>1. \A s : Made(s)' <=> Made(s) BY <1>1, <1>4 DEF Made
  <2> QED BY <1>1, <1>2, <1>3, <1>4, <2>1 DEF TileInv
<1> QED BY <1>5, <1>6, <1>7, <1>8, <1>9, <1>10, <1>11 DEF IInv

LEMMA RunCallIInv ==
    ASSUME ProgramsAreSound, IInv, NEW p \in submitted, RunCall(p)
    PROVE  IInv'
<1> DEFINE i == done[p] + 1
           last == done'[p] = Len(Program[p].calls)
<1>1. /\ p \in Running
      /\ tile' = [tile EXCEPT ![Output(CallOf(p))] = @ + 1]
      /\ done' = [done EXCEPT ![p] = @ + 1]
      /\ finished' = (IF last THEN finished \cup {p} ELSE finished)
      /\ UNCHANGED <<submitted, started, after, last_writer, goal>>
      /\ UNCHANGED <<input, stage, shape, pool, active_workers, ip>>
  BY DEF RunCall, Runtime!Finish, graph_vars, main_vars
<1>2. TypeInv /\ IdleInv /\ ControlInv /\ ProgressInv /\ OrderInv /\ WaitInv /\ TileInv
  BY DEF IInv
<1>3. Loaded BY <1>1, <1>2 DEF IdleInv
<1>4. Program' = Program /\ Loaded' /\ Instruction' = Instruction
  BY <1>1, <1>3, SameProgram DEF Instruction
<1>5. UnderWay(p, i) BY <1>1 DEF UnderWay
<1>6. /\ p \in DOMAIN Program /\ i \in DOMAIN CallsIn(Program[p])
      /\ Program[p].kind = "submit" /\ done[p] \in Nat /\ done[p] < Len(Program[p].calls)
      /\ CallsIn(Program[p])[i] = CallOf(p)
  BY <1>1, <1>3, <1>5, CallOfPlace
<1>7. PICK t \in Place(input) : CallsIn(Program[p])[i] = CallAt(input, t)
  BY <1>3, <1>5, CallOfPlace
<1>8. /\ p \in Task /\ ip \in Nat \ {0} /\ p \in 1 .. ip - 1
      /\ Sound(input, Program) /\ Regular(input) /\ DOMAIN Program = 1 .. Len(Program)
      /\ Len(Program[p].calls) \in Nat
  BY <1>3, <1>6, Where, SoundFacts
<1>9. done' \in [Task -> Nat] /\ done'[p] = done[p] + 1
      /\ \A q \in Task : q # p => done'[q] = done[q]
  BY <1>1, <1>2, <1>8 DEF TypeInv
<1>10. CallsIn(Program[p]) = Program[p].calls /\ i \in Nat BY <1>6 DEF CallsIn
<1>11. ASSUME NEW s \in Place(input) PROVE Made(s)' <=> Made(s) \/ s = t
  <2>1. ASSUME Made(s)' PROVE Made(s) \/ s = t
    <3>1. PICK p1 \in 1 .. ip - 1 : \E i1 \in DOMAIN CallsIn(Program[p1]) :
            /\ CallsIn(Program[p1])[i1] = CallAt(input, s)
            /\ Program[p1].kind = "submit" => i1 <= done'[p1]
      BY <1>1, <1>4, <2>1 DEF Made
    <3>2. PICK i1 \in DOMAIN CallsIn(Program[p1]) :
            /\ CallsIn(Program[p1])[i1] = CallAt(input, s)
            /\ Program[p1].kind = "submit" => i1 <= done'[p1]
      BY <3>1
    <3>3. CASE p1 = p /\ i1 = i
      <4>1. CallAt(input, s) = CallAt(input, t) BY <1>7, <3>2, <3>3
      <4> QED BY <1>8, <4>1, CallInjective
    <3>4. CASE p1 = p /\ i1 # i
      <4>1. i1 \in 1 .. Len(Program[p].calls)
        BY <1>6, <1>8, <1>10, <3>2, <3>4, SoundFacts
      <4>2. i1 <= done[p] BY <1>6, <1>9, <3>2, <3>4, <4>1
      <4> QED BY <3>2, <3>4, <4>2 DEF Made
    <3>5. CASE p1 # p
      <4>1. Program[p1].kind = "submit" => p1 \in Task BY <1>3, Where
      <4>2. Program[p1].kind = "submit" => i1 <= done[p1] BY <1>9, <3>2, <3>5, <4>1
      <4> QED BY <3>2, <4>2 DEF Made
    <3> QED BY <3>3, <3>4, <3>5
  <2>2. ASSUME Made(s) PROVE Made(s)'
    <3>1. PICK p1 \in 1 .. ip - 1 : \E i1 \in DOMAIN CallsIn(Program[p1]) :
            /\ CallsIn(Program[p1])[i1] = CallAt(input, s)
            /\ Program[p1].kind = "submit" => i1 <= done[p1]
      BY <2>2 DEF Made
    <3>2. PICK i1 \in DOMAIN CallsIn(Program[p1]) :
            /\ CallsIn(Program[p1])[i1] = CallAt(input, s)
            /\ Program[p1].kind = "submit" => i1 <= done[p1]
      BY <3>1
    <3>3. Program[p1].kind = "submit" => i1 <= done'[p1]
      <4>1. CASE p1 = p
        <5>1. i1 \in 1 .. Len(Program[p].calls)
          BY <1>6, <1>8, <1>10, <3>2, <4>1, SoundFacts
        <5> QED BY <1>6, <1>9, <3>2, <4>1, <5>1
      <4>2. CASE p1 # p
        <5>1. Program[p1].kind = "submit" => p1 \in Task BY <1>3, Where
        <5> QED BY <1>9, <3>2, <4>2, <5>1
      <4> QED BY <4>1, <4>2
    <3> QED BY <1>1, <1>4, <3>2, <3>3 DEF Made
  <2>3. ASSUME s = t PROVE Made(s)'
    <3>1. i <= done'[p] BY <1>6, <1>9
    <3> QED BY <1>1, <1>4, <1>6, <1>7, <1>8, <2>3, <3>1 DEF Made
  <2> QED BY <2>1, <2>2, <2>3
<1>12. tile' = [tile EXCEPT ![Output(CallAt(input, t))] = @ + 1] BY <1>1, <1>6, <1>7
<1>13. TileInv' /\ tile' \in [DOMAIN FinalTiles[input] -> Nat]
  BY <1>1, <1>3, <1>5, <1>7, <1>11, <1>12, CallTiles
<1>14. p \in started /\ p \notin finished BY <1>1 DEF Running
<1>15. finished \subseteq finished' /\ finished' \subseteq finished \cup {p} BY <1>1
<1>16. TypeInv' BY <1>1, <1>2, <1>9, <1>13, <1>14, <1>15 DEF TypeInv
<1>17. IdleInv' BY <1>1, <1>3, StaysLoaded
<1>18. ControlInv'
  <2>1. /\ Runtime!NoGoal' = Runtime!NoGoal /\ Runtime!WaitAll' = Runtime!WaitAll
        /\ Runtime!WaitKey(Instruction.key)' = Runtime!WaitKey(Instruction.key)
    BY <1>4 DEF Runtime!NoGoal, Runtime!WaitAll, Runtime!WaitKey
  <2> QED BY <1>1, <1>2, <1>3, <1>4, <2>1 DEF ControlInv
<1>19. ProgressInv'
  <2>1. ASSUME NEW q \in Task \ started PROVE done'[q] = 0
    BY <1>2, <1>9, <1>14 DEF ProgressInv
  <2>2. ASSUME NEW q \in started
        PROVE  /\ done'[q] <= Len(Program[q].calls)
               /\ q \in finished' <=> done'[q] = Len(Program[q].calls)
    <3>1. CASE q = p BY <1>1, <1>6, <1>8, <1>9, <1>14, <3>1
    <3>2. CASE q # p
      <4>1. q \in Task BY <1>3, Where
      <4>2. done'[q] = done[q] /\ (q \in finished' <=> q \in finished)
        BY <1>1, <1>9, <3>2, <4>1
      <4> QED BY <1>2, <2>2, <4>2 DEF ProgressInv
    <3> QED BY <3>1, <3>2
  <2> QED BY <1>1, <1>4, <2>1, <2>2 DEF ProgressInv
<1>20. OrderInv' BY <1>1, <1>2, <1>3, <1>4, <1>15 DEF OrderInv
<1>21. WaitInv' BY <1>1, <1>2, <1>3, <1>4, <1>15 DEF WaitInv
<1> QED BY <1>13, <1>16, <1>17, <1>18, <1>19, <1>20, <1>21 DEF IInv

LEMMA NextIInv == ProgramsAreSound /\ IInv /\ [Next]_vars => IInv'
<1> SUFFICES ASSUME ProgramsAreSound, IInv, [Next]_vars PROVE IInv' OBVIOUS
<1>1. CASE Dispatch BY <1>1, DispatchIInv
<1>2. CASE Reject BY <1>2, RejectIInv
<1>3. CASE MainCall BY <1>3, MainCallIInv
<1>4. CASE MainSubmit BY <1>4, MainSubmitIInv
<1>5. CASE MainBlock BY <1>5, MainBlockIInv
<1>6. CASE MainReturn BY <1>6, MainReturnIInv
<1>7. CASE ZeroUpperTriangle BY <1>7, ZeroIInv
<1>8. CASE Return BY <1>8, ReturnIInv
<1>9. ASSUME NEW t \in submitted, StartTask(t) PROVE IInv' BY <1>9, StartTaskIInv
<1>10. ASSUME NEW t \in submitted, RunCall(t) PROVE IInv' BY <1>10, RunCallIInv
<1>11. CASE UNCHANGED vars BY <1>11, StutterIInv
<1> QED
  BY <1>1, <1>2, <1>3, <1>4, <1>5, <1>6, <1>7, <1>8, <1>9, <1>10, <1>11
  DEF Next, Main, Participants

-----------------------------------------------------------------------------
(* What the invariant gives. *)

LEMMA IInvOperands == ProgramsAreSound /\ IInv => OperandsAreSerial
<1> SUFFICES ASSUME ProgramsAreSound, IInv, NEW call \in CallsUnderWay
             PROVE  FindsSerialOperands(call)
  BY DEF OperandsAreSerial
<1>1. \E p, i : Loaded /\ UnderWay(p, i) /\ CallsIn(Program[p])[i] = call
  <2>1. CASE call \in {CallOf(p) : p \in Running}
    <3>1. PICK p \in Running : call = CallOf(p) BY <2>1
    <3>2. Loaded BY <3>1 DEF IInv, IdleInv, TypeInv, Running
    <3>3. UnderWay(p, done[p] + 1) BY <3>1 DEF UnderWay
    <3>4. CallsIn(Program[p])[done[p] + 1] = CallOf(p) BY <3>1, <3>2, <3>3, CallOfPlace
    <3> QED BY <3>1, <3>2, <3>3, <3>4
  <2>2. CASE AtInstruction("call") /\ call = Instruction.call
    <3>1. Loaded /\ Instruction.kind = "call" BY <2>2 DEF AtInstruction, Loaded
    <3>2. UnderWay(ip, 1) BY <3>1 DEF UnderWay, Instruction
    <3>3. CallsIn(Program[ip]) = <<Instruction.call>> BY <3>1 DEF CallsIn, Instruction
    <3> QED BY <2>2, <3>1, <3>2, <3>3
  <2> QED BY <2>1, <2>2 DEF CallsUnderWay
<1>2. PICK p, i : Loaded /\ UnderWay(p, i) /\ CallsIn(Program[p])[i] = call BY <1>1
<1>3. PICK t \in Place(input) : call = CallAt(input, t) BY <1>2, CallOfPlace
<1> QED BY <1>2, <1>3, FindsWhatItNeeds

LEMMA IInvOrder == ProgramsAreSound /\ IInv => OrderIsNecessary
<1> SUFFICES ASSUME ProgramsAreSound, IInv, NEW t \in submitted, NEW u \in after[t]
             PROVE  Conflict(Program[t].calls, Program[u].calls)
  BY DEF OrderIsNecessary
<1>1. Loaded BY DEF IInv, IdleInv
<1>2. u \in submitted /\ Program[u].output \in Program[t].deps BY <1>1 DEF IInv, OrderInv
<1>3. /\ t \in DOMAIN Program /\ Program[t].kind = "submit"
      /\ u \in DOMAIN Program /\ Program[u].kind = "submit"
      /\ Sound(input, Program)
  BY <1>1, <1>2, Where
<1> QED BY <1>2, <1>3 DEF Sound, KeysAreSound

LEMMA IInvProtocol == ProgramsAreSound /\ IInv => KeepsProtocol
<1> SUFFICES ASSUME ProgramsAreSound, IInv, Loaded
             PROVE  /\ \A s1, s2 \in SubmissionsMade : (s1.output = NoKey) <=> (s2.output = NoKey)
                    /\ stage \in {"zeroed", "returned"} => submitted = finished
  BY DEF KeepsProtocol, Loaded
<1>1. /\ Sound(input, Program) /\ DOMAIN Program = 1 .. Len(Program) /\ ip \in 1 .. Len(Program)
      /\ Len(Program) \in Nat
  BY Where
<1>2. ASSUME NEW s1 \in SubmissionsMade, NEW s2 \in SubmissionsMade
      PROVE  (s1.output = NoKey) <=> (s2.output = NoKey)
  <2>1. PICK p1 \in 1 .. ip - 1 : s1 = Program[p1] /\ Program[p1].kind = "submit"
    BY DEF SubmissionsMade
  <2>2. PICK p2 \in 1 .. ip - 1 : s2 = Program[p2] /\ Program[p2].kind = "submit"
    BY DEF SubmissionsMade
  <2>3. p1 \in DOMAIN Program /\ p2 \in DOMAIN Program BY <1>1
  <2> QED BY <1>1, <2>1, <2>2, <2>3 DEF Sound, KeysAreSound
<1>3. ASSUME stage \in {"zeroed", "returned"} PROVE submitted = finished
  <2>1. PICK zero \in DOMAIN Program :
            /\ zero \in Nat /\ (stage = "factor" <=> ip <= zero)
            /\ ip >= zero => submitted = finished
    BY EndFacts
  <2> QED BY <1>1, <1>3, <2>1
<1> QED BY <1>2, <1>3

-----------------------------------------------------------------------------
(* The compiled program takes the steps of the sequential one. *)

LEMMA SequentialCall ==
    ASSUME ProgramsAreSound, IInv, Loaded, NEW p, NEW i, UnderWay(p, i),
           tile' = [tile EXCEPT ![Output(CallsIn(Program[p])[i])] = @ + 1],
           UNCHANGED <<input, stage>>
    PROVE  SequentialNext
<1>1. Regular(input) /\ input \in Inputs /\ Accepted(input) /\ ip \in Nat
      /\ DOMAIN Program = 1 .. Len(Program)
      /\ submitted = {q \in 1 .. ip - 1 : Program[q].kind = "submit"}
      /\ started \subseteq submitted /\ finished \subseteq started
  BY Where
<1>2. PICK t \in Place(input) : CallsIn(Program[p])[i] = CallAt(input, t) BY CallOfPlace
<1>3. FindsSerialOperands(CallAt(input, t)) BY <1>2, FindsWhatItNeeds
<1>4. CallAt(input, t) \in DOMAIN SerialOperands[input] BY <1>3 DEF FindsSerialOperands
<1>5. stage = "factor"
  <2>1. PICK zero \in DOMAIN Program :
            /\ zero \in Nat /\ (stage = "factor" <=> ip <= zero)
            /\ Instruction.kind = "call" => ip < zero
            /\ ip >= zero => submitted = finished
    BY EndFacts
  <2>2. CASE p \in Running
    <3>1. submitted # finished BY <1>1, <2>2 DEF Running
    <3> QED BY <1>1, <2>1, <3>1
  <2>3. CASE p \notin Running
    <3>1. Instruction.kind = "call" BY <2>3 DEF UnderWay, Instruction
    <3> QED BY <1>1, <2>1, <3>1
  <2> QED BY <2>2, <2>3
<1>6. ApplyOperator(CallAt(input, t)) BY <1>2, <1>3, <1>5 DEF ApplyOperator
<1> QED BY <1>1, <1>4, <1>6 DEF SequentialNext

\* The upper triangle is cleared in the finished matrix.
LEMMA SequentialClear ==
    ASSUME ProgramsAreSound, IInv, ZeroUpperTriangle
    PROVE  SequentialNext
<1>1. Loaded /\ Instruction.kind = "zero" /\ stage' = "zeroed" /\ UNCHANGED <<input, tile>>
  BY DEF ZeroUpperTriangle, AtInstruction, Loaded, Advance
<1>2. Regular(input) /\ input \in Inputs /\ Accepted(input) /\ ip \in Nat
      /\ Sound(input, Program) /\ DOMAIN Program = 1 .. Len(Program)
      /\ submitted = {q \in 1 .. ip - 1 : Program[q].kind = "submit"}
  BY <1>1, Where
<1>3. TypeInv /\ TileInv /\ ProgressInv BY DEF IInv
<1>4. /\ stage = "factor"
      /\ \A p \in DOMAIN Program : Program[p].kind \in {"call", "submit"} => p < ip
      /\ submitted = finished
  <2>1. PICK zero \in DOMAIN Program :
            /\ zero \in Nat /\ (stage = "factor" <=> ip <= zero)
            /\ Instruction.kind = "zero" => ip = zero
            /\ \A p \in DOMAIN Program : Program[p].kind \in {"call", "submit"} => p < zero
            /\ ip >= zero => submitted = finished
    BY <1>1, EndFacts
  <2> QED BY <1>1, <1>2, <2>1
<1>5. ASSUME NEW t \in Place(input) PROVE Made(t)
  <2>1. CallAt(input, t) \in CallsAt(input, Place(input)) BY DEF CallsAt
  <2>2. PICK p \in DOMAIN Program : \E i \in DOMAIN CallsIn(Program[p]) :
            CallsIn(Program[p])[i] = CallAt(input, t)
    BY <1>2, <2>1 DEF Sound, Makes
  <2>3. PICK i \in DOMAIN CallsIn(Program[p]) : CallsIn(Program[p])[i] = CallAt(input, t)
    BY <2>2
  <2>4. Program[p].kind \in {"call", "submit"}
    <3>1. Program[p].kind \notin {"call", "submit"} => CallsIn(Program[p]) = <<>> BY DEF CallsIn
    <3>2. DOMAIN <<>> = {} OBVIOUS
    <3> QED BY <2>3, <3>1, <3>2
  <2>5. p \in 1 .. ip - 1 BY <1>2, <1>4, <2>4
  <2>6. ASSUME Program[p].kind = "submit" PROVE i <= done[p]
    <3>1. p \in finished /\ p \in started BY <1>2, <1>3, <1>4, <2>5, <2>6 DEF TypeInv
    <3>2. done[p] = Len(Program[p].calls) BY <1>3, <3>1 DEF ProgressInv
    <3>3. CallsIn(Program[p]) = Program[p].calls BY <2>6 DEF CallsIn
    <3>4. i \in 1 .. Len(Program[p].calls) /\ Len(Program[p].calls) \in Nat
      BY <1>2, <2>6, <3>3, SoundFacts
    <3> QED BY <3>2, <3>4
  <2> QED BY <2>3, <2>5, <2>6 DEF Made
<1>6. tile \in [DOMAIN FinalTiles[input] -> Nat] BY <1>2, <1>3 DEF TypeInv
<1>7. ASSUME NEW x \in DOMAIN FinalTiles[input] PROVE tile[x] = FinalTiles[input][x]
  <2>1. PICK t \in Place(input) : x = TileAt(input, t.row, t.col) BY <1>2, FinalTilesAre
  <2> DEFINE s == [panel |-> t.col, col |-> t.col, row |-> t.row]
  <2>2. s \in Place(input) BY PlaceTypes, PlaceIs
  <2>3. TileOf(input, s) = x BY <2>1 DEF TileOf, TileAt
  <2>4. s.panel < tile[x] /\ tile[x] <= s.col + 1 BY <1>1, <1>3, <1>5, <2>2, <2>3 DEF TileInv
  <2>5. tile[x] \in Nat /\ t.col \in Nat BY <1>6, PlaceTypes
  <2>6. FinalTiles[input][x] = t.col + 1 BY <1>2, <2>1, FinalTilesAre
  <2> QED BY <2>4, <2>5, <2>6
<1>8. tile = FinalTiles[input]
  <2>1. FinalTiles[input] = [x \in DOMAIN FinalTiles[input] |-> FinalTiles[input][x]]
    BY <1>2 DEF FinalTiles
  <2> QED BY <1>6, <1>7, <2>1
<1>9. ClearUpperTriangle BY <1>1, <1>4, <1>8 DEF ClearUpperTriangle
<1> QED BY <1>2, <1>9 DEF SequentialNext

LEMMA SequentialStep == ProgramsAreSound /\ IInv /\ [Next]_vars => [SequentialNext]_sequential_vars
<1> SUFFICES ASSUME ProgramsAreSound, IInv, [Next]_vars
             PROVE  SequentialNext \/ UNCHANGED sequential_vars
  OBVIOUS
<1> USE DEF sequential_vars
<1>1. CASE Dispatch BY <1>1 DEF Dispatch
<1>2. CASE Reject
  <2>1. ThrowInvalidArgument BY <1>2 DEF Reject, ThrowInvalidArgument
  <2> QED BY <2>1 DEF SequentialNext
<1>3. CASE MainCall
  <2>1. Loaded /\ Instruction.kind = "call" BY <1>3 DEF MainCall, AtInstruction, Loaded
  <2>2. UnderWay(ip, 1) BY <2>1 DEF UnderWay, Instruction
  <2>3. CallsIn(Program[ip]) = <<Instruction.call>> BY <2>1 DEF CallsIn, Instruction
  <2>4. /\ tile' = [tile EXCEPT ![Output(CallsIn(Program[ip])[1])] = @ + 1]
        /\ UNCHANGED <<input, stage>>
    BY <1>3, <2>3 DEF MainCall, Advance
  <2> QED BY <2>1, <2>2, <2>4, SequentialCall
<1>4. CASE MainSubmit BY <1>4 DEF MainSubmit, Advance
<1>5. CASE MainBlock BY <1>5 DEF MainBlock, main_vars
<1>6. CASE MainReturn BY <1>6 DEF MainReturn, Advance
<1>7. CASE ZeroUpperTriangle BY <1>7, SequentialClear
<1>8. CASE Return
  <2>1. Loaded /\ Instruction.kind = "return" /\ stage \in {"factor", "zeroed"}
    BY <1>8 DEF Return, AtInstruction, Loaded
  <2>2. PICK zero \in DOMAIN Program :
            zero \in Nat /\ (stage = "factor" <=> ip <= zero) /\ ip > zero
    BY <2>1, EndFacts
  <2>3. ip \in Nat BY <2>1, Where
  <2>4. ReturnZero BY <1>8, <2>1, <2>2, <2>3 DEF Return, ReturnZero
  <2> QED BY <2>4 DEF SequentialNext
<1>9. ASSUME NEW t \in submitted, StartTask(t) PROVE UNCHANGED sequential_vars
  BY <1>9 DEF StartTask, main_vars
<1>10. ASSUME NEW p \in submitted, RunCall(p) PROVE SequentialNext
  <2>1. p \in Running BY <1>10 DEF RunCall
  <2>2. Loaded BY DEF IInv, IdleInv
  <2>3. UnderWay(p, done[p] + 1) BY <2>1 DEF UnderWay
  <2>4. CallsIn(Program[p])[done[p] + 1] = CallOf(p) BY <2>1, <2>2, <2>3, CallOfPlace
  <2>5. /\ tile' = [tile EXCEPT ![Output(CallOf(p))] = @ + 1]
        /\ UNCHANGED <<input, stage>>
    BY <1>10 DEF RunCall, main_vars
  <2> QED BY <2>2, <2>3, <2>4, <2>5, SequentialCall
<1>11. CASE UNCHANGED vars BY <1>11 DEF vars, main_vars
<1> QED
  BY <1>1, <1>2, <1>3, <1>4, <1>5, <1>6, <1>7, <1>8, <1>9, <1>10, <1>11
  DEF Next, Main, Participants

-----------------------------------------------------------------------------
(* The programs are sound, so the compiled program keeps its properties. *)

\* Every program the Pass leaves for an accepted input is sound.
THEOREM CodeIsSound == ProgramsAreSound
<1> SUFFICES ASSUME NEW m \in DOMAIN Code, NEW s \in DOMAIN Code[m]
             PROVE  Sound(m, Code[m][s])
  BY DEF ProgramsAreSound
<1>1. m \in Inputs /\ Accepted(m) BY DEF Code
<1>2. DOMAIN Code[m] = {"serial", Shape(m)} /\ Code[m][s] = Lowering(m, s)
  <2>1. Code[m] = [t \in {"serial", Shape(m)} |-> Lowering(m, t)] BY <1>1 DEF Code
  <2>2. DOMAIN Code[m] = {"serial", Shape(m)} BY <2>1
  <2>3. Code[m][s] = Lowering(m, s) BY <2>1, <2>2
  <2> QED BY <2>2, <2>3
<1>3. Regular(m) BY <1>1, InputAssumption DEF Regular, Accepted
<1>4. s \in {"serial", "phases", "sync", "task"} BY <1>2 DEF Shape
<1> QED BY <1>2, <1>3, <1>4, LoweringIsSound

\* The inductive invariant: what the submitting thread has passed, what the tasks
\* have made, the order the runtime keeps and what the tiles hold belong together.
THEOREM CompiledInvariant == Spec => []IInv
<1>1. Init => IInv BY InitIInv
<1>2. IInv /\ [Next]_vars => IInv' BY CodeIsSound, NextIInv
<1> QED BY <1>1, <1>2, PTL DEF Spec

\* Every call under way finds the operands of the sequential program, whatever the
\* matrix, the build and the interleaving of the participants.
THEOREM CallsFindSerialOperands == Spec => []OperandsAreSerial
<1>1. IInv => OperandsAreSerial BY CodeIsSound, IInvOperands
<1> QED BY <1>1, CompiledInvariant, PTL

\* The graph orders two tasks only if one writes what the other uses.
THEOREM GraphOrdersConflictsOnly == Spec => []OrderIsNecessary
<1>1. IInv => OrderIsNecessary BY CodeIsSound, IInvOrder
<1> QED BY <1>1, CompiledInvariant, PTL

\* The compiled program never mixes submissions with and without keys, and has no
\* task left when it clears the upper triangle or returns.
THEOREM CompiledKeepsProtocol == Spec => []KeepsProtocol
<1>1. IInv => KeepsProtocol BY CodeIsSound, IInvProtocol
<1> QED BY <1>1, CompiledInvariant, PTL

\* The compiled program implements the sequential one, step by step: it makes no
\* call that block_cholesky would not make then, clears the upper triangle of the
\* finished matrix only, and rejects what block_cholesky rejects.
THEOREM CompiledImplementsSequential == Spec => RefinesSequential
<1>1. Init => SequentialInit BY DEF Init, SequentialInit
<1>2. IInv /\ [Next]_vars => [SequentialNext]_sequential_vars BY CodeIsSound, SequentialStep
<1> QED BY <1>1, <1>2, CompiledInvariant, PTL DEF Spec, RefinesSequential, SequentialSpec
=============================================================================
