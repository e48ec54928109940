---------------------------- MODULE SizingPolicy ----------------------------
(***************************************************************************)
(* How the runtime sizes a call: how many threads take part, whether a     *)
(* matrix is worth running in parallel, how a range is cut into tasks and  *)
(* how wide the groups of tiles are.  These are functions of the matrix    *)
(* order n, the tile size b and the process environment.                   *)
(*                                                                         *)
(* A numeric environment variable is 0 here when it is unset or not a      *)
(* positive number, since the code then keeps its default.  The operators  *)
(* whose names begin with Bug are not part of the model: each is what a    *)
(* wrong edit of the definition after it would be.                         *)
(***************************************************************************)
EXTENDS Integers, FiniteSetsExt

\* std::numeric_limits<std::size_t>::max(), only ever compared with a minimum.
Unlimited == 2147483647

Setting == Nat

\* cap_set tells an unset COMPILER2026_DAG_PARTICIPANT_CAP from one that is set
\* but not a number; its value is Unlimited for "off" and "none".
Environment ==
    {env \in [hardware : Nat, threads : Setting, cap_set : BOOLEAN, cap : Setting,
              fast_phase : {"unset", "on", "off"}, min_b : Setting,
              min_blocks : Setting, range_flops : Setting, group_width : 0..16] :
        env.cap > 0 => env.cap_set}

Configured(setting, default) == IF setting > 0 THEN setting ELSE default

RequestedThreads(env) == Configured(env.threads, Max({1, env.hardware}))

MaxWorkerThreads(env) == RequestedThreads(env) - 1

FastPhaseEnabledForTile(env, b) ==
    \/ env.fast_phase = "on"
    \/ env.fast_phase = "unset" /\ b > 0 /\ b < 128

ParticipantCapForTile(env, b) ==
    Configured(env.cap, IF b < 48 THEN 24 ELSE Unlimited)

\* The cases the code measured as not worth a barrier per panel.
TooSmall(n, b) ==
    \/ n <= 0 \/ b <= 0
    \/ n \div b <= 1
    \/ n < 192
    \/ b < 12 /\ n < 320

\* On the lock-free path two threads are left to the system, and eight
\* participants are used for every 128 rows.
SpinSafeCap(threads) == IF threads > 2 THEN threads - 2 ELSE threads
ShapeCap(n) == Max({1, (n \div 128) * 8})

ResolveThreadCount(env, n, b) ==
    IF TooSmall(n, b) THEN 1
    ELSE IF ~env.cap_set /\ FastPhaseEnabledForTile(env, b)
    THEN Max({1, Min({SpinSafeCap(RequestedThreads(env)), ShapeCap(n)})})
    ELSE Max({1, Min({RequestedThreads(env), ParticipantCapForTile(env, b)})})

AsyncMinBlockSize(env) == Configured(env.min_b, 8)
AsyncMinBlockCount(env) == Configured(env.min_blocks, 2)

ShouldAsync(env, n, b) ==
    /\ n > 0 /\ b > 0
    /\ b >= AsyncMinBlockSize(env)
    /\ n \div b > 1
    /\ n \div b >= AsyncMinBlockCount(env)
    /\ ResolveThreadCount(env, n, b) > 1

\* The smallest tile counts as too small.
BugTotalThreads(env, n, b) ==
    IF b <= AsyncMinBlockSize(env) THEN 1 ELSE ResolveThreadCount(env, n, b)

\* What compiler2026_runtime_begin decides.
TotalThreads(env, n, b) ==
    IF b < AsyncMinBlockSize(env) THEN 1 ELSE ResolveThreadCount(env, n, b)
PoolThreads(env, n, b) ==
    Max({TotalThreads(env, n, b) - 1, MaxWorkerThreads(env)})

-----------------------------------------------------------------------------
\* Ranges.

\* About range_flops worth of madd calls, 2*b^3 flops each, make one task.
RangeChunkLength(env, b, count) ==
    IF b <= 0 THEN count
    ELSE Min({count, Max({1, Configured(env.range_flops, 200000) \div (2 * b * b * b)})})

\* The length of the tasks submitRange cuts a range into.
ChunkLength(env, b, count, grain) ==
    IF grain > 0 THEN Min({count, grain}) ELSE RangeChunkLength(env, b, count)

\* The short task at the end is missing.
BugChunks(count, length) ==
    [c \in 1 .. count \div length |->
        [begin |-> (c - 1) * length, end |-> (c - 1) * length + length]]

\* The tasks of submitRange, in the order of their submission: each takes the
\* indices from begin to end - 1.
Chunks(count, length) ==
    [c \in 1 .. (count + length - 1) \div length |->
        [begin |-> (c - 1) * length, end |-> Min({count, (c - 1) * length + length})]]

SubmitRange(env, b, count, grain) ==
    IF count <= 0 THEN <<>> ELSE Chunks(count, ChunkLength(env, b, count, grain))

Even(width) == width + (width % 2)

RangeGroupWidth(env, n, b) ==
    LET blocks == n \div b IN
    CASE env.group_width > 0 -> env.group_width
      [] env.group_width = 0 /\ (n <= 0 \/ b <= 0) -> 1
      [] env.group_width = 0 /\ n > 0 /\ b \in 1..12 ->
            Max({2, Min({Even(Max({2, (blocks + 15) \div 16})),
                         2 * (Max({2, 72 \div b}) \div 2)})})
      [] env.group_width = 0 /\ n > 0 /\ b \in 13..17 -> IF blocks >= 64 THEN 4 ELSE 2
      [] env.group_width = 0 /\ n > 0 /\ b \in 18..27 -> 2
      [] env.group_width = 0 /\ n > 0 /\ b >= 28 -> 1
=============================================================================
