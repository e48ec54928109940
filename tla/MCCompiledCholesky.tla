------------------------- MODULE MCCompiledCholesky -------------------------
(***************************************************************************)
(* Instances of CompiledCholesky for TLC.                                  *)
(***************************************************************************)
EXTENDS CompiledCholeskyProperties

DefaultEnv ==
    [hardware |-> 4, threads |-> 0, cap_set |-> FALSE, cap |-> 0, fast_phase |-> "unset",
     min_b |-> 0, min_blocks |-> 0, range_flops |-> 0, group_width |-> 0]

\* The default build.
Matrix(n, b) ==
    [n |-> n, b |-> b, env |-> DefaultEnv, annotated |-> TRUE, linear |-> TRUE,
     cross_panel |-> FALSE, sync_cholesky |-> FALSE, trsm_range |-> TRUE, nest |-> TRUE]

\* Groups of one, two and three tiles, columns, single tasks, both kinds of
\* cross-panel graph, a fall-back to phases, a tile of the mature path, two
\* threads, a serial matrix and one that block_cholesky rejects, with and without
\* workers.
SmallInputs == {
    Matrix(192, 48),
    Matrix(384, 128),
    [Matrix(192, 32) EXCEPT !.env.min_b = 32],
    [Matrix(192, 48) EXCEPT !.env.group_width = 2],
    [Matrix(240, 48) EXCEPT !.env.group_width = 3, !.env.hardware = 5],
    [Matrix(192, 32) EXCEPT !.nest = FALSE, !.trsm_range = FALSE],
    [Matrix(192, 48) EXCEPT !.annotated = FALSE, !.linear = FALSE,
                            !.cross_panel = TRUE, !.env.cap_set = TRUE],
    [Matrix(192, 48) EXCEPT !.cross_panel = TRUE],
    [Matrix(192, 48) EXCEPT !.annotated = FALSE, !.cross_panel = TRUE,
                            !.sync_cholesky = TRUE],
    [Matrix(192, 48) EXCEPT !.env.threads = 2, !.cross_panel = TRUE,
                            !.env.fast_phase = "off"],
    Matrix(128, 32),
    Matrix(130, 32),
    Matrix(200, 48) }

\* Whatever the number of blocks behind a panel and the width of a group, the
\* groups of the lower triangle make every madd call of the panel exactly once.
ASSUME GroupsMakeEachCallOnce ==
    \A blocks \in 2 .. 7, width \in 1 .. 8 :
        LET m == Matrix(blocks * 2, 2)
            groups == (blocks - 1 + width - 1) \div width
            calls == FlattenSeq([t \in 1 .. (groups * (groups + 1)) \div 2 |->
                        GroupCalls(m, 0, width, Group(t - 1, groups))])
        IN /\ ToSet(calls) = ToSet(MaddCalls(m.n, m.b, 0))
           /\ Len(calls) = Cardinality(ToSet(calls))
=============================================================================
