---------------------------- MODULE PassLowering ----------------------------
(***************************************************************************)
(* What the Pass turns the loop nest of block_cholesky into: for every     *)
(* panel, the operator calls, submissions and waits of the submitting      *)
(* thread, in its order.                                                   *)
(*                                                                         *)
(* An operator whose name begins with Bug is not part of the model: it is  *)
(* what a wrong edit of the definition after it would be.                  *)
(*                                                                         *)
(* An input m has the order n and the tile size b of the matrix, the       *)
(* process environment env, and the switches of the build:                 *)
(*   annotated      the function carries the tile_dag.v1 annotation        *)
(*   linear         the operands are GEP chains that give an offset        *)
(*   cross_panel    COMPILER2026_ENABLE_CROSS_PANEL_DAG                    *)
(*   sync_cholesky  COMPILER2026_CROSS_PANEL_SYNC_CHOLESKY                 *)
(*   trsm_range     COMPILER2026_TRSM_RANGE                                *)
(*   nest           the induction variable of the madd nest was recovered  *)
(***************************************************************************)
EXTENDS OperatorCalls, SizingPolicy

NoKey == -1

Inline(call) == [kind |-> "call", call |-> call]
Submit(calls, deps, output) ==
    [kind |-> "submit", calls |-> calls, deps |-> deps, output |-> output]
Wait == [kind |-> "wait"]
WaitKey(key) == [kind |-> "wait_key", key |-> key]

OneByOne(calls, Instruction(_)) == [c \in DOMAIN calls |-> Instruction(calls[c])]

\* The function as it was: the dispatch found the matrix not worth a pool.
SerialPanel(m, i) == OneByOne(PanelCalls(m.n, m.b, i), Inline)

-----------------------------------------------------------------------------
\* Cross-panel graphs: a task per call, ordered by the tiles it names.

\* buildBlockCoordinate: the linear block index of the tile at offset p.
BlockRow(m, p) == (p \div m.n) \div m.b
BlockCol(m, p) == (p % m.n) \div m.b

\* One key for all the tiles of a row.
BugBlockKey(m, p) == BlockRow(m, p) * (m.n \div m.b)

BlockKey(m, p) == BlockRow(m, p) * (m.n \div m.b) + BlockCol(m, p)

\* compiler2026_runtime_submit_deps where the update needs submit_deps3: without
\* the tile it adds to.
BugDependencyArgs(op) ==
    CASE op = "cholesky" -> {1}
      [] op = "trsm" -> {1, 2}
      [] op = "madd" -> {1, 2}

\* The arguments a submission lists as dependencies, counted from 1 here.
DependencyArgs(op) ==
    CASE op = "cholesky" -> {1}
      [] op = "trsm" -> {1, 2}
      [] op = "madd" -> {1, 2, 3}

DagSubmit(m, call) ==
    Submit(<<call>>,
           {BlockKey(m, call.args[a]) : a \in DependencyArgs(call.op)},
           BlockKey(m, Output(call)))

UpdatesOf(m, i) ==
    OneByOne(TrsmCalls(m.n, m.b, i) \o MaddCalls(m.n, m.b, i),
             LAMBDA call : DagSubmit(m, call))

\* The cholesky operator stays on the submitting thread, behind a key wait.
SyncPanel(m, i) ==
    LET diagonal == CholeskyCall(m.n, i)
    IN <<WaitKey(BlockKey(m, diagonal.args[1])), Inline(diagonal)>> \o UpdatesOf(m, i)

TaskPanel(m, i) == <<DagSubmit(m, CholeskyCall(m.n, i))>> \o UpdatesOf(m, i)

-----------------------------------------------------------------------------
\* Phases: the tasks of a panel carry no keys, waits separate trsm from madd.

\* A range whose logical index t stands for the calls body[t].
RangeSubmits(m, count, grain, body) ==
    LET chunks == SubmitRange(m.env, m.b, count, grain)
        CallsOf(c) == FlattenSeq([t \in 1 .. c.end - c.begin |-> body[c.begin + t - 1]])
    IN [c \in DOMAIN chunks |-> Submit(CallsOf(chunks[c]), {}, NoKey)]

\* One logical index is one block row under the diagonal tile at diag.
TrsmRange(m, diag) ==
    LET panel == diag \div (m.n + 1)
        count == (m.n - panel - m.b) \div m.b
        Block(t) == At(m.n, panel + m.b + t * m.b, panel)
        body == [t \in 0 .. count - 1 |->
            <<[op |-> "trsm", args |-> <<Block(t), At(m.n, panel, panel), Block(t)>>]>>]
    IN RangeSubmits(m, count, 1, body)

\* One logical index is one tile of column j, from the diagonal down; b0 is
\* the second operand, the same for the whole column.
MaddRange(m, b0) ==
    LET row == b0 \div m.n
        stride == m.b * m.n
        count == (m.n - row) \div m.b
        body == [t \in 0 .. count - 1 |->
            <<[op |-> "madd",
               args |-> <<b0 + t * stride, b0, At(m.n, row, row) + t * stride>>]>>]
    IN RangeSubmits(m, count, 0, body)

\* The packed index of a group in the lower triangle of groups x groups: group
\* column c owns groups - c consecutive indices.
Group(index, groups) ==
    LET residual[c \in 0 .. groups] ==
            IF c = 0 THEN index ELSE residual[c - 1] - (groups - (c - 1))
        column == Min({c \in 0 .. groups : residual[c] < groups - c})
    IN [row |-> column + residual[column], col |-> column]

\* The madd calls of one group, on and below the diagonal.  The loop over the rows
\* tests its limit behind the first row, the one over the columns before each.
GroupCalls(m, panel, width, group) ==
    LET stride == width * m.b
        row_start == panel + m.b + group.row * stride
        col_start == panel + m.b + group.col * stride
        row_limit == Max({row_start + 1, Min({row_start + stride, m.n})})
        rows == Steps(row_start, row_limit, m.b)
        Cols(row) == Steps(col_start, Min({row + m.b, col_start + stride, m.n}), m.b)
        Madd(row, col) == [op |-> "madd", args |-> <<At(m.n, row, panel),
                                  At(m.n, col, panel), At(m.n, row, col)>>]
    IN FlattenSeq([r \in DOMAIN rows |->
            LET cols == Cols(rows[r])
            IN [c \in DOMAIN cols |-> Madd(rows[r], cols[c])]])

\* One logical index is one group of width x width tiles.
MaddTileRange(m, first_row) ==
    LET panel == first_row - m.b
        remaining == (m.n - panel - m.b) \div m.b
        width == RangeGroupWidth(m.env, m.n, m.b)
        groups == (remaining + width - 1) \div width
        count == (groups * (groups + 1)) \div 2
        body == [t \in 0 .. count - 1 |-> GroupCalls(m, panel, width, Group(t, groups))]
    IN RangeSubmits(m, count, IF width = 1 THEN 0 ELSE 1, body)

PlainSubmit(call) == Submit(<<call>>, {}, NoKey)

TrsmPhase(m, i) ==
    IF m.annotated /\ m.trsm_range
    THEN TrsmRange(m, At(m.n, i, i))
    ELSE OneByOne(TrsmCalls(m.n, m.b, i), PlainSubmit)

MaddPhase(m, i) ==
    IF m.annotated /\ m.nest THEN MaddTileRange(m, i + m.b)
    ELSE IF m.annotated
    THEN LET cols == Steps(i + m.b, m.n, m.b)
         IN FlattenSeq([c \in DOMAIN cols |-> MaddRange(m, At(m.n, cols[c], i))])
    ELSE OneByOne(MaddCalls(m.n, m.b, i), PlainSubmit)

\* The madd phase starts beside the trsm phase.
BugPhasedPanel(m, i) ==
    <<Inline(CholeskyCall(m.n, i))>>
        \o TrsmPhase(m, i) \o MaddPhase(m, i) \o <<Wait>>

PhasedPanel(m, i) ==
    <<Inline(CholeskyCall(m.n, i))>>
        \o TrsmPhase(m, i) \o <<Wait>>
        \o MaddPhase(m, i) \o <<Wait>>

-----------------------------------------------------------------------------
\* The shape transformAsyncFunction chooses; without coordinates for every
\* operand a cross-panel graph is not possible.
Shape(m) ==
    IF m.cross_panel /\ (m.annotated \/ m.linear)
    THEN IF m.sync_cholesky THEN "sync" ELSE "task"
    ELSE "phases"

Panel(program, m, i) ==
    CASE program = "serial" -> SerialPanel(m, i)
      [] program = "phases" -> PhasedPanel(m, i)
      [] program = "sync" -> SyncPanel(m, i)
      [] program = "task" -> TaskPanel(m, i)

\* A cross-panel graph is left to the wait of compiler2026_runtime_end.
BugAfterPanels(program) ==
    <<[kind |-> "zero"]>> \o (IF program = "serial" THEN <<>> ELSE <<Wait>>)
        \o <<[kind |-> "return"]>>

\* Behind the outermost loop: a cross-panel graph is awaited, the upper triangle
\* is cleared, and compiler2026_runtime_end waits once more.
AfterPanels(program) ==
    (IF program \in {"sync", "task"} THEN <<Wait>> ELSE <<>>)
        \o <<[kind |-> "zero"]>>
        \o (IF program = "serial" THEN <<>> ELSE <<Wait>>)
        \o <<[kind |-> "return"]>>

\* All that the submitting thread executes.
Lowering(m, program) ==
    LET panels == Steps(0, m.n, m.b)
    IN FlattenSeq([p \in DOMAIN panels |-> Panel(program, m, panels[p])])
            \o AfterPanels(program)
=============================================================================
