--------------------------- MODULE OperatorCalls ---------------------------
(***************************************************************************)
(* The calls of the three operators in the blocked factorisation of an     *)
(* n by n matrix L with tiles of b by b.  A pointer into L is its offset   *)
(* in doubles.  A call is the operator and the tile pointers it gets, the  *)
(* last of which is the tile it writes.                                    *)
(***************************************************************************)
EXTENDS Integers, SequencesExt

At(n, row, col) == row * n + col

\* for (x = first; x < n; x += b)
Steps(first, n, b) == [s \in 1 .. (n - first + b - 1) \div b |-> first + (s - 1) * b]

CholeskyCall(n, i) == [op |-> "cholesky", args |-> <<At(n, i, i), At(n, i, i)>>]
TrsmCall(n, i, j) ==
    [op |-> "trsm", args |-> <<At(n, j, i), At(n, i, i), At(n, j, i)>>]
MaddCall(n, i, j, k) ==
    [op |-> "madd", args |-> <<At(n, k, i), At(n, j, i), At(n, k, j)>>]

Operands(call) == {call.args[a] : a \in DOMAIN call.args}
Output(call) == Last(call.args)

TrsmCalls(n, b, i) ==
    LET rows == Steps(i + b, n, b) IN [r \in DOMAIN rows |-> TrsmCall(n, i, rows[r])]

MaddCallsOfRow(n, b, i, j) ==
    LET rows == Steps(j, n, b) IN [r \in DOMAIN rows |-> MaddCall(n, i, j, rows[r])]

MaddCalls(n, b, i) ==
    LET cols == Steps(i + b, n, b)
    IN FlattenSeq([c \in DOMAIN cols |-> MaddCallsOfRow(n, b, i, cols[c])])

PanelCalls(n, b, i) ==
    <<CholeskyCall(n, i)>> \o TrsmCalls(n, b, i) \o MaddCalls(n, b, i)
=============================================================================
