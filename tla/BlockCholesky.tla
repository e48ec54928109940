--------------------------- MODULE BlockCholesky ---------------------------
(***************************************************************************)
(* The sequential program that the Pass transforms, as a specification of  *)
(* what any transformation of it owes.                                     *)
(*                                                                         *)
(* The content of a tile is the number of calls that wrote it.  The        *)
(* baseline determines what each call finds in its operands, and a call    *)
(* is right when it finds exactly that, whatever runs before or beside     *)
(* it: in floating point, another order of the calls on one tile would be  *)
(* another result.                                                         *)
(***************************************************************************)
EXTENDS OperatorCalls

CONSTANT Inputs     \* the matrices: records with order n and tile size b at least

VARIABLES
    input,          \* the matrix of this call
    tile,           \* tile[p]: how many calls have written the tile at p
    stage           \* "factor", "zeroed", "returned" or "rejected"

Accepted(m) == m.b > 0 /\ m.n % m.b = 0

Baseline(m) ==
    LET panels == Steps(0, m.n, m.b)
    IN FlattenSeq([p \in DOMAIN panels |-> PanelCalls(m.n, m.b, panels[p])])

\* What each call of the baseline finds in its operands.
SerialOperands ==
    [m \in {m \in Inputs : Accepted(m)} |->
        LET calls == Baseline(m)
            WritesBefore(p, x) == Cardinality({q \in 1 .. p - 1 : Output(calls[q]) = x})
            Position(c) == CHOOSE p \in DOMAIN calls : calls[p] = c
        IN [c \in ToSet(calls) |->
                [x \in Operands(c) |-> WritesBefore(Position(c), x)]]]

\* What the tiles hold at the end.
FinalTiles ==
    [m \in {m \in Inputs : Accepted(m)} |->
        LET calls == Baseline(m)
        IN [x \in {Output(calls[p]) : p \in DOMAIN calls} |->
                Cardinality({p \in DOMAIN calls : Output(calls[p]) = x})]]

-----------------------------------------------------------------------------
sequential_vars == <<input, tile, stage>>

BlankTiles(m) == IF Accepted(m) THEN [x \in DOMAIN FinalTiles[m] |-> 0] ELSE <<>>

SequentialInit ==
    /\ input \in Inputs
    /\ tile = BlankTiles(input)
    /\ stage = "factor"

FindsSerialOperands(call) ==
    /\ call \in DOMAIN SerialOperands[input]
    /\ \A x \in Operands(call) : tile[x] = SerialOperands[input][call][x]

ApplyOperator(call) ==
    /\ stage = "factor"
    /\ FindsSerialOperands(call)
    /\ tile' = [tile EXCEPT ![Output(call)] = @ + 1]
    /\ UNCHANGED <<input, stage>>

\* The elements above the diagonal are set to zero in the finished matrix.
ClearUpperTriangle ==
    /\ stage = "factor"
    /\ tile = FinalTiles[input]
    /\ stage' = "zeroed"
    /\ UNCHANGED <<input, tile>>

ReturnZero ==
    /\ stage = "zeroed"
    /\ stage' = "returned"
    /\ UNCHANGED <<input, tile>>

ThrowInvalidArgument ==
    /\ stage = "factor"
    /\ ~Accepted(input)
    /\ stage' = "rejected"
    /\ UNCHANGED <<input, tile>>

SequentialNext ==
    \/ ThrowInvalidArgument
    \/ Accepted(input) /\ \E call \in DOMAIN SerialOperands[input] : ApplyOperator(call)
    \/ Accepted(input) /\ ClearUpperTriangle
    \/ ReturnZero

SequentialSpec == SequentialInit /\ [][SequentialNext]_sequential_vars
=============================================================================
