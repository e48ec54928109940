--------------------------- MODULE MCDagScheduler ---------------------------
(***************************************************************************)
(* Instances of DagScheduler for TLC.                                      *)
(***************************************************************************)
EXTENDS DagSchedulerProperties, TLC

CONSTANTS t1, t2, t3, t4, t5, w1, w2, k1, k2

Symmetry == Permutations(Task) \cup Permutations(Worker)

Req(deps, output, priority) == [deps |-> deps, output |-> output, priority |-> priority]

\* A chain on k1, a reader of both keys, a second producer, an independent task.
ChainRequests ==
    {Req({}, k1, 0), Req({k1}, k1, 0), Req({k1, k2}, NoKey, 0), Req({k1}, k2, 0)}

\* A writer and a reader of one key, for the runs that follow time.
PairRequests == {Req({}, k1, 0), Req({k1}, k1, 2)}
=============================================================================
