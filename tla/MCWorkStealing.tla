--------------------------- MODULE MCWorkStealing ---------------------------
(***************************************************************************)
(* Instances of WorkStealing for TLC.                                      *)
(***************************************************************************)
EXTENDS WorkStealingProperties, TLC

CONSTANTS k1, k2

Req(deps, output) == [deps |-> deps, output |-> output]

\* A producer, two tasks that it releases together, and one that needs both.
Diamond == <<Req({}, k1), Req({k1}, k2), Req({k1}, k1), Req({k1, k2}, NoKey)>>
=============================================================================
