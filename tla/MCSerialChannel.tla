-------------------------- MODULE MCSerialChannel --------------------------
(* Instances of SerialChannel for TLC. *)
EXTENDS SerialChannel, TLC

CONSTANTS r1, r2, r3

MCRequests == {r1, r2, r3}
\* All requests read the same number of values with the same function code.
MCFunction == [r \in MCRequests |-> 1]
MCQuantity == [r \in MCRequests |-> 1]
=============================================================================
