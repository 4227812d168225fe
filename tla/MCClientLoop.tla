---------------------------- MODULE MCClientLoop ----------------------------
(* Instances of ClientLoop for TLC. *)
EXTENDS ClientLoop, TLC

CONSTANTS r1, r2, r3

MCRequests == {r1, r2, r3}
\* r3 reads another quantity with the same function code.
MCFunction == [r \in MCRequests |-> 1]
MCQuantity == [r \in MCRequests |-> IF r = r3 THEN 2 ELSE 1]

\* r1 and r2 are interchangeable.
MCSymmetry == Permutations({r1, r2})
=============================================================================
