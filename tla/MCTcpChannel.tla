---------------------------- MODULE MCTcpChannel ----------------------------
(* Instances of TcpChannel for TLC. *)
EXTENDS TcpChannel, TLC

CONSTANTS r1, r2

MCRequests == {r1, r2}
MCFunction == [r \in MCRequests |-> r]
MCQuantity == [r \in MCRequests |-> 1]
=============================================================================
