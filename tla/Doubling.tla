------------------------------ MODULE Doubling ------------------------------
(***************************************************************************)
(* The doubling retry strategy (rodbus/src/retry.rs): the delay before the  *)
(* next attempt to connect to a host or to open a port.  Its state, the     *)
(* field current, is kept by the module that owns the strategy.             *)
(***************************************************************************)
EXTENDS Naturals

CONSTANTS MinDelay, MaxDelay

\* create accepts any two durations, MinDelay > MaxDelay included.
ASSUME DelayAssumption == MinDelay \in Nat /\ MaxDelay \in Nat

\* Doubling::create
create == MinDelay

\* the delay returned and the new value of current
after_failed_connect(current) ==
    [delay |-> current,
     current |-> IF 2 * current <= MaxDelay THEN 2 * current ELSE MaxDelay]

after_disconnect == MinDelay

reset == MinDelay
=============================================================================
