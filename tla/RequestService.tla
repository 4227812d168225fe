--------------------------- MODULE RequestService ---------------------------
(***************************************************************************)
(* What a channel promises the callers of its request methods, whatever the *)
(* transport: a request is accepted or refused, it is sent to the device at *)
(* most once, it completes exactly once, and its outcome tells whether it   *)
(* was sent.                                                                *)
(***************************************************************************)
CONSTANT Requests

VARIABLES
    result,   \* what the caller of each request knows
    sent      \* requests that were sent to the device

vars == <<result, sent>>

\* Outcomes of a request that was not sent, that was sent, and of either.
Unsent == {"NoConnection", "Internal"}
Answered == {"Ok", "Exception", "BadResponse", "ResponseTimeout", "BadFrame"}
Either == {"Io"}

Init ==
    /\ result = [r \in Requests |-> "unsubmitted"]
    /\ sent = {}

Accept(r) ==
    /\ result[r] = "unsubmitted"
    /\ result' = [result EXCEPT ![r] = "pending"]
    /\ UNCHANGED sent

\* Refused by the range check, by a full queue or because the task is gone
Refuse(r) ==
    /\ result[r] = "unsubmitted"
    /\ \E why \in {"BadRequest", "Shutdown"} : result' = [result EXCEPT ![r] = why]
    /\ UNCHANGED sent

Send(r) ==
    /\ result[r] = "pending"
    /\ r \notin sent
    /\ sent' = sent \cup {r}
    /\ UNCHANGED result

Finish(r) ==
    /\ result[r] = "pending"
    /\ \E outcome \in Either \cup (IF r \in sent THEN Answered ELSE Unsent) :
            result' = [result EXCEPT ![r] = outcome]
    /\ UNCHANGED sent

\* Shutdown completes every request that is still pending at once.
ShutDown ==
    /\ result' = [r \in Requests |->
                    IF result[r] = "pending" THEN "Shutdown" ELSE result[r]]
    /\ UNCHANGED sent

Next ==
    \/ \E r \in Requests : Accept(r) \/ Refuse(r) \/ Send(r) \/ Finish(r)
    \/ ShutDown

Spec == Init /\ [][Next]_vars
=============================================================================
