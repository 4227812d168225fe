------------------------- MODULE SerialChannel_proofs -------------------------
(***************************************************************************)
(* Theorems about SerialChannel: its task drives the ClientLoop as LoopSpec  *)
(* allows, and what it reports to the listener is in order.                  *)
(***************************************************************************)
EXTENDS SerialChannel, ClientLoop_proofs

\* A step of the API, of the loop or of the device leaves the task alone and
\* keeps ListenerInv.
LEMMA LoopKeeps ==
    ASSUME ListenerInv, Api \/ LoopStep \/ PeerAnswers, UNCHANGED taskVars
    PROVE  ListenerInv'
<1>1. task' = task /\ listener' = listener
    BY DEF taskVars
<1>2. CASE UNCHANGED <<loop, enabled>>
    BY <1>1, <1>2 DEF ListenerInv
<1>3. CASE FailNextSetting
    BY <1>1, <1>3 DEF FailNextSetting, ListenerInv
<1>4. CASE WaitForEnabledDone
    BY <1>1, <1>4 DEF WaitForEnabledDone, ListenerInv
<1>5. CASE ReceiveClosed
    BY <1>1, <1>5 DEF ReceiveClosed, ListenerInv
<1>6. CASE PollSetting
    BY <1>1, <1>6 DEF PollSetting, EndSession, Idle, ListenerInv
<1>7. CASE ReadBadFrame \/ IoFails
    BY <1>1, <1>7 DEF ReadBadFrame, IoFails, EndSession, ListenerInv
<1>8. CASE Api \/ PeerAnswers
    BY <1>2, <1>8
       DEF Api, Submit, TrySubmit, SendSetting, DropChannel, apiUnchanged, PeerAnswers
<1>9. CASE \/ FailNextRequest \/ StartRequest \/ WriteRequest \/ DropUnexpected
           \/ SkipFrame \/ HandleResponse \/ ResponseTimeout
    BY <1>2, <1>9
       DEF FailNextRequest, StartRequest, WriteRequest, DropUnexpected, SkipFrame,
           HandleResponse, ResponseTimeout
<1>10. QED
    BY <1>3, <1>4, <1>5, <1>6, <1>7, <1>8, <1>9 DEF LoopStep

\* ListenerInv is inductive.
THEOREM TaskInvariant == Spec => []ListenerInv
<1>1. Init => ListenerInv
    BY DEF Init, LoopInit, ListenerInv
<1>2. ListenerInv /\ [Next]_vars => ListenerInv'
    <2> SUFFICES ASSUME ListenerInv, [Next]_vars PROVE ListenerInv'
        OBVIOUS
    <2>1. CASE (Api \/ LoopStep \/ PeerAnswers) /\ UNCHANGED taskVars
        BY <2>1, LoopKeeps
    <2>2. CASE WaitForEnabled \/ OpenOk \/ OpenFails \/ SessionFailed
        BY <2>2 DEF WaitForEnabled, OpenOk, OpenFails, SessionFailed, Call, taskVars,
            ListenerInv
    <2>3. CASE SessionDisabled \/ StateChanged \/ WaitElapsed
        BY <2>3 DEF SessionDisabled, StateChanged, WaitElapsed, Cancel, Restart, loopVars,
            ListenerInv
    <2>4. CASE Finish \/ Abort
        BY <2>4 DEF Finish, Abort, Drop, ListenerInv
    <2>5. CASE UNCHANGED vars
        BY <2>5 DEF vars, taskVars, loopVars, ListenerInv
    <2>6. QED
        BY <2>1, <2>2, <2>3, <2>4, <2>5 DEF Next, TaskStep
<1>3. QED
    BY <1>1, <1>2, PTL DEF Spec

\* The serial channel task drives the loop as LoopSpec allows: run_inner and
\* try_open_and_run never run a session of a disabled channel.
THEOREM DrivesLoop == Spec => LoopSpec
<1>1. Init => LoopInit
    BY DEF Init
<1>2. [Next]_vars => [LoopNext]_loopVars
    <2> SUFFICES ASSUME [Next]_vars PROVE [LoopNext]_loopVars
        OBVIOUS
    <2>1. CASE Api \/ LoopStep \/ PeerAnswers
        BY <2>1 DEF LoopNext
    <2>2. CASE WaitForEnabled \/ OpenFails \/ SessionFailed
        <3>1. Call("wait_for_enabled") \/ Call("fail_requests")
            BY <2>2 DEF WaitForEnabled, OpenFails, SessionFailed
        <3>2. QED
            BY <3>1 DEF LoopNext, Owner, Calls
    <2>3. CASE OpenOk
        BY <2>3 DEF OpenOk, LoopNext, Owner, Calls
    <2>4. CASE WaitElapsed
        BY <2>4 DEF WaitElapsed, LoopNext, Owner
    <2>5. CASE Finish \/ Abort
        BY <2>5 DEF Finish, Abort, LoopNext, Owner
    <2>6. CASE SessionDisabled \/ StateChanged \/ UNCHANGED vars
        BY <2>6 DEF SessionDisabled, StateChanged, vars
    <2>7. QED
        BY <2>1, <2>2, <2>3, <2>4, <2>5, <2>6 DEF Next, TaskStep
<1>3. QED
    BY <1>1, <1>2, PTL DEF Spec, LoopSpec

\* The states the listener of a serial channel sees are in order.
THEOREM StatesInOrder == Spec => PortStateOrder
<1> DEFINE Ordered ==
        /\ listener = "Disabled" => listener' \in {"Open", "Wait", "Shutdown"}
        /\ listener = "Open" => listener' \in {"Wait", "Disabled", "Shutdown"}
        /\ listener = "Wait" => listener' \in {"Open", "Disabled", "Shutdown"}
        /\ listener' = "Disabled" => ~enabled
        /\ listener # "Shutdown"
<1>1. ListenerInv /\ [Next]_vars => [Ordered]_listener
    <2> SUFFICES ASSUME ListenerInv, [Next]_vars, listener' # listener PROVE Ordered
        OBVIOUS
    <2>1. CASE OpenOk \/ OpenFails \/ SessionFailed
        BY <2>1 DEF OpenOk, OpenFails, SessionFailed, ListenerInv
    <2>2. CASE SessionDisabled \/ StateChanged \/ WaitElapsed
        BY <2>2 DEF SessionDisabled, StateChanged, WaitElapsed, Restart, ListenerInv
    <2>3. CASE Finish
        BY <2>3 DEF Finish
    <2>4. QED
        BY <2>1, <2>2, <2>3 DEF Next, TaskStep, taskVars, WaitForEnabled, Abort, vars
<1>2. QED
    BY <1>1, TaskInvariant, PTL DEF Spec, PortStateOrder

\* So a caller of a serial channel has the promises of RequestService, and gets
\* another request's response only after a request without an answer.
THEOREM ChannelServes ==
    Spec => ServiceSpec /\ []MixupNeedsFailure /\ []RunsOnlyEnabled
BY DrivesLoop, ImplementsService, MixupsNeedFailures, SessionsAreEnabled, PTL
=============================================================================
