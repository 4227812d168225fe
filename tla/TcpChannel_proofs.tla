-------------------------- MODULE TcpChannel_proofs --------------------------
(***************************************************************************)
(* Theorems about TcpChannel: its task drives the ClientLoop as LoopSpec     *)
(* allows, so that what ClientLoop_proofs proves of the loop holds of every  *)
(* TCP and TLS channel, and what it reports to the listener is in order.     *)
(***************************************************************************)
EXTENDS TcpChannel, ClientLoop_proofs, FiniteSetTheorems

\* A step of the API, of the loop or of the device leaves the task alone and
\* keeps EnabledInv and ListenerInv.
LEMMA LoopKeeps ==
    ASSUME EnabledInv, ListenerInv, Api \/ LoopStep \/ PeerAnswers, UNCHANGED taskVars
    PROVE  EnabledInv' /\ ListenerInv'
<1>1. task' = task /\ listener' = listener
    BY DEF taskVars
<1>2. CASE UNCHANGED <<loop, enabled>>
    BY <1>1, <1>2 DEF EnabledInv, ListenerInv
<1>3. CASE FailNextSetting
    BY <1>1, <1>3 DEF FailNextSetting, EnabledInv, ListenerInv
<1>4. CASE WaitForEnabledDone
    BY <1>1, <1>4 DEF WaitForEnabledDone, EnabledInv, ListenerInv
<1>5. CASE ReceiveClosed
    BY <1>1, <1>5 DEF ReceiveClosed, EnabledInv, ListenerInv
<1>6. CASE PollSetting \/ ReadBadFrame \/ IoFails
    <2>1. loop = "run" /\ loop' \in {"run", "Disabled", "BadFrame", "IoError"}
        BY <1>6 DEF PollSetting, ReadBadFrame, IoFails, EndSession, Idle
    <2>2. QED
        BY <1>1, <2>1 DEF EnabledInv, ListenerInv
<1>7. CASE Api \/ PeerAnswers
    BY <1>2, <1>7
       DEF Api, Submit, TrySubmit, SendSetting, DropChannel, apiUnchanged, PeerAnswers
<1>8. CASE \/ FailNextRequest \/ StartRequest \/ WriteRequest \/ DropUnexpected
           \/ SkipFrame \/ HandleResponse \/ ResponseTimeout
    BY <1>2, <1>8
       DEF FailNextRequest, StartRequest, WriteRequest, DropUnexpected, SkipFrame,
           HandleResponse, ResponseTimeout
<1>9. QED
    BY <1>3, <1>4, <1>5, <1>6, <1>7, <1>8 DEF LoopStep

\* EnabledInv and ListenerInv are inductive.
THEOREM TaskInvariant == Spec => [](EnabledInv /\ ListenerInv)
<1>1. Init => EnabledInv /\ ListenerInv
    BY DEF Init, LoopInit, EnabledInv, ListenerInv
<1>2. EnabledInv /\ ListenerInv /\ [Next]_vars => EnabledInv' /\ ListenerInv'
    <2> SUFFICES ASSUME EnabledInv, ListenerInv, [Next]_vars
                 PROVE  EnabledInv' /\ ListenerInv'
        OBVIOUS
    <2>1. CASE (Api \/ LoopStep \/ PeerAnswers) /\ UNCHANGED taskVars
        BY <2>1, LoopKeeps
    <2>2. CASE WaitForEnabled \/ TryConnect
        BY <2>2 DEF WaitForEnabled, TryConnect, Call, taskVars, EnabledInv, ListenerInv
    <2>3. CASE StateChanged \/ WaitElapsed
        BY <2>3 DEF StateChanged, WaitElapsed, Cancel, Restart, loopVars,
            EnabledInv, ListenerInv
    <2>4. CASE ConnectFails \/ HandshakeFails
        BY <2>4 DEF ConnectFails, HandshakeFails, WaitAfterFailedConnect, Call, loopVars,
            EnabledInv, ListenerInv
    <2>5. CASE ConnectOk
        BY <2>5 DEF ConnectOk, Cancel, EnabledInv, ListenerInv
    <2>6. CASE HandshakeOk \/ AfterSession
        BY <2>6 DEF HandshakeOk, AfterSession, Connected, Call, EnabledInv, ListenerInv
    <2>7. CASE Finish \/ Abort
        BY <2>7 DEF Finish, Abort, Drop, EnabledInv, ListenerInv
    <2>8. CASE UNCHANGED vars
        BY <2>8 DEF vars, taskVars, loopVars, EnabledInv, ListenerInv
    <2>9. QED
        BY <2>1, <2>2, <2>3, <2>4, <2>5, <2>6, <2>7, <2>8 DEF Next, TaskStep
<1>3. QED
    BY <1>1, <1>2, PTL DEF Spec

\* The TCP and the TLS channel task drive the loop as LoopSpec allows: run_inner
\* and try_connect_and_run never run a session of a disabled channel.
THEOREM DrivesLoop == Spec => LoopSpec
<1>1. Init => LoopInit
    BY DEF Init
<1>2. EnabledInv /\ [Next]_vars => [LoopNext]_loopVars
    <2> SUFFICES ASSUME EnabledInv, [Next]_vars PROVE [LoopNext]_loopVars
        OBVIOUS
    <2>1. CASE Api \/ LoopStep \/ PeerAnswers
        BY <2>1 DEF LoopNext
    <2>2. CASE WaitForEnabled \/ TryConnect \/ HandshakeFails \/ AfterSession
        <3>1. Call("wait_for_enabled") \/ Call("fail_requests")
            BY <2>2 DEF WaitForEnabled, TryConnect, HandshakeFails, AfterSession
        <3>2. QED
            BY <3>1 DEF LoopNext, Owner, Calls
    <2>3. CASE HandshakeOk
        BY <2>3 DEF HandshakeOk, EnabledInv, LoopNext, Owner, Calls
    <2>4. CASE ConnectOk \/ WaitElapsed
        BY <2>4 DEF ConnectOk, WaitElapsed, LoopNext, Owner
    <2>5. CASE Finish \/ Abort
        BY <2>5 DEF Finish, Abort, LoopNext, Owner
    <2>6. CASE StateChanged \/ ConnectFails \/ UNCHANGED vars
        BY <2>6 DEF StateChanged, ConnectFails, vars
    <2>7. QED
        BY <2>1, <2>2, <2>3, <2>4, <2>5, <2>6 DEF Next, TaskStep
<1>3. QED
    BY <1>1, <1>2, TaskInvariant, PTL DEF Spec, LoopSpec

\* The states the listener of a TCP or TLS channel sees are in order.
THEOREM StatesInOrder == Spec => ClientStateOrder
<1> DEFINE Ordered ==
        /\ listener = "Disabled" => listener' \in {"Connecting", "Shutdown"}
        /\ listener = "Connecting" =>
             listener' \in {"Connected", "WaitAfterFailedConnect", "Disabled", "Shutdown"}
        /\ listener = "Connected" => listener' \in {"WaitAfterDisconnect", "Shutdown"}
        /\ listener \in {"WaitAfterFailedConnect", "WaitAfterDisconnect"} =>
             listener' \in {"Connecting", "Disabled", "Shutdown"}
        /\ listener' = "Disabled" => ~enabled
        /\ listener' = "Connecting" => enabled
        /\ listener # "Shutdown"
<1>1. EnabledInv /\ ListenerInv /\ [Next]_vars => [Ordered]_listener
    <2> SUFFICES ASSUME EnabledInv, ListenerInv, [Next]_vars, listener' # listener
                 PROVE  Ordered
        OBVIOUS
    <2>1. CASE TryConnect
        BY <2>1 DEF TryConnect, ListenerInv
    <2>2. CASE StateChanged
        BY <2>2 DEF StateChanged, Restart, EnabledInv, ListenerInv
    <2>3. CASE ConnectFails \/ HandshakeFails
        BY <2>3 DEF ConnectFails, HandshakeFails, WaitAfterFailedConnect, ListenerInv
    <2>4. CASE HandshakeOk \/ AfterSession
        BY <2>4 DEF HandshakeOk, Connected, AfterSession, ListenerInv
    <2>5. CASE WaitElapsed
        BY <2>5 DEF WaitElapsed, Restart, ListenerInv
    <2>6. CASE Finish
        BY <2>6 DEF Finish, ListenerInv
    <2>7. QED
        BY <2>1, <2>2, <2>3, <2>4, <2>5, <2>6
           DEF Next, TaskStep, taskVars, WaitForEnabled, ConnectOk, Abort, vars
<1>2. QED
    BY <1>1, TaskInvariant, PTL DEF Spec, ClientStateOrder

\* 2 ^ (n + 1) is the number of subsets of 1 .. n + 1: those without n + 1, and
\* as many with it.
LEMMA PowerOfTwo ==
    ASSUME NEW n \in Nat
    PROVE  2 ^ n \in Nat /\ 2 ^ (n + 1) = 2 * 2 ^ n
<1> DEFINE S == 1 .. n
           T == S \cup {n + 1}
           With == {A \cup {n + 1} : A \in SUBSET S}
           add == [A \in SUBSET S |-> A \cup {n + 1}]
<1>1. IsFiniteSet(S) /\ Cardinality(S) = n
    BY FS_Interval
<1>2. IsFiniteSet(T) /\ Cardinality(T) = n + 1
    BY <1>1, FS_AddElement
<1>3. /\ IsFiniteSet(SUBSET S) /\ Cardinality(SUBSET S) = 2 ^ n
      /\ Cardinality(SUBSET T) = 2 ^ (n + 1)
    BY <1>1, <1>2, FS_SUBSET
<1>4. 2 ^ n \in Nat
    BY <1>3, FS_CardinalityType
<1>5. n + 1 \notin S
    OBVIOUS
<1> HIDE DEF S
<1>6. IsFiniteSet(With) /\ Cardinality(With) = Cardinality(SUBSET S)
    <2>1. add \in Bijection(SUBSET S, With)
        <3>1. add \in [SUBSET S -> With]
            OBVIOUS
        <3>2. ASSUME NEW A \in SUBSET S, NEW B \in SUBSET S, add[A] = add[B] PROVE A = B
            BY <3>2, <1>5
        <3>3. ASSUME NEW B \in With PROVE \E A \in SUBSET S : add[A] = B
            OBVIOUS
        <3>4. QED
            BY <3>1, <3>2, <3>3 DEF Bijection, Injection, Surjection, IsInjective
    <2>2. QED
        BY <2>1, <1>3, FS_Bijection DEF ExistsBijection
<1>7. SUBSET T = (SUBSET S) \cup With
    <2>1. ASSUME NEW B \in SUBSET T PROVE B \in (SUBSET S) \cup With
        <3>1. CASE n + 1 \notin B
            BY <3>1
        <3>2. CASE n + 1 \in B
            <4>1. B = (B \ {n + 1}) \cup {n + 1} /\ B \ {n + 1} \in SUBSET S
                BY <3>2
            <4>2. QED
                BY <4>1
        <3>3. QED
            BY <3>1, <3>2
    <2>2. ASSUME NEW B \in (SUBSET S) \cup With PROVE B \in SUBSET T
        OBVIOUS
    <2>3. QED
        BY <2>1, <2>2
<1>8. (SUBSET S) \cap With = {}
    BY <1>5
<1> HIDE DEF T, With
<1>9. Cardinality(SUBSET T) =
          Cardinality(SUBSET S) + Cardinality(With) - Cardinality((SUBSET S) \cap With)
    BY <1>3, <1>6, <1>7, FS_Union
<1>10. Cardinality((SUBSET S) \cap With) = 0
    BY <1>8, FS_EmptySet
<1>11. QED
    BY <1>3, <1>4, <1>6, <1>9, <1>10

\* 2 ^ 0 is the number of subsets of the empty set.
LEMMA PowerOfZero == 2 ^ 0 = 1
<1>1. Cardinality(SUBSET {}) = 2 ^ 0
    BY FS_EmptySet, FS_SUBSET
<1>2. SUBSET {} = {{}}
    OBVIOUS
<1>3. QED
    BY <1>1, <1>2, FS_Singleton

\* after_failed_connect doubles once more, up to the limit.
LEMMA DoublesOnce ==
    ASSUME NEW n \in Nat
    PROVE  /\ Doubled(n) \in Nat
           /\ after_failed_connect(Doubled(n)).current = Doubled(n + 1)
<1>1. 2 ^ n \in Nat /\ 2 ^ (n + 1) = 2 * 2 ^ n
    BY PowerOfTwo
<1> DEFINE d == MinDelay * 2 ^ n
<1>2. d \in Nat
    BY <1>1, DelayAssumption
<1>3. MinDelay * 2 ^ (n + 1) = 2 * d
    BY <1>1, DelayAssumption
<1>4. Doubled(n) = IF d <= MaxDelay THEN d ELSE MaxDelay
    BY DEF Doubled
<1>5. Doubled(n + 1) = IF 2 * d <= MaxDelay THEN 2 * d ELSE MaxDelay
    BY <1>3 DEF Doubled
<1> HIDE DEF d
<1>6. QED
    BY <1>2, <1>4, <1>5, DelayAssumption DEF after_failed_connect

\* The first delay, the second, and the one that no longer grows.
LEMMA DoubledEnds ==
    /\ after_failed_connect(MinDelay).current = Doubled(1)
    /\ Doubled(MaxFailures) = Doubled(MaxFailures - 1)
    /\ Doubled(MaxFailures + 1) = Doubled(MaxFailures)
<1>1. 2 ^ 1 = 2
    BY PowerOfZero, PowerOfTwo
<1>2. after_failed_connect(MinDelay).current = Doubled(1)
    BY <1>1, DelayAssumption DEF after_failed_connect, Doubled
<1> DEFINE m == MaxFailures - 1
           d == MinDelay * 2 ^ m
<1>3. m \in Nat /\ MaxFailures = m + 1 /\ MaxFailures + 1 = m + 2 /\ m + 1 \in Nat
    BY TcpAssumption
<1>4. 2 ^ m \in Nat /\ 2 ^ (m + 1) = 2 * 2 ^ m /\ 2 ^ (m + 2) = 4 * 2 ^ m
    <2>1. 2 ^ ((m + 1) + 1) = 2 * 2 ^ (m + 1)
        BY <1>3, PowerOfTwo
    <2>2. QED
        BY <1>3, <2>1, PowerOfTwo
<1>5. d \in Nat /\ MinDelay * 2 ^ (m + 1) = 2 * d /\ MinDelay * 2 ^ (m + 2) = 4 * d
    BY <1>4, DelayAssumption
<1>6. d = 0 \/ MaxDelay <= d
    BY <1>4, DelayAssumption, TcpAssumption
<1>7. /\ Doubled(m) = IF d <= MaxDelay THEN d ELSE MaxDelay
      /\ Doubled(m + 1) = IF 2 * d <= MaxDelay THEN 2 * d ELSE MaxDelay
      /\ Doubled(m + 2) = IF 4 * d <= MaxDelay THEN 4 * d ELSE MaxDelay
    BY <1>5 DEF Doubled
<1>8. Doubled(m + 1) = Doubled(m) /\ Doubled(m + 2) = Doubled(m + 1)
    <2> HIDE DEF m, d
    <2> QED
        BY <1>5, <1>6, <1>7, DelayAssumption
<1>9. QED
    BY <1>2, <1>3, <1>8

\* A failed attempt keeps RetryInv and Backoff.
LEMMA FailedAttempt ==
    ASSUME RetryInv, WaitAfterFailedConnect
    PROVE  RetryInv' /\ Backoff'
<1>1. delay' = retry /\ retry' = after_failed_connect(retry).current /\ task' = "wait_failed"
    BY DEF WaitAfterFailedConnect, after_failed_connect
<1>2. CASE failures = 0
    <2>1. failures' = 1 /\ retry' = Doubled(1) /\ delay' = MinDelay
        BY <1>1, <1>2, DoubledEnds, TcpAssumption DEF WaitAfterFailedConnect, RetryInv
    <2>2. QED
        BY <2>1, TcpAssumption DEF RetryInv, Backoff
<1>3. CASE failures # 0 /\ failures < MaxFailures
    <2>1. failures \in Nat /\ failures >= 1 /\ failures' = failures + 1 /\ failures' - 1 = failures
        BY <1>3, TcpAssumption DEF WaitAfterFailedConnect, RetryInv
    <2>2. delay' = Doubled(failures) /\ retry' = Doubled(failures + 1)
        BY <1>1, <1>3, <2>1, DoublesOnce DEF RetryInv
    <2>3. failures' \in 0 .. MaxFailures /\ failures' # 1 /\ failures' # 0 /\ failures' >= 1
        BY <1>3, <2>1, TcpAssumption
    <2>4. QED
        BY <2>1, <2>2, <2>3 DEF RetryInv, Backoff
<1>4. CASE failures = MaxFailures
    <2>1. failures' = MaxFailures /\ MaxFailures \in Nat /\ MaxFailures >= 2
        BY <1>4, TcpAssumption DEF WaitAfterFailedConnect
    <2>2. delay' = Doubled(MaxFailures - 1) /\ retry' = Doubled(MaxFailures)
        BY <1>1, <1>4, <2>1, DoublesOnce, DoubledEnds DEF RetryInv
    <2>3. QED
        BY <2>1, <2>2 DEF RetryInv, Backoff
<1>5. QED
    BY <1>2, <1>3, <1>4, TcpAssumption DEF RetryInv

\* RetryInv and Backoff are inductive: only a failed attempt and a connection
\* touch the strategy, and every wait after a failure begins with the former.
THEOREM RetryInvariant == Spec => [](RetryInv /\ Backoff)
<1>1. Init => RetryInv /\ Backoff
    BY TcpAssumption DEF Init, create, RetryInv, Backoff
<1>2. RetryInv /\ Backoff /\ [Next]_vars => RetryInv' /\ Backoff'
    <2> SUFFICES ASSUME RetryInv, Backoff, [Next]_vars PROVE RetryInv' /\ Backoff'
        OBVIOUS
    <2>1. CASE ConnectFails \/ HandshakeFails
        BY <2>1, FailedAttempt DEF ConnectFails, HandshakeFails
    <2>2. CASE HandshakeOk
        BY <2>2, TcpAssumption DEF HandshakeOk, Connected, reset, RetryInv, Backoff
    <2>3. CASE UNCHANGED taskVars
        BY <2>3 DEF taskVars, RetryInv, Backoff, Doubled
    <2>4. CASE UNCHANGED <<retry, failures>> /\ task' # "wait_failed"
        BY <2>4 DEF RetryInv, Backoff, Doubled
    <2>5. CASE TryConnect \/ StateChanged \/ ConnectOk \/ AfterSession \/ WaitElapsed
        BY <2>4, <2>5 DEF TryConnect, StateChanged, Restart, ConnectOk, AfterSession, WaitElapsed
    <2>6. CASE Finish \/ Abort
        BY <2>4, <2>6 DEF Finish, Abort
    <2>7. QED
        BY <2>1, <2>2, <2>3, <2>5, <2>6 DEF Next, TaskStep, WaitForEnabled, vars
<1>3. QED
    BY <1>1, <1>2, PTL DEF Spec

\* The delays of RetryStrategy: MinDelay doubled with every failure in a row, up
\* to MaxDelay, for any two delays.
THEOREM DelaysDouble == Spec => []Backoff
BY RetryInvariant, PTL

\* So a caller of a TCP or TLS channel has the promises of RequestService and gets
\* the response to its own request; the device holds another one only after that
\* one was given up or answered late.  For any number of requests and ids.
THEOREM ChannelServes ==
    Spec => ServiceSpec /\ []OwnAnswer /\ []OneTransaction /\ []RunsOnlyEnabled
BY DrivesLoop, ImplementsService, AnswersAreOwn, TransactionsAreSingle, SessionsAreEnabled, PTL
=============================================================================
