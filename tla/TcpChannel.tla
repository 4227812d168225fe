----------------------------- MODULE TcpChannel -----------------------------
(***************************************************************************)
(* The task of a TCP or TLS client channel (rodbus/src/tcp/client.rs): it   *)
(* waits until the channel is enabled, connects, performs the TLS           *)
(* handshake, runs sessions of the ClientLoop and waits between attempts as *)
(* the retry strategy says, reporting each change to the listener.          *)
(***************************************************************************)
EXTENDS ClientLoop, Doubling

CONSTANTS
    Tls,         \* TRUE: a TLS handshake follows the TCP connect
    MaxFailures  \* bound: consecutive failures the history counts

\* The history counts far enough to see the delay reach its limit.
ASSUME TcpAssumption ==
    /\ Tls \in BOOLEAN
    /\ MaxFailures \in Nat /\ MaxFailures >= 2
    /\ MinDelay = 0 \/ MaxDelay <= MinDelay * 2 ^ (MaxFailures - 1)

VARIABLES
    task,      \* where TcpChannelTask::run_inner is
    listener,  \* the ClientState last reported
    retry,     \* Doubling.current
    delay,     \* the delay of the wait in progress, 0 if none
    failures   \* history: failed attempts since the last connection

taskVars == <<task, listener, retry, delay, failures>>
vars == <<loopVars, taskVars>>

Tasks == {"wait_for_enabled", "connect", "handshake", "wait_failed", "run",
          "wait_disconnect", "done"}
ClientStates == {"Disabled", "Connecting", "Connected", "WaitAfterFailedConnect",
                 "WaitAfterDisconnect", "Shutdown"}

Init ==
    /\ LoopInit
    /\ task = "wait_for_enabled"
    /\ listener = "Disabled"
    /\ retry = create
    /\ delay = 0
    /\ failures = 0

-----------------------------------------------------------------------------
\* Mutant of Restart: Disabled is reported without a look at enabled.
ReportsDisabled ==
    /\ task' = "wait_for_enabled"
    /\ delay' = 0
    /\ listener' = "Disabled"

\* run_inner: the top of its loop, reached from a call that returned
Restart ==
    /\ task' = "wait_for_enabled"
    /\ delay' = 0
    /\ listener' = IF enabled THEN listener ELSE "Disabled"

\* run_inner: wait_for_enabled is called
WaitForEnabled ==
    /\ task = "wait_for_enabled"
    /\ loop \in {"Ok", "Disable"}
    /\ ~(loop = "Ok" /\ enabled)
    /\ Call("wait_for_enabled")
    /\ UNCHANGED taskVars

\* Mutant of TryConnect: wait_for_enabled is skipped after a wait.
ConnectsDisabled ==
    /\ task = "wait_for_enabled"
    /\ loop = "Ok"
    /\ Call("fail_requests")
    /\ task' = "connect"
    /\ listener' = "Connecting"
    /\ UNCHANGED <<retry, delay, failures>>

\* wait_for_enabled returned Ok: report Connecting and connect, failing requests
TryConnect ==
    /\ task = "wait_for_enabled"
    /\ loop = "Ok" /\ enabled
    /\ Call("fail_requests")
    /\ task' = "connect"
    /\ listener' = "Connecting"
    /\ UNCHANGED <<retry, delay, failures>>

\* fail_requests won the select of connect or of fail_requests_for with Disable
StateChanged ==
    /\ task \in {"connect", "wait_failed", "wait_disconnect"}
    /\ loop = "Disable"
    /\ Restart
    /\ UNCHANGED <<loopVars, retry, failures>>

\* An attempt failed: the next delay of the strategy, reported and waited for
WaitAfterFailedConnect ==
    /\ task' = "wait_failed"
    /\ delay' = after_failed_connect(retry).delay
    /\ retry' = after_failed_connect(retry).current
    /\ failures' = IF failures < MaxFailures THEN failures + 1 ELSE failures
    /\ listener' = "WaitAfterFailedConnect"

\* The host refuses, or resolving or connecting times out
ConnectFails ==
    /\ task = "connect"
    /\ loop = "fail_requests"
    /\ WaitAfterFailedConnect
    /\ UNCHANGED loopVars

\* Mutant of Connected: the retry strategy is not reset.
ForgetsReset ==
    /\ task' = "run"
    /\ listener' = "Connected"
    /\ failures' = 0
    /\ UNCHANGED <<delay, retry>>

\* Session start: connected, the strategy is reset, the loop runs
Connected ==
    /\ task' = "run"
    /\ listener' = "Connected"
    /\ retry' = reset
    /\ failures' = 0
    /\ UNCHANGED delay

\* connect wins the select: without TLS there is nothing to wait for
ConnectOk ==
    /\ task = "connect"
    /\ Cancel
    /\ task' = "handshake"
    /\ UNCHANGED <<listener, retry, delay, failures>>

\* connection_handler.handle: no other branch is polled while it runs
HandshakeOk ==
    /\ task = "handshake"
    /\ Call("run")
    /\ Connected

HandshakeFails ==
    /\ Tls
    /\ task = "handshake"
    /\ Call("fail_requests")
    /\ WaitAfterFailedConnect

\* The session ended for any reason but shutdown, disabling included
AfterSession ==
    /\ task = "run"
    /\ loop \in {"Disabled", "IoError", "BadFrame"}
    /\ Call("fail_requests")
    /\ task' = "wait_disconnect"
    /\ delay' = after_disconnect
    /\ listener' = "WaitAfterDisconnect"
    /\ UNCHANGED <<retry, failures>>

\* Mutant of WaitElapsed: the wait after a disconnect has no timer.
NoTimerAfterDisconnect ==
    /\ task = "wait_failed"
    /\ Cancel
    /\ Restart
    /\ UNCHANGED <<retry, failures>>

\* The timer of fail_requests_for wins
WaitElapsed ==
    /\ task \in {"wait_failed", "wait_disconnect"}
    /\ Cancel
    /\ Restart
    /\ UNCHANGED <<retry, failures>>

\* The mpsc is closed: run reports Shutdown and returns, dropping the loop
Finish ==
    /\ loop = "Shutdown"
    /\ Drop
    /\ task' = "done"
    /\ listener' = "Shutdown"
    /\ delay' = 0
    /\ UNCHANGED <<retry, failures>>

\* The runtime is shut down: the task's future is dropped where it is
Abort ==
    /\ task # "done"
    /\ Drop
    /\ task' = "done"
    /\ UNCHANGED <<listener, retry, delay, failures>>

TaskStep ==
    \/ WaitForEnabled \/ TryConnect \/ StateChanged \/ ConnectFails \/ ConnectOk
    \/ HandshakeOk \/ HandshakeFails \/ AfterSession \/ WaitElapsed \/ Finish

Next ==
    \/ (Api \/ LoopStep \/ PeerAnswers) /\ UNCHANGED taskVars
    \/ TaskStep
    \/ Abort

Spec == Init /\ [][Next]_vars

-----------------------------------------------------------------------------
(* Fairness.  tokio::select! polls its branches in random order, so a receive
   that is ready again and again is taken (SF); the task runs on when nothing
   blocks it, timers fire and a TCP connect ends (WF).  The runtime need not
   stop (Abort), the application need not do anything (Api); the device need
   not answer (PeerAnswers), nor read what is written to it, nor end a TLS
   handshake: neither has a timeout.                                          *)
Fairness ==
    /\ SF_vars(ReceiveStep /\ UNCHANGED taskVars)
    /\ WF_vars(ProgressStep /\ UNCHANGED taskVars)
    /\ WF_vars(WaitForEnabled) /\ WF_vars(TryConnect) /\ WF_vars(StateChanged)
    /\ WF_vars(ConnectOk \/ ConnectFails) /\ WF_vars(~Tls /\ HandshakeOk)
    /\ WF_vars(AfterSession) /\ WF_vars(WaitElapsed) /\ WF_vars(Finish)

FairSpec == Spec /\ Fairness

-----------------------------------------------------------------------------
(* Properties *)

\* The ClientStates the listener sees follow one another as the task's life
\* allows; Disabled is reported only when the channel is disabled, Connecting
\* only when it is enabled, and Shutdown is final.
ClientStateOrder ==
    [][/\ listener = "Disabled" => listener' \in {"Connecting", "Shutdown"}
       /\ listener = "Connecting" =>
            listener' \in {"Connected", "WaitAfterFailedConnect", "Disabled", "Shutdown"}
       /\ listener = "Connected" => listener' \in {"WaitAfterDisconnect", "Shutdown"}
       /\ listener \in {"WaitAfterFailedConnect", "WaitAfterDisconnect"} =>
            listener' \in {"Connecting", "Disabled", "Shutdown"}
       /\ listener' = "Disabled" => ~enabled
       /\ listener' = "Connecting" => enabled
       /\ listener # "Shutdown"]_listener

\* What the two rest on.  The task connects and runs only a channel that was
\* enabled when wait_for_enabled returned and was not disabled since.
EnabledInv ==
    /\ task = "connect" =>
            loop \in {"fail_requests", "Disable", "Shutdown"} /\ (loop = "fail_requests" => enabled)
    /\ task = "handshake" => loop = "Ok" /\ enabled
    /\ loop = "Disable" => ~enabled

\* The state last reported tells where the task is.
ListenerInv ==
    /\ task = "wait_for_enabled" =>
            listener \in {"Disabled", "WaitAfterFailedConnect", "WaitAfterDisconnect"}
    /\ task \in {"connect", "handshake"} => listener = "Connecting"
    /\ task = "wait_failed" => listener = "WaitAfterFailedConnect"
    /\ task = "run" => listener = "Connected"
    /\ task = "wait_disconnect" => listener = "WaitAfterDisconnect"
    /\ task = "done" => loop = "dropped"

\* MinDelay doubled n times, at most MaxDelay
Doubled(n) == IF MinDelay * 2 ^ n <= MaxDelay THEN MinDelay * 2 ^ n ELSE MaxDelay

\* The n-th wait after n failed attempts in a row lasts MinDelay doubled n - 1
\* times, at most MaxDelay: failures in the TLS handshake count, a connection
\* starts over, and disabling does not (RetryStrategy, connect_retry.reset).
Backoff ==
    task = "wait_failed" =>
        delay = IF failures = 1 THEN MinDelay ELSE Doubled(failures - 1)

\* What it rests on: the strategy is ahead of the waits by one doubling.
RetryInv ==
    /\ failures \in 0 .. MaxFailures
    /\ task = "wait_failed" => failures >= 1
    /\ retry = IF failures = 0 THEN MinDelay ELSE Doubled(failures)

\* The task waits for the server, in a TLS handshake or in a write that fills the
\* socket's buffer, and for nothing else.
Stalled == (Tls /\ task = "handshake") \/ Writing

\* Every request a caller waits for is completed, whatever the network, the
\* device and the settings do, as long as the server does not stall the task
\* forever (run_one_request, handle_connection).
Completes ==
    []<>~Stalled => \A r \in Requests : result[r] = "pending" ~> result[r] # "pending"

\* Dropping the last handle ends the task, with the same exception.
Terminates == []<>~Stalled => (~open ~> task = "done")

\* A channel that stays enabled keeps trying: it is connected, or it connects
\* again and again (wait_for_enabled, try_connect_and_run).
KeepsTrying ==
    <>[](enabled /\ task # "done") => []<>(task \in {"connect", "handshake", "run"})

\* What the change log says of 1.4.0: "Requests in the client API now fail
\* immediately while the client is connecting."
FailsWhileConnecting ==
    \A r \in Requests :
        result[r] = "pending" /\ listener = "Connecting" ~> result[r] # "pending"
=============================================================================
