---------------------------- MODULE SerialChannel ----------------------------
(***************************************************************************)
(* The task of an RTU client channel (rodbus/src/serial/client.rs): it      *)
(* opens the serial port once the channel is enabled, runs sessions of the  *)
(* ClientLoop on it and waits between attempts.  Opening a port is a        *)
(* synchronous call, so there is no state in which the task is opening it.  *)
(***************************************************************************)
EXTENDS ClientLoop, Doubling

VARIABLES
    task,      \* where SerialChannelTask::run_inner is
    listener,  \* the PortState last reported
    retry      \* Doubling.current

taskVars == <<task, listener, retry>>
vars == <<loopVars, taskVars>>

Init ==
    /\ LoopInit
    /\ task = "wait_for_enabled"
    /\ listener = "Disabled"
    /\ retry = create

-----------------------------------------------------------------------------
\* Mutant of Restart: Disabled is reported without a look at enabled.
ReportsDisabled ==
    /\ task' = "wait_for_enabled"
    /\ listener' = "Disabled"

\* run_inner: back at the top of its loop
Restart ==
    /\ task' = "wait_for_enabled"
    /\ listener' = IF enabled THEN listener ELSE "Disabled"

WaitForEnabled ==
    /\ task = "wait_for_enabled"
    /\ loop \in Returns \ {"Shutdown"}
    /\ ~(loop = "Ok" /\ enabled)
    /\ Call("wait_for_enabled")
    /\ UNCHANGED taskVars

\* Mutant of OpenOk: the port is opened as soon as the task starts.
OpensDisabled ==
    /\ task = "wait_for_enabled"
    /\ loop = "Ok"
    /\ Call("run")
    /\ task' = "run"
    /\ listener' = "Open"
    /\ retry' = reset

\* try_open_and_run: the port opens
OpenOk ==
    /\ task = "wait_for_enabled"
    /\ loop = "Ok" /\ enabled
    /\ Call("run")
    /\ task' = "run"
    /\ listener' = "Open"
    /\ retry' = reset

\* try_open_and_run: the port cannot be opened
OpenFails ==
    /\ task = "wait_for_enabled"
    /\ loop = "Ok" /\ enabled
    /\ Call("fail_requests")
    /\ task' = "wait"
    /\ listener' = "Wait"
    /\ retry' = after_failed_connect(retry).current

\* The session ended because the channel was disabled: no wait
SessionDisabled ==
    /\ task = "run"
    /\ loop = "Disabled"
    /\ Restart
    /\ UNCHANGED <<loopVars, retry>>

\* The session ended with an I/O error or a bad frame
SessionFailed ==
    /\ task = "run"
    /\ loop \in {"IoError", "BadFrame"}
    /\ Call("fail_requests")
    /\ task' = "wait"
    /\ listener' = "Wait"
    /\ UNCHANGED retry

\* fail_requests_for: disabled while waiting
StateChanged ==
    /\ task = "wait"
    /\ loop = "Disable"
    /\ Restart
    /\ UNCHANGED <<loopVars, retry>>

\* fail_requests_for: the timer wins
WaitElapsed ==
    /\ task = "wait"
    /\ Cancel
    /\ Restart
    /\ UNCHANGED retry

\* The mpsc is closed
Finish ==
    /\ loop = "Shutdown"
    /\ Drop
    /\ task' = "done"
    /\ listener' = "Shutdown"
    /\ UNCHANGED retry

\* The runtime is shut down: the task's future is dropped where it is
Abort ==
    /\ task # "done"
    /\ Drop
    /\ task' = "done"
    /\ UNCHANGED <<listener, retry>>

TaskStep ==
    \/ WaitForEnabled \/ OpenOk \/ OpenFails \/ SessionDisabled \/ SessionFailed
    \/ StateChanged \/ WaitElapsed \/ Finish

Next ==
    \/ (Api \/ LoopStep \/ PeerAnswers) /\ UNCHANGED taskVars
    \/ TaskStep
    \/ Abort

Spec == Init /\ [][Next]_vars

\* As for TcpChannel, with a serial port that is opened without waiting and whose
\* UART sends what it is given.
Fairness ==
    /\ SF_vars(ReceiveStep /\ UNCHANGED taskVars)
    /\ WF_vars((ProgressStep \/ WriteRequest) /\ UNCHANGED taskVars)
    /\ WF_vars(TaskStep)

FairSpec == Spec /\ Fairness

-----------------------------------------------------------------------------
(* Properties *)

\* The PortStates the listener sees follow one another as the task's life
\* allows: Wait and Open lead back to Disabled only when the channel was
\* disabled, and Shutdown is final.
PortStateOrder ==
    [][/\ listener = "Disabled" => listener' \in {"Open", "Wait", "Shutdown"}
       /\ listener = "Open" => listener' \in {"Wait", "Disabled", "Shutdown"}
       /\ listener = "Wait" => listener' \in {"Open", "Disabled", "Shutdown"}
       /\ listener' = "Disabled" => ~enabled
       /\ listener # "Shutdown"]_listener

\* What it rests on: the state last reported tells where the task is, and the
\* session or the wait that the task left with Disabled or Disable was disabled.
ListenerInv ==
    /\ task = "wait_for_enabled" => listener \in {"Disabled", "Open", "Wait"}
    /\ task = "run" => listener = "Open"
    /\ task = "wait" => listener = "Wait"
    /\ task = "done" => loop = "dropped"
    /\ loop \in {"Disable", "Disabled"} => ~enabled

\* Whatever the port, the device and the settings do, every request a caller waits
\* for is completed, and dropping the last handle ends the task from wherever it
\* waits (SerialChannelTask::run).
Finishes ==
    /\ \A r \in Requests : result[r] = "pending" ~> result[r] # "pending"
    /\ ~open ~> task = "done"
=============================================================================
