----------------------------- MODULE RtuServer -----------------------------
(***************************************************************************)
(* The RTU server task (rodbus/src/serial/server.rs): it opens the serial   *)
(* port, runs the session on it and waits between attempts, while it takes  *)
(* settings from its handle.  The other sessions of ServerSession are those *)
(* of a TCP or TLS server that shares the handlers.                          *)
(***************************************************************************)
EXTENDS ServerSession, Doubling

CONSTANTS
    Port,          \* the session on the serial port
    Levels,        \* decode levels
    InitialLevel,  \* the level the server is created with
    MaxCommands    \* bound: settings waiting in the command channel

ASSUME RtuAssumption ==
    Port \in RtuSessions /\ InitialLevel \in Levels /\ MaxCommands \in Nat

VARIABLES
    task,      \* "open", "run", "sleep" or "done"
    retry,     \* Doubling.current
    handle,    \* the ServerHandle still exists
    commands,  \* the command channel
    decode     \* SessionTask.decode

taskVars == <<task, retry, handle, commands, decode>>
vars == <<sessionVars, taskVars>>

Init ==
    /\ SessionInit
    /\ task = "open"
    /\ retry = create
    /\ handle = TRUE
    /\ commands = <<>>
    /\ decode = InitialLevel

-----------------------------------------------------------------------------
(* The application: ServerHandle *)

SetDecodeLevel ==
    /\ handle /\ task # "done"
    /\ Len(commands) < MaxCommands
    /\ \E l \in Levels : commands' = Append(commands, l)
    /\ UNCHANGED <<sessionVars, task, retry, handle, decode>>

DropHandle ==
    /\ handle
    /\ handle' = FALSE
    /\ UNCHANGED <<sessionVars, task, retry, commands, decode>>

-----------------------------------------------------------------------------
(* RtuServerTask::run *)

OpenOk ==
    /\ task = "open"
    /\ Start(Port)
    /\ task' = "run"
    /\ retry' = reset
    /\ UNCHANGED <<handle, commands, decode>>

OpenFails ==
    /\ task = "open"
    /\ task' = "sleep"
    /\ retry' = after_failed_connect(retry).current
    /\ UNCHANGED <<sessionVars, handle, commands, decode>>

\* session.run returned an error: the delay is after_disconnect's
SessionFailed ==
    /\ task = "run" /\ pc[Port] = "ended"
    /\ task' = "sleep"
    /\ UNCHANGED <<sessionVars, retry, handle, commands, decode>>

\* run_one between two frames, and sleep_for
Listening == task = "sleep" \/ (task = "run" /\ pc[Port] = "idle")

\* apply_setting
ReceiveSetting ==
    /\ Listening /\ commands # <<>>
    /\ commands' = Tail(commands)
    /\ decode' = Head(commands)
    /\ UNCHANGED <<sessionVars, task, retry, handle>>

\* Mutant of ReceiveClosed: only run_one looks for the end of the channel.
ClosedSeenInRun ==
    /\ task = "run" /\ pc[Port] = "idle" /\ commands = <<>> /\ ~handle
    /\ task' = "done"
    /\ End(Port)
    /\ UNCHANGED <<retry, handle, commands, decode>>

\* Shutdown, from run_one or from sleep_for
ReceiveClosed ==
    /\ Listening /\ commands = <<>> /\ ~handle
    /\ task' = "done"
    /\ IF task = "run" THEN End(Port) ELSE UNCHANGED sessionVars
    /\ UNCHANGED <<retry, handle, commands, decode>>

\* The timeout of sleep_for
WakeUp ==
    /\ task = "sleep"
    /\ task' = "open"
    /\ UNCHANGED <<sessionVars, retry, handle, commands, decode>>

TaskStep ==
    OpenOk \/ OpenFails \/ SessionFailed \/ ReceiveSetting \/ ReceiveClosed \/ WakeUp

\* The sessions take their steps, those of the TCP server start and end.
Next ==
    \/ SetDecodeLevel \/ DropHandle
    \/ TaskStep
    \/ \E s \in Sessions : (SessionStep(s) \/ End(s)) /\ UNCHANGED taskVars
    \/ \E s \in Sessions \ {Port} : Start(s) /\ UNCHANGED taskVars

Spec == Init /\ [][Next]_vars

-----------------------------------------------------------------------------
(* Fairness.  Handlers return and mutexes are acquired; the task opens the port,
   wakes up, and what its select! has ready again and again is received (SF).
   A UART sends what it is given, so writes of the RTU session end; a TCP client
   need not read.                                                              *)
Fairness ==
    /\ \A s \in Sessions :
        /\ SF_vars(LockHandler(s) /\ UNCHANGED taskVars)
        /\ WF_vars((GetValue(s) \/ SetValue(s) \/ Executed(s)) /\ UNCHANGED taskVars)
    /\ WF_vars((WriteReply(Port) \/ WriteFails(Port)) /\ UNCHANGED taskVars)
    /\ WF_vars(OpenOk \/ OpenFails) /\ WF_vars(SessionFailed) /\ WF_vars(WakeUp)
    /\ SF_vars(ReceiveSetting \/ ReceiveClosed)

FairSpec == Spec /\ Fairness

-----------------------------------------------------------------------------
(* Properties *)

\* Dropping the handle ends the task, from wherever it is.
Terminates == ~handle ~> task = "done"
=============================================================================
