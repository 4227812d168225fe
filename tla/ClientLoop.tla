----------------------------- MODULE ClientLoop -----------------------------
(***************************************************************************)
(* The client side of a Modbus channel: the command queue between the       *)
(* application's Channel handles and the channel task, and the ClientLoop   *)
(* the task drives (rodbus/src/client/task.rs).  The owner of the loop, the *)
(* TCP/TLS or the serial channel task, calls wait_for_enabled,              *)
(* fail_requests and run; here it is any owner (Owner), the modules          *)
(* TcpChannel and SerialChannel are the two the crate has.                   *)
(*                                                                          *)
(* Data is abstracted to what decides control: a request is a model value   *)
(* with the function code and the quantity its response parser compares, a  *)
(* response is the request it answers, its transaction id and what its body *)
(* holds.                                                                   *)
(***************************************************************************)
EXTENDS Naturals, Sequences, FiniteSets

CONSTANTS
    Requests,       \* the requests the application may submit, each once
    NoRequest,      \* "no request is being executed"
    Invalid,        \* requests whose address range the API refuses
    Unformattable,  \* requests whose PDU does not fit in the write buffer
    Function,       \* Function[r]: the Modbus function code of r
    Quantity,       \* Quantity[r]: what the parser of r's response compares
    Capacity,       \* max_queued_requests, the capacity of the mpsc channel
    MaxBacklog,     \* bound: commands in the channel and senders waiting for it
    TxMod,          \* number of transaction ids (2^16 in the code)
    Mbap            \* TRUE: MBAP over TCP/TLS, FALSE: RTU on a serial line

ASSUME ClientAssumption ==
    /\ Invalid \subseteq Requests
    /\ Unformattable \subseteq Requests
    /\ Capacity \in Nat \ {0}
    /\ MaxBacklog \in Nat
    /\ TxMod \in Nat \ {0}
    /\ Mbap \in BOOLEAN

\* The Setting enum; no request is a setting.
Settings == {"Enable", "Disable", "DecodeLevel"}
Commands == Requests \cup Settings

ASSUME CommandsDisjoint == Requests \cap Settings = {} /\ NoRequest \notin Commands

TxIds == 0..(TxMod - 1)

\* What the response to a request carries; "corrupt" does not survive framing
\* (bad MBAP header, bad CRC, unknown function code).
Bodies == {"data", "exception", "malformed", "corrupt"}
Frames == [req: Requests, tx: TxIds, body: Bodies]

\* RequestError, and Ok.
Outcomes == {"Ok", "Exception", "BadResponse", "ResponseTimeout", "Io", "BadFrame",
             "Internal", "NoConnection", "BadRequest", "Shutdown"}

\* Where the loop is: inside one of the calls, or returned with a value.
Calls == {"wait_for_enabled", "fail_requests", "run"}
Returns == {"Ok", "Disable", "Disabled", "IoError", "BadFrame", "Shutdown"}

VARIABLES
    open,      \* some Channel handle still exists
    queue,     \* the first Capacity commands are in the mpsc, the rest wait to send
    enabled,   \* ClientLoop.enabled
    tx_id,     \* ClientLoop.tx_id, the next transaction id
    loop,      \* Calls, Returns or "dropped"
    current,   \* the request run_one_request holds
    written,   \* its frame was written, the loop awaits the response
    result,    \* what the caller of each request knows
    peer,      \* requests the device holds and may still answer
    wire,      \* frames received by the host, not yet read by the loop
    buffer,    \* frames in the ReadBuffer of the FramedReader
    \* history variables
    issued,    \* number of transaction ids taken
    serial,    \* serial[r]: r took the serial[r]-th transaction id, 0 if none
    txOf,      \* txOf[r]: the transaction id of r
    sent,      \* requests whose frame was written completely
    answer     \* answer[r]: the request whose response completed r

history == <<issued, serial, txOf, sent, answer>>
link == <<peer, wire, buffer>>
loopVars == <<open, queue, enabled, tx_id, loop, current, written, result,
              link, history>>

LoopTypeOK ==
    /\ open \in BOOLEAN
    /\ queue \in Seq(Commands)
    /\ enabled \in BOOLEAN
    /\ tx_id \in TxIds
    /\ loop \in Calls \cup Returns \cup {"dropped"}
    /\ current \in Requests \cup {NoRequest}
    /\ written \in BOOLEAN
    /\ result \in [Requests -> Outcomes \cup {"unsubmitted", "pending"}]
    /\ peer \in SUBSET Requests
    /\ wire \in Seq(Frames)
    /\ buffer \in Seq(Frames)
    /\ issued \in Nat
    /\ serial \in [Requests -> Nat]
    /\ txOf \in [Requests -> TxIds]
    /\ sent \in SUBSET Requests
    /\ answer \in [Requests -> Requests \cup {NoRequest}]

LoopInit ==
    /\ open = TRUE
    /\ queue = <<>>
    /\ enabled = FALSE
    /\ tx_id = 0
    /\ loop = "Ok"
    /\ current = NoRequest
    /\ written = FALSE
    /\ result = [r \in Requests |-> "unsubmitted"]
    /\ peer = {} /\ wire = <<>> /\ buffer = <<>>
    /\ issued = 0
    /\ serial = [r \in Requests |-> 0]
    /\ txOf = [r \in Requests |-> 0]
    /\ sent = {}
    /\ answer = [r \in Requests |-> NoRequest]

-----------------------------------------------------------------------------
(* The application: Channel, CallbackSession and FfiChannel. *)

\* Promise::complete calls the callback only if it still is there.
Complete(r, outcome) ==
    result' = IF result[r] = "pending" THEN [result EXCEPT ![r] = outcome] ELSE result

apiUnchanged == UNCHANGED <<enabled, tx_id, loop, current, written, link, history>>

\* A request method of Channel or CallbackSession: the range check, then a
\* send that waits for room and fails only if the receiver is gone.
Submit(r) ==
    /\ open
    /\ result[r] = "unsubmitted"
    /\ \/ /\ r \in Invalid
          /\ result' = [result EXCEPT ![r] = "BadRequest"]
          /\ UNCHANGED queue
       \/ /\ r \notin Invalid /\ loop = "dropped"
          /\ result' = [result EXCEPT ![r] = "Shutdown"]
          /\ UNCHANGED queue
       \/ /\ r \notin Invalid /\ loop # "dropped"
          /\ Len(queue) < MaxBacklog
          /\ result' = [result EXCEPT ![r] = "pending"]
          /\ queue' = Append(queue, r)
    /\ apiUnchanged /\ UNCHANGED open

\* A request method of FfiChannel: try_send never waits; a full or closed
\* channel drops the command, whose promise then fails with Shutdown.
TrySubmit(r) ==
    /\ open
    /\ result[r] = "unsubmitted"
    /\ r \notin Invalid
    /\ loop = "dropped" \/ Len(queue) >= Capacity
    /\ result' = [result EXCEPT ![r] = "Shutdown"]
    /\ apiUnchanged /\ UNCHANGED <<open, queue>>

\* enable, disable and set_decode_level
SendSetting(s) ==
    /\ open
    /\ loop # "dropped"
    /\ Len(queue) < MaxBacklog
    /\ queue' = Append(queue, s)
    /\ apiUnchanged /\ UNCHANGED <<open, result>>

\* The last Channel handle is dropped.
DropChannel ==
    /\ open
    /\ open' = FALSE
    /\ apiUnchanged /\ UNCHANGED <<queue, result>>

Api ==
    \/ \E r \in Requests : Submit(r) \/ TrySubmit(r)
    \/ \E s \in Settings : SendSetting(s)
    \/ DropChannel

-----------------------------------------------------------------------------
(* The receiving end: tokio's mpsc and ClientLoop::change_setting. *)

\* recv() returns a command
Receive(c) == queue # <<>> /\ c = Head(queue) /\ queue' = Tail(queue)

\* recv() returns None: every sender is gone and the queue is drained
Closed == queue = <<>> /\ ~open

change_setting(s) ==
    enabled' = CASE s = "Enable" -> TRUE
                 [] s = "Disable" -> FALSE
                 [] s = "DecodeLevel" -> enabled

\* fail_next_request on a request: NoConnection
FailNextRequest ==
    /\ loop \in {"wait_for_enabled", "fail_requests"}
    /\ loop = "wait_for_enabled" => ~enabled
    /\ \E r \in Requests : Receive(r) /\ Complete(r, "NoConnection")
    /\ UNCHANGED <<open, enabled, tx_id, loop, current, written, link, history>>

\* fail_next_request on a setting: Err(Disable) unless enabled afterwards,
\* which ends fail_requests; wait_for_enabled goes on.
FailNextSetting ==
    /\ loop \in {"wait_for_enabled", "fail_requests"}
    /\ loop = "wait_for_enabled" => ~enabled
    /\ \E s \in Settings : Receive(s) /\ change_setting(s)
    /\ loop' = IF loop = "fail_requests" /\ ~enabled' THEN "Disable" ELSE loop
    /\ UNCHANGED <<open, tx_id, current, written, result, link, history>>

WaitForEnabledDone ==
    /\ loop = "wait_for_enabled" /\ enabled
    /\ loop' = "Ok"
    /\ UNCHANGED <<open, queue, enabled, tx_id, current, written, result, link, history>>

\* Mutant of ReceiveClosed: only poll looks for the end of the channel.
ClosedSeenInRun ==
    /\ loop = "run" /\ current = NoRequest
    /\ Closed
    /\ loop' = "Shutdown"
    /\ wire' = <<>> /\ peer' = IF Mbap THEN {} ELSE peer
    /\ UNCHANGED <<open, queue, enabled, tx_id, current, written, result, buffer, history>>

\* rx.recv() yields Shutdown wherever the loop listens to the queue.
ReceiveClosed ==
    /\ \/ loop = "wait_for_enabled" /\ ~enabled
       \/ loop = "fail_requests"
       \/ loop = "run" /\ current = NoRequest
    /\ Closed
    /\ loop' = "Shutdown"
    /\ wire' = <<>> /\ peer' = IF Mbap THEN {} ELSE peer
    /\ UNCHANGED <<open, queue, enabled, tx_id, current, written, result, buffer, history>>

-----------------------------------------------------------------------------
(* run: poll, run_cmd, run_one_request and execute_request. *)

\* The session ends.  A TCP connection takes what was in flight with it; a
\* device on a serial line keeps the request it holds.  The FramedReader and
\* its buffer belong to the loop and survive.
EndSession(error) ==
    /\ loop' = error
    /\ current' = NoRequest
    /\ written' = FALSE
    /\ wire' = <<>>
    /\ peer' = IF Mbap THEN {} ELSE peer

Idle == loop = "run" /\ current = NoRequest
Executing == loop = "run" /\ current # NoRequest

\* Mutant of PollSetting: run_cmd does not look at enabled after change_setting.
KeepsRunning ==
    /\ Idle
    /\ \E s \in Settings : Receive(s) /\ change_setting(s)
    /\ UNCHANGED <<open, tx_id, loop, current, written, result, link, history>>

\* Mutant of PollSetting: a setting interrupts the request in execution.
InterruptsRequest ==
    /\ loop = "run"
    /\ \E s \in Settings : Receive(s) /\ change_setting(s)
    /\ IF enabled'
       THEN UNCHANGED <<loop, current, written, wire, peer, result>>
       ELSE /\ EndSession("Disabled")
            /\ IF current = NoRequest THEN UNCHANGED result ELSE Complete(current, "Shutdown")
    /\ UNCHANGED <<open, tx_id, buffer, history>>

\* run_cmd on a setting; disabling ends the session
PollSetting ==
    /\ Idle
    /\ \E s \in Settings : Receive(s) /\ change_setting(s)
    /\ IF enabled'
       THEN UNCHANGED <<loop, current, written, wire, peer>>
       ELSE EndSession("Disabled")
    /\ UNCHANGED <<open, tx_id, result, buffer, history>>

\* Mutant of NextTxId: the id does not wrap.
NoWrap == tx_id + 1

\* TxId::next
NextTxId == IF tx_id = TxMod - 1 THEN 0 ELSE tx_id + 1

TakeTxId(r) ==
    /\ tx_id' = NextTxId
    /\ issued' = issued + 1
    /\ serial' = [serial EXCEPT ![r] = issued + 1]
    /\ txOf' = [txOf EXCEPT ![r] = tx_id]

\* run_one_request up to the write of the request's frame; formatting may fail
StartRequest ==
    /\ Idle
    /\ \E r \in Requests :
        /\ Receive(r)
        /\ TakeTxId(r)
        /\ IF r \in Unformattable
           THEN Complete(r, "Internal") /\ UNCHANGED current
           ELSE current' = r /\ UNCHANGED result
    /\ UNCHANGED <<open, enabled, loop, written, link, sent, answer>>

\* io.write succeeds: the device will see the request
WriteRequest ==
    /\ Executing /\ ~written
    /\ written' = TRUE
    /\ peer' = peer \cup {current}
    /\ sent' = sent \cup {current}
    /\ UNCHANGED <<open, queue, enabled, tx_id, loop, current, result, wire, buffer,
                   issued, serial, txOf, answer>>

\* next_frame: the frames it can return, with what is then left in the read
\* buffer and in the host.  A read takes as many frames as have arrived.
NextFrames ==
    IF buffer # <<>>
    THEN {[frame |-> Head(buffer), buffer |-> Tail(buffer), wire |-> wire]}
    ELSE {[frame |-> Head(wire), buffer |-> SubSeq(wire, 2, n),
           wire |-> SubSeq(wire, n + 1, Len(wire))] : n \in 1..Len(wire)}

\* poll: a frame nobody waits for is logged and dropped
DropUnexpected ==
    /\ Idle
    /\ \E n \in NextFrames :
        /\ n.frame.body # "corrupt"
        /\ buffer' = n.buffer /\ wire' = n.wire
    /\ UNCHANGED <<open, queue, enabled, tx_id, loop, current, written, result, peer, history>>

\* Mutant of IsResponse: the transaction id is not compared.
AnyResponse(f) == TRUE

\* Does execute_request take this frame as the response to the current request?
IsResponse(f) == Mbap => f.tx = txOf[current]

\* execute_request: a frame with another transaction id is skipped
SkipFrame ==
    /\ Executing /\ written
    /\ \E n \in NextFrames :
        /\ n.frame.body # "corrupt"
        /\ ~IsResponse(n.frame)
        /\ buffer' = n.buffer /\ wire' = n.wire
    /\ UNCHANGED <<open, queue, enabled, tx_id, loop, current, written, result, peer, history>>

\* Request::handle_response and get_error_for
handle_response(r, f) ==
    CASE Function[f.req] # Function[r] -> "BadResponse"
      [] Function[f.req] = Function[r] /\ f.body = "exception" -> "Exception"
      [] Function[f.req] = Function[r] /\ f.body = "data"
            /\ Quantity[f.req] = Quantity[r] -> "Ok"
      [] OTHER -> "BadResponse"

\* execute_request: the response completes the request
HandleResponse ==
    /\ Executing /\ written
    /\ \E n \in NextFrames :
        /\ n.frame.body # "corrupt"
        /\ IsResponse(n.frame)
        /\ buffer' = n.buffer /\ wire' = n.wire
        /\ Complete(current, handle_response(current, n.frame))
        /\ answer' = [answer EXCEPT ![current] = n.frame.req]
    /\ current' = NoRequest
    /\ written' = FALSE
    /\ UNCHANGED <<open, queue, enabled, tx_id, loop, peer, issued, serial, txOf, sent>>

\* Mutant of ResponseTimeout: a request that timed out is written again.
RetriesOnTimeout ==
    /\ Executing /\ written
    /\ written' = FALSE
    /\ UNCHANGED <<open, queue, enabled, tx_id, loop, current, result, link, history>>

\* Mutant of ResponseTimeout: the deadline starts before the write.
TimesOutBeforeWrite ==
    /\ Executing
    /\ Complete(current, "ResponseTimeout")
    /\ current' = NoRequest
    /\ written' = FALSE
    /\ UNCHANGED <<open, queue, enabled, tx_id, loop, link, history>>

\* Mutant of ResponseTimeout: there is no deadline.
NoDeadline == FALSE

\* execute_request: the deadline passes
ResponseTimeout ==
    /\ Executing /\ written
    /\ Complete(current, "ResponseTimeout")
    /\ current' = NoRequest
    /\ written' = FALSE
    /\ UNCHANGED <<open, queue, enabled, tx_id, loop, link, history>>

\* Mutant of FailCurrent: the session error is returned before the request fails.
ForgetCurrent(error) == UNCHANGED result

\* The promise of the request being executed fails, if there is one.
FailCurrent(error) ==
    IF current = NoRequest THEN UNCHANGED result ELSE Complete(current, error)

\* next_frame fails to parse, while idle or while waiting for a response
ReadBadFrame ==
    /\ loop = "run" /\ (current # NoRequest => written)
    /\ \E n \in NextFrames :
        /\ n.frame.body = "corrupt"
        /\ buffer' = n.buffer
    /\ FailCurrent("BadFrame")
    /\ EndSession("BadFrame")
    /\ UNCHANGED <<open, queue, enabled, tx_id, history>>

\* io.write fails, or the read next_frame does when the buffer holds no frame;
\* in poll the error is the session's
IoFails ==
    /\ loop = "run"
    /\ buffer = <<>> \/ (current # NoRequest /\ ~written)
    /\ FailCurrent("Io")
    /\ EndSession("IoError")
    /\ UNCHANGED <<open, queue, enabled, tx_id, buffer, history>>

-----------------------------------------------------------------------------
(* The device at the other end, external.  It answers a request at most once,
   at any later time, or never; what arrives while the port is closed is lost. *)
PeerAnswers ==
    /\ \E r \in peer, body \in Bodies :
        /\ peer' = peer \ {r}
        /\ wire' = IF loop = "run"
                   THEN Append(wire, [req |-> r, tx |-> txOf[r], body |-> body])
                   ELSE wire
    /\ UNCHANGED <<open, queue, enabled, tx_id, loop, current, written, result, buffer, history>>

-----------------------------------------------------------------------------
(* The owner of the loop. *)

Call(method) ==
    /\ loop \in Returns \ {"Shutdown"}
    /\ loop' = method
    /\ UNCHANGED <<open, queue, enabled, tx_id, current, written, result, link, history>>

\* select! in connect and in fail_requests_for: the other branch wins
Cancel ==
    /\ loop = "fail_requests"
    /\ loop' = "Ok"
    /\ UNCHANGED <<open, queue, enabled, tx_id, current, written, result, link, history>>

\* The receiver's queue, a waiting sender or run_one_request owns the request.
Queued(r) == \E i \in DOMAIN queue : queue[i] = r
Holds(r) == r = current \/ Queued(r)

\* The task ends, or its future is dropped wherever it is: the receiver and
\* the request in flight go with it and every promise left fails with Shutdown.
Drop ==
    /\ loop # "dropped"
    /\ loop' = "dropped"
    /\ queue' = <<>>
    /\ current' = NoRequest
    /\ written' = FALSE
    /\ result' = [r \in Requests |->
                    IF Holds(r) /\ result[r] = "pending" THEN "Shutdown" ELSE result[r]]
    /\ peer' = {} /\ wire' = <<>> /\ buffer' = <<>>
    /\ UNCHANGED <<open, enabled, tx_id, history>>

\* The steps of the loop itself
LoopStep ==
    \/ FailNextRequest \/ FailNextSetting \/ WaitForEnabledDone \/ ReceiveClosed
    \/ PollSetting \/ StartRequest \/ WriteRequest
    \/ DropUnexpected \/ SkipFrame \/ HandleResponse
    \/ ResponseTimeout \/ ReadBadFrame \/ IoFails

\* The steps that take a command from the queue: one branch of a select!
ReceiveStep ==
    FailNextRequest \/ FailNextSetting \/ ReceiveClosed \/ PollSetting \/ StartRequest

\* The steps the loop makes without the device: an immediate return and a deadline
\* that passes
ProgressStep ==
    WaitForEnabledDone \/ ResponseTimeout

\* io.write is awaited outside of the request's deadline.
Writing == Executing /\ ~written

\* What the loop relies on: its owner calls run only while the channel is enabled.
\* The owner is shown to do so: TcpChannel and SerialChannel implement LoopSpec.
Owner ==
    \/ Cancel
    \/ Drop
    \/ \E m \in Calls : (m = "run" => enabled) /\ Call(m)

LoopNext == Api \/ LoopStep \/ PeerAnswers \/ Owner

LoopSpec == LoopInit /\ [][LoopNext]_loopVars

-----------------------------------------------------------------------------
(* Properties *)

\* A promise has one owner: every request whose caller still waits sits in the
\* queue exactly once or is the one being executed, and nothing else does, so
\* no promise is lost, and none is completed twice (run_one_request,
\* fail_next_request, Drop for Promise).
PendingOwned ==
    /\ \A r \in Requests : result[r] = "pending" <=> Holds(r)
    /\ \A i \in DOMAIN queue : queue[i] # current
    /\ \A i, j \in DOMAIN queue :
            queue[i] = queue[j] /\ queue[i] \in Requests => i = j

\* A channel that was disabled does not run a session: whatever settings arrive
\* while the task connects, waits or executes, run (poll, execute_request) is
\* only entered and only kept with enabled = true.
RunsOnlyEnabled == loop = "run" => enabled

\* On MBAP a request succeeds with its own response.  The only other response
\* execute_request can take for it is one to a request issued a full cycle of
\* transaction ids earlier (TxId::next wraps), however late responses come and
\* whatever whole frames the read buffer keeps over a reconnect.
OwnAnswer ==
    Mbap => \A r \in Requests :
        result[r] = "Ok" => \/ answer[r] = r
                            \/ serial[r] >= serial[answer[r]] + TxMod

\* Without transaction ids (RTU) a request can be completed by the response to
\* another one, but only after an earlier request was given up on: as long as
\* nothing timed out or failed, execute_request never mixes up two requests.
MixupNeedsFailure ==
    \A r \in Requests :
        result[r] = "Ok" /\ answer[r] # r =>
            \E q \in Requests :
                /\ serial[q] # 0 /\ serial[q] < serial[r]
                /\ result[q] \in {"ResponseTimeout", "Io", "BadFrame"}

\* The channel keeps one transaction open: on MBAP, a request the device still
\* holds is the current one, was given up after its timeout, or was completed
\* with another response of the same transaction id.  A request that failed is not
\* written again: a device may have executed it.
OneTransaction ==
    Mbap => \A r \in peer :
        \/ r = current
        \/ result[r] = "ResponseTimeout"
        \/ answer[r] \notin {r, NoRequest}

-----------------------------------------------------------------------------
(* The inductive invariant behind OwnAnswer: what ties the transaction ids in
   use and on their way back to the order in which they were issued. *)

InFlight == {wire[i] : i \in DOMAIN wire} \cup {buffer[i] : i \in DOMAIN buffer}

\* A request took its id once, when it left the queue.
SerialInv ==
    /\ \A r \in Requests : serial[r] <= issued
    /\ \A r \in Requests : serial[r] # 0 => r = current \/ result[r] \in Outcomes
    /\ current # NoRequest => serial[current] = issued /\ issued # 0

\* Responses carry the id of the request they answer.
FrameInv ==
    /\ \A r \in peer : serial[r] # 0
    /\ \A f \in InFlight : serial[f.req] # 0 /\ f.tx = txOf[f.req]

\* The next id follows the ids of the last TxMod - 1 requests.
CycleInv ==
    \A r \in Requests :
        serial[r] # 0 /\ issued + 1 < serial[r] + TxMod =>
            \/ tx_id + serial[r] = txOf[r] + issued + 1
            \/ tx_id + serial[r] + TxMod = txOf[r] + issued + 1

\* So two requests with the same id are a full cycle apart.
DistinctInv ==
    \A q, r \in Requests :
        /\ serial[q] # 0 /\ serial[r] # 0 /\ q # r
        /\ serial[q] <= serial[r] /\ serial[r] < serial[q] + TxMod
        => txOf[q] # txOf[r]

AnswerInv ==
    \A r \in Requests :
        result[r] = "Ok" =>
            serial[r] # 0 /\ answer[r] \in Requests /\ serial[answer[r]] # 0

TxInv == SerialInv /\ FrameInv /\ CycleInv /\ DistinctInv /\ AnswerInv

\* What ServiceSpec rests on: a request that was sent and whose caller still waits
\* is the one execute_request waits for.
SentInv ==
    /\ \A r \in sent : result[r] = "pending" => r = current /\ written
    /\ \A r \in sent : result[r] # "unsubmitted"
    /\ written => current \in sent

-----------------------------------------------------------------------------
\* The promise to the callers of the request methods, as RequestService states it.
Service == INSTANCE RequestService WITH result <- result, sent <- sent

\* The loop keeps that promise through queueing, reconnects, timeouts and
\* shutdown: one completion, one transmission, and an outcome that tells whether
\* the request was sent.
ServiceSpec == Service!Spec
=============================================================================
