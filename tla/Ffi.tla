-------------------------------- MODULE Ffi --------------------------------
(***************************************************************************)
(* The bindings as an application uses them: the servers of FfiServer and a  *)
(* client channel (ffi/rodbus-ffi/src/client.rs over                         *)
(* rodbus/src/client/ffi_channel.rs) on one runtime.  A request is given      *)
(* with a callback, which sfio_promise::wrap completes when it is dropped     *)
(* (helpers/ext.rs); callbacks run on the runtime's threads, or on the        *)
(* caller's when the request is refused after its callback was wrapped.      *)
(***************************************************************************)
EXTENDS FfiServer

CONSTANTS
    Requests,   \* requests that may be made, each once
    MaxQueued   \* max_queued_requests

Setting == "setting"   \* an enable, disable or decode level in the queue

ASSUME FfiAssumption ==
    /\ Requests \cap (Apps \cup Servers \cup Units \cup Handlers) = {}
    /\ Setting \notin Requests
    /\ MaxQueued \in Nat \ {0}

VARIABLES
    channel,    \* the ClientChannel: "open" or "destroyed"
    queue,      \* the commands that the channel's task has not completed
    returned,   \* returned[r]: what the call returned
    called      \* called[r]: how often the callback was called (history)

clientVars == <<channel, queue, returned, called>>
vars == <<serverVars, clientVars>>

Results == {"no call", "in call", "Ok", "Invalid", "Refused"}

Init ==
    /\ ServerInit
    /\ channel = "open"
    /\ queue = <<>>
    /\ returned = [r \in Requests |-> "no call"]
    /\ called = [r \in Requests |-> 0]

quiet == <<runtime, endpoints, made, servers, peer, db, lock, pending, values, committed, nested>>
rest == <<quiet, awaits>>

-----------------------------------------------------------------------------
(* client_channel_read_* and client_channel_write_* *)

\* Mutant of InvalidRequest: the callback is wrapped before the arguments are checked.
WrapsFirst(c, r) ==
    /\ Calls(c) /\ channel = "open" /\ returned[r] = "no call"
    /\ returned' = [returned EXCEPT ![r] = "Invalid"]
    /\ called' = [called EXCEPT ![r] = @ + 1]
    /\ UNCHANGED <<rest, call, channel, queue>>

\* A null pointer, AddressRange::try_from or WriteMultiple::from: the callback is
\* not wrapped yet, and it is never called.
InvalidRequest(c, r) ==
    /\ Calls(c) /\ channel = "open" /\ returned[r] = "no call"
    /\ returned' = [returned EXCEPT ![r] = "Invalid"]
    /\ UNCHANGED <<rest, call, channel, queue, called>>

\* try_send takes the command.
AcceptRequest(c, r) ==
    /\ Calls(c) /\ channel = "open" /\ returned[r] = "no call"
    /\ runtime = "up" /\ Len(queue) < MaxQueued
    /\ queue' = Append(queue, r)
    /\ returned' = [returned EXCEPT ![r] = "Ok"]
    /\ UNCHANGED <<rest, call, channel, called>>

\* More points than a read may have, a full queue, a task that is gone: the
\* command is dropped, which calls the callback before the error is returned.
RefuseRequest(c, r) ==
    /\ Calls(c) /\ channel = "open" /\ returned[r] = "no call"
    /\ Push(c, Frame("callback", r, None))
    /\ called' = [called EXCEPT ![r] = @ + 1]
    /\ returned' = [returned EXCEPT ![r] = "in call"]
    /\ UNCHANGED <<rest, channel, queue>>

\* on_complete or on_failure returns; a refused request returns its error.
CallbackReturns(c) ==
    /\ In(c, {"callback"})
    /\ Pop(c)
    /\ returned' = IF returned[Top(c).on] = "in call"
                   THEN [returned EXCEPT ![Top(c).on] = "Refused"] ELSE returned
    /\ UNCHANGED <<rest, inner, channel, queue, called>>

\* client_channel_enable, _disable, _set_decode_level: an error when there is no room
ChannelSetting(c) ==
    /\ Calls(c) /\ channel = "open" /\ runtime = "up"
    /\ Len(queue) < MaxQueued
    /\ queue' = Append(queue, Setting)
    /\ UNCHANGED <<rest, call, channel, returned, called>>

client_channel_destroy(c) ==
    /\ Calls(c) /\ channel = "open"
    /\ channel' = "destroyed"
    /\ UNCHANGED <<rest, call, queue, returned, called>>

-----------------------------------------------------------------------------
(* The channel's task (ClientLoop): it completes what it takes, whatever the
   outcome; when the runtime drops it, the queue is dropped with it.  A TLS
   handshake and the write of a request last as long as the peer lets them:
   neither has a timeout, and nothing is completed meanwhile.  Before there
   is a request to complete, nobody sees such a wait; it begins with one here.  *)

TaskAwaits ==
    /\ runtime = "up" /\ call[Task] = <<>> /\ Task \notin awaits
    /\ queue # <<>> /\ Head(queue) # Setting
    /\ awaits' = awaits \cup {Task}
    /\ UNCHANGED <<quiet, call, inner, clientVars>>

TaskGoesOn ==
    /\ Task \in awaits
    /\ awaits' = awaits \ {Task}
    /\ UNCHANGED <<quiet, call, inner, clientVars>>

\* Mutant of Complete: what is in the queue when the runtime ends is forgotten.
CompletesIfRunning ==
    /\ call[Task] = <<>> /\ Task \notin awaits /\ queue # <<>> /\ runtime = "up"
    /\ queue' = Tail(queue)
    /\ IF Head(queue) = Setting
       THEN UNCHANGED <<call, called>>
       ELSE /\ Push(Task, Frame("callback", Head(queue), None))
            /\ called' = [called EXCEPT ![Head(queue)] = @ + 1]
    /\ UNCHANGED <<rest, inner, channel, returned>>

Complete ==
    /\ call[Task] = <<>> /\ Task \notin awaits /\ queue # <<>>
    /\ queue' = Tail(queue)
    /\ IF Head(queue) = Setting
       THEN UNCHANGED <<call, called>>
       ELSE /\ Push(Task, Frame("callback", Head(queue), None))
            /\ called' = [called EXCEPT ![Head(queue)] = @ + 1]
    /\ UNCHANGED <<rest, inner, channel, returned>>

-----------------------------------------------------------------------------

ClientNext ==
    \/ \E c \in Callers :
        \/ \E r \in Requests : InvalidRequest(c, r) \/ AcceptRequest(c, r) \/ RefuseRequest(c, r)
        \/ CallbackReturns(c) \/ ChannelSetting(c) \/ client_channel_destroy(c)
    \/ TaskAwaits \/ TaskGoesOn \/ Complete

Next == (ServerNext /\ UNCHANGED clientVars) \/ ClientNext

Spec == Init /\ [][Next]_vars

\* Fairness: the application's callbacks return (they make finitely many calls),
\* a mutex that is free again and again is acquired, and a task gets on whenever it
\* does not wait for its peer.  No peer has to let it.
Return(c) ==
    ((Configured(c) \/ Release(c)) /\ UNCHANGED clientVars) \/ CallbackReturns(c)
Proceed(c) ==
    /\ SettingSent(c) \/ Acquire(c, "locking", "update") \/ (c \in Servers /\ SessionStep(c))
    /\ UNCHANGED clientVars

Fairness ==
    /\ \A c \in Callers : WF_vars(Return(c)) /\ SF_vars(Proceed(c))
    /\ \A s \in Servers : SF_vars(ApplySetting(s) /\ UNCHANGED clientVars)
    /\ SF_vars(Complete)

FairSpec == Spec /\ Fairness

-----------------------------------------------------------------------------
(* Properties *)

\* Whatever a Modbus request has read so far is what the last callback that ended
\* (configure, a transaction of update_database, a write callback) left in the
\* database: transactions of the application's threads, of callbacks and of the
\* sessions are never seen half done (server_update_database holds the mutex,
\* device_map_add_endpoint inserts after configure).
ReadsCommitted ==
    \A s \in Servers :
        In(s, {"read"}) =>
            \A i \in DOMAIN values[s] : values[s][i] = committed[Handler(s)][i]

\* A callback is called at most once, and its request tells how often: never when
\* the arguments were refused before it was wrapped, once when the command was
\* dropped although the call then returns an error, and once when the command
\* left the queue, also when the runtime is destroyed (sfio_promise::wrap).
CalledBackOnce ==
    \A r \in Requests :
        called[r] = IF returned[r] \in {"no call", "Invalid"} \/ Contains(queue, r) THEN 0 ELSE 1

\* Every call of a thread and of a session returns if no session's peer keeps it in
\* a handshake or in the write of a reply for ever, and every request that was
\* accepted is called back, and the callback returns, if the client's peer does not
\* do so to the client's task, as long as no call that may wait is made from a
\* callback that has a database locked: update_database and set_decode_level from
\* client callbacks, and client requests from anywhere, block nobody
\* (std::sync::Mutex is not reentrant; FfiChannel::send uses try_send; block_on
\* within a task is refused).
CallsReturn ==
    /\ (\A s \in Servers : []<>(s \notin awaits)) =>
        \A c \in Apps \cup Servers : call[c] # <<>> ~> (call[c] = <<>> \/ nested)
    /\ []<>(Task \notin awaits) =>
        \A r \in Requests :
            returned[r] = "Ok" ~> ((called[r] = 1 /\ call[Task] = <<>>) \/ nested)

\* Schema of create_tls: "Filter used to limit which IP address(es) can connect".
FilterLimits ==
    \A s \in Servers : \A p \in peer[s] : matches(servers[s].given, p)
=============================================================================
