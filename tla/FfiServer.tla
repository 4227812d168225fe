----------------------------- MODULE FfiServer -----------------------------
(***************************************************************************)
(* The server half of the bindings (ffi/rodbus-ffi/src/server.rs and         *)
(* database.rs): device maps whose endpoints move into a server, databases   *)
(* behind a mutex, address filters, and the callbacks into the application.  *)
(*                                                                          *)
(* Threads of the application call the API; tasks on the runtime's threads    *)
(* call the application's callbacks, which may call the API again.  call[c]   *)
(* is the stack of calls c is in, the innermost last.  The application keeps   *)
(* the contract of a C interface: it uses no object after its destruction    *)
(* and no object but a server's databases from two threads at once.          *)
(***************************************************************************)
EXTENDS AddressFilter, FiniteSets, SequencesExt

CONSTANTS
    Apps,         \* threads of the application
    Servers,      \* servers that may be created; each has one session at a time
    Task,         \* the task of the client channel
    Units,        \* unit ids of endpoints
    Handlers,     \* endpoints (RequestHandlerWrapper) that may be made
    Points,       \* number of addresses of a database, 1..Points
    Values,       \* values of a point
    Texts,        \* what address filters are made from
    Peers,        \* addresses that connect
    Kinds,        \* the constructors the application uses
    Allowed,      \* kinds of request the authorization callbacks allow
    Capacity,     \* settings that wait in a server's channels
    MaxInner      \* bound: calls that callbacks make, all together

None == "none"
Absent == "absent"
Callers == Apps \cup Servers \cup {Task}

ASSUME FfiServerAssumption ==
    /\ Apps \cap Servers = {} /\ Task \notin Apps \cup Servers
    /\ None \notin Callers \cup Units \cup Handlers
    /\ Absent \notin Values
    /\ Kinds \subseteq {"tcp", "rtu", "tls", "authz"}
    /\ Points \in Nat \ {0} /\ Capacity \in Nat \ {0} /\ MaxInner \in Nat
    /\ Allowed \subseteq {"read", "write"}

\* The filters an application can have made: address_filter_any, or create and add
Filters ==
    {AnyAddress} \cup UNION {address_filter_create(text) : text \in Texts}
    \cup UNION {UNION {address_filter_add(f, added) : f \in address_filter_create(text)} :
                    text, added \in Texts}

Empty == [a \in 1..Points |-> Absent]            \* Database::new
NoEndpoints == [u \in Units |-> None]
NoServer ==
    [state |-> "none", kind |-> None, filter |-> AnyAddress, given |-> AnyAddress,
     map |-> NoEndpoints]

VARIABLES
    runtime,    \* "up" or "down"
    endpoints,  \* DeviceMap: the endpoint of each unit
    made,       \* the endpoints that were made
    servers,    \* what is known of each server
    peer,       \* peer[s]: who is connected to s, in a set
    db,         \* db[h]: the database of an endpoint
    lock,       \* lock[h]: who holds its mutex
    pending,    \* pending[s]: settings that s and its session have not applied
    values,     \* values[s]: what the session has read so far
    call,       \* call[c]: the calls that c is in
    awaits,     \* the sessions and the client's task that wait for their peer
    inner,      \* calls that were made from callbacks
    \* history variables
    committed,  \* committed[h]: db[h] as the last callback that ended left it
    nested      \* an API call that may wait was made with a database locked

serverVars == <<runtime, endpoints, made, servers, peer, db, lock, pending,
                values, call, awaits, inner, committed, nested>>

Frame(op, on, unit) == [op |-> op, on |-> on, unit |-> unit]
Top(c) == Last(call[c])
In(c, ops) == call[c] # <<>> /\ Top(c).op \in ops
Push(c, frame) == call' = [call EXCEPT ![c] = Append(@, frame)]
Pop(c) == call' = [call EXCEPT ![c] = Front(@)]
Holds(c) == {h \in Handlers : lock[h] = c}

\* The callbacks of the application; those in Transactions hold a database.
Transactions == {"configure", "update", "write"}
Callbacks == Transactions \cup {"callback"}

\* Application code on c calls the API: a thread of its own, or a callback.
Calls(c) ==
    \/ c \in Apps /\ call[c] = <<>> /\ UNCHANGED inner
    \/ In(c, Callbacks) /\ inner < MaxInner /\ inner' = inner + 1

\* tokio refuses block_on on the runtime's threads.
WithinAsync(c) == c \notin Apps

ServerInit ==
    /\ runtime = "up"
    /\ endpoints = NoEndpoints
    /\ made = {}
    /\ servers = [s \in Servers |-> NoServer]
    /\ peer = [s \in Servers |-> {}]
    /\ db = [h \in Handlers |-> Empty]
    /\ lock = [h \in Handlers |-> None]
    /\ pending = [s \in Servers |-> 0]
    /\ values = [s \in Servers |-> <<>>]
    /\ call = [c \in Callers |-> <<>>]
    /\ awaits = {}
    /\ inner = 0
    /\ committed = [h \in Handlers |-> Empty]
    /\ nested = FALSE


-----------------------------------------------------------------------------
(* The device map *)

\* One thread at a time uses the map, and add_endpoint does until configure ends.
MapUnused == \A c \in Callers : \A i \in DOMAIN call[c] : call[c][i].op # "configure"

\* A unit that is in the map is refused; else configure runs on a new database.
device_map_add_endpoint(c, u) ==
    /\ Calls(c) /\ MapUnused
    /\ endpoints[u] = None
    /\ \E h \in Handlers \ made :
        /\ made' = made \cup {h}
        /\ Push(c, Frame("configure", h, u))
    /\ UNCHANGED <<runtime, endpoints, servers, peer, db, lock, pending, values,
                   awaits, committed, nested>>

device_map_destroy(c) ==
    /\ Calls(c) /\ MapUnused
    /\ endpoints' = NoEndpoints
    /\ UNCHANGED <<runtime, made, servers, peer, db, lock, pending, values, call,
                   awaits, committed, nested>>

-----------------------------------------------------------------------------
(* Servers *)

\* What the constructors share, when every argument is good.  drain_and_convert
\* empties the map, whether or not the server comes to exist: block_on is refused
\* within a callback of the runtime, and the bind may fail.
CreateServer(c, s, kind, given, filter) ==
    /\ Calls(c) /\ MapUnused
    /\ kind \in Kinds
    /\ runtime = "up" /\ servers[s].state = "none"
    /\ endpoints' = NoEndpoints
    /\ \/ /\ kind # "rtu" => ~WithinAsync(c)
          /\ servers' = [servers EXCEPT ![s] =
                 [state |-> "up", kind |-> kind, map |-> endpoints, given |-> given,
                  filter |-> filter]]
       \/ UNCHANGED servers     \* RuntimeCannotBlockWithinAsync, ServerBindError
    /\ UNCHANGED <<runtime, made, peer, db, lock, pending, values, call, awaits, committed, nested>>

server_create_tcp(c, s) == \E f \in Filters : CreateServer(c, s, "tcp", f, f)

\* The port is opened by the task; spawning it needs no block_on.
server_create_rtu(c, s) == CreateServer(c, s, "rtu", AnyAddress, AnyAddress)

\* The TLS server without authorization gets AddressFilter::Any.
server_create_tls_impl(c, s) ==
    \E f \in Filters :
        CreateServer(c, s, "authz", f, f) \/ CreateServer(c, s, "tls", f, AnyAddress)

\* The handle is dropped: the server's task and its session end when they see it,
\* and what is left in the task's channel changes nothing for the application.
server_destroy(c, s) ==
    /\ Calls(c) /\ servers[s].state = "up"
    /\ \A d \in Callers : \A i \in DOMAIN call[d] :
           call[d][i].op \in {"locking", "update", "setting"} => call[d][i].on # s
    /\ servers' = [servers EXCEPT ![s].state = "destroyed"]
    /\ pending' = [pending EXCEPT ![s] = 0]
    /\ UNCHANGED <<runtime, endpoints, made, peer, db, lock, values, call, awaits,
                   committed, nested>>

\* server_update_database up to handler.lock(); an unknown unit is an error
server_update_database(c, s, u) ==
    /\ Calls(c) /\ servers[s].state = "up"
    /\ servers[s].map[u] # None
    /\ Push(c, Frame("locking", s, u))
    /\ nested' = (nested \/ Holds(c) # {})
    /\ UNCHANGED <<runtime, endpoints, made, servers, peer, db, lock, pending, values,
                   awaits, committed>>

\* The endpoint whose database the innermost call of c works on
Handler(c) ==
    IF Top(c).op = "configure" THEN Top(c).on ELSE servers[Top(c).on].map[Top(c).unit]

\* Mutant of Acquire: the callback is called without the mutex.
UpdatesUnlocked(c, from, to) ==
    /\ In(c, {from})
    /\ to = "update" \/ lock[Handler(c)] = None
    /\ lock' = IF to = "update" THEN lock ELSE [lock EXCEPT ![Handler(c)] = c]
    /\ call' = [call EXCEPT ![c] = Append(Front(@), Frame(to, Top(c).on, Top(c).unit))]
    /\ UNCHANGED <<runtime, endpoints, made, servers, peer, db, pending, values,
                   awaits, inner, committed, nested>>

\* handler.lock() returns; a thread that already holds the mutex waits forever.
Acquire(c, from, to) ==
    /\ In(c, {from})
    /\ lock[Handler(c)] = None
    /\ lock' = [lock EXCEPT ![Handler(c)] = c]
    /\ call' = [call EXCEPT ![c] = Append(Front(@), Frame(to, Top(c).on, Top(c).unit))]
    /\ UNCHANGED <<runtime, endpoints, made, servers, peer, db, pending, values,
                   awaits, inner, committed, nested>>

\* The database of a transaction: add only where there is nothing, update and
\* delete only where there is something.  database_get_* change nothing.
DatabaseOp(c, old, new) ==
    /\ In(c, Transactions)
    /\ \E a \in 1..Points :
        /\ db[Handler(c)][a] \in old
        /\ \E v \in new : db' = [db EXCEPT ![Handler(c)][a] = v]
    /\ UNCHANGED <<runtime, endpoints, made, servers, peer, lock, pending, values, call,
                   awaits, inner, committed, nested>>

database_add(c) == DatabaseOp(c, {Absent}, Values)
database_update(c) == DatabaseOp(c, Values, Values)
database_delete(c) == DatabaseOp(c, Values, {Absent})

\* io.write of a reply waits for a peer that reads; a serial port takes the bytes.
Replies(s) == awaits' = IF servers[s].kind = "rtu" THEN awaits ELSE awaits \cup {s}

\* configure returns: the endpoint is inserted.
Configured(c) ==
    /\ In(c, {"configure"})
    /\ endpoints' = [endpoints EXCEPT ![Top(c).unit] = Top(c).on]
    /\ committed' = [committed EXCEPT ![Top(c).on] = db[Top(c).on]]
    /\ Pop(c)
    /\ UNCHANGED <<runtime, made, servers, peer, db, lock, pending, values, awaits, inner, nested>>

\* The transaction or the write callback returns, the guard is dropped; a session
\* then awaits io.write of its reply.
Release(c) ==
    /\ In(c, {"update", "write"})
    /\ committed' = [committed EXCEPT ![Handler(c)] = db[Handler(c)]]
    /\ lock' = [lock EXCEPT ![Handler(c)] = None]
    /\ Pop(c)
    /\ IF c \in Servers THEN Replies(c) ELSE UNCHANGED awaits
    /\ UNCHANGED <<runtime, endpoints, made, servers, peer, db, pending, values, inner, nested>>

\* server_set_decode_level: RuntimeDestroyed and CannotBlockWithinAsync at once
server_set_decode_level(c, s) ==
    /\ Calls(c) /\ servers[s].state = "up"
    /\ runtime = "up" /\ ~WithinAsync(c)
    /\ Push(c, Frame("setting", s, None))
    /\ nested' = (nested \/ Holds(c) # {})
    /\ UNCHANGED <<runtime, endpoints, made, servers, peer, db, lock, pending, values,
                   awaits, committed>>

\* ServerHandle::set_decode_level: the send waits for room, or fails when the
\* task is gone.
SettingSent(c) ==
    /\ In(c, {"setting"})
    /\ \/ runtime = "up" /\ pending[Top(c).on] < Capacity
          /\ pending' = [pending EXCEPT ![Top(c).on] = @ + 1]
       \/ runtime = "down" /\ UNCHANGED pending
    /\ Pop(c)
    /\ UNCHANGED <<runtime, endpoints, made, servers, peer, db, lock, values, awaits, inner, committed,
                   nested>>

-----------------------------------------------------------------------------
(* The server's task and its session, on the runtime's threads *)

Runs(s) == runtime = "up" /\ servers[s].state = "up"

\* The select! of run_one is polled: the session is in no call and waits for no peer.
Polls(s) == Runs(s) /\ call[s] = <<>> /\ s \notin awaits

Reachable(s) == servers[s].kind = "rtu" \/ peer[s] # {}

\* ServerTask::run: accept, for the TCP and TLS servers; a TLS session starts with
\* a handshake
Connect(s) ==
    /\ Runs(s) /\ servers[s].kind # "rtu" /\ peer[s] = {}
    /\ \E p \in Peers :
        /\ matches(servers[s].filter, p)
        /\ peer' = [peer EXCEPT ![s] = {p}]
    /\ awaits' = IF servers[s].kind = "tcp" THEN awaits ELSE awaits \cup {s}
    /\ UNCHANGED <<runtime, endpoints, made, servers, db, lock, pending, values, call,
                   inner, committed, nested>>

\* The session fails: while it reads, in its handshake or in a write
Disconnect(s) ==
    /\ peer[s] # {} /\ call[s] = <<>>
    /\ peer' = [peer EXCEPT ![s] = {}]
    /\ awaits' = awaits \ {s}
    /\ UNCHANGED <<runtime, endpoints, made, servers, db, lock, pending, values, call,
                   inner, committed, nested>>

\* The handshake ends or the reply is written, whenever the peer lets it: neither
\* has a timeout.
PeerReady(s) ==
    /\ s \in awaits
    /\ awaits' = awaits \ {s}
    /\ UNCHANGED <<runtime, endpoints, made, servers, peer, db, lock, pending, values, call,
                   inner, committed, nested>>

\* change_setting: the session applies a setting between two frames, so that there
\* is room in its channel; without a session the task applies it alone.
ApplySetting(s) ==
    /\ Polls(s) /\ pending[s] > 0
    /\ pending' = [pending EXCEPT ![s] = @ - 1]
    /\ UNCHANGED <<runtime, endpoints, made, servers, peer, db, lock, values, call,
                   awaits, inner, committed, nested>>

\* AuthorizationHandlerWrapper: a callback the application left out denies
Authorized(s, kind) == servers[s].kind = "authz" => kind \in Allowed

\* SessionTask::handle_frame: a request for a unit of the map, before the lock
ReceiveRequest(s) ==
    /\ Polls(s) /\ Reachable(s)
    /\ \E u \in Units, kind \in {"read", "write"} :
        /\ Authorized(s, kind)
        /\ servers[s].map[u] # None
        /\ Push(s, Frame(IF kind = "read" THEN "lock for read" ELSE "lock for write", s, u))
    /\ UNCHANGED <<runtime, endpoints, made, servers, peer, db, lock, pending, values,
                   awaits, inner, committed, nested>>

\* A frame that is not understood, or a request that is denied: only an error is
\* written
RejectFrame(s) ==
    /\ Polls(s) /\ Reachable(s)
    /\ Replies(s)
    /\ UNCHANGED <<runtime, endpoints, made, servers, peer, db, lock, pending, values, call,
                   inner, committed, nested>>

\* RequestHandlerWrapper::read_*: the points one after the other, under the lock
ReadPoint(s) ==
    /\ In(s, {"read"})
    /\ Len(values[s]) < Points /\ (values[s] # <<>> => Last(values[s]) # Absent)
    /\ values' = [values EXCEPT ![s] = Append(@, db[Handler(s)][Len(@) + 1])]
    /\ UNCHANGED <<runtime, endpoints, made, servers, peer, db, lock, pending, call,
                   awaits, inner, committed, nested>>

\* The reply is complete, or a point is missing (IllegalDataAddress): the guard is
\* dropped, and the session awaits io.write.
ReadDone(s) ==
    /\ In(s, {"read"})
    /\ Len(values[s]) = Points \/ (values[s] # <<>> /\ Last(values[s]) = Absent)
    /\ lock' = [lock EXCEPT ![Handler(s)] = None]
    /\ values' = [values EXCEPT ![s] = <<>>]
    /\ Pop(s)
    /\ Replies(s)
    /\ UNCHANGED <<runtime, endpoints, made, servers, peer, db, pending, inner, committed,
                   nested>>

-----------------------------------------------------------------------------
(* The runtime (generated from sfio-tokio-ffi): its tasks are dropped where they
   wait, with their sockets and channels; a callback that is running returns
   first.                                                                      *)
runtime_destroy(c) ==
    /\ c \in Apps /\ call[c] = <<>> /\ runtime = "up"
    /\ \A d \in Callers \ Apps : call[d] = <<>>
    /\ runtime' = "down"
    /\ awaits' = {}
    /\ peer' = [s \in Servers |-> {}] /\ pending' = [s \in Servers |-> 0]
    /\ UNCHANGED <<endpoints, made, servers, db, lock, values, call, inner, committed, nested>>

ApiStep(c) ==
    \/ \E u \in Units : device_map_add_endpoint(c, u)
    \/ device_map_destroy(c)
    \/ \E s \in Servers :
        \/ server_create_tcp(c, s) \/ server_create_rtu(c, s) \/ server_create_tls_impl(c, s)
        \/ server_destroy(c, s) \/ server_set_decode_level(c, s)
        \/ \E u \in Units : server_update_database(c, s, u)
    \/ runtime_destroy(c)

\* What the library and the callbacks do once they were called
InnerStep(c) ==
    \/ Configured(c) \/ Release(c) \/ SettingSent(c)
    \/ Acquire(c, "locking", "update")

SessionStep(s) ==
    \/ Acquire(s, "lock for read", "read") \/ Acquire(s, "lock for write", "write")
    \/ ReadPoint(s) \/ ReadDone(s)

ServerNext ==
    \/ \E c \in Callers :
        \/ ApiStep(c) \/ InnerStep(c)
        \/ database_add(c) \/ database_update(c) \/ database_delete(c)
    \/ \E s \in Servers :
        \/ Connect(s) \/ Disconnect(s) \/ PeerReady(s) \/ ApplySetting(s)
        \/ ReceiveRequest(s) \/ RejectFrame(s) \/ SessionStep(s)
=============================================================================
