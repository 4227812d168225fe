# rodbus: a TLA+ verification project

rodbus is a Modbus library in Rust on top of tokio: clients (TCP, TLS, RTU on
a serial line), servers (the same three transports), and bindings for C, C++,
Java and .NET. This directory models its own logic, the concurrent and
stateful part first, checks it with TLC on small instances and proves with TLAPS
the safety of the client, the readers, the encodings, the servers and the bindings
for every value of the constants.

Paths below are relative to `rodbus/src/` of the repository; those that begin with
`ffi/` are relative to its root.

## 1. Inventory of the system

| part | state | operations | talks to |
|---|---|---|---|
| Client handles: `Channel`, `CallbackSession`, `FfiChannel` (`client/channel.rs`, `client/ffi_channel.rs`) | a sender of the command queue | eight request methods, `enable`, `disable`, `set_decode_level`, drop | command queue (tokio mpsc); a promise per request brings the outcome back |
| `ClientLoop` (`client/task.rs`) with `Request`, `Promise` (`client/message.rs`, `client/requests/`) | receiver, `enabled`, `tx_id`, reader and writer, decode level | `wait_for_enabled`, `fail_requests`, `fail_requests_for`, `run` (`poll`, `run_cmd`, `run_one_request`, `execute_request`) | queue, connection, promises; driven by a channel task |
| TCP/TLS channel task (`tcp/client.rs`) | loop, retry strategy, listener | `run_inner`, `try_connect_and_run` | loop, host, listener |
| Serial channel task (`serial/client.rs`) | loop, retry strategy, listener | `run_inner`, `try_open_and_run` | loop, port, listener |
| Retry strategy (`retry.rs`) | current delay | `reset`, `after_failed_connect`, `after_disconnect` | channel tasks, RTU server |
| `FramedReader`, `ReadBuffer`, `MbapParser` (`common/frame.rs`, `common/buffer.rs`, `tcp/frame.rs`) | buffer with `begin` and `end`, parser state | `next_frame`, `read_some`, `parse`, `reset` | client loop, server session |
| RTU parser (`serial/frame.rs`) | parser state | `parse`, `length_mode` | as above |
| Server task and session tracker (`tcp/server.rs`, `server/mod.rs`) | sessions by id, decode level, settings and close channels | accept, evict, `change_setting`, stop | session tasks, `ServerHandle` |
| Session task (`server/task.rs`, `server/request.rs`, `server/handler.rs`) | handlers, authorization, decode level, reader, writer | `run_one`, `handle_frame` | handlers behind mutexes, peer |
| RTU server task (`serial/server.rs`) | session, retry strategy | `run`, `sleep_for` | port, `ServerHandle` |
| Ranges and encodings (`types.rs`, `common/serialize.rs`, `common/bits.rs`, `common/parse.rs`) | none, but iterators over a received body | check, pack, parse, iterate | request and response code |
| Frame writer (`common/frame.rs`) | a buffer of one largest frame | `format_request`, `format_reply` | client loop, server session |
| Address filter (`server/address_filter.rs`) | none | `matches`, `WildcardIPv4::from_str` | server task, before a session is added |
| Bindings, server half (`ffi/rodbus-ffi/src/server.rs`, `database.rs`) | device map, one database per endpoint behind its mutex, address filters, servers | `device_map_*`, `server_create_*`, `server_update_database`, `server_set_decode_level`, `database_*`, destructors | application callbacks, server tasks, runtime |
| Bindings, client half (`ffi/rodbus-ffi/src/client.rs`, `helpers/ext.rs`) | channel, a callback per request | `client_channel_*` | `FfiChannel`, application callbacks, runtime |
| Schema, generated code, lists and iterators of the C interface (`ffi/rodbus-schema`, `ffi/bindings`) | none of its own | conversions | the bindings |
| TLS configuration, physical layer, decode levels, command line client | none that outlives a call | configure, read and write, format | third-party code |

What is hard about it, and so what the properties are about (PROJECT.json lists
each hazard at its line):

* **select! and cancellation.** A task waits for the queue and for a frame, a
  timer, or a connection at once; the branch that loses is dropped. No command,
  promise or byte may be lost with it.
* **Late and repeated answers.** A response can arrive after its request timed
  out. MBAP tells by the transaction id, which wraps; RTU cannot tell at all.
* **Settings at the wrong moment.** A channel can be disabled and enabled again
  while its task connects, waits, or executes a request.
* **Failure in the middle.** Each step of a request may fail; whether the
  request's promise, the session, or both end is decided in three functions.
* **Liveness.** A caller waits for every promise; dropping a handle must end
  tasks wherever they wait; TLS handshakes and writes have no timeout, on either
  side.
* **Limits.** Queue, session limit, per-session channels, read buffer.
* **Sharing.** Sessions of several servers execute requests on the same
  handlers.
* **Finding frames.** RTU has no length field and the code no notion of silence:
  the parser finds the end of a frame from its first bytes, right or wrong.
* **Edges.** Ranges that end at 65535, byte counts in a `u8`, frames at the
  largest size, counted on one side and iterated on the other.
* **Callbacks.** The library calls the application with a mutex held and the
  application calls the library from callbacks, on threads where blocking is
  refused, while a runtime may be destroyed.

## 2. The modules

| module | models | extends |
|---|---|---|
| `RequestService` | abstract: what a channel promises the caller of a request | |
| `ClientLoop` | handles, queue and `ClientLoop`, with any owner | |
| `Doubling` | `retry.rs` | |
| `TcpChannel` | `tcp/client.rs` | `ClientLoop`, `Doubling` |
| `SerialChannel` | `serial/client.rs` | `ClientLoop`, `Doubling` |
| `FramedReader` | reader, buffer and MBAP parser, byte by byte | |
| `TcpServer` | `tcp/server.rs`: server task, tracker, session tasks | |
| `ServerSession` | `handle_frame` of several sessions with shared handlers | |
| `RtuServer` | `serial/server.rs` beside TCP sessions | `ServerSession`, `Doubling` |
| `RtuLine` | `serial/frame.rs`: the RTU parser over the read buffer and a faulty line | |
| `Pdu` | ranges, limits, request and response bodies as bytes | |
| `Exchange` | one request from the API call to the handler and back, as bytes | `Pdu` |
| `AddressFilter` | `server/address_filter.rs` and how the bindings build one | |
| `FfiServer` | server half of the bindings | `AddressFilter` |
| `Ffi` | client half, and both on one runtime | `FfiServer` |
| `ClientLoop_proofs`, `TcpChannel_proofs`, `SerialChannel_proofs`, `FramedReader_proofs`, `Frames_proofs` (`RtuLine` and `Exchange`), `TcpServer_proofs`, `RtuServer_proofs`, `Ffi_proofs` | inductive invariants and theorems | the module they are about |
| `MCClientLoop`, `MCTcpChannel`, `MCSerialChannel`, `MCRtuServer`, `MCExchange`, `MCFfi` | instances for TLC | |

Definitions whose comment begins with "Mutant of" are the altered versions that
show that a property can fail; no specification uses them.

### ClientLoop

`queue` is the mpsc channel together with the senders that wait for room: its
first `Capacity` commands are in the channel. `loop` says which method of
`ClientLoop` the owner is in, or what the last one returned; `current` and
`written` are the locals of `run_one_request`. `result[r]` is what the caller
of `r` knows. `peer`, `wire` and `buffer` are the device, the bytes on their way
(whole frames) and the frames in the read buffer: `NextFrames` says that a read
may bring several frames, of which all but the first stay in the buffer, also
over a reconnect, since the reader belongs to the loop. `issued`, `serial`,
`txOf`, `sent` and `answer` are history.

One action per branch of the code: `FailNextRequest`/`FailNextSetting` are
`fail_next_request`; `PollSetting` and `StartRequest` are `run_cmd`;
`WriteRequest`, `SkipFrame`, `HandleResponse`, `ResponseTimeout`, `ReadBadFrame`
and `IoFails` are the ways through `execute_request` and their treatment in
`run_one_request`; `DropUnexpected` is the frame branch of `poll`.
`Drop` is the end of the task, or of its future anywhere, which completes every
promise it holds with `Shutdown` (`Drop for Promise`). `Cancel` is the other
branch of a `select!` that wins. Which method is called when is the owner's:
`LoopSpec` lets it be any, as long as `run` is called only when enabled, and
`TcpChannel` and `SerialChannel` are shown to implement `LoopSpec`.

Data: a request is a model value with a function code and a quantity (what the
response parser compares), a response is data, an exception, malformed (a PDU
the response parser refuses) or corrupt (a frame the framing layer refuses).

### TcpChannel, SerialChannel, Doubling

`task` is the place in `run_inner`, `listener` the state last reported,
`retry` the strategy's current delay. The TCP task passes `handshake` after
`connect`; without TLS (`Tls = FALSE`) it passes at once and cannot fail there. While the
task is in `handshake`, or writes a request, no queue is polled, as in the code.

### FramedReader

A byte is its place: connection, frame, position, and the ADU length its frame
announces. The parser reads lengths from the bytes it is given; header bytes
that do not belong together announce any length. `Adjusted` is the code's two
adjustments of `begin` and `end`, the second with the condition as written.
`Capacity` is one largest frame, as in the code. `reused` is TRUE for client
channels, which keep their reader over connections, and FALSE for TCP sessions,
which have one each; `clean` says that every connection so far ended between two
frames.

### TcpServer

`sessions` is the tracker's map, `inbox[id]` a session's command channel, `closed`
the `SessionClose` channel. A session is in its TLS handshake, serving (in the
`select!` of `run_one`), writing (`HandleFrame`: in `handle_frame`, awaiting
`io.write`), closing (`run_session` returned, `notify_close` is being sent) or ended.
In the handshake and while it writes it does not poll its command channel, so
that neither a setting nor the end of the channel reaches it (`CommandStep` needs
`serving`), and only the peer or an error ends either (`ReplyWritten`,
`SessionFails`, `HandshakeOk`, `HandshakeFails`).

### ServerSession, RtuServer

`pc[s]` is where `handle_frame` is: `locking` and `executing` are inside
`get_reply` or `BroadcastRequest::execute`, `writing` is `io.write`. Points are read
and written one by one, so that the mutex matters. A session writes its own
name into every point. `executed` and `replies` count what happened to the request
in `request[s]`. `RtuServer` adds the task that opens the port, and lets the other
sessions, of a TCP server with the same handlers, start and end at any time.

### RtuLine

`parser` is `RtuParser.state` with the unit id that is already consumed, `begin` and
`data` the read buffer, `stream` the line. A byte is again its place, so that a
byte that is looked at out of place may be any function code and any byte count
(`ModesOf`, `CountsOf`), and a CRC matches exactly the bytes it was computed over.
`ParseStart`, `ParseLength`, `ParseTooBig` and `ParseBody` are the states of `parse`,
`ReadSome`, `ReadNothing` and `ReadFails` the ways through `read_some`. The line drops
a byte or adds one, the port fails and is opened again with the same reader, as
`SerialChannelTask` and the RTU server do. `Peek` has the off-by-one of `peek_at`: an
index equal to the length gives a byte of an earlier frame. `returned` is history: the
frames that `next_frame` returned, in order. A frame of the peer that is longer than an
ADU counts as a fault.

### Pdu, Exchange

`Pdu` holds the pure part: `InvalidRange` (`AddressRange::try_from`), `limited_count`,
the packing of bits and registers, `Serialize` and `Matches` of the client,
`Parses`, `Written` and `ReadReply` of the server, `Formats` for what fits the frame
writer. `Exchange` takes one call through all of them, over either transport, with
the library's server or another vendor's device at the other end, and the server
also with another master's requests, which need not be well formed. The
reference the results are compared with is the call itself: the addresses it
named and the points the handler has. What is outside of the library is a
constant: the values a caller writes (`Value`), the points of a handler (`Point`) and
where in a read it refuses (`Refusals`), the answers of another device (`Answers`) and
the requests of another master (`Bodies`). `checked` says whether the build checks
arithmetic: `AddressIterator` then panics on the last address of a range that ends
at 65535, with the handler's mutex held, which poisons it.

### AddressFilter, FfiServer, Ffi

`call[c]` is the stack of calls a thread or a task is in: a thread of the
application that is in `server_update_database` is in `locking`, then in the
application's `update` callback, from which it may call the API again. Sessions and
the channel's task are callers too, on threads where tokio refuses `block_on`
(`WithinAsync`). The application keeps the contract of a C interface: nothing is
used after it was destroyed, and only a server's databases from two threads at
once. Each `server_create_*`, `server_update_database`, `device_map_*`, `database_*` and
`client_channel_*` function is an action or, where it waits or calls back, a few:
up to the wait, after it, and the return of the callback. `committed` is history:
a database as the last callback that ended left it. `nested` records that a call
that may wait was made with a database locked, which the code cannot survive. `awaits`
holds the sessions and the channel's task that wait for their peer: in a TLS
handshake (`Connect`), in the write of a reply (`Replies`: `Release`, `ReadDone` and
`RejectFrame` of a TCP session) or, with a request to complete, in a handshake or a
write of the client (`TaskAwaits`). Meanwhile a session applies no setting and takes no request
(`Polls`), and the channel's task calls nobody back (`Complete`); `PeerReady`,
`Disconnect` and `TaskGoesOn` end the wait.

## 3. The runs

| run | checks | instance | distinct states |
|---|---|---|---|
| `loop_mbap` | `LoopTypeOK`, `PendingOwned`, `RunsOnlyEnabled`, `OwnAnswer`, `OneTransaction`, `ServiceSpec` | 3 requests (symmetric), 2 transaction ids, queue of 1 and a waiting sender | 1,469,270 |
| `tcp` | `Backoff`, `LoopSpec`, `ClientStateOrder`, `Completes`, `Terminates`, `KeepsTrying` | 2 requests, one of which cannot be formatted, TLS, delays 2, 4, 7, 7 | 84,663 |
| `serial` | `MixupNeedsFailure`, `LoopSpec`, `PortStateOrder`, `Finishes` | 2 requests and a refused one | 472,958 |
| `reader` | `WholeFrames`, `RoomForOneFrame`, `FramesInOrder`, `AllReturned` | header 2, ADU up to 2, 3 frames, 2 connections, reader kept or not | 116,452 |
| `server` | `SettingsReach`, `EvictsOldest`, `ForgottenEnds`, `ReturnsToSelect`, `DropStops` | limit 2, 3 connections with TLS, channels of 1 | 263,168 |
| `rtu_server` | `NoTornRead`, `ExecutedOnce`, `AnsweredOnce`, `HandlersAreFreed`, `Terminates` | RTU and TCP session, 2 units of 2 points, one unmapped unit id | 249,160 |
| `exchange` | `ReadsAreExact`, `WritesAreExact`, `FormattedIsServed`, `HandlerSurvives` | every function, addresses 0, 65534 and 65535, counts around every limit, real sizes | 27,513 |
| `rtu_line` | `EachFrameOnce`, `PeeksInside`, `InSyncReturns` | requests or responses of every length mode, 3 frames, one fault, ADU up to 8 | 497,259 |
| `ffi` | `ReadsCommitted`, `CalledBackOnce`, `CallsReturn` | one application thread, one server (TCP, RTU or TLS with authorization) with a session, one endpoint of 2 points, one request, one call from a callback | 154,860 |

All of them pass. `CHECK_DEADLOCK FALSE` is set because these systems may stop: a
task that ended, or an application that does nothing more.

**Why the bounds are enough.** `TxMod = 2` with three requests makes ids wrap and
a response meet a request a cycle younger; larger cycles are covered by the
theorem `AnswersAreOwn`. `Capacity = 1` and `MaxBacklog = 2` give a full queue, a
waiting sender and a refused `try_send`. `MaxFailures = 4` passes the delay limit
twice. In `reader` the frames of 2 to 4 bytes in a buffer of 4 reach every
alignment of a frame with the end of the buffer. `exchange` needs no scaling: the
counts are those around 8 bits, 123 to 128 registers, 2000 coils, 255 bytes and
the largest frame. In `rtu_line` one fault puts the parser at any offset of the
next two frames, a stray byte count is a small one or one past the limit, and
the buffer of 15 bytes holds one largest frame, as in the code. In `ffi` one
call from a callback is enough for each pair of a callback and a call. Three connections with a limit
of 2 evict; channels of capacity 1 fill up after one message. One RTU and one TCP
session suffice to interleave two executions on one handler.

**Fairness.** A task that can go on does (WF), timers fire, a TCP connect ends one
way or the other, handlers and the application's callbacks return. A branch of
`select!` that is ready again and again is taken (SF): tokio polls the branches in
random order, also in the `select!` of a session whose peer never stops sending. A
mutex that is released again and again is acquired (SF). A serial port takes what
is written to it. Never assumed: that the device answers, that the application
does anything, that a TCP peer reads what is written to it or ends a TLS
handshake. Handshakes and writes have no timeout in the code, on either side, and
while a task awaits one it looks at nothing else. No fairness is therefore given to
`HandshakeOk` (but without TLS, where it returns at once), `WriteRequest` over TCP,
`ReplyWritten`, `PeerReady` or `TaskGoesOn`, and the properties
that depend on them carry the exception as a premise, no larger than needed:

| property | holds unless |
|---|---|
| `Completes`, `Terminates` (`tcp`) | the task is `Stalled` for ever: in one TLS handshake or one write |
| `ForgottenEnds` | the session itself is `Stalled` for ever: in its handshake or in the write of a reply; other sessions and the server do not matter |
| `ReturnsToSelect`, `DropStops` | the server is `Blocked` for ever: it awaits room in the full channel of a session that is `Stalled` |
| `CallsReturn` | that calls return: a server's session is in `awaits` for ever; that accepted requests are called back: the channel's task is; and both: a call that may wait was made with a database locked (`nested`) |

`KeepsTrying` and `HandlersAreFreed` need no such condition. The exceptions are real:
without the premise TLC finds the behaviour in which the peer stalls the task
(`tcp_handshake` is one of them). In `ffi` a callback makes finitely many calls
(`MaxInner`), so that it returns; the calls themselves need not happen.

### Disagreements between code and text

| run | property | what TLC shows |
|---|---|---|
| `reader_shift` | `ShiftsAtCapacity` | `read_some` means to shift the bytes it holds to the front when the buffer is full, but its condition `end == len()` holds only when `begin` is 0. With frames that are read together the read gets an empty slice, returns 0, and the session ends with `UnexpectedEof`. `RoomForOneFrame` shows that it cannot happen with one frame in flight. |
| `tcp_handshake` | `FailsWhileConnecting` | While a TLS handshake hangs, requests stay pending, although the state reported is Connecting. |
| `ffi_filter` | `FilterLimits` | `server_create_tls` ignores its filter: without an authorization handler the TLS server gets `AddressFilter::Any`, and a peer that the filter does not match connects. |

Met while modelling, without a run of their own:

* An I/O error in the middle of a frame does not reset the parser
  (`common/frame.rs:461`), and client channels and the RTU server read the next
  connection with it. `WholeFrames` and the other properties of `FramedReader` therefore
  need `clean`; `EachFrameOnce` shows that over RTU frames come out once and in order
  even so.
* An evicted session in its TLS handshake (`tcp/server.rs:241`) or in the write of a
  reply (`server/task.rs:218`) lives on until its peer ends it, so the guide's session limit is one of the tracker and
  not of connections.
* A request that cannot be parsed, or is denied, is answered before the unit id
  is looked up, also for units the server does not have (`server/task.rs:170`).
* Without silence between frames what is left in the buffer after an error is
  the start of the next frame. `InSyncReturns` shows that an RTU reader returns
  the next frame when it meets it at its start; nothing brings it back there. A
  reader whose buffer ends at its capacity fails with `UnexpectedEof` each time it
  is used again, by the same condition as in `reader_shift`.
* `MAX_WRITE_COILS_COUNT` and `MAX_WRITE_REGISTERS_COUNT` are used nowhere. Over MBAP
  the frame writer is the limit (1976 coils), over RTU a write may be formatted
  that is longer than the ADU the server's parser accepts (`FormattedIsServed` has
  the exact exception).
* Request methods of the bindings that are refused after the callback was
  wrapped both call it and return an error (`CalledBackOnce`).
* A device map is empty after a server could not be created from it.
* `write_single_coil` of the bindings answers `IllegalDataAddress` whatever exception
  the application chose.
* `server_update_database` from a callback that holds the same database waits
  forever (`nested`).
* `ServerHandle` says that "The task is shutdown when the handle is dropped", and a
  comment in `change_setting` that the server would not want to await a session
  (`tcp/server.rs:147`). It awaits each send, to a channel of 8 that a session in a TLS
  handshake or in the write of a reply does not read. A peer that stalls its session
  while settings are changed so keeps the server task from accepting and from
  stopping (`Blocked`); `ReturnsToSelect` and `DropStops` show that nothing else does.
* `spawn_tcp_client_task` says that "The task completes when the returned channel
  handle is dropped". On a connection whose server has stopped reading and whose
  socket buffer is full, `io.write` of a request waits (`client/task.rs:201`), before
  the request's deadline is set and without a look at the queue: until the
  connection fails the task does not end and its requests stay pending (`Stalled`).
* The guide says that a serial channel opens its port as soon as it is created,
  the code waits for `enable`. The documentation of `RequestHandler` promises
  `IllegalDataAddress` for a range that overflows, `handle_frame` answers
  `IllegalDataValue`.

## 4. The proofs

Assumptions are only those on the constants, named in the module that declares
them. Sets of requests, sessions, callers and handlers, capacities, frame sizes,
limits and bounds are arbitrary; what is assumed is that they are of their type
and that names are told apart:

* `ClientAssumption`, `CommandsDisjoint`: a request is no setting and `NoRequest` is
  neither.
* `DelayAssumption`, `TcpAssumption`: two delays, in any order; the history variable
  `failures` counts far enough to see the delay reach its limit
  (`MaxDelay <= MinDelay * 2^(MaxFailures - 1)`, or no delay at all). This is about
  the history's bound, which can be chosen for any two delays.
* `SessionAssumption`, `FreeAssumption`: finitely many units, `Free` is no session.
* `FfiServerAssumption`, `FfiAssumption`: threads, servers and the channel's task are
  different callers, `None` is none of the things it stands beside, a setting is
  no request.
* `ExchangeAssumption`, `ValueAssumption`, `BodiesAssumption`: addresses are `u16` and counts
  are numbers, callers and handlers have `bool` and `u16` values, as the types of the
  API say, and another master sends bytes. The answers of another device are
  not restricted at all.
* `ReaderAssumption`, `RtuAssumption`, `ServerAssumption`: sizes are numbers; an RTU ADU
  may have 8 bytes, the length of a request without a byte count.

Each invariant below was checked by TLC before it was proved. The theorems named
`...Invariant` prove it; the others read a property off it.

### The client: `ClientLoop_proofs`

* `TypeCorrect`: `LoopSpec => []LoopTypeOK`.
* `Ownership`: `LoopSpec => []PendingOwned`. It is inductive together with the
  type invariant: every action moves a request from one owner to the next or
  completes it.
* `TxInvariant`, `AnswersAreOwn`: `LoopSpec => []OwnAnswer`. `OwnAnswer` says nothing
  of the responses still on their way, so it is strengthened to `TxInv`: a request
  takes one id when it leaves the queue and the current one is the youngest
  (`SerialInv`); frames carry the id of the request they answer (`FrameInv`); the
  next id is the id of any of the last `TxMod - 1` requests plus their distance,
  modulo the cycle (`CycleInv`), so ids of requests less than a cycle apart differ
  (`DistinctInv`), which is what makes a frame with the current id either the
  answer or a cycle old (`AnswerInv`).
* `SessionsAreEnabled`: `LoopSpec => []RunsOnlyEnabled`.
* `ServiceSteps`, `ImplementsService`: `LoopSpec => ServiceSpec`. Each action is a
  step of `RequestService` or a stutter; the invariant that is needed is `SentInv`:
  what was sent and is pending is what `execute_request` waits for, so that a
  request is never sent twice and fails with the right kind of error.
* `LateInvariant`, `TransactionsAreSingle`, `MixupsNeedFailures`:
  `LoopSpec => []OneTransaction` and `LoopSpec => []MixupNeedsFailure`. Both are about
  what a request that is over has left on the wire, in the read buffer or with the
  device, which neither mentions. `OnceInv` says that this is at most one of a
  request waiting at the device and one frame, of a request that was sent;
  `LeftInv` that it goes back to a request that failed, the one it belongs to or an
  older one: a request that is completed by a late response leaves its own
  response behind, and so passes the blame on. `MixupsNeedFailures` needs no
  assumption on the transport.

### The channels: `TcpChannel_proofs`, `SerialChannel_proofs`

* `DrivesLoop`: the channel's `Spec` implements `LoopSpec`. The one obligation
  that is not a matter of form is that `run` is called only when enabled, which
  needs `EnabledInv` (TCP): the task connects and shakes hands only while the
  channel is enabled and nothing has disabled it since.
* `ChannelServes`: so what is proved of `LoopSpec` holds of the channels.
* `StatesInOrder`: the listener's states follow each other as `ClientStateOrder`
  and `PortStateOrder` say, from `ListenerInv`: the state last reported tells
  where the task is.
* `RetryInvariant`, `DelaysDouble`: `Spec => []Backoff`, with `RetryInv`: the strategy's
  current delay is ahead of the last wait by one doubling. The prover has no laws
  of powers; `PowerOfTwo` gets `2^(n+1) = 2 * 2^n` from the number of subsets of
  `1..n+1` (`FS_SUBSET`, which the prover's library states).

### The readers: `FramedReader_proofs`, first part of `Frames_proofs`

* `ReaderInvariant`, `WholeFramesAlways`, `FramesInOrderAlways`,
  `RoomForOneFrameAlways`. The invariant speaks of `Pending`, the bytes in the
  buffer followed by those of the stream: they are a chain (`Chain`), each byte
  followed by its successor in its frame or by the first byte of the next frame,
  and the chain starts where the parser stands (`Expected`). `ParseHeader` and
  `ParseBody` take a prefix of the chain, which is therefore the header or the body
  of one frame, the next one; a read moves the border between buffer and stream
  and leaves the chain as it is. The invariant is claimed for `clean` connections
  only, since that is what an error within a frame breaks. For the room in the buffer
  `OneAtATime` adds that with one frame in flight the first byte held lies in the
  buffer at an offset below its position in the frame, so that what is left of the
  frame fits behind it: the missing shift of `read_some` cannot matter.
* `LineInvariant`, `EachFrameOnceAlways`, `PeeksInsideAlways`. On a faulty line nothing is
  true of the place where the parser stands, so `OrderInv` is about the bytes not
  parsed yet (the unit id the parser holds, the buffer, the line): the first bytes of
  frames among them are in the order of their frames and later than every frame
  that was returned. Dropping a byte, adding noise and parsing in the wrong place
  keep this, and a frame that is returned takes its first byte with it. `CleanInv` is
  about a line without faults: what is not parsed yet is nothing (`Idle`) or the rest of
  exactly one frame (`InFlight`), from where the parser is in it, with the length
  the parser has found so far and with `begin` where it leaves room for the rest; so no
  step of the parser can fail and each frame is returned. It is here that the length
  rules, the reset, and the rewinding of the buffer are needed. `PeeksInside` is
  inductive with the type invariant: each state of the parser was entered with
  the bytes it looks at.

### Requests and replies as bytes: second part of `Frames_proofs`

* `ExchangeInvariant`, and from it `ReadsAreExactAlways`, `WritesAreExactAlways`,
  `FormattedIsServedAlways`, `HandlerSurvivesAlways`: for any
  values and points, any addresses and counts, any refusals of the handler, and
  any frames of other devices and masters.
* The round trip needs no induction, as packing is defined byte by byte and
  unpacking value by value. `PackedBytes` says that the digits of the k-th packed byte
  are the eight bits it was made from, `PackedRegisters` the same of words,
  `ItemsOfPacked` that iteration gives the values back. `TwoWords` and `BehindTheWords`
  take a body apart into address, count or value, and data. `ReadRequest`,
  `SingleRequest` and `MultipleRequest` put them together for each kind of request: the
  server parses what the client serialized and gives its handler what was
  written. `AcceptedRange` is what the API's checks are for: a call that is not
  refused has a count in a `u16` and ends at 65535 at the latest.
* `ExchangeInv` carries these facts from step to step: the body on the wire is the
  serialized call, which the API accepted and which fits the frame (`RequestInv`); a
  handler was given what the server parsed from it (`AppliedInv`); until the client
  takes it, a reply of the server is an exception, the call's points, or an echo after
  the handler was called (`ReplyInv`); and what the call ended with (`OutcomeInv`). Each
  part is needed for the next one, since by the time the caller is answered
  nothing but the reply tells what the handler did. `FormattedIsServed` and
  `WritesAreExact` follow from it with the lemmas on the three kinds of request.

### The servers: `TcpServer_proofs`, `RtuServer_proofs`

* `ServerInvariant`, `SettingsReachAlways`, `EvictsOldestAlways`. The invariant has the
  tracker within its limit (`WithinLimit`), ids of the tracker below the next id and
  sessions beyond it untouched (`FreshIds`), and `closed` naming sessions that ended
  (`ClosedEnded`): without the last, a late `SessionClose` could remove the sender of
  a running session. That the level last in a session's channel is the server's
  is kept because the server is not back in its `select!` before it was sent to all;
  a session that waits for its peer keeps it in its channel.
* `SessionInvariant`, `NoTornReadAlways`, `ExecutedOnceAlways`, `AnsweredOnceAlways`, for
  any number of sessions beside the RTU task. `MutexInv` says that a mutex is held
  exactly by the session that executes on its handler; `PointsInv` what a handler
  looks like while nobody holds it, while it is read and while it is half written;
  `CountInv` which handlers have executed the request by now, in terms of those
  still to be asked; `ReplyInv` that a reply being written is the first and is due;
  `BusyInv` what a session that executes has found in its frame.

### The bindings: `Ffi_proofs`

* `FfiInvariant`, `ReadsCommittedAlways`, `CalledBackOnceAlways`, for any number of
  threads, servers and endpoints and callbacks nested to any depth. The invariant is
  about every frame of every caller's stack, not only the top: `FramesInv` (all but
  the top are callbacks, and each works on a server and an endpoint that exist),
  `MutexInv` (of all frames of all stacks at most one works under each mutex, and
  it belongs to the caller the mutex says), `CommittedInv` (a database differs from the
  committed one only while a transaction on it is on some stack) and `MapsInv` (an
  endpoint that is being configured is in no map, which is why it needs no
  mutex). `ReadsCommitted` follows: a session that reads holds the mutex, so no
  transaction is on a stack, so what it reads is committed. `QueueInv` and
  `CalledBackOnce` are inductive together: a request is in the queue at most once.

### Only model-checked

Every invariant, action property and refinement of the runs is proved. Left to
TLC is everything with `~>` or fairness, which the prover does not handle: `Completes`,
`Terminates`, `KeepsTrying`, `Finishes`, `AllReturned`, `InSyncReturns`, `ForgottenEnds`,
`DropStops`, `ReturnsToSelect`, `HandlersAreFreed`, `CallsReturn`.

## 5. What is not modelled

* Logging, decode formatting, `Display`, and the values of exception codes beyond
  what decides whether a response is accepted: no property is about them.
* Partial frames in `ClientLoop`: it sees whole frames; `FramedReader` and `RtuLine`
  have the bytes. What a partial frame of an old connection does to the next one
  is only seen there, so the theorems on the client are about streams that are
  cut between frames or readers that are reset.
* The polynomial of the CRC: a library call, taken to match what it was computed
  over and nothing else. The delay between characters on a serial line is time,
  which no property is about.
* A panic in an application's handler, which poisons its mutex as the one in
  `AddressIterator` does (`Exchange`).
* TLS configuration, certificates, name resolution, socket and port options:
  third-party code behind steps that succeed or fail.
* Text of addresses digit by digit: a filter's text is the sequence of its parts.
* Of the bindings: conversions of enums and errors, the lists and iterators of the
  C interface, the port state and client state listeners (calls without state),
  the schema and the code generated from it for C++, Java and .NET.
* The command line client and the examples, which use one channel from one task.

## 6. Plan

1. Done: client loop and channels, readers for MBAP and RTU, TCP server and
   tracker, sessions and RTU server, ranges and encodings, address filter, the
   bindings' servers and requests; theorems for every safety property that the
   runs check.
2. `DrivesLoop` for the TCP channel with the `FramedReader` in place of `wire` and
   `buffer`: the composition of reader and loop over connections that end within
   a frame.
