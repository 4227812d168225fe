--------------------------- MODULE ServerSession ---------------------------
(***************************************************************************)
(* What the sessions of a server do with the frames they read                *)
(* (SessionTask::handle_frame in rodbus/src/server/task.rs and Request in     *)
(* rodbus/src/server/request.rs): parse, authorize, execute on the handlers  *)
(* and reply.  The handlers are the application's, shared by all sessions    *)
(* behind a mutex each; here a handler is a table of points.                 *)
(*                                                                          *)
(* A request reads or writes all points of its unit, a session writes its    *)
(* own name; what else a frame may hold is its kind.                         *)
(***************************************************************************)
EXTENDS Naturals, Sequences, FiniteSets, FiniteSetsExt

CONSTANTS
    Sessions,     \* the sessions that may run
    RtuSessions,  \* those on a serial line, the others are TCP or TLS
    Units,        \* the unit ids of the ServerHandlerMap
    Others,       \* unit ids that are not in it
    Points,       \* number of points of a handler, addresses 1..Points
    Denied        \* <<session, unit id, kind>> that the AuthorizationHandler denies

UnitIds == Units \cup Others \cup {0}

ASSUME SessionAssumption ==
    /\ RtuSessions \subseteq Sessions
    /\ Units \subseteq Nat /\ Others \subseteq Nat /\ Units \cap Others = {}
    /\ IsFiniteSet(Units)
    /\ Points \in Nat \ {0}
    /\ Denied \subseteq (Sessions \ RtuSessions) \X UnitIds \X {"read", "write"}

\* FrameDestination; UnitId::broadcast() is 0, and only RTU has broadcasts
Destinations(s) ==
    IF s \in RtuSessions
    THEN [broadcast: {FALSE}, unit: (Units \cup Others) \ {0}]
            \cup {[broadcast |-> TRUE, unit |-> 0]}
    ELSE [broadcast: {FALSE}, unit: Units \cup Others]

\* What handle_frame finds in a frame.  The RTU parser refuses frames that are
\* empty or have an unknown function code.
Kinds(s) ==
    IF s \in RtuSessions
    THEN {"malformed", "read", "write"}
    ELSE {"empty", "unknown", "malformed", "read", "write"}

Requests == [dest: [broadcast: BOOLEAN, unit: UnitIds],
             kind: {"empty", "unknown", "malformed", "read", "write"}]
NoRequest == [dest |-> [broadcast |-> FALSE, unit |-> 0], kind |-> "empty"]

\* Replies: the values read, the echo of a write, or an exception
NoReply == [type |-> "none", values |-> <<>>]
Data(values) == [type |-> "data", values |-> values]
Echo == [type |-> "echo", values |-> <<>>]
Exception(code) == [type |-> code, values |-> <<>>]
HandlerCode == "IllegalDataAddress"
ReplyTypes == {"none", "data", "echo", "IllegalFunction", "IllegalDataValue", HandlerCode}

Free == "free"
Initial == "initial"
Values == Sessions \cup {Initial}

ASSUME FreeAssumption == Free \notin Sessions

VARIABLES
    table,    \* table[u][a]: the value of point a of the handler of unit u
    lock,     \* lock[u]: the session that holds the handler's mutex, or Free
    pc,       \* pc[s]: where the session's task is
    request,  \* request[s]: the request it handles or handled last
    todo,     \* todo[s]: the units it still has to execute it on
    values,   \* values[s]: what the serializer has read so far
    at,       \* at[s]: the point a write has reached
    reply,    \* reply[s]: the reply in the FrameWriter's buffer
    \* history variables, about request[s]
    executed, \* executed[s][u]: how often handler u was asked to execute it
    replies   \* replies[s]: the replies that were written

sessionVars == <<table, lock, pc, request, todo, values, at, reply, executed, replies>>

PCs == {"ended", "idle", "locking", "executing", "writing"}

SessionInit ==
    /\ table = [u \in Units |-> [a \in 1..Points |-> Initial]]
    /\ lock = [u \in Units |-> Free]
    /\ pc = [s \in Sessions |-> "ended"]
    /\ request = [s \in Sessions |-> NoRequest]
    /\ todo = [s \in Sessions |-> {}]
    /\ values = [s \in Sessions |-> <<>>]
    /\ at = [s \in Sessions |-> 0]
    /\ reply = [s \in Sessions |-> NoReply]
    /\ executed = [s \in Sessions |-> [u \in Units |-> 0]]
    /\ replies = [s \in Sessions |-> 0]

Goto(s, where) == pc' = [pc EXCEPT ![s] = where]

-----------------------------------------------------------------------------
(* The life of a session *)

\* The owner calls run on a fresh connection or port.
Start(s) ==
    /\ pc[s] = "ended"
    /\ Goto(s, "idle")
    /\ request' = [request EXCEPT ![s] = NoRequest]
    /\ executed' = [executed EXCEPT ![s] = [u \in Units |-> 0]]
    /\ replies' = [replies EXCEPT ![s] = 0]
    /\ UNCHANGED <<table, lock, todo, values, at, reply>>

\* run_one: next_frame fails, or the command channel is closed
End(s) ==
    /\ pc[s] = "idle"
    /\ Goto(s, "ended")
    /\ UNCHANGED <<table, lock, request, todo, values, at, reply, executed, replies>>

-----------------------------------------------------------------------------
(* handle_frame up to the execution *)

\* Mutant of reply_with_error: broadcasts are answered too.
AnswersBroadcast(s, r, code) ==
    /\ Goto(s, "writing")
    /\ reply' = [reply EXCEPT ![s] = Exception(code)]

\* reply_with_error_generic: no answer to a broadcast
reply_with_error(s, r, code) ==
    IF r.dest.broadcast
    THEN UNCHANGED <<pc, reply>>
    ELSE Goto(s, "writing") /\ reply' = [reply EXCEPT ![s] = Exception(code)]

\* is_authorized; a role is what the session's client certificate holds
Authorized(s, r) == <<s, r.dest.unit, r.kind>> \notin Denied

\* Mutant of Targets: a broadcast is executed by the first handler.
FirstHandler(r) ==
    IF r.dest.broadcast
    THEN IF r.kind = "write" THEN {Min(Units)} ELSE {}
    ELSE {r.dest.unit} \cap Units

\* The handlers a request is executed on: every one for a write that was
\* broadcast (into_broadcast_request), else the one of its unit id, if mapped.
Targets(r) ==
    IF r.dest.broadcast
    THEN IF r.kind = "write" THEN Units ELSE {}
    ELSE {r.dest.unit} \cap Units

Dispatch(s, r) ==
    \/ /\ r.kind = "empty"
       /\ UNCHANGED <<pc, reply, todo>>
    \/ /\ r.kind = "unknown"
       /\ reply_with_error(s, r, "IllegalFunction")
       /\ UNCHANGED todo
    \/ /\ r.kind = "malformed"
       /\ reply_with_error(s, r, "IllegalDataValue")
       /\ UNCHANGED todo
    \/ /\ r.kind \in {"read", "write"} /\ ~Authorized(s, r)
       /\ reply_with_error(s, r, "IllegalFunction")
       /\ UNCHANGED todo
    \/ /\ r.kind \in {"read", "write"} /\ Authorized(s, r)
       /\ todo' = [todo EXCEPT ![s] = Targets(r)]
       /\ IF Targets(r) = {} THEN UNCHANGED pc ELSE Goto(s, "locking")
       /\ UNCHANGED reply

\* run_one: a frame arrived
HandleFrame(s) ==
    /\ pc[s] = "idle"
    /\ \E d \in Destinations(s), k \in Kinds(s) :
        LET r == [dest |-> d, kind |-> k] IN
        /\ request' = [request EXCEPT ![s] = r]
        /\ Dispatch(s, r)
    /\ executed' = [executed EXCEPT ![s] = [u \in Units |-> 0]]
    /\ replies' = [replies EXCEPT ![s] = 0]
    /\ UNCHANGED <<table, lock, values, at>>

-----------------------------------------------------------------------------
(* Execution: the handlers are asked one after the other, in the order of
   their unit ids, each under its mutex. *)

Handler(s) == Min(todo[s])

LockHandler(s) ==
    /\ pc[s] = "locking"
    /\ lock[Handler(s)] = Free
    /\ lock' = [lock EXCEPT ![Handler(s)] = s]
    /\ Goto(s, "executing")
    /\ executed' = [executed EXCEPT ![s][Handler(s)] = @ + 1]
    /\ UNCHANGED <<table, request, todo, values, at, reply, replies>>

\* Mutant of GetValue: the mutex is locked for each point.
LocksEachPoint(s) ==
    /\ pc[s] = "executing" /\ request[s].kind = "read"
    /\ lock[Handler(s)] \in {s, Free}
    /\ Len(values[s]) < Points
    /\ values' = [values EXCEPT ![s] = Append(@, table[Handler(s)][Len(@) + 1])]
    /\ lock' = [lock EXCEPT ![Handler(s)] = Free]
    /\ UNCHANGED <<table, pc, request, todo, at, reply, executed, replies>>

\* BitWriter and RegisterWriter call the getter for one address after the other.
GetValue(s) ==
    /\ pc[s] = "executing" /\ request[s].kind = "read"
    /\ Len(values[s]) < Points
    /\ values' = [values EXCEPT ![s] = Append(@, table[Handler(s)][Len(@) + 1])]
    /\ UNCHANGED <<table, lock, pc, request, todo, at, reply, executed, replies>>

\* A write method of the handler, which goes through the points it is given.
SetValue(s) ==
    /\ pc[s] = "executing" /\ request[s].kind = "write"
    /\ at[s] < Points
    /\ at' = [at EXCEPT ![s] = @ + 1]
    /\ table' = [table EXCEPT ![Handler(s)][at[s] + 1] = s]
    /\ UNCHANGED <<lock, pc, request, todo, values, reply, executed, replies>>

\* What the handler, or the serializer that calls it, ends with: everything was
\* read or written, or an exception, which for a write comes before its effect.
Results(s) ==
    (IF Len(values[s]) = Points THEN {Data(values[s])} ELSE {})
    \cup (IF at[s] = Points THEN {Echo} ELSE {})
    \cup (IF at[s] = 0 /\ Len(values[s]) < Points THEN {Exception(HandlerCode)} ELSE {})

\* Mutant of Executed: the mutex is held until the reply is written.
KeepsLock(s) ==
    /\ pc[s] = "executing" /\ Results(s) # {}
    /\ todo' = [todo EXCEPT ![s] = @ \ {Handler(s)}]
    /\ IF request[s].dest.broadcast
       THEN /\ Goto(s, IF todo[s] = {Handler(s)} THEN "idle" ELSE "locking")
            /\ lock' = [lock EXCEPT ![Handler(s)] = Free]
            /\ UNCHANGED reply
       ELSE /\ \E result \in Results(s) : reply' = [reply EXCEPT ![s] = result]
            /\ Goto(s, "writing") /\ UNCHANGED lock
    /\ values' = [values EXCEPT ![s] = <<>>]
    /\ at' = [at EXCEPT ![s] = 0]
    /\ UNCHANGED <<table, request, executed, replies>>

\* The guard is dropped.  A broadcast goes on with the next handler, whatever
\* this one returned; a reply is in the writer's buffer.
Executed(s) ==
    /\ pc[s] = "executing"
    /\ lock' = [lock EXCEPT ![Handler(s)] = Free]
    /\ todo' = [todo EXCEPT ![s] = @ \ {Handler(s)}]
    /\ \E result \in Results(s) :
        IF request[s].dest.broadcast
        THEN /\ Goto(s, IF todo[s] = {Handler(s)} THEN "idle" ELSE "locking")
             /\ UNCHANGED reply
        ELSE /\ reply' = [reply EXCEPT ![s] = result]
             /\ Goto(s, "writing")
    /\ values' = [values EXCEPT ![s] = <<>>]
    /\ at' = [at EXCEPT ![s] = 0]
    /\ UNCHANGED <<table, request, executed, replies>>

\* io.write
WriteReply(s) ==
    /\ pc[s] = "writing"
    /\ Goto(s, "idle")
    /\ reply' = [reply EXCEPT ![s] = NoReply]
    /\ replies' = [replies EXCEPT ![s] = @ + 1]
    /\ UNCHANGED <<table, lock, request, todo, values, at, executed>>

\* io.write fails: the request was executed and the session ends
WriteFails(s) ==
    /\ pc[s] = "writing"
    /\ Goto(s, "ended")
    /\ reply' = [reply EXCEPT ![s] = NoReply]
    /\ UNCHANGED <<table, lock, request, todo, values, at, executed, replies>>

ExecuteStep(s) == LockHandler(s) \/ GetValue(s) \/ SetValue(s) \/ Executed(s)

SessionStep(s) == HandleFrame(s) \/ ExecuteStep(s) \/ WriteReply(s) \/ WriteFails(s)

-----------------------------------------------------------------------------
(* Properties *)

\* A reply to a read holds what the handler held at one moment: with writes that
\* set every point to the same value, no reply mixes two of them, although points
\* are read and written one by one and by several sessions (the guard of
\* handler.lock() lives as long as get_reply).
NoTornRead ==
    \A s \in Sessions : \A i, j \in DOMAIN reply[s].values :
        reply[s].values[i] = reply[s].values[j]

\* Was s meant to have its request executed by the handler of u?
Addressed(s, u) ==
    /\ request[s].kind \in {"read", "write"}
    /\ Authorized(s, request[s])
    /\ IF request[s].dest.broadcast THEN request[s].kind = "write" ELSE request[s].dest.unit = u

\* When a request is done with, each handler it was addressed to has executed it
\* once and no other one has: a broadcast write reaches every handler, one that
\* was denied or cannot be parsed none, and a handler that refuses or a reply
\* that cannot be written does not repeat it (handle_frame).
ExecutedOnce ==
    \A s \in Sessions :
        pc[s] \in {"idle", "writing"} =>
            \A u \in Units : executed[s][u] = IF Addressed(s, u) THEN 1 ELSE 0

\* A session that goes on has answered: one reply to each request for one of its
\* units, of whatever kind, and none to a broadcast (reply_with_error_generic,
\* handle_frame), so that replies stay in step with requests.  A request for a unit
\* it does not have is left to others, unless it cannot be parsed or is denied:
\* handle_frame answers those before it looks the unit up.
AnsweredOnce ==
    \A s \in Sessions :
        pc[s] = "idle" =>
            /\ request[s].dest.broadcast => replies[s] = 0
            /\ ~request[s].dest.broadcast /\ request[s].dest.unit \in Units
                    /\ request[s].kind # "empty" => replies[s] = 1
            /\ request[s].dest.unit \notin Units /\ request[s].kind \in {"read", "write"}
                    /\ Authorized(s, request[s]) => replies[s] = 0

\* A client that does not read its replies blocks nobody else: no session waits
\* for a handler forever, though writes of replies may never end (the guard is
\* dropped before io.write, and a broadcast holds one mutex at a time).
HandlersAreFreed ==
    \A s \in Sessions :
        pc[s] \in {"locking", "executing"} ~> pc[s] \notin {"locking", "executing"}

=============================================================================
