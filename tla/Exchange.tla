------------------------------ MODULE Exchange ------------------------------
(***************************************************************************)
(* One client and one server, or another vendor's device, exchanging single *)
(* requests: the API call, the frame it becomes, the server's handler and    *)
(* its reply, and what the promise is completed with.  Frames arrive whole   *)
(* (FramedReader and RtuLine are about that); when each is sent, matched and *)
(* timed out is in ClientLoop, and several handlers and sessions are in      *)
(* ServerSession.                                                            *)
(***************************************************************************)
EXTENDS Pdu

CONSTANTS
    Starts,         \* first addresses of the calls
    BitCounts,      \* how many coils or discrete inputs they name
    RegisterCounts, \* how many registers they name
    Value(_, _),    \* the value a caller writes with a function to an address
    Point(_, _),    \* the point a handler has at an address, in the table that a read names
    Refusals,       \* the place in a read at which a handler refuses; -1 if at none
    Answers(_, _),  \* what another device answers to a call and its body: functions and bodies
    Bodies(_)       \* the bodies another master sends with a function

IsValue(f, v) == IF f \in OfBits THEN v \in BOOLEAN ELSE v \in 0..U16_MAX

ASSUME ExchangeAssumption ==
    /\ Starts \subseteq 0..U16_MAX /\ BitCounts \subseteq Nat /\ RegisterCounts \subseteq Nat
    /\ Refusals \subseteq Int

\* The API of the library takes and gives bool and u16.
ASSUME ValueAssumption ==
    \A a \in 0..U16_MAX :
        /\ \A f \in Singles \cup Multiples : IsValue(f, Value(f, a))
        /\ \A f \in Reads : IsValue(f, Point(f, a))

ASSUME BodiesAssumption ==
    \A f \in Reads \cup Singles \cup Multiples : Bodies(f) \subseteq Seq(0..255)

Call(f, a, n) == [function |-> f, start |-> a, count |-> n]
Calls ==
    {Call(f, a, n) : f \in (Reads \cup Multiples) \cap OfBits, a \in Starts, n \in BitCounts}
    \cup {Call(f, a, n) : f \in (Reads \cup Multiples) \ OfBits, a \in Starts, n \in RegisterCounts}
    \cup {Call(f, a, 1) : f \in Singles, a \in Starts}

VARIABLES
    transport, \* "tcp" (MBAP, with or without TLS) or "rtu"
    checked,   \* the build checks arithmetic for overflow (a debug build)
    call,      \* the current call
    foreign,   \* the request on the wire is another master's
    stage,     \* "idle", "queued", "sent", "replied"
    body,      \* body of the request's frame
    reply,     \* the reply's frame, and whether this library's server wrote it
    outcome,   \* what the call ended with, and the values it got
    applied,   \* history: the values the handler was given for this call
    poisoned,  \* the mutex of the handler is poisoned
    last       \* history: a read of the last address was served before

exchangeVars ==
    <<transport, checked, call, foreign, stage, body, reply, outcome, applied, poisoned, last>>

NoReply == [function |-> "none", body |-> <<>>, own |-> FALSE]
None == [kind |-> "None", items |-> <<>>]
Failure(kind) == [kind |-> kind, items |-> <<>>]

ExchangeInit ==
    /\ transport \in {"tcp", "rtu"}
    /\ checked \in BOOLEAN
    /\ call = Call("none", 0, 0)
    /\ foreign = FALSE
    /\ stage = "idle"
    /\ body = <<>>
    /\ reply = NoReply
    /\ outcome = None
    /\ applied = <<>>
    /\ poisoned = FALSE
    /\ last = FALSE

\* The values the caller writes
Values(c) == [i \in 1..c.count |-> Value(c.function, c.start + i - 1)]

-----------------------------------------------------------------------------
(* The client *)

\* A call is refused by the API, or queued.
Submit ==
    /\ stage = "idle"
    /\ \E c \in Calls :
        /\ call' = c
        /\ IF Refused(c.function, c.start, c.count)
           THEN stage' = "idle" /\ outcome' = Failure("Refused")
           ELSE stage' = "queued" /\ outcome' = None
    /\ applied' = <<>>
    /\ body' = <<>> /\ reply' = NoReply
    /\ foreign' = FALSE
    /\ UNCHANGED <<transport, checked, poisoned, last>>

\* FrameWriter::format_request: the frame does not fit, or it is written.
Send ==
    /\ stage = "queued"
    /\ LET b == IF call.function \in Multiples /\ ByteCount(call.function, call.count) > 255
                THEN <<>>
                ELSE Serialize(call.function, call.start, call.count, Values(call))
       IN IF Formats(transport, call.function, call.count, b)
          THEN stage' = "sent" /\ body' = b /\ UNCHANGED outcome
          ELSE stage' = "idle" /\ outcome' = Failure("Internal") /\ UNCHANGED body
    /\ UNCHANGED <<transport, checked, call, foreign, reply, applied, poisoned, last>>

\* Request::handle_response and get_error_for
Outcome ==
    IF reply.function = call.function
    THEN IF Matches(call.function, call.start, call.count, Values(call), reply.body)
         THEN [kind |-> "Ok",
               items |-> IF call.function \in Reads
                         THEN Items(call.function, call.start, call.count, Tail(reply.body))
                         ELSE <<>>]
         ELSE Failure("BadResponse")
    ELSE IF reply.function = "exception" /\ Len(reply.body) = 1
         THEN Failure("Exception") ELSE Failure("BadResponse")

Receive ==
    /\ stage = "replied" /\ ~foreign
    /\ stage' = "idle"
    /\ outcome' = Outcome
    /\ UNCHANGED <<transport, checked, call, foreign, body, reply, applied, poisoned, last>>

-----------------------------------------------------------------------------
(* The server *)

\* No answer comes: over TCP the session ended, over RTU the request times out.
Unanswered ==
    /\ stage' = "idle"
    /\ outcome' = Failure("NoResponse")
    /\ UNCHANGED reply

Reply(f, b) ==
    /\ stage' = "replied"
    /\ reply' = [function |-> f, body |-> b, own |-> TRUE]
    /\ UNCHANGED outcome

\* The parser of the frame refuses the length of its ADU.
RefuseFrame ==
    /\ stage = "sent"
    /\ 1 + Len(body) > MAX_ADU_LENGTH
    /\ Unanswered
    /\ UNCHANGED <<transport, checked, call, foreign, body, applied, poisoned, last>>

Accepted == stage = "sent" /\ 1 + Len(body) <= MAX_ADU_LENGTH

ParseFails ==
    /\ Accepted
    /\ ~Parses(call.function, body)
    /\ Reply("exception", <<3>>)
    /\ UNCHANGED <<transport, checked, call, foreign, body, applied, poisoned, last>>

\* handler.lock().unwrap() on a mutex that another request poisoned
LockPanics ==
    /\ Accepted
    /\ Parses(call.function, body)
    /\ poisoned
    /\ Unanswered
    /\ UNCHANGED <<transport, checked, call, foreign, body, applied, poisoned, last>>

Serving(functions) ==
    /\ Accepted
    /\ call.function \in functions
    /\ Parses(call.function, body)
    /\ ~poisoned

\* Request::get_reply of a read: the handler is asked for one address after the
\* other.  At the one it refuses an exception is sent instead; the iterator
\* overflows as it yields the last one, which panics with the mutex held if the
\* build checks for it.
ServeRead ==
    /\ Serving(Reads)
    /\ LET f == call.function
           start == ReadU16(body, 1)
           count == ReadU16(body, 3)
       IN \E refused \in Refusals :
            /\ refused < count
            /\ LET fails == refused >= 0
                   panics == /\ checked /\ IteratorOverflows(start, count)
                             /\ fails => refused = count - 1
               IN /\ IF panics THEN Unanswered
                     ELSE IF fails THEN Reply("exception", <<2>>)
                     ELSE Reply(f, ReadReply(f, count,
                                             [i \in 1..count |-> Point(f, start + i - 1)]))
                  /\ poisoned' = panics
                  /\ last' = (last \/ start + count - 1 = U16_MAX)
    /\ UNCHANGED <<transport, checked, call, foreign, body, applied>>

\* Request::get_reply of a write: the handler gets the values and decides.
ServeWrite ==
    /\ Serving(Singles \cup Multiples)
    /\ applied' = Written(call.function, body)
    /\ \/ Reply(call.function, SubSeq(body, 1, 4))
       \/ Reply("exception", <<2>>)
    /\ UNCHANGED <<transport, checked, call, foreign, body, poisoned, last>>

-----------------------------------------------------------------------------
(* Another device, external: it may answer with what this request does not call for. *)

DeviceAnswers ==
    /\ stage = "sent" /\ ~foreign
    /\ stage' = "replied"
    /\ \E answer \in Answers(call, body) :
        /\ transport = "rtu" => Len(answer[2]) = ReplyLength(answer[1], answer[2])
        /\ reply' = [function |-> answer[1], body |-> answer[2], own |-> FALSE]
    /\ UNCHANGED <<transport, checked, call, foreign, body, outcome, applied, poisoned, last>>

-----------------------------------------------------------------------------
(* Another master, external: its requests need not be well formed. *)

MasterSends ==
    /\ stage = "idle"
    /\ stage' = "sent" /\ foreign' = TRUE
    /\ \E f \in Reads \cup Singles \cup Multiples :
        /\ call' = Call(f, 0, 0)
        /\ body' \in {b \in Bodies(f) : transport = "rtu" => Len(b) = RequestLength(f, b)}
    /\ applied' = <<>> /\ reply' = NoReply /\ outcome' = None
    /\ UNCHANGED <<transport, checked, poisoned, last>>

MasterReceives ==
    /\ stage = "replied" /\ foreign
    /\ stage' = "idle"
    /\ UNCHANGED <<transport, checked, call, foreign, body, reply, outcome, applied>>
    /\ UNCHANGED <<poisoned, last>>

ExchangeNext ==
    \/ Submit \/ Send \/ Receive
    \/ RefuseFrame \/ ParseFails \/ LockPanics \/ ServeRead \/ ServeWrite
    \/ DeviceAnswers \/ MasterSends \/ MasterReceives

ExchangeSpec == ExchangeInit /\ [][ExchangeNext]_exchangeVars

-----------------------------------------------------------------------------
(* Properties *)

Indices(items) == [i \in DOMAIN items |-> items[i].index]
Addresses(start, count) == [i \in 1..count |-> start + i - 1]

\* A read that succeeds yields exactly the addresses asked for, in order and
\* none past the last one, and if this library's server answered, the handler's
\* points at them: through serialization on one side and iteration on the
\* other, up to address 65535 and the limits of the function.
ReadsAreExact ==
    outcome.kind = "Ok" /\ call.function \in Reads =>
        /\ Indices(outcome.items) = Addresses(call.start, call.count)
        /\ call.start + call.count - 1 <= U16_MAX
        /\ reply.own => \A i \in 1..call.count :
                outcome.items[i].value = Point(call.function, call.start + i - 1)

\* As many values as a write request counts
Counted == IF call.function \in Singles THEN 1 ELSE ReadU16(body, 3)

\* The handler is given exactly the values the caller wrote, at their
\* addresses, before the write is confirmed; and whatever another master sends,
\* the handler gets as many values as the request counts, at the addresses from its
\* start on, none beyond the last one.
WritesAreExact ==
    call.function \notin Reads =>
        LET written == [i \in 1..call.count |->
                           [index |-> call.start + i - 1, value |-> Values(call)[i]]]
        IN /\ applied # <<>> /\ ~foreign => applied = written
           /\ outcome.kind = "Ok" /\ reply.own => applied = written
           /\ applied # <<>> => /\ Indices(applied) = Addresses(ReadU16(body, 1), Counted)
                                /\ applied[Len(applied)].index <= U16_MAX

\* What this library's server answers, the client takes: as the values it asked
\* for, as the echo of its write or as an exception, and never as a bad response.
OwnRepliesAccepted == reply.own /\ ~foreign => outcome.kind # "BadResponse"

\* What one side of the library formats, the other takes.  The server's framing
\* and parser never refuse a request of the client as malformed; only RTU frames
\* of writes longer than an ADU are, as no limit of WriteMultiple keeps the client
\* from formatting them.  The client takes every reply of the server.
FormattedIsServed ==
    /\ ~foreign =>
        /\ stage = "sent" => Parses(call.function, body)
        /\ stage = "sent" /\ 1 + Len(body) > MAX_ADU_LENGTH =>
               transport = "rtu" /\ call.function \in Multiples
    /\ OwnRepliesAccepted

\* The handler becomes unusable to every session only in a build that checks
\* for overflow, and only after a read of address 65535.
HandlerSurvives == poisoned => checked /\ last
=============================================================================
