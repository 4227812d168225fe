---------------------------- MODULE FramedReader ----------------------------
(***************************************************************************)
(* Reading MBAP frames from a byte stream: FramedReader::next_frame         *)
(* (rodbus/src/common/frame.rs), the ReadBuffer it fills                    *)
(* (rodbus/src/common/buffer.rs) and the MbapParser that consumes it        *)
(* (rodbus/src/tcp/frame.rs).                                               *)
(*                                                                          *)
(* A byte is its place: the connection and the frame it was sent in, its    *)
(* position there and the ADU length that frame's header announces.  Header *)
(* bytes that do not belong together announce anything.  The header and the *)
(* largest ADU are HeaderLength and MaxAdu bytes long (7 and 253 in the     *)
(* code), and as in the code the buffer just holds the largest frame.       *)
(***************************************************************************)
EXTENDS Naturals, Sequences

CONSTANTS
    HeaderLength,  \* HEADER_LENGTH
    MaxAdu,        \* MAX_ADU_LENGTH
    MaxFrames,     \* bound: frames sent per connection
    MaxConns       \* bound: connections

ASSUME ReaderAssumption ==
    /\ HeaderLength \in Nat \ {0}
    /\ MaxAdu \in Nat
    /\ MaxFrames \in Nat /\ MaxConns \in Nat

Capacity == HeaderLength + MaxAdu

\* An announced length of MaxAdu + 1 stands for every one parse_header refuses.
Adus == 0..(MaxAdu + 1)
Bytes == [conn: Nat, frame: Nat, pos: Nat, adu: Adus]

Begin == [state |-> "Begin", conn |-> 0, frame |-> 0, adu |-> 0]

VARIABLES
    pipelined, \* the peer may send a frame before the last one was returned
    reused,    \* client channels and the RTU server keep their reader over
               \* connections; a TCP server session has its own
    clean,     \* history: no connection left anything in a reader that is kept
    conn,     \* history: number of the connection
    count,    \* history: frames sent on it
    stream,   \* bytes sent on it and not read yet
    begin,    \* ReadBuffer.begin; ReadBuffer.end is begin + Len(data)
    data,     \* the bytes of the ReadBuffer between begin and end
    parser,   \* MbapParser.state: Begin, or Header with its source and ADU length
    phase,    \* "reading", or the error next_frame returned last
    frame     \* the frame next_frame returned last: its header's source, its body

mode == <<pipelined, reused, clean>>
vars == <<mode, conn, count, stream, begin, data, parser, phase, frame>>

NoFrame == [conn |-> 0, frame |-> 0, adu |-> 0, body |-> <<>>]

Init ==
    /\ pipelined \in BOOLEAN
    /\ reused \in BOOLEAN
    /\ clean = TRUE
    /\ conn = 1
    /\ count = 0
    /\ stream = <<>>
    /\ begin = 0
    /\ data = <<>>
    /\ parser = Begin
    /\ phase = "reading"
    /\ frame = NoFrame

-----------------------------------------------------------------------------
(* The peer, external *)

FrameBytes(c, n, adu) ==
    [i \in 1..(HeaderLength + adu) |-> [conn |-> c, frame |-> n, pos |-> i, adu |-> adu]]

\* The last frame sent on this connection was returned.
LastReturned == count = 0 \/ (frame.conn = conn /\ frame.frame = count)

PeerSends ==
    /\ count < MaxFrames
    /\ pipelined \/ LastReturned
    /\ count' = count + 1
    /\ \E adu \in Adus : stream' = stream \o FrameBytes(conn, count + 1, adu)
    /\ UNCHANGED <<mode, conn, begin, data, parser, phase, frame>>

-----------------------------------------------------------------------------
(* MbapParser::parse *)

\* Mutant of Consume: one byte too many is consumed.
ConsumesOneMore(n) ==
    /\ begin' = begin + n + 1
    /\ data' = SubSeq(data, n + 2, Len(data))

\* ReadBuffer::read
Consume(n) ==
    /\ begin' = begin + n
    /\ data' = SubSeq(data, n + 1, Len(data))

\* The header bytes belong to one frame and are read in place.
Aligned(h) ==
    \A i \in 1..HeaderLength :
        h[i].pos = i /\ h[i].conn = h[1].conn /\ h[i].frame = h[1].frame

\* parse_header consumes the header; it is refused, or the parser waits for as
\* many bytes of body as it announces.
ParseHeader ==
    /\ phase = "reading"
    /\ parser.state = "Begin" /\ Len(data) >= HeaderLength
    /\ Consume(HeaderLength)
    /\ \E adu \in (IF Aligned(data) THEN {data[1].adu} ELSE Adus) :
        IF adu > MaxAdu
        THEN phase' = "BadFrame" /\ parser' = Begin
        ELSE /\ parser' = [state |-> "Header", conn |-> data[1].conn,
                           frame |-> data[1].frame, adu |-> adu]
             /\ UNCHANGED phase
    /\ UNCHANGED <<mode, conn, count, stream, frame>>

\* Mutant of ParseBody: the buffer is cleared with each frame.
ClearsBuffer ==
    /\ phase = "reading"
    /\ parser.state = "Header" /\ Len(data) >= parser.adu
    /\ begin' = 0 /\ data' = <<>>
    /\ frame' = [conn |-> parser.conn, frame |-> parser.frame, adu |-> parser.adu,
                 body |-> SubSeq(data, 1, parser.adu)]
    /\ parser' = Begin
    /\ UNCHANGED <<mode, conn, count, stream, phase>>

\* Mutant of ParseBody: it waits for a byte more than the body.
WaitsForNextByte ==
    /\ phase = "reading"
    /\ parser.state = "Header" /\ Len(data) > parser.adu
    /\ Consume(parser.adu)
    /\ frame' = [conn |-> parser.conn, frame |-> parser.frame, adu |-> parser.adu,
                 body |-> SubSeq(data, 1, parser.adu)]
    /\ parser' = Begin
    /\ UNCHANGED <<mode, conn, count, stream, phase>>

\* parse_body: next_frame returns the frame
ParseBody ==
    /\ phase = "reading"
    /\ parser.state = "Header" /\ Len(data) >= parser.adu
    /\ Consume(parser.adu)
    /\ frame' = [conn |-> parser.conn, frame |-> parser.frame, adu |-> parser.adu,
                 body |-> SubSeq(data, 1, parser.adu)]
    /\ parser' = Begin
    /\ UNCHANGED <<mode, conn, count, stream, phase>>

-----------------------------------------------------------------------------
(* ReadBuffer::read_some *)

\* parse returned None
NeedsMore ==
    /\ phase = "reading"
    /\ \/ parser.state = "Begin" /\ Len(data) < HeaderLength
       \/ parser.state = "Header" /\ Len(data) < parser.adu

\* Mutant of Adjusted: begin and end are never moved back.
NeverMovedBack == begin

\* ReadBuffer.begin after the two adjustments that precede the read: the
\* buffer is empty, or end equals the number of bytes held
Adjusted ==
    IF data = <<>> \/ begin + Len(data) = Len(data) THEN 0 ELSE begin

\* The slice from end to the capacity of the buffer
Room == Capacity - (Adjusted + Len(data))

\* io.read returns some of the bytes that arrived, as many as there is room for
ReadSome ==
    /\ NeedsMore
    /\ \E n \in 1..Len(stream) :
        /\ n <= Room
        /\ data' = data \o SubSeq(stream, 1, n)
        /\ stream' = SubSeq(stream, n + 1, Len(stream))
    /\ begin' = Adjusted
    /\ UNCHANGED <<mode, conn, count, parser, phase, frame>>

\* A read into an empty slice returns 0, which read_some takes for end of file.
ReadNothing ==
    /\ NeedsMore
    /\ Room = 0
    /\ begin' = Adjusted
    /\ phase' = "UnexpectedEof"
    /\ UNCHANGED <<mode, conn, count, stream, data, parser, frame>>

\* The connection fails or the peer closes it: next_frame returns the error of
\* read_some, past the branch that resets the parser.
ReadFails ==
    /\ NeedsMore
    /\ begin' = Adjusted
    /\ phase' = "Io"
    /\ UNCHANGED <<mode, conn, count, stream, data, parser, frame>>

\* The session ended; the next connection starts.
Reconnect ==
    /\ phase # "reading"
    /\ conn < MaxConns
    /\ conn' = conn + 1
    /\ count' = 0
    /\ stream' = <<>>
    /\ phase' = "reading"
    /\ frame' = NoFrame
    /\ UNCHANGED <<pipelined, reused>>
    /\ IF reused
       THEN UNCHANGED <<begin, data, parser>>
       ELSE begin' = 0 /\ data' = <<>> /\ parser' = Begin
    /\ clean' = (clean /\ (reused => data = <<>> /\ parser = Begin))

Next ==
    \/ PeerSends \/ ParseHeader \/ ParseBody
    \/ ReadSome \/ ReadNothing \/ ReadFails \/ Reconnect

Spec == Init /\ [][Next]_vars

\* What can be parsed is parsed and what arrived is read: next_frame is polled
\* until it returns.  The connection need not fail.
FairSpec == Spec /\ WF_vars(ParseHeader \/ ParseBody) /\ WF_vars(ReadSome)

-----------------------------------------------------------------------------
(* Properties *)

\* next_frame only returns whole frames of this connection, the body the one its
\* header announced: with a reader of its own per connection, and with a reader
\* that is kept as long as every connection ended between two frames.  Otherwise
\* an I/O error leaves a part of a frame, and the parser's state, to the next one.
WholeFrames ==
    clean /\ frame # NoFrame =>
        /\ frame.conn = conn
        /\ Len(frame.body) = frame.adu
        /\ \A i \in 1..frame.adu :
            frame.body[i] = [conn |-> conn, frame |-> frame.frame,
                             pos |-> HeaderLength + i, adu |-> frame.adu]

\* Frames come out in the order they were sent, none skipped, as long as every
\* connection so far ended between two frames (clean).
FramesInOrder ==
    [][clean /\ conn' = conn /\ frame' # frame =>
        frame'.frame = frame.frame + 1]_vars

\* A peer that sends one frame at a time is never cut off: the read buffer
\* always has room for the rest of a frame.
RoomForOneFrame == ~pipelined /\ clean => (NeedsMore => Room > 0)

\* What read_some says of itself: "if we've reached capacity, but still need more
\* data we have to shift": whenever it reads there is room.
ShiftsAtCapacity == NeedsMore => Room > 0

\* With one frame in flight and connections that ended between two frames
\* (~pipelined, clean), every frame that arrives whole on a connection that stays
\* up is returned.  Pipelined frames may end in UnexpectedEof (ShiftsAtCapacity).
AllReturned ==
    \A c \in 1..MaxConns, n \in 1..MaxFrames :
        ~pipelined /\ clean /\ conn = c /\ count = n ~>
            conn # c \/ phase # "reading" \/ frame.frame >= n
=============================================================================
