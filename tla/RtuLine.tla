------------------------------ MODULE RtuLine ------------------------------
(***************************************************************************)
(* Reading RTU frames from a serial line: RtuParser (rodbus/src/serial/     *)
(* frame.rs) over the ReadBuffer (rodbus/src/common/buffer.rs), as          *)
(* FramedReader::next_frame drives it, with its reader kept when the port   *)
(* is opened again.  There is no silence between frames for the code to     *)
(* see: the parser finds their ends from the function code and, for some,   *)
(* from a byte count, and a line that drops or adds bytes shifts it.        *)
(*                                                                          *)
(* A byte is its place: the frame it was sent in, its position there and    *)
(* how that frame's function gives its length.  Out of its place it may be  *)
(* any function code and any byte count.  A CRC matches what it was         *)
(* computed over and nothing else.  MaxAdu stands for MAX_ADU_LENGTH (253). *)
(***************************************************************************)
EXTENDS Naturals, Sequences

CONSTANTS
    MaxAdu,     \* MAX_ADU_LENGTH
    Extras,     \* the byte counts that the peer sends
    Strays,     \* the byte counts that a byte out of place is taken for
    MaxFrames,  \* bound: frames sent
    MaxFaults   \* bound: bytes the line drops or adds, errors of the port, and
                \* frames of the peer that are too long

ASSUME RtuAssumption ==
    /\ MaxAdu \in Nat /\ MaxAdu > 7
    /\ Extras \subseteq Nat /\ Strays \subseteq Nat
    /\ MaxFrames \in Nat /\ MaxFaults \in Nat

\* The larger of an MBAP and an RTU frame
Capacity == 7 + MaxAdu

Fixed(n) == [tag |-> "Fixed", n |-> n]
Offset(n) == [tag |-> "Offset", n |-> n]
Unknown == [tag |-> "Unknown", n |-> 0]

\* What length_mode returns for the function codes it knows
LengthModes(type) ==
    IF type = "Request" THEN {Fixed(4), Offset(5)} ELSE {Fixed(1), Fixed(4), Offset(1)}

BodyLength(mode, extra) == IF mode.tag = "Fixed" THEN mode.n ELSE mode.n + extra

Noise == [frame |-> 0, pos |-> 0, mode |-> Unknown, extra |-> 0]
Start == [state |-> "Start", unit |-> Noise, n |-> 0]

VARIABLES
    type,     \* RtuParser.parser_type
    count,    \* history: frames sent
    faults,   \* history: faults of the line, the port and the peer
    stream,   \* bytes on the line that are not read yet
    begin,    \* ReadBuffer.begin
    data,     \* the bytes of the ReadBuffer between begin and end
    parser,   \* RtuParser.state, with the unit id it read
    phase,    \* "reading", or the error next_frame returned last
    returned, \* history: the frames next_frame returned
    stale,    \* history: a byte behind the end of the buffer was looked at
    insync    \* history: the last frame was sent to a parser at Start and an
              \* empty buffer, and nothing went wrong since

vars == <<type, count, faults, stream, begin, data, parser, phase, returned, stale,
          insync>>

Init ==
    /\ type \in {"Request", "Response"}
    /\ count = 0 /\ faults = 0
    /\ stream = <<>>
    /\ begin = 0 /\ data = <<>>
    /\ parser = Start
    /\ phase = "reading"
    /\ returned = <<>>
    /\ stale = FALSE /\ insync = TRUE

-----------------------------------------------------------------------------
(* RtuParser::parse *)

Reading(state) == phase = "reading" /\ parser.state = state

\* Mutant of NeedsMore: it does not wait for the function code.
NeedsNoFunction ==
    /\ phase = "reading"
    /\ \/ parser.state = "Start" /\ Len(data) < 1
       \/ parser.state = "Length" /\ Len(data) < 1 + parser.n
       \/ parser.state = "Body" /\ 1 + parser.n <= MaxAdu /\ Len(data) < 1 + parser.n + 2

\* Mutant of NeedsMore: the CRC is not waited for but one byte of it.
NeedsMoreThanCrc ==
    /\ phase = "reading"
    /\ \/ parser.state = "Start" /\ Len(data) < 2
       \/ parser.state = "Length" /\ Len(data) < 1 + parser.n
       \/ parser.state = "Body" /\ 1 + parser.n <= MaxAdu /\ Len(data) < 1 + parser.n + 3

\* parse returns None
NeedsMore ==
    /\ phase = "reading"
    /\ \/ parser.state = "Start" /\ Len(data) < 2
       \/ parser.state = "Length" /\ Len(data) < 1 + parser.n
       \/ parser.state = "Body" /\ 1 + parser.n <= MaxAdu /\ Len(data) < 1 + parser.n + 2

\* ReadBuffer::peek_at: an index equal to the length is let through and gives
\* whatever the buffer holds there.
Peek(bytes, i) ==
    /\ Len(bytes) >= i
    /\ stale' = (stale \/ Len(bytes) = i)

PeekedByte(bytes, i) == IF i < Len(bytes) THEN bytes[i + 1] ELSE Noise

\* The length mode of a byte taken for a function code
ModesOf(b) == IF b.pos = 2 THEN {b.mode} ELSE LengthModes(type) \cup {Unknown}

\* The value of a byte taken for the byte count of a frame
CountsOf(b, offset) ==
    IF b.mode = Offset(offset) /\ b.pos = 2 + offset THEN {b.extra} ELSE Strays

Fail == phase' = "BadFrame" /\ parser' = Start

\* ParseState::Start: the unit id is consumed, the function code looked at.
ParseStart ==
    /\ Reading("Start") /\ ~NeedsMore
    /\ begin' = begin + 1
    /\ data' = Tail(data)
    /\ Peek(data', 0)
    /\ \E mode \in ModesOf(PeekedByte(data', 0)) :
        IF mode = Unknown THEN Fail
        ELSE /\ parser' = [state |-> IF mode.tag = "Fixed" THEN "Body" ELSE "Length",
                           unit |-> data[1], n |-> mode.n]
             /\ UNCHANGED phase
    /\ UNCHANGED <<type, count, faults, stream, returned, insync>>

\* ParseState::ReadToOffsetForLength
ParseLength ==
    /\ Reading("Length") /\ ~NeedsMore
    /\ Peek(data, parser.n)
    /\ \E extra \in CountsOf(PeekedByte(data, parser.n), parser.n) :
        parser' = [parser EXCEPT !.state = "Body", !.n = parser.n + extra]
    /\ UNCHANGED <<type, count, faults, stream, begin, data, phase, returned, insync>>

\* ParseState::ReadFullBody: the frame is longer than an ADU may be.
ParseTooBig ==
    /\ Reading("Body")
    /\ 1 + parser.n > MaxAdu
    /\ Fail
    /\ UNCHANGED <<type, count, faults, stream, begin, data, returned, stale, insync>>

\* A CRC is right when it ends the bytes it was computed over.
CrcMatches(bytes) ==
    \A i \in 1..Len(bytes) :
        /\ bytes[i].frame = bytes[1].frame /\ bytes[i].frame # 0
        /\ bytes[i].pos = i
        /\ Len(bytes) = 4 + BodyLength(bytes[i].mode, bytes[i].extra)

\* ParseState::ReadFullBody: next_frame returns the frame, or the CRC is wrong.
ParseBody ==
    /\ Reading("Body") /\ ~NeedsMore
    /\ 1 + parser.n <= MaxAdu
    /\ LET n == 1 + parser.n + 2
           bytes == <<parser.unit>> \o SubSeq(data, 1, n)
       IN /\ begin' = begin + n
          /\ data' = SubSeq(data, n + 1, Len(data))
          /\ IF CrcMatches(bytes)
             THEN /\ returned' = Append(returned, bytes[1].frame)
                  /\ parser' = Start /\ UNCHANGED phase
             ELSE Fail /\ UNCHANGED returned
    /\ UNCHANGED <<type, count, faults, stream, stale, insync>>

-----------------------------------------------------------------------------
(* ReadBuffer::read_some *)

\* Mutant of Adjusted: an empty buffer is not rewound.
NeverRewound == begin

Adjusted == IF data = <<>> THEN 0 ELSE begin
Room == Capacity - (Adjusted + Len(data))

ReadSome ==
    /\ NeedsMore
    /\ \E n \in 1..Len(stream) :
        /\ n <= Room
        /\ data' = data \o SubSeq(stream, 1, n)
        /\ stream' = SubSeq(stream, n + 1, Len(stream))
    /\ begin' = Adjusted
    /\ UNCHANGED <<type, count, faults, parser, phase, returned, stale, insync>>

ReadNothing ==
    /\ NeedsMore
    /\ Room = 0
    /\ begin' = Adjusted
    /\ phase' = "UnexpectedEof"
    /\ UNCHANGED <<type, count, faults, stream, data, parser, returned, stale, insync>>

\* The port fails: the parser is not reset.
ReadFails ==
    /\ NeedsMore
    /\ faults < MaxFaults
    /\ faults' = faults + 1
    /\ begin' = Adjusted
    /\ phase' = "Io"
    /\ insync' = FALSE
    /\ UNCHANGED <<type, count, stream, data, parser, returned, stale>>

\* The session ended and the port is opened again: the reader is the same, and
\* what the line carried meanwhile is read or lost.
Reopen ==
    /\ phase # "reading"
    /\ phase' = "reading"
    /\ stream' \in {stream, <<>>}
    /\ UNCHANGED <<type, count, faults, begin, data, parser, returned, stale, insync>>

-----------------------------------------------------------------------------
(* The peer and the line, external *)

FrameBytes(k, mode, extra) ==
    [i \in 1..(4 + BodyLength(mode, extra)) |->
        [frame |-> k, pos |-> i, mode |-> mode, extra |-> extra]]

Fits(mode, extra) == 1 + BodyLength(mode, extra) <= MaxAdu

\* The peer sends one frame at a time, once the last was taken from the line.  One
\* that is longer than an ADU is a fault.
PeerSends ==
    /\ count < MaxFrames
    /\ NeedsMore /\ stream = <<>>
    /\ count' = count + 1
    /\ \E mode \in LengthModes(type) :
        \E extra \in (IF mode.tag = "Fixed" THEN {0} ELSE Extras) :
            /\ stream' = FrameBytes(count + 1, mode, extra)
            /\ \/ Fits(mode, extra) /\ UNCHANGED faults
               \/ ~Fits(mode, extra) /\ faults < MaxFaults /\ faults' = faults + 1
            /\ insync' = (parser = Start /\ data = <<>> /\ Fits(mode, extra))
    /\ UNCHANGED <<type, begin, data, parser, phase, returned, stale>>

LineFails ==
    /\ faults < MaxFaults
    /\ faults' = faults + 1
    /\ insync' = FALSE
    /\ \/ \E i \in 1..Len(stream) :
            stream' = SubSeq(stream, 1, i - 1) \o SubSeq(stream, i + 1, Len(stream))
       \/ stream' = <<Noise>> \o stream
    /\ UNCHANGED <<type, count, begin, data, parser, phase, returned, stale>>

Next ==
    \/ ParseStart \/ ParseLength \/ ParseTooBig \/ ParseBody
    \/ ReadSome \/ ReadNothing \/ ReadFails \/ Reopen
    \/ PeerSends \/ LineFails

Spec == Init /\ [][Next]_vars

\* What can be parsed is parsed and what arrived is read; a port that can be
\* opened is opened.  The line need not fail.
FairSpec ==
    /\ Spec
    /\ WF_vars(ParseStart \/ ParseLength \/ ParseTooBig \/ ParseBody)
    /\ WF_vars(ReadSome \/ ReadNothing)
    /\ WF_vars(Reopen)

-----------------------------------------------------------------------------
(* Properties *)

\* next_frame returns no frame twice and none after a later one, whatever the line
\* drops or adds and wherever the parser then looks for a frame.  Without faults it
\* returns no error either, and every frame: when nothing is left to read or to
\* parse, the last one too.  So the lengths the parser takes from function codes and
\* byte counts are those the frames have, nothing is left behind in the buffer, and
\* the buffer has room, however the frames are cut into reads.
EachFrameOnce ==
    /\ \A i, j \in DOMAIN returned : i < j => returned[i] < returned[j]
    /\ faults = 0 =>
        /\ phase = "reading"
        /\ \A i \in DOMAIN returned : returned[i] = i
        /\ Len(returned) \in {count, count - 1}
        /\ NeedsMore /\ stream = <<>> => Len(returned) = count

\* peek_at never gives the parser a byte behind the end of the buffer, which it
\* would take from an earlier frame, however a frame is cut into reads.
PeeksInside == ~stale

\* A frame that meets a parser at Start and an empty buffer is returned,
\* whatever errors came before it: the reader is then in step with the line.
InSyncReturns ==
    \A k \in 1..MaxFrames :
        count = k /\ insync ~>
            ~insync \/ count > k \/ \E i \in DOMAIN returned : returned[i] = k
=============================================================================
