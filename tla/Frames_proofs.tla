--------------------------- MODULE Frames_proofs ---------------------------
(***************************************************************************)
(* Theorems about frames.  First, what the RTU parser returns on a line that *)
(* drops and adds bytes (RtuLine): for any frames, any cuts of them into     *)
(* reads, and any number of faults.  Then, what the bodies of frames carry   *)
(* between the caller of a request and the handler that serves it            *)
(* (Exchange): for any values, points, ranges and limits, and any frames of  *)
(* other devices and masters.                                                *)
(***************************************************************************)
EXTENDS RtuLine, Exchange, TLAPS, SequenceTheorems

-----------------------------------------------------------------------------
(* The inductive invariant *)

Modes == [tag: {"Fixed", "Offset", "Unknown"}, n: Nat]
Bytes == [frame: Nat, pos: Nat, mode: Modes, extra: Nat]

TypeOK ==
    /\ type \in {"Request", "Response"}
    /\ count \in Nat /\ faults \in Nat /\ begin \in Nat
    /\ stream \in Seq(Bytes)
    /\ data \in Seq(Bytes)
    /\ parser \in [state: {"Start", "Length", "Body"}, unit: Bytes, n: Nat]
    /\ returned \in Seq(Nat)

\* What is not parsed yet, in order: the unit id the parser holds, the buffer and
\* the line
Behind == Len(data) + Len(stream)
At(i) ==
    IF i = 0 THEN parser.unit
    ELSE IF i <= Len(data) THEN data[i] ELSE stream[i - Len(data)]

\* The first bytes of frames are in the order the frames were sent in, all of them
\* of frames later than those that were returned.
First(b) == b.pos = 1
OrderInv ==
    /\ \A i \in 0..Behind : At(i).frame <= count
    /\ \A i, j \in 0..Behind :
        i < j /\ First(At(i)) /\ First(At(j)) => At(i).frame < At(j).frame
    /\ \A i \in 0..Behind : \A m \in 1..Len(returned) :
        First(At(i)) => returned[m] < At(i).frame
    /\ \A m \in 1..Len(returned) : returned[m] <= count
    /\ \A l, m \in 1..Len(returned) : l < m => returned[l] < returned[m]

\* Without faults, what is not parsed yet is the rest of the last frame, at the place
\* where the parser is in it, and what is in the buffer starts at its begin.
Sent(i, mode, extra) == [frame |-> count, pos |-> i, mode |-> mode, extra |-> extra]
Skip == IF parser.state = "Start" THEN 0 ELSE 1
InFlight(mode, extra) ==
    /\ Len(returned) + 1 = count
    /\ mode \in LengthModes(type) /\ Fits(mode, extra)
    /\ Behind + Skip = 4 + BodyLength(mode, extra)
    /\ \A i \in 1..Behind : At(i) = Sent(i + Skip, mode, extra)
    /\ parser.state = "Start" => parser = Start
    /\ parser.state # "Start" => parser.unit = Sent(1, mode, extra) /\ data # <<>>
    /\ parser.state = "Length" => mode = Offset(parser.n)
    /\ parser.state = "Body" => parser.n = BodyLength(mode, extra)
    /\ data # <<>> => begin = Skip
Idle == Len(returned) = count /\ parser = Start /\ data = <<>> /\ stream = <<>>
CleanInv ==
    faults = 0 =>
        /\ phase = "reading"
        /\ \A m \in 1..Len(returned) : returned[m] = m
        /\ Idle \/ \E mode \in Modes, extra \in Nat : InFlight(mode, extra)

LineInv == TypeOK /\ OrderInv /\ CleanInv /\ PeeksInside

-----------------------------------------------------------------------------
(* Lemmas *)

\* A byte that the line added belongs to no frame.
LEMMA NoiseFacts ==
    /\ Noise \in Bytes /\ Noise.frame = 0 /\ Noise.pos = 0 /\ Start.unit = Noise
    /\ Start.state = "Start"
    /\ Start \in [state: {"Start", "Length", "Body"}, unit: Bytes, n: Nat]
BY DEF Noise, Bytes, Modes, Unknown, Start

\* What follows the first n bytes of a sequence
LEMMA RestOfSeq ==
    ASSUME NEW q \in Seq(Bytes), NEW n \in 0..Len(q)
    PROVE  /\ SubSeq(q, n + 1, Len(q)) \in Seq(Bytes)
           /\ Len(SubSeq(q, n + 1, Len(q))) = Len(q) - n
           /\ \A i \in 1..(Len(q) - n) : SubSeq(q, n + 1, Len(q))[i] = q[n + i]
<1>1. PICK k \in Nat : k = Len(q)
    OBVIOUS
<1>2. n + 1 \in Int /\ k \in Int /\ \A i \in (n + 1)..k : i \in 1..Len(q) /\ q[i] \in Bytes
    BY <1>1
<1>3. /\ SubSeq(q, n + 1, k) \in Seq(Bytes)
      /\ Len(SubSeq(q, n + 1, k)) = IF n + 1 <= k THEN k - (n + 1) + 1 ELSE 0
      /\ \A i \in 1..(k - (n + 1) + 1) : SubSeq(q, n + 1, k)[i] = q[n + 1 + i - 1]
    BY <1>2, SubSeqProperties
<1>4. \A i \in 1..(k - n) : i \in 1..(k - (n + 1) + 1) /\ n + 1 + i - 1 = n + i
    BY <1>1
<1>5. (IF n + 1 <= k THEN k - (n + 1) + 1 ELSE 0) = k - n
    BY <1>1
<1>6. QED
    BY <1>1, <1>3, <1>4, <1>5

\* The first n bytes of a sequence
LEMMA FrontOfSeq ==
    ASSUME NEW q \in Seq(Bytes), NEW n \in 0..Len(q)
    PROVE  /\ SubSeq(q, 1, n) \in Seq(Bytes) /\ Len(SubSeq(q, 1, n)) = n
           /\ \A i \in 1..n : SubSeq(q, 1, n)[i] = q[i]
<1>1. PICK k \in Nat : k = Len(q)
    OBVIOUS
<1>2. 1 \in Int /\ n \in Int /\ \A i \in 1..n : i \in 1..Len(q) /\ q[i] \in Bytes
    BY <1>1
<1>3. /\ SubSeq(q, 1, n) \in Seq(Bytes)
      /\ Len(SubSeq(q, 1, n)) = IF 1 <= n THEN n - 1 + 1 ELSE 0
      /\ \A i \in 1..(n - 1 + 1) : SubSeq(q, 1, n)[i] = q[1 + i - 1]
    BY <1>2, SubSeqProperties
<1>4. n \in Nat /\ \A i \in 1..n : i \in 1..(n - 1 + 1) /\ 1 + i - 1 = i
    BY <1>1
<1>5. (IF 1 <= n THEN n - 1 + 1 ELSE 0) = n
    BY <1>4
<1>6. QED
    BY <1>3, <1>4, <1>5

\* The places of what is not parsed yet, and what is there
LEMMA AtFacts ==
    ASSUME TypeOK
    PROVE  /\ Behind \in Nat
           /\ \A i \in 0..Behind : At(i) \in Bytes
<1>1. PICK d \in Nat, t \in Nat : d = Len(data) /\ t = Len(stream)
    BY DEF TypeOK
<1>2. Behind = d + t
    BY <1>1 DEF Behind
<1>3. ASSUME NEW i \in 0..Behind PROVE At(i) \in Bytes
    <2>1. CASE i = 0
        BY <2>1 DEF At, TypeOK
    <2>2. CASE i # 0 /\ i <= d
        <3>1. i \in 1..Len(data)
            BY <1>1, <1>2, <1>3, <2>2
        <3>2. QED
            BY <1>1, <2>2, <3>1 DEF At, TypeOK
    <2>3. CASE i # 0 /\ ~(i <= d)
        <3>1. i - d \in 1..Len(stream)
            BY <1>1, <1>2, <1>3, <2>3
        <3>2. QED
            BY <1>1, <2>3, <3>1 DEF At, TypeOK
    <2>4. QED
        BY <2>1, <2>2, <2>3
<1>4. QED
    BY <1>1, <1>2, <1>3

\* A step that returns and sends nothing keeps the order when each byte is where it
\* was or further to the front, or is noise.
LEMMA KeepsOrder ==
    ASSUME TypeOK, TypeOK', OrderInv, UNCHANGED <<count, returned>>,
           NEW f \in [0..Behind' -> Int],
           \A i \in 0..Behind' : At(i)' = Noise \/ (f[i] \in 0..Behind /\ At(i)' = At(f[i])),
           \A i, j \in 0..Behind' :
                i < j /\ At(i)' # Noise /\ At(j)' # Noise => f[i] < f[j]
    PROVE  OrderInv'
<1>1. \A i \in 0..Behind' : First(At(i)') => At(i)' # Noise
    BY NoiseFacts DEF First
<1>2. ASSUME NEW i \in 0..Behind' PROVE At(i)'.frame <= count'
    <2>1. CASE At(i)' = Noise
        <3>1. At(i)'.frame = 0 /\ count' \in Nat
            BY <2>1, NoiseFacts DEF TypeOK
        <3>2. QED
            BY <3>1
    <2>2. CASE f[i] \in 0..Behind /\ At(i)' = At(f[i])
        BY <2>2 DEF OrderInv
    <2>3. QED
        BY <2>1, <2>2
<1>3. \A i, j \in 0..Behind' :
        i < j /\ First(At(i)') /\ First(At(j)') => At(i)'.frame < At(j)'.frame
    BY <1>1 DEF OrderInv
<1>4. \A i \in 0..Behind' : \A m \in 1..Len(returned') :
        First(At(i)') => returned'[m] < At(i)'.frame
    BY <1>1 DEF OrderInv
<1>5. QED
    BY <1>2, <1>3, <1>4 DEF OrderInv, First

\* The length modes of function codes
LEMMA ModesFacts ==
    ASSUME TypeOK
    PROVE  /\ LengthModes(type) \subseteq Modes /\ Unknown \in Modes
           /\ \A mode \in LengthModes(type) :
                /\ mode # Unknown /\ mode.n > 0 /\ mode.tag \in {"Fixed", "Offset"}
                /\ mode.tag = "Offset" => mode = Offset(mode.n)
           /\ \A b \in Bytes : ModesOf(b) \subseteq Modes
           /\ \A mode \in Modes, extra \in Nat : BodyLength(mode, extra) \in Nat
<1>1. /\ LengthModes(type) \subseteq Modes /\ Unknown \in Modes
      /\ \A mode \in LengthModes(type) :
            /\ mode # Unknown /\ mode.n > 0 /\ mode.tag \in {"Fixed", "Offset"}
            /\ mode.tag = "Offset" => mode = Offset(mode.n)
    BY DEF LengthModes, Fixed, Offset, Unknown, Modes
<1>2. \A b \in Bytes : ModesOf(b) \subseteq Modes
    BY <1>1 DEF ModesOf, Bytes
<1>3. \A mode \in Modes, extra \in Nat : BodyLength(mode, extra) \in Nat
    BY DEF BodyLength, Modes
<1>4. QED
    BY <1>1, <1>2, <1>3

-----------------------------------------------------------------------------
(* Steps of the parser *)

\* The parser takes a unit id and peeks at the function code behind it.
LEMMA ParseStartPreserves ==
    ASSUME LineInv, ParseStart
    PROVE  LineInv'
<1> USE DEF LineInv
<1>1. /\ data' = Tail(data) /\ stale' = (stale \/ Len(data') = 0)
      /\ begin' = begin + 1 /\ parser.state = "Start" /\ phase = "reading"
      /\ UNCHANGED <<type, count, faults, stream, returned>>
    BY DEF ParseStart, Peek, Reading
<1>2. PICK d \in Nat, t \in Nat : d = Len(data) /\ t = Len(stream) /\ d >= 2
    BY DEF ParseStart, Reading, NeedsMore, TypeOK
<1>3. /\ data # <<>> /\ data' \in Seq(Bytes) /\ Len(data') = d - 1
      /\ \A i \in 1..(d - 1) : data'[i] = data[i + 1]
      /\ data[1] \in Bytes /\ data[2] \in Bytes /\ Len(data') # 0
    <2>1. data \in Seq(Bytes) /\ data # <<>>
        BY <1>2 DEF TypeOK
    <2>2. QED
        BY <1>1, <1>2, <2>1
<1>4. PeekedByte(data', 0) = data[2]
    <2>1. 0 < Len(data') /\ 0 + 1 = 1 /\ 1 \in 1..(d - 1)
        BY <1>2, <1>3
    <2>2. QED
        BY <1>3, <2>1 DEF PeekedByte
<1>5. PICK mode \in ModesOf(data[2]) :
        \/ mode = Unknown /\ parser' = Start /\ phase' = "BadFrame"
        \/ /\ mode # Unknown /\ phase' = phase
           /\ parser' = [state |-> IF mode.tag = "Fixed" THEN "Body" ELSE "Length",
                         unit |-> data[1], n |-> mode.n]
    BY <1>4 DEF ParseStart, Fail
<1>6. mode \in Modes
    BY <1>3, ModesFacts
<1>7. /\ parser' \in [state: {"Start", "Length", "Body"}, unit: Bytes, n: Nat]
      /\ parser'.unit \in {Noise, data[1]}
    BY <1>3, <1>5, <1>6, NoiseFacts DEF Modes
<1>8. TypeOK'
    BY <1>1, <1>3, <1>7 DEF TypeOK
<1>9. /\ Behind = d + t /\ Behind' = d + t - 1
      /\ At(1) = data[1] /\ At(2) = data[2]
      /\ \A i \in 1..Behind' : At(i)' = At(i + 1)
      /\ At(0)' \in {Noise, At(1)}
    <2>1. Behind = d + t /\ Behind' = d + t - 1
        BY <1>1, <1>2, <1>3 DEF Behind
    <2>2. At(1) = data[1] /\ At(2) = data[2]
        BY <1>2 DEF At
    <2>3. ASSUME NEW i \in 1..(d + t - 1) PROVE At(i)' = At(i + 1)
        <3>1. CASE i <= d - 1
            BY <1>2, <1>3, <3>1 DEF At
        <3>2. CASE ~(i <= d - 1)
            <4>1. i - (d - 1) = i + 1 - d
                BY <1>2
            <4>2. QED
                BY <1>1, <1>2, <1>3, <3>2, <4>1 DEF At
        <3>3. QED
            BY <3>1, <3>2
    <2>4. At(0)' \in {Noise, At(1)}
        BY <1>7, <2>2 DEF At
    <2>5. QED
        BY <2>1, <2>2, <2>3, <2>4
<1>10. OrderInv'
    <2> DEFINE f == [i \in 0..Behind' |-> i + 1]
    <2>1. f \in [0..Behind' -> Int]
        BY <1>2, <1>9
    <2>2. \A i \in 0..Behind' : At(i)' = Noise \/ (f[i] \in 0..Behind /\ At(i)' = At(f[i]))
        BY <1>2, <1>9
    <2>3. \A i, j \in 0..Behind' : i < j => f[i] < f[j]
        BY <1>2, <1>9
    <2> HIDE DEF f
    <2>4. QED
        BY <1>1, <1>8, <2>1, <2>2, <2>3, KeepsOrder
<1>11. CleanInv'
    <2> SUFFICES ASSUME faults = 0
                 PROVE  /\ phase' = "reading"
                        /\ \A m \in 1..Len(returned) : returned[m] = m
                        /\ \E x \in Modes, extra \in Nat : InFlight(x, extra)'
        BY <1>1 DEF CleanInv
    <2>1. PICK x \in Modes, extra \in Nat : InFlight(x, extra)
        BY <1>3 DEF CleanInv, Idle
    <2>2. Skip = 0 /\ data[2] = Sent(2, x, extra) /\ data[1] = Sent(1, x, extra)
        <3>1. Skip = 0
            BY <1>1 DEF Skip
        <3>2. 1 \in 1..Behind /\ 2 \in 1..Behind
            BY <1>2, <1>9
        <3>3. QED
            BY <1>9, <2>1, <3>1, <3>2 DEF InFlight
    <2>3. mode = x
        BY <2>2 DEF ModesOf, Sent
    <2>4. x \in LengthModes(type) /\ x # Unknown /\ x.tag \in {"Fixed", "Offset"}
          /\ (x.tag = "Offset" => x = Offset(x.n))
        BY <2>1, ModesFacts DEF InFlight
    <2>5. /\ phase' = "reading"
          /\ parser' = [state |-> IF x.tag = "Fixed" THEN "Body" ELSE "Length",
                        unit |-> data[1], n |-> x.n]
        BY <1>1, <1>5, <2>3, <2>4
    <2>6. parser'.state # "Start" /\ Skip' = 1
        BY <2>5 DEF Skip
    <2>7. \A i \in 1..Behind' : At(i)' = Sent(i + Skip, x, extra)'
        <3>1. ASSUME NEW i \in 1..Behind' PROVE At(i)' = Sent(i + 1, x, extra)
            <4>1. i + 1 \in 1..Behind
                BY <1>2, <1>9, <3>1
            <4>2. At(i + 1) = Sent(i + 1 + 0, x, extra)
                BY <2>1, <2>2, <4>1 DEF InFlight
            <4>3. QED
                BY <1>2, <1>9, <3>1, <4>2
        <3>2. QED
            BY <1>1, <2>6, <3>1 DEF Sent
    <2>8. Behind' + Skip' = 4 + BodyLength(x, extra)
        BY <1>2, <1>9, <2>1, <2>2, <2>6 DEF InFlight
    <2>9. /\ parser'.unit = Sent(1, x, extra)' /\ data' # <<>> /\ begin' = Skip'
          /\ parser'.state = "Length" => x = Offset(parser'.n)
          /\ parser'.state = "Body" => parser'.n = BodyLength(x, extra)
        <3>1. begin = 0
            BY <1>3, <2>1, <2>2 DEF InFlight
        <3>2. data' # <<>>
            BY <1>3
        <3>3. QED
            BY <1>1, <2>2, <2>4, <2>5, <2>6, <3>1, <3>2 DEF Sent, BodyLength
    <2>10. InFlight(x, extra)'
        BY <1>1, <2>1, <2>6, <2>7, <2>8, <2>9 DEF InFlight, LengthModes, Fits, BodyLength
    <2>11. QED
        BY <1>1, <2>1, <2>5, <2>10 DEF CleanInv
<1>12. PeeksInside'
    BY <1>1, <1>3 DEF PeeksInside
<1>13. QED
    BY <1>8, <1>10, <1>11, <1>12

\* The parser peeks at the byte count only once it was read.
LEMMA ParseLengthPreserves ==
    ASSUME LineInv, ParseLength
    PROVE  LineInv'
<1> USE DEF LineInv
<1>1. /\ stale' = (stale \/ Len(data) = parser.n) /\ parser.state = "Length"
      /\ UNCHANGED <<type, count, faults, stream, begin, data, phase, returned>>
    BY DEF ParseLength, Peek, Reading
<1>2. PICK d \in Nat : d = Len(data) /\ d >= 1 + parser.n /\ parser.n \in Nat
    BY DEF ParseLength, Reading, NeedsMore, TypeOK
<1>3. /\ parser.n + 1 \in 1..Len(data) /\ data[parser.n + 1] \in Bytes
      /\ PeekedByte(data, parser.n) = data[parser.n + 1]
    <2>1. parser.n + 1 \in 1..Len(data) /\ parser.n < Len(data)
        BY <1>2
    <2>2. QED
        BY <2>1 DEF PeekedByte, TypeOK
<1>4. PICK extra \in CountsOf(data[parser.n + 1], parser.n) :
        parser' = [parser EXCEPT !.state = "Body", !.n = parser.n + extra]
    BY <1>3 DEF ParseLength
<1>5. extra \in Nat
    BY <1>3, RtuAssumption DEF CountsOf, Bytes
<1>6. parser' = [state |-> "Body", unit |-> parser.unit, n |-> parser.n + extra]
    BY <1>4 DEF TypeOK
<1>7. TypeOK'
    <2>1. parser.n + extra \in Nat
        BY <1>2, <1>5
    <2>2. QED
        BY <1>1, <1>6, <2>1 DEF TypeOK
<1>8. Behind' = Behind /\ \A i \in 0..Behind : At(i)' = At(i)
    BY <1>1, <1>6 DEF Behind, At
<1>9. OrderInv'
    BY <1>1, <1>7, <1>8 DEF OrderInv, First
<1>10. CleanInv'
    <2> SUFFICES ASSUME faults = 0
                 PROVE  /\ phase = "reading"
                        /\ \A m \in 1..Len(returned) : returned[m] = m
                        /\ \E x \in Modes, y \in Nat : InFlight(x, y)'
        BY <1>1 DEF CleanInv
    <2>1. PICK x \in Modes, y \in Nat : InFlight(x, y)
        BY <1>1, NoiseFacts DEF CleanInv, Idle
    <2>2. x = Offset(parser.n) /\ Skip = 1 /\ Skip' = 1
        BY <1>1, <1>6, <2>1 DEF InFlight, Skip
    <2>3. data[parser.n + 1] = Sent(parser.n + 2, x, y)
        <3>1. /\ parser.n + 1 \in 1..Behind /\ parser.n + 1 # 0 /\ parser.n + 1 + 1 = parser.n + 2
              /\ parser.n + 1 <= Len(data)
            BY <1>2, <1>3 DEF Behind, TypeOK
        <3>2. At(parser.n + 1) = data[parser.n + 1]
            BY <3>1 DEF At
        <3>3. QED
            BY <2>1, <2>2, <3>1, <3>2 DEF InFlight
    <2>4. extra = y
        <3>1. parser.n + 2 = 2 + parser.n
            BY <1>2
        <3>2. QED
            BY <2>2, <2>3, <3>1 DEF CountsOf, Sent
    <2>5. parser'.n = BodyLength(x, y) /\ parser'.state = "Body" /\ parser'.unit = parser.unit
        BY <1>6, <2>2, <2>4 DEF BodyLength, Offset
    <2>6. \A i \in 1..Behind : At(i)' = At(i)
        BY <1>8, AtFacts
    <2>7. InFlight(x, y)'
        BY <1>1, <1>8, <2>1, <2>2, <2>5, <2>6
        DEF InFlight, Sent, LengthModes, Fits, BodyLength
    <2>8. QED
        BY <2>1, <2>7 DEF CleanInv
<1>11. PeeksInside'
    <2>1. Len(data) # parser.n
        BY <1>2
    <2>2. QED
        BY <1>1, <2>1 DEF PeeksInside
<1>12. QED
    BY <1>7, <1>9, <1>10, <1>11

\* A length beyond the limit ends the attempt; no frame that was sent has it.
LEMMA ParseTooBigPreserves ==
    ASSUME LineInv, ParseTooBig
    PROVE  LineInv'
<1> USE DEF LineInv
<1>1. /\ parser' = Start /\ parser.state = "Body" /\ 1 + parser.n > MaxAdu
      /\ UNCHANGED <<type, count, faults, stream, begin, data, returned, stale>>
    BY DEF ParseTooBig, Fail, Reading
<1>2. TypeOK'
    BY <1>1, NoiseFacts DEF TypeOK
<1>3. /\ Behind' = Behind /\ At(0)' = Noise
      /\ \A i \in 0..Behind : i # 0 => At(i)' = At(i)
    BY <1>1, NoiseFacts DEF Behind, At
<1>4. OrderInv'
    <2> DEFINE f == [i \in 0..Behind' |-> i]
    <2>1. f \in [0..Behind' -> Int]
        OBVIOUS
    <2>2. \A i \in 0..Behind' : At(i)' = Noise \/ (f[i] \in 0..Behind /\ At(i)' = At(f[i]))
        BY <1>3
    <2>3. \A i, j \in 0..Behind' : i < j => f[i] < f[j]
        OBVIOUS
    <2> HIDE DEF f
    <2>4. QED
        BY <1>1, <1>2, <2>1, <2>2, <2>3, KeepsOrder
<1>5. CleanInv'
    <2>1. ASSUME faults = 0 PROVE FALSE
        <3>1. PICK x \in Modes, y \in Nat : InFlight(x, y)
            BY <1>1, <2>1, NoiseFacts DEF CleanInv, Idle
        <3>2. parser.n = BodyLength(x, y) /\ 1 + BodyLength(x, y) <= MaxAdu
            BY <1>1, <3>1 DEF InFlight, Fits
        <3>3. QED
            BY <1>1, <3>2, RtuAssumption DEF TypeOK
    <2>2. QED
        BY <1>1, <2>1 DEF CleanInv
<1>6. PeeksInside'
    BY <1>1 DEF PeeksInside
<1>7. QED
    BY <1>2, <1>4, <1>5, <1>6

\* A body is returned when its CRC matches; without faults it always does.
LEMMA ParseBodyPreserves ==
    ASSUME LineInv, ParseBody
    PROVE  LineInv'
<1> USE DEF LineInv
<1> DEFINE n == 1 + parser.n + 2
           taken == SubSeq(data, 1, n)
           bytes == <<parser.unit>> \o taken
<1>1. /\ data' = SubSeq(data, n + 1, Len(data)) /\ parser' = Start
      /\ parser.state = "Body" /\ phase = "reading"
      /\ \/ CrcMatches(bytes) /\ returned' = Append(returned, bytes[1].frame) /\ phase' = phase
         \/ ~CrcMatches(bytes) /\ returned' = returned
      /\ UNCHANGED <<type, count, faults, stream, stale>>
    BY DEF ParseBody, Fail, Reading
<1>2. PICK d \in Nat, t \in Nat :
        d = Len(data) /\ t = Len(stream) /\ n \in 3..d /\ data \in Seq(Bytes)
    <2>1. data \in Seq(Bytes) /\ stream \in Seq(Bytes) /\ parser.n \in Nat
        BY DEF TypeOK
    <2>2. PICK d \in Nat, t \in Nat : d = Len(data) /\ t = Len(stream)
        BY <2>1
    <2>3. ~(d < n)
        BY <2>2 DEF ParseBody, Reading, NeedsMore
    <2>4. n \in 3..d
        BY <2>1, <2>2, <2>3
    <2> HIDE DEF n
    <2>5. QED
        BY <2>1, <2>2, <2>4
<1> HIDE DEF n
<1>3. /\ data' \in Seq(Bytes) /\ Len(data') = d - n
      /\ \A i \in 1..(d - n) : data'[i] = data[n + i]
    BY <1>1, <1>2, RestOfSeq
<1>4. /\ taken \in Seq(Bytes) /\ Len(taken) = n
      /\ \A i \in 1..n : taken[i] = data[i]
    BY <1>2, FrontOfSeq
<1> HIDE DEF taken
<1>5. /\ bytes \in Seq(Bytes) /\ Len(bytes) = n + 1 /\ bytes[1] = parser.unit
      /\ \A i \in 1..n : bytes[i + 1] = data[i]
    <2>1. parser.unit \in Bytes /\ <<parser.unit>> \in Seq(Bytes) /\ Len(<<parser.unit>>) = 1
        BY DEF TypeOK
    <2>2. /\ bytes \in Seq(Bytes) /\ Len(bytes) = 1 + n
          /\ \A i \in 1..(1 + n) :
                bytes[i] = IF i <= 1 THEN <<parser.unit>>[i] ELSE taken[i - 1]
        BY <1>4, <2>1, ConcatProperties
    <2>3. \A i \in 1..n : i + 1 \in 1..(1 + n) /\ ~(i + 1 <= 1) /\ i + 1 - 1 = i
        BY <1>2
    <2>4. 1 \in 1..(1 + n) /\ n \in Nat
        BY <1>2
    <2> HIDE DEF bytes
    <2>5. QED
        BY <1>4, <2>2, <2>3, <2>4
<1> HIDE DEF bytes
<1>6. bytes[1].frame \in Nat /\ parser.unit \in Bytes
    BY <1>5 DEF Bytes, TypeOK
<1>7. TypeOK'
    <2>1. returned' \in Seq(Nat)
        <3>1. returned \in Seq(Nat) /\ Append(returned, bytes[1].frame) \in Seq(Nat)
            BY <1>6 DEF TypeOK
        <3>2. QED
            BY <1>1, <3>1
    <2>2. begin' \in Nat
        BY <1>2 DEF TypeOK, ParseBody, n
    <2>3. QED
        BY <1>1, <1>3, <2>1, <2>2, NoiseFacts DEF TypeOK
<1>8. /\ Behind = d + t /\ Behind' = d + t - n /\ At(0)' = Noise
      /\ \A i \in 1..Behind' : At(i)' = At(i + n)
    <2>1. Behind = d + t /\ Behind' = d + t - n /\ At(0)' = Noise
        BY <1>1, <1>2, <1>3, NoiseFacts DEF Behind, At
    <2>2. ASSUME NEW i \in 1..(d + t - n) PROVE At(i)' = At(i + n)
        <3>1. i + n # 0 /\ i # 0 /\ i + n = n + i
            BY <1>2
        <3>2. CASE i <= d - n
            <4>1. i \in 1..(d - n) /\ i + n <= d
                BY <1>2, <3>2
            <4>2. QED
                BY <1>2, <1>3, <3>1, <3>2, <4>1 DEF At
        <3>3. CASE ~(i <= d - n)
            <4>1. i - (d - n) = i + n - d /\ ~(i + n <= d)
                BY <1>2, <3>3
            <4>2. QED
                BY <1>1, <1>2, <1>3, <3>1, <3>3, <4>1 DEF At
        <3>4. QED
            BY <3>2, <3>3
    <2>3. QED
        BY <2>1, <2>2
<1>9. OrderInv'
    <2>1. CASE returned' = returned
        <3> DEFINE f == [i \in 0..Behind' |-> i + n]
        <3>1. f \in [0..Behind' -> Int]
            BY <1>2
        <3>2. \A i \in 0..Behind' : At(i)' = Noise \/ (f[i] \in 0..Behind /\ At(i)' = At(f[i]))
            BY <1>2, <1>8
        <3>3. \A i, j \in 0..Behind' : i < j => f[i] < f[j]
            BY <1>2
        <3> HIDE DEF f
        <3>4. QED
            BY <1>1, <1>7, <2>1, <3>1, <3>2, <3>3, KeepsOrder
    <2>2. CASE CrcMatches(bytes) /\ returned' = Append(returned, bytes[1].frame)
        <3> DEFINE k == At(0).frame
        <3>1. First(At(0)) /\ k = bytes[1].frame /\ 0 \in 0..Behind
            <4>1. 1 \in 1..Len(bytes)
                BY <1>2, <1>5
            <4>2. bytes[1].pos = 1
                BY <2>2, <4>1 DEF CrcMatches
            <4>3. At(0) = bytes[1] /\ 0 \in 0..Behind
                BY <1>2, <1>5, <1>8 DEF At
            <4>4. QED
                BY <4>2, <4>3 DEF First
        <3>2. k \in Nat /\ k <= count /\ \A m \in 1..Len(returned) : returned[m] < k
            BY <1>6, <3>1 DEF OrderInv
        <3>3. \A i \in 1..Behind' : i + n \in 0..Behind /\ 0 < i + n
            BY <1>2, <1>8
        <3>4. \A i \in 1..Behind' : First(At(i)') => k < At(i)'.frame
            BY <1>8, <3>1, <3>3 DEF OrderInv
        <3>5. ~First(At(0)')
            BY <1>8, NoiseFacts DEF First
        <3>6. \A i \in 0..Behind' : i = 0 \/ i \in 1..Behind'
            BY <1>2, <1>8
        <3>7. PICK r \in Nat : r = Len(returned)
            BY DEF TypeOK
        <3>8. /\ Len(returned') = r + 1
              /\ \A m \in 1..r : returned'[m] = returned[m]
              /\ returned'[r + 1] = k
            BY <2>2, <3>1, <3>2, <3>7 DEF TypeOK
        <3>9. \A m \in 1..(r + 1) : m \in 1..r \/ m = r + 1
            BY <3>7
        <3> HIDE DEF k
        <3>10. \A i \in 0..Behind' : At(i)'.frame <= count'
            <4>1. At(0)'.frame = 0 /\ count' \in Nat
                BY <1>1, <1>8, NoiseFacts DEF TypeOK
            <4>2. \A i \in 1..Behind' : At(i)'.frame <= count'
                BY <1>1, <1>8, <3>3 DEF OrderInv
            <4>3. 0 <= count'
                BY <4>1
            <4>4. QED
                BY <3>6, <4>1, <4>2, <4>3
        <3>11. \A i, j \in 0..Behind' :
                i < j /\ First(At(i)') /\ First(At(j)') => At(i)'.frame < At(j)'.frame
            <4>1. ASSUME NEW i \in 1..Behind', NEW j \in 1..Behind', i < j,
                         First(At(i)'), First(At(j)')
                  PROVE  At(i)'.frame < At(j)'.frame
                <5>1. i + n < j + n /\ i + n \in 0..Behind /\ j + n \in 0..Behind
                    BY <1>2, <3>3, <4>1
                <5>2. QED
                    BY <1>8, <4>1, <5>1 DEF OrderInv
            <4>2. QED
                BY <3>5, <3>6, <4>1
        <3>12. \A i \in 0..Behind' : \A m \in 1..(r + 1) :
                First(At(i)') => returned'[m] < At(i)'.frame
            <4>1. ASSUME NEW i \in 1..Behind', NEW m \in 1..r, First(At(i)')
                  PROVE  returned[m] < At(i)'.frame
                BY <1>8, <3>3, <3>7, <4>1 DEF OrderInv
            <4>2. QED
                BY <3>4, <3>5, <3>6, <3>8, <3>9, <4>1
        <3>13. \A m \in 1..(r + 1) : returned'[m] <= count'
            BY <1>1, <3>2, <3>7, <3>8, <3>9 DEF OrderInv
        <3>14. \A l, m \in 1..(r + 1) : l < m => returned'[l] < returned'[m]
            <4>1. \A l, m \in 1..(r + 1) : l < m => l \in 1..r
                BY <3>7
            <4>2. QED
                BY <3>2, <3>7, <3>8, <3>9, <4>1 DEF OrderInv
        <3>15. QED
            BY <3>8, <3>10, <3>11, <3>12, <3>13, <3>14 DEF OrderInv, First
    <2>3. QED
        BY <1>1, <2>1, <2>2
<1>10. CleanInv'
    <2> SUFFICES ASSUME faults = 0
                 PROVE  /\ phase' = "reading" /\ Idle'
                        /\ \A m \in 1..Len(returned') : returned'[m] = m
        BY <1>1 DEF CleanInv
    <2>1. PICK x \in Modes, y \in Nat : InFlight(x, y)
        BY <1>1, NoiseFacts DEF CleanInv, Idle
    <2>2. /\ Skip = 1 /\ parser.unit = Sent(1, x, y) /\ parser.n = BodyLength(x, y)
          /\ parser.n \in Nat
        BY <1>1, <2>1 DEF InFlight, Skip, TypeOK
    <2>3. n = Behind /\ n = d /\ t = 0
        <3>1. Behind = n
            BY <1>2, <1>8, <2>1, <2>2 DEF InFlight, n
        <3>2. QED
            BY <1>2, <1>8, <3>1
    <2>4. \A i \in 1..n : data[i] = Sent(i + 1, x, y)
        <3>1. \A i \in 1..n : At(i) = data[i]
            BY <1>2, <2>3 DEF At
        <3>2. QED
            BY <2>1, <2>2, <2>3, <3>1 DEF InFlight
    <2>5. \A i \in 1..Len(bytes) : bytes[i] = Sent(i, x, y)
        <3>1. ASSUME NEW i \in 1..(n + 1) PROVE bytes[i] = Sent(i, x, y)
            <4>1. CASE i = 1
                BY <1>5, <2>2, <4>1
            <4>2. CASE i # 1
                <5>1. i - 1 \in 1..n /\ i - 1 + 1 = i
                    BY <1>2, <3>1, <4>2
                <5>2. QED
                    BY <1>5, <2>4, <5>1
            <4>3. QED
                BY <4>1, <4>2
        <3>2. QED
            BY <1>5, <3>1
    <2>6. Len(bytes) = 4 + BodyLength(x, y) /\ 1 \in 1..Len(bytes) /\ count # 0
        <3>1. Len(bytes) = 4 + BodyLength(x, y)
            BY <1>5, <2>2 DEF n
        <3>2. count # 0
            BY <2>1 DEF InFlight, TypeOK
        <3>3. QED
            BY <1>2, <1>5, <3>1, <3>2
    <2>7. CrcMatches(bytes)
        BY <2>5, <2>6 DEF CrcMatches, Sent
    <2>8. phase' = "reading" /\ returned' = Append(returned, count)
        BY <1>1, <2>5, <2>6, <2>7 DEF Sent
    <2>9. PICK r \in Nat : r = Len(returned) /\ r + 1 = count
        BY <2>1 DEF InFlight, TypeOK
    <2>10. /\ Len(returned') = r + 1 /\ returned'[r + 1] = r + 1
           /\ \A m \in 1..r : returned'[m] = returned[m]
        BY <2>8, <2>9 DEF TypeOK
    <2>11. \A m \in 1..(r + 1) : m \in 1..r \/ m = r + 1
        BY <2>9
    <2>12. \A m \in 1..Len(returned') : returned'[m] = m
        BY <2>9, <2>10, <2>11 DEF CleanInv
    <2>13. data' = <<>> /\ stream' = <<>>
        <3>1. Len(data') = 0 /\ Len(stream') = 0 /\ stream' \in Seq(Bytes)
            BY <1>1, <1>2, <1>3, <2>3 DEF TypeOK
        <3>2. QED
            BY <1>3, <3>1, EmptySeq
    <2>14. QED
        BY <1>1, <2>8, <2>9, <2>10, <2>12, <2>13 DEF Idle
<1>11. PeeksInside'
    BY <1>1 DEF PeeksInside
<1>12. QED
    BY <1>7, <1>9, <1>10, <1>11

-----------------------------------------------------------------------------
(* Steps of the reader, the port, the peer and the line *)

\* A frame that fits has left enough room, and while it is not parsed there is
\* something to read or to parse.
LEMMA InFlightFacts ==
    ASSUME TypeOK, NEW x \in Modes, NEW y \in Nat, InFlight(x, y)
    PROVE  /\ Room # 0
           /\ phase = "reading" /\ NeedsMore => stream # <<>>
<1>1. PICK d \in Nat, t \in Nat : d = Len(data) /\ t = Len(stream)
    BY DEF TypeOK
<1>2. PICK b \in Nat : b = BodyLength(x, y) /\ 1 + b <= MaxAdu /\ b > 0 /\ MaxAdu \in Nat
    <2>1. x.n > 0 /\ x.n \in Nat
        BY ModesFacts DEF InFlight, Modes
    <2>2. BodyLength(x, y) \in Nat /\ BodyLength(x, y) > 0
        BY <2>1 DEF BodyLength
    <2>3. QED
        BY <2>2, RtuAssumption DEF InFlight, Fits
<1>3. Skip \in {0, 1} /\ d + t + Skip = 4 + b
    BY <1>1, <1>2 DEF InFlight, Behind, Skip
<1>4. Room # 0
    <2>1. Adjusted \in {0, Skip}
        BY DEF Adjusted, InFlight
    <2>2. Adjusted + d <= 4 + b
        BY <1>1, <1>2, <1>3, <2>1
    <2>3. QED
        BY <1>1, <1>2, <1>3, <2>1, <2>2 DEF Room, Capacity
<1>5. ASSUME phase = "reading", NeedsMore, stream = <<>> PROVE FALSE
    <2>1. t = 0
        BY <1>1, <1>5
    <2>2. d + Skip = 4 + b
        BY <1>1, <1>3, <2>1
    <2>3. CASE parser.state = "Start"
        BY <1>1, <1>2, <1>5, <2>2, <2>3 DEF NeedsMore, Skip
    <2>4. CASE parser.state = "Length"
        <3>1. x = Offset(parser.n) /\ parser.n \in Nat /\ Skip = 1
            BY <2>4 DEF InFlight, TypeOK, Skip
        <3>2. b = parser.n + y
            BY <1>2, <3>1 DEF BodyLength, Offset
        <3>3. QED
            BY <1>1, <1>5, <2>2, <2>4, <3>1, <3>2 DEF NeedsMore
    <2>5. CASE parser.state = "Body"
        BY <1>1, <1>2, <1>5, <2>2, <2>5 DEF NeedsMore, Skip, InFlight
    <2>6. QED
        BY <2>3, <2>4, <2>5 DEF TypeOK
<1>6. QED
    BY <1>4, <1>5

\* A read moves bytes from the line to the buffer.
LEMMA ReadSomePreserves ==
    ASSUME LineInv, ReadSome
    PROVE  LineInv'
<1> USE DEF LineInv
<1>1. PICK n \in 1..Len(stream) :
        /\ data' = data \o SubSeq(stream, 1, n)
        /\ stream' = SubSeq(stream, n + 1, Len(stream))
    BY DEF ReadSome
<1>2. begin' = Adjusted /\ UNCHANGED <<type, count, faults, parser, phase, returned, stale>>
    BY DEF ReadSome
<1>3. PICK d \in Nat, t \in Nat :
        d = Len(data) /\ t = Len(stream) /\ data \in Seq(Bytes) /\ stream \in Seq(Bytes)
    BY DEF TypeOK
<1>4. n \in 1..t /\ n \in 0..Len(stream) /\ n \in Nat
    BY <1>3
<1> DEFINE head == SubSeq(stream, 1, n)
<1>5. head \in Seq(Bytes) /\ Len(head) = n /\ \A i \in 1..n : head[i] = stream[i]
    BY <1>3, <1>4, FrontOfSeq
<1>6. /\ stream' \in Seq(Bytes) /\ Len(stream') = t - n
      /\ \A i \in 1..(t - n) : stream'[i] = stream[n + i]
    BY <1>1, <1>3, <1>4, RestOfSeq
<1> HIDE DEF head
<1>7. /\ data' \in Seq(Bytes) /\ Len(data') = d + n /\ data' # <<>>
      /\ \A i \in 1..(d + n) : data'[i] = IF i <= d THEN data[i] ELSE stream[i - d]
    <2>1. data' = data \o head
        BY <1>1 DEF head
    <2>2. /\ data' \in Seq(Bytes) /\ Len(data') = d + n
          /\ \A i \in 1..(d + n) : data'[i] = IF i <= d THEN data[i] ELSE head[i - d]
        BY <1>3, <1>5, <2>1, ConcatProperties
    <2>3. \A i \in 1..(d + n) : ~(i <= d) => i - d \in 1..n
        BY <1>3, <1>4
    <2>4. data' # <<>>
        BY <1>3, <1>4, <2>2
    <2>5. QED
        BY <1>5, <2>2, <2>3, <2>4
<1>8. TypeOK'
    BY <1>2, <1>6, <1>7 DEF TypeOK, Adjusted
<1>9. Behind' = Behind /\ \A i \in 0..Behind : At(i)' = At(i)
    <2>1. Behind = d + t /\ Behind' = d + t
        BY <1>3, <1>4, <1>6, <1>7 DEF Behind
    <2>2. At(0)' = At(0)
        BY <1>2 DEF At
    <2>3. ASSUME NEW i \in 1..(d + t) PROVE At(i)' = At(i)
        <3>1. CASE i <= d
            <4>1. i \in 1..(d + n) /\ i # 0
                BY <1>3, <1>4, <3>1
            <4>2. i <= d + n
                BY <4>1
            <4>3. QED
                BY <1>3, <1>7, <3>1, <4>1, <4>2 DEF At
        <3>2. CASE ~(i <= d) /\ i <= d + n
            <4>1. i \in 1..(d + n) /\ i # 0
                BY <1>3, <1>4, <3>2
            <4>2. QED
                BY <1>3, <1>7, <3>2, <4>1 DEF At
        <3>3. CASE ~(i <= d + n)
            <4>1. i - (d + n) \in 1..(t - n) /\ n + (i - (d + n)) = i - d /\ i # 0 /\ ~(i <= d)
                BY <1>3, <1>4, <3>3
            <4>2. QED
                BY <1>3, <1>6, <1>7, <3>3, <4>1 DEF At
        <3>4. QED
            BY <3>1, <3>2, <3>3
    <2>4. \A i \in 0..(d + t) : i = 0 \/ i \in 1..(d + t)
        BY <1>3
    <2>5. QED
        BY <2>1, <2>2, <2>3, <2>4
<1>10. OrderInv'
    BY <1>2, <1>9 DEF OrderInv, First
<1>11. CleanInv'
    <2> SUFFICES ASSUME faults = 0
                 PROVE  /\ phase = "reading"
                        /\ \A m \in 1..Len(returned) : returned[m] = m
                        /\ \E x \in Modes, y \in Nat : InFlight(x, y)'
        BY <1>2 DEF CleanInv
    <2>1. stream # <<>>
        BY <1>3, <1>4
    <2>2. PICK x \in Modes, y \in Nat : InFlight(x, y)
        BY <2>1 DEF CleanInv, Idle
    <2>3. Skip' = Skip /\ begin' = Skip
        BY <1>2, <2>2 DEF InFlight, Skip, Adjusted
    <2>4. \A i \in 1..Behind : At(i)' = At(i)
        BY <1>9, AtFacts
    <2>5. InFlight(x, y)'
        BY <1>2, <1>7, <1>9, <2>2, <2>3, <2>4
        DEF InFlight, Sent, LengthModes, Fits, BodyLength
    <2>6. QED
        BY <2>2, <2>5 DEF CleanInv
<1>12. PeeksInside'
    BY <1>2 DEF PeeksInside
<1>13. QED
    BY <1>8, <1>10, <1>11, <1>12

\* A read without room and an opened port come after a fault only; no byte is added.
LEMMA QuietPreserves ==
    ASSUME LineInv, ReadNothing \/ ReadFails \/ Reopen \/ UNCHANGED vars
    PROVE  LineInv'
<1> USE DEF LineInv
<1>1. /\ stream' = stream \/ stream' = <<>>
      /\ begin' \in {begin, Adjusted} /\ faults' \in {faults, faults + 1}
      /\ UNCHANGED <<type, count, data, parser, returned, stale>>
    BY DEF ReadNothing, ReadFails, Reopen, vars
<1>2. TypeOK'
    <2>1. stream' \in Seq(Bytes)
        BY <1>1, EmptySeq DEF TypeOK
    <2>2. begin' \in Nat /\ faults' \in Nat
        BY <1>1 DEF TypeOK, Adjusted
    <2>3. QED
        BY <1>1, <2>1, <2>2 DEF TypeOK
<1>3. PICK d \in Nat, t \in Nat : d = Len(data) /\ t = Len(stream)
    BY DEF TypeOK
<1>4. /\ Behind' <= Behind /\ Behind' \in Nat
      /\ \A i \in 0..Behind' : At(i)' = At(i)
    <2>1. CASE stream' = stream
        BY <1>1, <1>3, <2>1 DEF Behind, At
    <2>2. CASE stream' = <<>>
        <3>1. Behind' = d /\ Behind = d + t
            BY <1>1, <1>3, <2>2 DEF Behind
        <3>2. \A i \in 0..d : At(i)' = At(i)
            BY <1>1, <1>3 DEF At
        <3>3. QED
            BY <1>3, <3>1, <3>2
    <2>3. QED
        BY <1>1, <2>1, <2>2
<1>5. OrderInv'
    <2>1. \A i \in 0..Behind' : i \in 0..Behind
        BY <1>4, AtFacts
    <2>2. QED
        BY <1>1, <1>4, <2>1 DEF OrderInv, First
<1>6. CleanInv'
    <2>1. CASE ReadFails
        <3>1. faults' # 0
            BY <2>1 DEF ReadFails, TypeOK
        <3>2. QED
            BY <3>1 DEF CleanInv
    <2>2. CASE Reopen
        BY <1>1, <2>2 DEF Reopen, CleanInv
    <2>3. CASE ReadNothing
        <3>1. ASSUME faults = 0 PROVE FALSE
            <4>1. CASE Idle
                <5>1. Adjusted = 0 /\ Len(data) = 0 /\ Capacity \in Nat
                    BY <4>1, RtuAssumption DEF Idle, Adjusted, Capacity
                <5>2. Room = Capacity
                    BY <5>1 DEF Room
                <5>3. QED
                    BY <2>3, <5>2, RtuAssumption DEF ReadNothing, Capacity
            <4>2. CASE \E x \in Modes, y \in Nat : InFlight(x, y)
                BY <2>3, <4>2, InFlightFacts DEF ReadNothing
            <4>3. QED
                BY <3>1, <4>1, <4>2 DEF CleanInv
        <3>2. QED
            BY <2>3, <3>1 DEF CleanInv, ReadNothing
    <2>4. CASE UNCHANGED vars
        <3>1. UNCHANGED <<type, count, faults, stream, begin, data, parser, phase, returned>>
            BY <2>4 DEF vars
        <3>2. /\ Idle' = Idle /\ Behind' = Behind /\ Skip' = Skip
              /\ \A i \in 1..Behind : At(i)' = At(i)
            BY <3>1 DEF Idle, Behind, Skip, At
        <3>3. \A x \in Modes, y \in Nat : InFlight(x, y) => InFlight(x, y)'
            BY <3>1, <3>2 DEF InFlight, Sent, LengthModes, Fits, BodyLength
        <3>4. QED
            BY <3>1, <3>2, <3>3 DEF CleanInv
    <2>5. QED
        BY <2>1, <2>2, <2>3, <2>4
<1>7. PeeksInside'
    BY <1>1 DEF PeeksInside
<1>8. QED
    BY <1>2, <1>5, <1>6, <1>7

\* The line loses a byte, or adds one of no frame.
LEMMA LineFailsPreserves ==
    ASSUME LineInv, LineFails
    PROVE  LineInv'
<1> USE DEF LineInv
<1>1. faults' = faults + 1 /\ UNCHANGED <<type, count, begin, data, parser, returned, stale>>
    BY DEF LineFails
<1>2. PICK d \in Nat, t \in Nat :
        d = Len(data) /\ t = Len(stream) /\ stream \in Seq(Bytes)
    BY DEF TypeOK
<1>3. Behind = d + t
    BY <1>2 DEF Behind
<1>4. ASSUME stream' = <<Noise>> \o stream PROVE TypeOK' /\ OrderInv'
    <2>1. <<Noise>> \in Seq(Bytes) /\ Len(<<Noise>>) = 1 /\ <<Noise>>[1] = Noise
        BY NoiseFacts
    <2>2. /\ stream' \in Seq(Bytes) /\ Len(stream') = 1 + t
          /\ \A i \in 1..(1 + t) : stream'[i] = IF i <= 1 THEN <<Noise>>[i] ELSE stream[i - 1]
        BY <1>2, <1>4, <2>1, ConcatProperties
    <2>3. TypeOK'
        BY <1>1, <2>2 DEF TypeOK
    <2>4. Behind' = d + t + 1
        BY <1>1, <1>2, <2>2 DEF Behind
    <2> DEFINE f == [i \in 0..Behind' |-> IF i <= d THEN i ELSE i - 1]
    <2>5. ASSUME NEW i \in 0..Behind'
          PROVE  /\ At(i)' = Noise \/ (f[i] \in 0..Behind /\ At(i)' = At(f[i]))
                 /\ i = d + 1 => At(i)' = Noise
        <3>1. CASE i <= d
            BY <1>1, <1>2, <1>3, <2>4, <3>1 DEF At
        <3>2. CASE i = d + 1
            <4>1. i - d = 1 /\ i # 0 /\ ~(i <= d) /\ 1 \in 1..(1 + t) /\ 1 <= 1
                BY <1>2, <3>2
            <4>2. stream'[1] = Noise
                BY <2>1, <2>2, <4>1
            <4>3. At(i)' = Noise
                BY <1>1, <1>2, <4>1, <4>2 DEF At
            <4>4. QED
                BY <4>3
        <3>3. CASE i > d + 1
            <4>1. /\ i - d \in 1..(1 + t) /\ ~(i - d <= 1) /\ i - d - 1 = i - 1 - d
                  /\ i # 0 /\ ~(i <= d) /\ i - 1 # 0 /\ ~(i - 1 <= d) /\ i - 1 \in 0..Behind
                  /\ i # d + 1
                BY <1>2, <1>3, <2>4, <3>3
            <4>2. f[i] = i - 1
                BY <4>1
            <4>3. At(i)' = stream'[i - d]
                BY <1>1, <1>2, <4>1 DEF At
            <4>4. At(i - 1) = stream[i - 1 - d]
                BY <1>2, <4>1 DEF At
            <4>5. QED
                BY <2>2, <4>1, <4>2, <4>3, <4>4
        <3>4. QED
            BY <1>2, <2>4, <3>1, <3>2, <3>3
    <2>6. f \in [0..Behind' -> Int]
        BY <1>2, <2>4
    <2>7. \A i, j \in 0..Behind' :
            i < j /\ At(i)' # Noise /\ At(j)' # Noise => f[i] < f[j]
        <3>1. \A i, j \in 0..Behind' : i < j /\ i # d + 1 /\ j # d + 1 => f[i] < f[j]
            BY <1>2, <2>4
        <3>2. QED
            BY <2>5, <3>1
    <2> HIDE DEF f
    <2>8. OrderInv'
        BY <1>1, <2>3, <2>5, <2>6, <2>7, KeepsOrder
    <2>9. QED
        BY <2>3, <2>8
<1>5. ASSUME NEW lost \in 1..Len(stream),
             stream' = SubSeq(stream, 1, lost - 1) \o SubSeq(stream, lost + 1, Len(stream))
      PROVE  TypeOK' /\ OrderInv'
    <2>1. PICK x \in 1..t :
            stream' = SubSeq(stream, 1, x - 1) \o SubSeq(stream, x + 1, Len(stream))
        BY <1>2, <1>5
    <2> DEFINE front == SubSeq(stream, 1, x - 1)
               rear == SubSeq(stream, x + 1, Len(stream))
    <2>2. front \in Seq(Bytes) /\ Len(front) = x - 1 /\ \A i \in 1..(x - 1) : front[i] = stream[i]
        <3>1. x - 1 \in 0..Len(stream)
            BY <1>2
        <3>2. QED
            BY <1>2, <3>1, FrontOfSeq
    <2>3. rear \in Seq(Bytes) /\ Len(rear) = t - x /\ \A i \in 1..(t - x) : rear[i] = stream[x + i]
        <3>1. x \in 0..Len(stream)
            BY <1>2
        <3>2. QED
            BY <1>2, <3>1, RestOfSeq
    <2> HIDE DEF front, rear
    <2>4. /\ stream' \in Seq(Bytes) /\ Len(stream') = t - 1
          /\ \A i \in 1..(t - 1) : stream'[i] = IF i < x THEN stream[i] ELSE stream[i + 1]
        <3>1. stream' = front \o rear
            BY <2>1 DEF front, rear
        <3>2. /\ stream' \in Seq(Bytes) /\ Len(stream') = x - 1 + (t - x)
              /\ \A i \in 1..(x - 1 + (t - x)) :
                    stream'[i] = IF i <= x - 1 THEN front[i] ELSE rear[i - (x - 1)]
            <4>1. /\ front \o rear \in Seq(Bytes)
                  /\ Len(front \o rear) = Len(front) + Len(rear)
                  /\ \A i \in 1..(Len(front) + Len(rear)) : (front \o rear)[i] =
                        IF i <= Len(front) THEN front[i] ELSE rear[i - Len(front)]
                BY <2>2, <2>3, ConcatProperties
            <4>2. QED
                BY <2>2, <2>3, <3>1, <4>1
        <3>3. x - 1 + (t - x) = t - 1
            BY <1>2
        <3>4. ASSUME NEW i \in 1..(t - 1)
              PROVE  stream'[i] = IF i < x THEN stream[i] ELSE stream[i + 1]
            <4>1. CASE i < x
                <5>1. i \in 1..(x - 1) /\ i <= x - 1
                    BY <1>2, <4>1
                <5>2. QED
                    BY <2>2, <3>2, <3>3, <4>1, <5>1
            <4>2. CASE ~(i < x)
                <5>1. i - (x - 1) \in 1..(t - x) /\ ~(i <= x - 1) /\ x + (i - (x - 1)) = i + 1
                    BY <1>2, <4>2
                <5>2. QED
                    BY <2>3, <3>2, <3>3, <4>2, <5>1
            <4>3. QED
                BY <4>1, <4>2
        <3>5. QED
            BY <3>2, <3>3, <3>4
    <2>5. TypeOK'
        BY <1>1, <2>4 DEF TypeOK
    <2>6. Behind' = d + t - 1
        BY <1>1, <1>2, <2>4 DEF Behind
    <2> DEFINE f == [i \in 0..Behind' |-> IF i < d + x THEN i ELSE i + 1]
    <2>7. ASSUME NEW i \in 0..Behind'
          PROVE  f[i] \in 0..Behind /\ At(i)' = At(f[i])
        <3>1. CASE i <= d
            <4>1. f[i] = i /\ i \in 0..Behind
                BY <1>2, <1>3, <2>6, <3>1
            <4>2. At(i)' = At(i)
                BY <1>1, <1>2, <3>1 DEF At
            <4>3. QED
                BY <4>1, <4>2
        <3>2. CASE ~(i <= d) /\ i < d + x
            <4>1. f[i] = i /\ i \in 0..Behind /\ i # 0 /\ i - d \in 1..(t - 1) /\ i - d < x
                BY <1>2, <1>3, <2>6, <3>2
            <4>2. At(i)' = stream'[i - d] /\ At(i) = stream[i - d]
                BY <1>1, <1>2, <3>2, <4>1 DEF At
            <4>3. QED
                BY <2>4, <4>1, <4>2
        <3>3. CASE ~(i < d + x)
            <4>1. /\ f[i] = i + 1 /\ i + 1 \in 0..Behind /\ i # 0 /\ ~(i <= d)
                  /\ i - d \in 1..(t - 1) /\ ~(i - d < x) /\ i - d + 1 = i + 1 - d
                  /\ i + 1 # 0 /\ ~(i + 1 <= d)
                BY <1>2, <1>3, <2>6, <3>3
            <4>2. At(i)' = stream'[i - d] /\ At(i + 1) = stream[i + 1 - d]
                BY <1>1, <1>2, <4>1 DEF At
            <4>3. QED
                BY <2>4, <4>1, <4>2
        <3>4. QED
            BY <3>1, <3>2, <3>3
    <2>8. f \in [0..Behind' -> Int]
        BY <1>2, <2>6
    <2>9. \A i, j \in 0..Behind' : i < j => f[i] < f[j]
        BY <1>2, <2>6
    <2> HIDE DEF f
    <2>10. OrderInv'
        BY <1>1, <2>5, <2>7, <2>8, <2>9, KeepsOrder
    <2>11. QED
        BY <2>5, <2>10
<1>6. TypeOK' /\ OrderInv'
    BY <1>4, <1>5 DEF LineFails
<1>7. CleanInv'
    <2>1. faults' # 0
        BY <1>1 DEF TypeOK
    <2>2. QED
        BY <2>1 DEF CleanInv
<1>8. PeeksInside'
    BY <1>1 DEF PeeksInside
<1>9. QED
    BY <1>6, <1>7, <1>8

\* The bytes of the next frame are of no frame that was sent before; without faults
\* the frame before was returned.
LEMMA PeerSendsPreserves ==
    ASSUME LineInv, PeerSends
    PROVE  LineInv'
<1> USE DEF LineInv
<1>1. /\ count' = count + 1 /\ stream = <<>> /\ NeedsMore
      /\ UNCHANGED <<type, begin, data, parser, phase, returned, stale>>
    BY DEF PeerSends
<1>2. PICK mode \in LengthModes(type), extra \in Nat :
        /\ stream' = FrameBytes(count + 1, mode, extra)
        /\ (Fits(mode, extra) /\ faults' = faults) \/ faults' = faults + 1
    BY RtuAssumption DEF PeerSends
<1>3. mode \in Modes /\ BodyLength(mode, extra) \in Nat
    BY ModesFacts
<1> DEFINE size == 4 + BodyLength(mode, extra)
           Made(i) == [frame |-> count + 1, pos |-> i, mode |-> mode, extra |-> extra]
<1>4. size \in Nat /\ count \in Nat /\ faults \in Nat
    BY <1>3 DEF TypeOK
<1>5. \A i \in 1..size : Made(i) \in Bytes
    BY <1>3, <1>4 DEF Bytes
<1>6. stream' = [i \in 1..size |-> Made(i)]
    BY <1>2 DEF FrameBytes
<1>7. stream' \in Seq(Bytes) /\ Len(stream') = size /\ \A i \in 1..size : stream'[i] = Made(i)
    <2> HIDE DEF size, Made
    <2>1. QED
        BY <1>4, <1>5, <1>6
<1>8. TypeOK'
    BY <1>1, <1>2, <1>4, <1>7 DEF TypeOK
<1>9. PICK d \in Nat : d = Len(data)
    BY DEF TypeOK
<1>10. /\ Behind = d /\ Behind' = d + size
       /\ \A i \in 0..d : At(i)' = At(i)
       /\ \A i \in (d + 1)..(d + size) : At(i)' = Made(i - d)
    <2>1. Behind = d /\ Behind' = d + size
        BY <1>1, <1>7, <1>9 DEF Behind
    <2>2. \A i \in 0..d : At(i)' = At(i)
        BY <1>1, <1>9 DEF At
    <2>3. ASSUME NEW i \in (d + 1)..(d + size) PROVE At(i)' = Made(i - d)
        <3>1. i - d \in 1..size /\ i # 0 /\ ~(i <= d)
            BY <1>4, <1>9, <2>3
        <3>2. At(i)' = stream'[i - d]
            BY <1>1, <1>9, <3>1 DEF At
        <3>3. QED
            BY <1>7, <3>1, <3>2
    <2>4. QED
        BY <2>1, <2>2, <2>3
<1>11. \A i \in 0..(d + size) : i \in 0..d \/ i \in (d + 1)..(d + size)
    BY <1>4, <1>9
<1>12. \A i \in 0..d : At(i).frame \in Nat /\ At(i).frame <= count
    BY <1>10, AtFacts DEF OrderInv, Bytes
<1>13. OrderInv'
    <2> HIDE DEF size
    <2>1. \A i \in 0..d : At(i)'.frame < count + 1
        BY <1>4, <1>10, <1>12
    <2>2. \A i \in (d + 1)..(d + size) : At(i)'.frame = count + 1 /\ At(i)'.pos = i - d
        BY <1>10
    <2>3. \A i \in 0..(d + size) : At(i)'.frame <= count + 1
        BY <1>4, <1>11, <1>12, <2>2, <1>10
    <2>4. ASSUME NEW i \in 0..(d + size), NEW j \in 0..(d + size), i < j,
                 First(At(i)'), First(At(j)')
          PROVE  At(i)'.frame < At(j)'.frame
        <3>1. CASE j \in 0..d
            <4>1. i \in 0..d
                BY <1>9, <2>4, <3>1
            <4>2. QED
                BY <1>10, <2>4, <3>1, <4>1 DEF OrderInv
        <3>2. CASE i \in 0..d /\ j \in (d + 1)..(d + size)
            BY <2>1, <2>2, <3>2
        <3>3. CASE i \in (d + 1)..(d + size) /\ j \in (d + 1)..(d + size)
            <4>1. i - d = 1 /\ j - d = 1
                BY <2>2, <2>4, <3>3 DEF First
            <4>2. QED
                BY <1>9, <2>4, <4>1
        <3>4. QED
            BY <1>9, <1>11, <2>4, <3>1, <3>2, <3>3
    <2>5. ASSUME NEW i \in 0..(d + size), NEW m \in 1..Len(returned), First(At(i)')
          PROVE  returned[m] < At(i)'.frame
        <3>1. CASE i \in 0..d
            BY <1>10, <2>5, <3>1 DEF OrderInv
        <3>2. CASE i \in (d + 1)..(d + size)
            <4>1. returned[m] <= count /\ returned[m] \in Nat
                BY <2>5 DEF OrderInv, TypeOK
            <4>2. QED
                BY <1>4, <2>2, <3>2, <4>1
        <3>3. QED
            BY <1>11, <3>1, <3>2
    <2>6. \A m \in 1..Len(returned) : returned[m] <= count + 1
        <3>1. \A m \in 1..Len(returned) : returned[m] <= count /\ returned[m] \in Nat
            BY DEF OrderInv, TypeOK
        <3>2. QED
            BY <1>4, <3>1
    <2>7. QED
        BY <1>1, <1>10, <2>3, <2>4, <2>5, <2>6 DEF OrderInv, First
<1>14. CleanInv'
    <2> SUFFICES ASSUME faults' = 0
                 PROVE  /\ phase = "reading"
                        /\ \A m \in 1..Len(returned) : returned[m] = m
                        /\ InFlight(mode, extra)'
        BY <1>1, <1>3 DEF CleanInv
    <2>1. faults = 0 /\ Fits(mode, extra)
        BY <1>2, <1>4
    <2>2. Idle
        BY <1>1, <2>1, InFlightFacts DEF CleanInv
    <2>3. d = 0 /\ Skip' = 0 /\ parser' = Start /\ data' = <<>>
        BY <1>1, <1>9, <2>2, NoiseFacts DEF Idle, Skip
    <2>4. Behind' + Skip' = 4 + BodyLength(mode, extra)
        BY <1>4, <1>10, <2>3
    <2>5. \A i \in 1..Behind' : At(i)' = Sent(i + Skip, mode, extra)'
        <3>1. ASSUME NEW i \in 1..Behind' PROVE At(i)' = Made(i)
            <4>1. i \in (d + 1)..(d + size) /\ i - d = i
                BY <1>4, <1>10, <2>3, <3>1
            <4>2. QED
                BY <1>10, <4>1
        <3>2. ASSUME NEW i \in 1..Behind' PROVE Sent(i + Skip, mode, extra)' = Made(i)
            <4>1. i + 0 = i
                BY <1>4, <1>10
            <4>2. QED
                BY <1>1, <2>3, <4>1 DEF Sent
        <3>3. QED
            BY <3>1, <3>2
    <2>6. Len(returned') + 1 = count'
        BY <1>1, <2>2 DEF Idle
    <2>7. InFlight(mode, extra)'
        BY <1>1, <1>2, <2>1, <2>3, <2>4, <2>5, <2>6, NoiseFacts
        DEF InFlight, LengthModes, Fits, BodyLength
    <2>8. QED
        BY <2>1, <2>7 DEF CleanInv
<1>15. PeeksInside'
    BY <1>1 DEF PeeksInside
<1>16. QED
    BY <1>8, <1>13, <1>14, <1>15

-----------------------------------------------------------------------------
(* Theorems *)

\* Every step of the parser, the reader, the peer and the line preserves the
\* invariant.
THEOREM LineInvariant == Spec => []LineInv
<1>1. Init => LineInv
    <2> SUFFICES ASSUME Init PROVE LineInv
        OBVIOUS
    <2>1. TypeOK
        BY NoiseFacts, EmptySeq DEF Init, TypeOK
    <2>2. Len(data) = 0 /\ Len(stream) = 0 /\ Len(returned) = 0 /\ count = 0
        BY DEF Init
    <2>3. Behind = 0 /\ At(0) = Noise
        BY <2>2, NoiseFacts DEF Init, Behind, At
    <2>4. OrderInv
        BY <2>2, <2>3, NoiseFacts DEF OrderInv
    <2>5. CleanInv
        BY <2>2 DEF Init, CleanInv, Idle
    <2>6. PeeksInside
        BY DEF Init, PeeksInside
    <2>7. QED
        BY <2>1, <2>4, <2>5, <2>6 DEF LineInv
<1>2. LineInv /\ [Next]_vars => LineInv'
    BY ParseStartPreserves, ParseLengthPreserves, ParseTooBigPreserves, ParseBodyPreserves,
       ReadSomePreserves, QuietPreserves, LineFailsPreserves, PeerSendsPreserves
    DEF Next
<1>3. QED
    BY <1>1, <1>2, PTL DEF Spec

\* Whatever bytes the line drops or adds and wherever the parser looks for a frame,
\* next_frame returns each frame at most once and in order; without faults it returns
\* every frame and no error, for any frames, cut into reads in any way
\* (RtuParser::parse, ReadBuffer::read_some).
THEOREM EachFrameOnceAlways == Spec => []EachFrameOnce
<1>1. LineInv => EachFrameOnce
    <2> SUFFICES ASSUME LineInv PROVE EachFrameOnce
        OBVIOUS
    <2> USE DEF LineInv
    <2>1. DOMAIN returned = 1..Len(returned) /\ Len(returned) \in Nat /\ count \in Nat
        BY DEF TypeOK
    <2>2. \A i, j \in DOMAIN returned : i < j => returned[i] < returned[j]
        BY <2>1 DEF OrderInv
    <2>3. ASSUME faults = 0
          PROVE  /\ phase = "reading"
                 /\ \A i \in DOMAIN returned : returned[i] = i
                 /\ Len(returned) \in {count, count - 1}
                 /\ NeedsMore /\ stream = <<>> => Len(returned) = count
        <3>1. phase = "reading" /\ \A i \in DOMAIN returned : returned[i] = i
            BY <2>1, <2>3 DEF CleanInv
        <3>2. CASE Idle
            BY <3>1, <3>2 DEF Idle
        <3>3. CASE \E x \in Modes, y \in Nat : InFlight(x, y)
            <4>1. Len(returned) + 1 = count
                BY <3>3 DEF InFlight
            <4>2. Len(returned) = count - 1
                BY <2>1, <4>1
            <4>3. QED
                BY <3>1, <3>3, <4>2, InFlightFacts
        <3>4. QED
            BY <2>3, <3>2, <3>3 DEF CleanInv
    <2>4. QED
        BY <2>2, <2>3 DEF EachFrameOnce
<1>2. QED
    BY <1>1, LineInvariant, PTL

\* The parser asks peek_at only for bytes that were read (RtuParser::parse waits
\* for them), although peek_at would give it one behind the end.
THEOREM PeeksInsideAlways == Spec => []PeeksInside
<1>1. LineInv => PeeksInside
    BY DEF LineInv
<1>2. QED
    BY <1>1, LineInvariant, PTL

-----------------------------------------------------------------------------
(* The bodies of requests and replies: bytes and words *)

\* A byte; the bits and the words that are packed into bytes
Byte == 0..255
Bits == Seq(BOOLEAN)
Words == Seq(0..U16_MAX)

\* A byte is a number.
LEMMA ByteNat == ASSUME NEW x \in Byte PROVE x \in Nat
BY DEF Byte

\* The bytes of a concatenation
LEMMA Concat ==
    ASSUME NEW u \in Seq(Byte), NEW v \in Seq(Byte)
    PROVE  /\ u \o v \in Seq(Byte) /\ Len(u \o v) = Len(u) + Len(v)
           /\ \A i \in 1..Len(u) : (u \o v)[i] = u[i]
           /\ \A i \in 1..Len(v) : (u \o v)[Len(u) + i] = v[i]
BY ConcatProperties

\* The largest u16, for the provers that need not know its value
LEMMA U16Type == U16_MAX \in Nat /\ U16_MAX > 0
BY SMT DEF U16_MAX

\* The two bytes of a u16 are bytes, and give it back.
LEMMA U16Bytes ==
    ASSUME NEW v \in 0..U16_MAX
    PROVE  /\ U16be(v) \in Seq(Byte) /\ Len(U16be(v)) = 2
           /\ 256 * U16be(v)[1] + U16be(v)[2] = v
<1>1. v \div 256 \in 0..255 /\ v % 256 \in 0..255 /\ 256 * (v \div 256) + (v % 256) = v
    BY SMTT(30) DEF U16_MAX
<1>2. QED
    BY <1>1, SMTT(30) DEF U16be, Byte

\* The eight masks
LEMMA Masks ==
    /\ Mask(0) = 1 /\ Mask(1) = 2 /\ Mask(2) = 4 /\ Mask(3) = 8
    /\ Mask(4) = 16 /\ Mask(5) = 32 /\ Mask(6) = 64 /\ Mask(7) = 128
BY DEF Mask

\* The bit with number m of a sequence, 0 behind its end
Digit(bits, m) == IF m < Len(bits) /\ bits[m + 1] THEN 1 ELSE 0

\* Packed bits are bytes, one for each eight bits begun, and the digits of each
\* are its bits.
LEMMA PackedBytes ==
    ASSUME NEW bits \in Bits
    PROVE  /\ PackBits(bits) \in Seq(Byte) /\ Len(PackBits(bits)) = NumBytes(Len(bits))
           /\ \A k \in 1..NumBytes(Len(bits)), j \in 0..7 :
                 (PackBits(bits)[k] \div Mask(j)) % 2 = Digit(bits, 8 * (k - 1) + j)
<1> DEFINE D(k, j) == Digit(bits, 8 * (k - 1) + j)
           N(k) == D(k, 0) + 2 * D(k, 1) + 4 * D(k, 2) + 8 * D(k, 3)
                   + 16 * D(k, 4) + 32 * D(k, 5) + 64 * D(k, 6) + 128 * D(k, 7)
           last8 == NumBytes(Len(bits))
<1>1. last8 \in Nat
    BY DEF NumBytes, Bits
<1>2. \A k, j : D(k, j) \in {0, 1}
    BY DEF Digit
<1>3. PackBits(bits) = [k \in 1..last8 |-> N(k)]
    <2> DEFINE W(k, i) == IF 8 * (k - 1) + i < Len(bits) /\ bits[8 * (k - 1) + i + 1]
                          THEN Mask(i) ELSE 0
    <2>1. ASSUME NEW k \in 1..last8
          PROVE  /\ W(k, 0) = D(k, 0) /\ W(k, 1) = 2 * D(k, 1)
                 /\ W(k, 2) = 4 * D(k, 2) /\ W(k, 3) = 8 * D(k, 3)
                 /\ W(k, 4) = 16 * D(k, 4) /\ W(k, 5) = 32 * D(k, 5)
                 /\ W(k, 6) = 64 * D(k, 6) /\ W(k, 7) = 128 * D(k, 7)
        BY Masks DEF Digit
    <2>2. PackBits(bits) = [k \in 1..last8 |-> W(k, 0) + W(k, 1) + W(k, 2) + W(k, 3)
                                               + W(k, 4) + W(k, 5) + W(k, 6) + W(k, 7)]
        BY DEF PackBits
    <2> HIDE DEF W, D, last8
    <2>3. QED
        BY <2>1, <2>2
<1>4. ASSUME NEW k \in 1..last8
      PROVE  /\ N(k) \in Byte
             /\ \A j \in 0..7 : (N(k) \div Mask(j)) % 2 = D(k, j)
    <2> DEFINE P(a, b, c, d, e, f, g, h) ==
                  LET n == a + 2 * b + 4 * c + 8 * d + 16 * e + 32 * f + 64 * g + 128 * h
                  IN /\ n \in Byte
                     /\ (n \div 1) % 2 = a /\ (n \div 2) % 2 = b /\ (n \div 4) % 2 = c
                     /\ (n \div 8) % 2 = d /\ (n \div 16) % 2 = e /\ (n \div 32) % 2 = f
                     /\ (n \div 64) % 2 = g /\ (n \div 128) % 2 = h
               Bin == {0, 1}
    <2>1. \A a, b, c, d, e, f, g, h \in Bin : P(a, b, c, d, e, f, g, h)
        BY SMT DEF Byte
    <2>2. \A j : D(k, j) \in Bin
        BY <1>2
    <2> HIDE DEF P, D, Bin
    <2>3. P(D(k, 0), D(k, 1), D(k, 2), D(k, 3), D(k, 4), D(k, 5), D(k, 6), D(k, 7))
        BY <2>1, <2>2, Zenon
    <2>4. /\ N(k) \in Byte
          /\ (N(k) \div 1) % 2 = D(k, 0) /\ (N(k) \div 2) % 2 = D(k, 1)
          /\ (N(k) \div 4) % 2 = D(k, 2) /\ (N(k) \div 8) % 2 = D(k, 3)
          /\ (N(k) \div 16) % 2 = D(k, 4) /\ (N(k) \div 32) % 2 = D(k, 5)
          /\ (N(k) \div 64) % 2 = D(k, 6) /\ (N(k) \div 128) % 2 = D(k, 7)
        BY <2>3, Zenon DEF P
    <2> HIDE DEF N
    <2>5. QED
        BY <2>4, Masks
<1> HIDE DEF N, D, last8
<1>5. PackBits(bits) \in Seq(Byte) /\ Len(PackBits(bits)) = last8
    BY <1>1, <1>3, <1>4
<1>6. \A k \in 1..last8, j \in 0..7 : (PackBits(bits)[k] \div Mask(j)) % 2 = D(k, j)
    BY <1>3, <1>4
<1>7. QED
    BY <1>5, <1>6 DEF last8, D

\* Packed registers are bytes, two for each, and read back as they were.
LEMMA PackedRegisters ==
    ASSUME NEW values \in Words
    PROVE  /\ PackRegisters(values) \in Seq(Byte)
           /\ Len(PackRegisters(values)) = 2 * Len(values)
           /\ \A i \in 1..Len(values) : ReadU16(PackRegisters(values), 2 * i - 1) = values[i]
<1> DEFINE B(k) == U16be(values[(k + 1) \div 2])[2 - (k % 2)]
           n == 2 * Len(values)
<1>1. Len(values) \in Nat /\ n \in Nat
    BY DEF Words
<1>2. PackRegisters(values) = [k \in 1..n |-> B(k)]
    BY DEF PackRegisters
<1>3. ASSUME NEW k \in 1..n PROVE B(k) \in Byte
    <2>1. (k + 1) \div 2 \in 1..Len(values) /\ 2 - (k % 2) \in 1..2
        BY <1>1
    <2>2. values[(k + 1) \div 2] \in 0..U16_MAX
        BY <2>1, ElementOfSeq DEF Words
    <2>3. QED
        BY <2>1, <2>2, U16Bytes
<1>4. ASSUME NEW i \in 1..Len(values) PROVE 256 * B(2 * i - 1) + B(2 * i - 1 + 1) = values[i]
    <2>1. /\ (2 * i - 1 + 1) \div 2 = i /\ 2 - ((2 * i - 1) % 2) = 1
          /\ (2 * i - 1 + 1 + 1) \div 2 = i /\ 2 - ((2 * i - 1 + 1) % 2) = 2
        BY <1>1
    <2>2. values[i] \in 0..U16_MAX
        BY ElementOfSeq DEF Words
    <2>3. B(2 * i - 1) = U16be(values[i])[1] /\ B(2 * i - 1 + 1) = U16be(values[i])[2]
        BY <2>1
    <2> HIDE DEF B
    <2>4. QED
        BY <2>2, <2>3, U16Bytes
<1>5. ASSUME NEW i \in 1..Len(values) PROVE 2 * i - 1 \in 1..n /\ 2 * i - 1 + 1 \in 1..n
    BY <1>1
<1> HIDE DEF B, n
<1>6. PackRegisters(values) \in Seq(Byte) /\ Len(PackRegisters(values)) = n
    BY <1>1, <1>2, <1>3
<1>7. ASSUME NEW i \in 1..Len(values) PROVE ReadU16(PackRegisters(values), 2 * i - 1) = values[i]
    BY <1>2, <1>4, <1>5 DEF ReadU16
<1>8. QED
    BY <1>6, <1>7 DEF n

\* Values of the type that a function carries
IsValues(f, values) == IF f \in OfBits THEN values \in Bits ELSE values \in Words

\* Values at addresses from start on
Indexed(start, values) ==
    [i \in 1..Len(values) |-> [index |-> start + i - 1, value |-> values[i]]]

\* What one side packs, the iterators of the other yield: as many values, at
\* their addresses.
LEMMA ItemsOfPacked ==
    ASSUME NEW f, NEW values, IsValues(f, values), NEW start \in Nat
    PROVE  /\ Pack(f, values) \in Seq(Byte) /\ Len(Pack(f, values)) = ByteCount(f, Len(values))
           /\ Items(f, start, Len(values), Pack(f, values)) = Indexed(start, values)
<1>1. CASE f \in OfBits
    <2>1. values \in Bits /\ Len(values) \in Nat /\ Pack(f, values) = PackBits(values)
        BY <1>1 DEF IsValues, Pack, Bits
    <2>2. ASSUME NEW i \in 1..Len(values)
          PROVE  ((PackBits(values)[(i - 1) \div 8 + 1] \div Mask((i - 1) % 8)) % 2 = 1) = values[i]
        <3> DEFINE k == (i - 1) \div 8 + 1
                   j == (i - 1) % 8
        <3>1. k \in 1..NumBytes(Len(values)) /\ j \in 0..7 /\ 8 * (k - 1) + j = i - 1
            BY <2>1 DEF NumBytes
        <3>2. (PackBits(values)[k] \div Mask(j)) % 2 = Digit(values, i - 1)
            <4> HIDE DEF k, j
            <4>1. QED
                BY <2>1, <3>1, PackedBytes
        <3>3. Digit(values, i - 1) = IF values[i] THEN 1 ELSE 0
            BY <2>1 DEF Digit
        <3>4. values[i] \in BOOLEAN
            BY <2>1 DEF Bits
        <3>5. QED
            BY <3>2, <3>3, <3>4
    <2>3. QED
        BY <1>1, <2>1, <2>2, PackedBytes DEF Items, ByteCount, Indexed
<1>2. CASE f \notin OfBits
    <2>1. values \in Words /\ Len(values) \in Nat /\ Pack(f, values) = PackRegisters(values)
        BY <1>2 DEF IsValues, Pack, Words
    <2>2. QED
        BY <1>2, <2>1, PackedRegisters DEF Items, ByteCount, Indexed
<1>3. QED
    BY <1>1, <1>2

\* A body begins with two u16, which are read back as they were written.
LEMMA TwoWords ==
    ASSUME NEW a \in 0..U16_MAX, NEW b \in 0..U16_MAX
    PROVE  LET h == U16be(a) \o U16be(b)
           IN h \in Seq(Byte) /\ Len(h) = 4 /\ ReadU16(h, 1) = a /\ ReadU16(h, 3) = b
<1> DEFINE h == U16be(a) \o U16be(b)
<1>1. /\ U16be(a) \in Seq(Byte) /\ Len(U16be(a)) = 2 /\ U16be(b) \in Seq(Byte) /\ Len(U16be(b)) = 2
      /\ 256 * U16be(a)[1] + U16be(a)[2] = a /\ 256 * U16be(b)[1] + U16be(b)[2] = b
    BY U16Bytes
<1>2. /\ h \in Seq(Byte) /\ Len(h) = Len(U16be(a)) + Len(U16be(b))
      /\ \A i \in 1..Len(U16be(a)) : h[i] = U16be(a)[i]
      /\ \A i \in 1..Len(U16be(b)) : h[Len(U16be(a)) + i] = U16be(b)[i]
    BY <1>1, Concat, Zenon
<1> HIDE DEF h
<1>3. /\ Len(h) = 4
      /\ h[1] = U16be(a)[1] /\ h[2] = U16be(a)[2] /\ h[3] = U16be(b)[1] /\ h[4] = U16be(b)[2]
    BY <1>1, <1>2
<1>4. ReadU16(h, 1) = a /\ ReadU16(h, 3) = b
    BY <1>1, <1>3 DEF ReadU16
<1>5. QED
    BY <1>2, <1>3, <1>4 DEF h

\* What follows them changes nothing about that, and is found behind a byte count.
LEMMA BehindTheWords ==
    ASSUME NEW h \in Seq(Byte), Len(h) = 4, NEW n \in Byte, NEW rest \in Seq(Byte)
    PROVE  LET b == h \o (<<n>> \o rest)
           IN /\ b \in Seq(Byte) /\ Len(b) = 5 + Len(rest)
              /\ ReadU16(b, 1) = ReadU16(h, 1) /\ ReadU16(b, 3) = ReadU16(h, 3)
              /\ SubSeq(b, 1, 4) = h /\ SubSeq(b, 6, Len(b)) = rest
<1> DEFINE x == <<n>> \o rest
           b == h \o x
<1>1. x \in Seq(Byte) /\ Len(x) = 1 + Len(rest)
    OBVIOUS
<1>2. \A i \in 1..Len(rest) : x[i + 1] = rest[i]
    OBVIOUS
<1> HIDE DEF x
<1>3. /\ b \in Seq(Byte) /\ Len(b) = Len(h) + Len(x)
      /\ \A i \in 1..Len(h) : b[i] = h[i]
      /\ \A i \in 1..Len(x) : b[Len(h) + i] = x[i]
    BY <1>1, Concat
<1> HIDE DEF b
<1>4. b[1] = h[1] /\ b[2] = h[2] /\ b[3] = h[3] /\ b[4] = h[4]
    BY <1>3
<1>5. /\ Len(b) = 5 + Len(rest) /\ Len(rest) \in Nat
      /\ \A i \in 1..Len(rest) : b[i + 5] = rest[i]
    BY <1>1, <1>2, <1>3
<1>6. SubSeq(b, 6, Len(b)) = rest
    <2>1. /\ SubSeq(b, 6, Len(b)) \in Seq(Byte) /\ Len(SubSeq(b, 6, Len(b))) = Len(rest)
          /\ \A i \in 1..Len(rest) : SubSeq(b, 6, Len(b))[i] = b[i + 5]
        BY <1>3, <1>5
    <2>2. QED
        BY <2>1, <1>5, SeqEqual
<1>7. SubSeq(b, 1, 4) = h
    <2>1. /\ SubSeq(b, 1, 4) \in Seq(Byte) /\ Len(SubSeq(b, 1, 4)) = 4
          /\ \A i \in 1..4 : SubSeq(b, 1, 4)[i] = b[i]
        BY <1>3, <1>5
    <2>2. QED
        BY <2>1, <1>3, SeqEqual
<1>8. QED
    BY <1>3, <1>4, <1>5, <1>6, <1>7 DEF ReadU16, b, x

AllFunctions == Reads \cup Singles \cup Multiples
IsCall(c) == c \in [function: AllFunctions \cup {"none"}, start: 0..U16_MAX, count: Nat]

\* A call that the API queues
Legal(c) ==
    /\ IsCall(c) /\ c.function \in AllFunctions
    /\ c.function \in Singles => c.count = 1
    /\ ~Refused(c.function, c.start, c.count)

\* A function is of one kind.
LEMMA Kinds ==
    ASSUME NEW f \in AllFunctions
    PROVE  \/ f \in Reads /\ f \notin Singles /\ f \notin Multiples
           \/ f \in Singles /\ f \notin Reads /\ f \notin Multiples
           \/ f \in Multiples /\ f \notin Reads /\ f \notin Singles
BY DEF AllFunctions, Reads, Singles, Multiples

\* The two single writes
LEMMA SingleKinds ==
    ASSUME NEW f \in AllFunctions
    PROVE  f \in Singles <=> f = "WriteSingleCoil" \/ f = "WriteSingleRegister"
BY DEF Singles

\* Request::parse, one function after the other
LEMMA ParsesAs ==
    ASSUME NEW f \in AllFunctions, NEW b
    PROVE  LET start == ReadU16(b, 1)
               word == ReadU16(b, 3)
           IN /\ f \in Reads =>
                    (Parses(f, b) <=> /\ Len(b) >= 4 /\ ~InvalidRange(start, word)
                                      /\ word <= limited_count(f) /\ Len(b) = 4)
              /\ f = "WriteSingleCoil" =>
                    (Parses(f, b) <=> Len(b) >= 4 /\ word \in {COIL_ON, COIL_OFF} /\ Len(b) = 4)
              /\ f = "WriteSingleRegister" => (Parses(f, b) <=> Len(b) >= 4 /\ Len(b) = 4)
              /\ f \in Multiples =>
                    (Parses(f, b) <=> /\ Len(b) >= 4 /\ ~InvalidRange(start, word)
                                      /\ Len(b) = 5 + ByteCount(f, word))
<1>1. CASE f \in Reads
    BY <1>1, Kinds, SingleKinds DEF Parses
<1>2. CASE f = "WriteSingleCoil"
    BY <1>2, Kinds, SingleKinds DEF Parses
<1>3. CASE f = "WriteSingleRegister"
    BY <1>3, Kinds, SingleKinds DEF Parses
<1>4. CASE f \in Multiples
    BY <1>4, Kinds, SingleKinds DEF Parses
<1>5. QED
    BY <1>1, <1>2, <1>3, <1>4, Kinds, SingleKinds

\* The values of a write, one function after the other
LEMMA WrittenAs ==
    ASSUME NEW f \in AllFunctions, NEW b
    PROVE  LET start == ReadU16(b, 1)
               word == ReadU16(b, 3)
           IN /\ f = "WriteSingleCoil" =>
                    Written(f, b) = <<[index |-> start, value |-> word = COIL_ON]>>
              /\ f = "WriteSingleRegister" =>
                    Written(f, b) = <<[index |-> start, value |-> word]>>
              /\ f \in Multiples =>
                    Written(f, b) = Items(f, start, word, SubSeq(b, 6, Len(b)))
<1>1. CASE f = "WriteSingleCoil"
    BY <1>1, Kinds, SingleKinds DEF Written
<1>2. CASE f = "WriteSingleRegister"
    BY <1>2, Kinds, SingleKinds DEF Written
<1>3. CASE f \in Multiples
    BY <1>3, Kinds, SingleKinds DEF Written
<1>4. QED
    BY <1>1, <1>2, <1>3

\* What the API accepts names an address, and none beyond the last one.
LEMMA AcceptedRange ==
    ASSUME NEW f \in AllFunctions, NEW a \in 0..U16_MAX, NEW n \in Nat,
           f \in Singles => n = 1, ~Refused(f, a, n)
    PROVE  /\ n \in Nat \ {0} /\ a + n - 1 <= U16_MAX
           /\ f \in Reads \cup Multiples => ~InvalidRange(a, n)
           /\ f \in Multiples => n \in 1..U16_MAX
           /\ f \in Reads => n \in 1..U16_MAX /\ n <= limited_count(f)
           /\ f \in Singles => n = 1
<1>2. limited_count(f) \in Nat /\ limited_count(f) <= U16_MAX
    <2>1. limited_count(f) \in {2000, 125}
        BY DEF limited_count, MAX_READ_COILS_COUNT, MAX_READ_REGISTERS_COUNT
    <2>2. QED
        BY <2>1, SMTT(30) DEF U16_MAX
<1>3. ASSUME ~InvalidRange(a, n) PROVE n \in Nat \ {0} /\ a + n - 1 <= U16_MAX
    BY <1>3, U16Type DEF InvalidRange
<1>4. CASE f \in Reads
    <2>1. ~InvalidRange(a, n) /\ n <= limited_count(f)
        BY <1>2, <1>4, U16Type DEF Refused
    <2>2. n \in Nat \ {0} /\ a + n - 1 <= U16_MAX
        BY <1>3, <2>1
    <2>3. n <= limited_count(f)
        BY <2>1
    <2>4. n \in 1..U16_MAX
        BY <1>2, <2>2, <2>3, U16Type
    <2>5. QED
        BY <1>4, <2>1, <2>2, <2>4, Kinds
<1>5. CASE f \in Multiples
    <2>1. ~InvalidRange(a, n) /\ n <= U16_MAX
        BY <1>5, U16Type DEF Refused
    <2>2. n \in Nat \ {0} /\ a + n - 1 <= U16_MAX
        BY <1>3, <2>1
    <2>3. n <= U16_MAX
        BY <2>1
    <2>4. n \in 1..U16_MAX
        BY <2>2, <2>3, U16Type
    <2>5. QED
        BY <1>5, <2>1, <2>2, <2>4, Kinds
<1>6. CASE f \in Singles
    <2>1. n \in Nat \ {0} /\ a + n - 1 <= U16_MAX
        BY <1>6, U16Type
    <2>2. QED
        BY <1>6, <2>1, Kinds
<1>7. QED
    BY <1>4, <1>5, <1>6, Kinds, SMTT(30)

\* The same of a call
LEMMA LegalRange ==
    ASSUME NEW c, Legal(c)
    PROVE  /\ c.function \in AllFunctions /\ c.start \in 0..U16_MAX
           /\ c.count \in Nat \ {0} /\ c.start + c.count - 1 <= U16_MAX
           /\ c.function \in Reads \cup Multiples => ~InvalidRange(c.start, c.count)
           /\ c.function \in Multiples => c.count \in 1..U16_MAX
           /\ c.function \in Reads => /\ c.count \in 1..U16_MAX
                                      /\ c.count <= limited_count(c.function)
           /\ c.function \in Singles => c.count = 1
<1>1. /\ c.function \in AllFunctions /\ c.start \in 0..U16_MAX /\ c.count \in Nat
      /\ c.function \in Singles => c.count = 1
      /\ ~Refused(c.function, c.start, c.count)
    BY DEF Legal, IsCall
<1>2. QED
    BY <1>1, AcceptedRange

\* The values of a write are as many as the call counts, of the function's type.
LEMMA ValuesTyped ==
    ASSUME NEW c, Legal(c), c.function \in Singles \cup Multiples
    PROVE  /\ IsValues(c.function, Values(c)) /\ Len(Values(c)) = c.count
           /\ IsValue(c.function, Values(c)[1])
<1>1. /\ c.start \in 0..U16_MAX /\ c.count \in Nat \ {0} /\ c.start + c.count - 1 <= U16_MAX
    BY LegalRange
<1>2. ASSUME NEW i \in 1..c.count PROVE IsValue(c.function, Value(c.function, c.start + i - 1))
    <2>1. c.start + i - 1 \in 0..U16_MAX
        BY <1>1, U16Type
    <2>2. QED
        BY <2>1, ValueAssumption
<1>3. CASE c.function \in OfBits
    <2>1. \A i \in 1..c.count : Value(c.function, c.start + i - 1) \in BOOLEAN
        BY <1>2, <1>3 DEF IsValue
    <2>2. Values(c) \in Seq(BOOLEAN) /\ Len(Values(c)) = c.count /\ Values(c)[1] \in BOOLEAN
        BY <1>1, <2>1 DEF Values
    <2>3. QED
        BY <1>3, <2>2 DEF IsValues, IsValue, Bits
<1>4. CASE c.function \notin OfBits
    <2> DEFINE U16 == 0..U16_MAX
    <2>1. \A i \in 1..c.count : Value(c.function, c.start + i - 1) \in U16
        BY <1>2, <1>4 DEF IsValue
    <2> HIDE DEF U16
    <2>2. Values(c) \in Seq(U16) /\ Len(Values(c)) = c.count /\ Values(c)[1] \in U16
        BY <1>1, <2>1 DEF Values
    <2>3. QED
        BY <1>4, <2>2 DEF IsValues, IsValue, Words, U16
<1>5. QED
    BY <1>3, <1>4

\* The request of a read is parsed, with the range it was made from.
LEMMA ReadRequest ==
    ASSUME NEW f \in Reads, NEW a \in 0..U16_MAX, NEW n \in 1..U16_MAX,
           ~InvalidRange(a, n), n <= limited_count(f)
    PROVE  LET b == U16be(a) \o U16be(n)
           IN /\ b \in Seq(Byte) /\ Len(b) = 4
              /\ ReadU16(b, 1) = a /\ ReadU16(b, 3) = n /\ Parses(f, b)
<1> DEFINE b == U16be(a) \o U16be(n)
<1>1. b \in Seq(Byte) /\ Len(b) = 4 /\ ReadU16(b, 1) = a /\ ReadU16(b, 3) = n
    <2>1. n \in 0..U16_MAX
        BY U16Type
    <2>2. QED
        BY <2>1, TwoWords
<1> HIDE DEF b
<1>2. Parses(f, b)
    <2>1. f \in AllFunctions
        BY DEF AllFunctions
    <2>2. QED
        BY <1>1, <2>1, 4 >= 4, ParsesAs, Zenon
<1>3. QED
    BY <1>1, <1>2 DEF b

\* The request of a single write is parsed, and its handler gets the value.
LEMMA SingleRequest ==
    ASSUME NEW f \in Singles, NEW a \in 0..U16_MAX, NEW v, IsValue(f, v)
    PROVE  LET b == SingleBody(f, a, v)
           IN /\ b \in Seq(Byte) /\ Len(b) = 4 /\ Parses(f, b)
              /\ Written(f, b) = <<[index |-> a, value |-> v]>>
<1>0. f \in AllFunctions
    BY DEF AllFunctions
<1>1. CASE f = "WriteSingleCoil"
    <2> DEFINE w == coil_to_u16(v)
               b == U16be(a) \o U16be(w)
    <2>1. v \in BOOLEAN /\ SingleBody(f, a, v) = b
        BY <1>1 DEF IsValue, SingleBody, OfBits
    <2>2. w \in {COIL_ON, COIL_OFF} /\ (w = COIL_ON) = v
        BY <2>1, SMTT(30) DEF coil_to_u16, COIL_ON, COIL_OFF
    <2>3. w \in Nat /\ w <= U16_MAX
        <3>1. w \in {65280, 0}
            BY <2>2 DEF COIL_ON, COIL_OFF
        <3>2. QED
            BY <3>1, SMTT(30) DEF U16_MAX
    <2> HIDE DEF w
    <2>4. b \in Seq(Byte) /\ Len(b) = 4 /\ ReadU16(b, 1) = a /\ ReadU16(b, 3) = w
        BY <2>3, U16Type, TwoWords
    <2> HIDE DEF b
    <2>5. Parses(f, b)
        BY <1>0, <1>1, <2>2, <2>4, 4 >= 4, ParsesAs, Zenon
    <2>6. Written(f, b) = <<[index |-> a, value |-> v]>>
        BY <1>0, <1>1, <2>2, <2>4, WrittenAs
    <2>7. QED
        BY <2>1, <2>4, <2>5, <2>6
<1>2. CASE f = "WriteSingleRegister"
    <2> DEFINE b == U16be(a) \o U16be(v)
    <2>1. v \in 0..U16_MAX /\ SingleBody(f, a, v) = b
        BY <1>2 DEF IsValue, SingleBody, OfBits
    <2>2. b \in Seq(Byte) /\ Len(b) = 4 /\ ReadU16(b, 1) = a /\ ReadU16(b, 3) = v
        BY <2>1, TwoWords
    <2> HIDE DEF b
    <2>3. Parses(f, b)
        BY <1>0, <1>2, <2>2, 4 >= 4, ParsesAs, Zenon
    <2>4. Written(f, b) = <<[index |-> a, value |-> v]>>
        BY <1>0, <1>2, <2>2, WrittenAs
    <2>5. QED
        BY <2>1, <2>2, <2>3, <2>4
<1>3. QED
    BY <1>1, <1>2 DEF Singles

\* What the handler should get for a call
WrittenBy(c) == [i \in 1..c.count |-> [index |-> c.start + i - 1, value |-> Values(c)[i]]]

\* The request of a write of many is parsed, its handler gets the values, and
\* its first four bytes are the range of the call.
LEMMA MultipleRequest ==
    ASSUME NEW c, Legal(c), c.function \in Multiples, ByteCount(c.function, c.count) <= 255
    PROVE  LET b == Serialize(c.function, c.start, c.count, Values(c))
           IN /\ b \in Seq(Byte) /\ Len(b) >= 4 /\ Parses(c.function, b)
              /\ Written(c.function, b) = WrittenBy(c)
              /\ SubSeq(b, 1, 4) = U16be(c.start) \o U16be(c.count)
<1> DEFINE f == c.function
           a == c.start
           n == c.count
           v == Values(c)
           k == ByteCount(f, n)
           h == U16be(a) \o U16be(n)
           p == Pack(f, v)
           b == h \o (<<k>> \o p)
<1>1. /\ f \in AllFunctions /\ a \in 0..U16_MAX /\ n \in Nat \ {0} /\ n \in 1..U16_MAX
      /\ ~InvalidRange(a, n) /\ f \in Multiples
    BY LegalRange
<1>2. IsValues(f, v) /\ Len(v) = n
    BY ValuesTyped
<1>3. k \in Nat /\ k \in Byte
    <2>1. k \in Nat
        BY <1>1 DEF ByteCount, NumBytes
    <2>2. k <= 255
        OBVIOUS
    <2> HIDE DEF k
    <2>3. QED
        BY <2>1, <2>2 DEF Byte
<1>4. Serialize(f, a, n, v) = b
    <2>1. f \notin Reads /\ f \notin Singles
        BY <1>1, Kinds
    <2>2. QED
        BY <2>1 DEF Serialize
<1>5. WrittenBy(c) = Indexed(a, v)
    BY <1>2, Zenon DEF WrittenBy, Indexed
<1> HIDE DEF f, a, n, v
<1>6. h \in Seq(Byte) /\ Len(h) = 4 /\ ReadU16(h, 1) = a /\ ReadU16(h, 3) = n
    <2>1. n \in 0..U16_MAX
        BY <1>1, U16Type
    <2>2. QED
        BY <1>1, <2>1, TwoWords
<1>7. p \in Seq(Byte) /\ Len(p) = k /\ Items(f, a, n, p) = Indexed(a, v)
    <2>1. a \in Nat
        BY <1>1, U16Type
    <2>2. QED
        BY <1>2, <2>1, ItemsOfPacked
<1> HIDE DEF h, p, k
<1>8. /\ b \in Seq(Byte) /\ Len(b) = 5 + k
      /\ ReadU16(b, 1) = a /\ ReadU16(b, 3) = n
      /\ SubSeq(b, 1, 4) = h /\ SubSeq(b, 6, Len(b)) = p
    BY <1>3, <1>6, <1>7, BehindTheWords, SMTT(30)
<1> HIDE DEF b
<1>9. Len(b) >= 4
    BY <1>3, <1>8
<1>10. Parses(f, b)
    BY <1>1, <1>8, <1>9, ParsesAs, Zenon DEF k
<1>11. Written(f, b) = Indexed(a, v)
    BY <1>1, <1>7, <1>8, WrittenAs
<1>12. /\ b \in Seq(Byte) /\ Len(b) >= 4 /\ Parses(f, b)
       /\ Written(f, b) = WrittenBy(c) /\ SubSeq(b, 1, 4) = h
    BY <1>5, <1>8, <1>9, <1>10, <1>11
<1>13. QED
    BY <1>4, <1>12, Zenon DEF f, a, n, v, h

\* What the client formats for a call, the server parses: a read as the range
\* of the call, a write as its values; and the reply to a write, its first four
\* bytes, is what the client waits for.
LEMMA RequestOf ==
    ASSUME NEW c, Legal(c), c.function \in Multiples => ByteCount(c.function, c.count) <= 255
    PROVE  LET b == Serialize(c.function, c.start, c.count, Values(c))
           IN /\ b \in Seq(Byte) /\ Len(b) >= 4 /\ Parses(c.function, b)
              /\ c.function \notin Multiples => Len(b) = 4
              /\ c.function \in Reads => ReadU16(b, 1) = c.start /\ ReadU16(b, 3) = c.count
              /\ c.function \notin Reads =>
                    /\ Written(c.function, b) = WrittenBy(c)
                    /\ Matches(c.function, c.start, c.count, Values(c), SubSeq(b, 1, 4))
<1> DEFINE f == c.function
           a == c.start
           n == c.count
           b == Serialize(f, a, n, Values(c))
<1>1. /\ f \in AllFunctions /\ a \in 0..U16_MAX /\ n \in Nat \ {0}
      /\ f \in Reads \cup Multiples => ~InvalidRange(a, n)
      /\ f \in Multiples => n \in 1..U16_MAX
      /\ f \in Reads => n \in 1..U16_MAX /\ n <= limited_count(f)
      /\ f \in Singles => n = 1
    BY LegalRange
<1>2. CASE f \in Reads
    <2>1. f \notin Singles /\ f \notin Multiples
        BY <1>1, <1>2, Kinds
    <2> DEFINE h == U16be(a) \o U16be(n)
    <2>2. h \in Seq(Byte) /\ Len(h) = 4 /\ ReadU16(h, 1) = a /\ ReadU16(h, 3) = n /\ Parses(f, h)
        BY <1>1, <1>2, ReadRequest
    <2>3. b = h \o <<>>
        BY <1>2, <2>1 DEF Serialize
    <2> HIDE DEF h
    <2>4. b = h
        BY <2>2, <2>3, ConcatEmptySeq
    <2>5. QED
        BY <1>2, <2>1, <2>2, <2>4, 4 >= 4, Zenon
<1>3. CASE f \in Singles
    <2>1. f \notin Reads /\ f \notin Multiples
        BY <1>1, <1>3, Kinds
    <2>2. b = SingleBody(f, a, Values(c)[1]) /\ IsValue(f, Values(c)[1])
        BY <1>3, ValuesTyped DEF Serialize
    <2>3. /\ b \in Seq(Byte) /\ Len(b) = 4 /\ Parses(f, b)
          /\ Written(f, b) = <<[index |-> a, value |-> Values(c)[1]]>>
        BY <1>1, <1>3, <2>2, SingleRequest
    <2>4. WrittenBy(c) = <<[index |-> a, value |-> Values(c)[1]]>>
        <3>1. n = 1 /\ a \in Int
            BY <1>1, <1>3, U16Type
        <3>2. QED
            BY <3>1 DEF WrittenBy
    <2>5. SubSeq(b, 1, 4) = b
        <3> HIDE DEF b
        <3>1. QED
            BY <2>3
    <2>6. Matches(f, a, n, Values(c), b)
        BY <1>3, <2>1, <2>2 DEF Matches
    <2>7. QED
        BY <2>1, <2>3, <2>4, <2>5, <2>6, 4 >= 4, Zenon
<1>4. CASE f \in Multiples
    <2>1. f \notin Reads /\ f \notin Singles
        BY <1>1, <1>4, Kinds
    <2>2. /\ b \in Seq(Byte) /\ Len(b) >= 4 /\ Parses(f, b)
          /\ Written(f, b) = WrittenBy(c) /\ SubSeq(b, 1, 4) = U16be(a) \o U16be(n)
        BY <1>4, MultipleRequest
    <2>3. Matches(f, a, n, Values(c), SubSeq(b, 1, 4))
        BY <1>4, <2>1, <2>2 DEF Matches
    <2>4. QED
        BY <1>4, <2>1, <2>2, <2>3
<1>5. QED
    BY <1>1, <1>2, <1>3, <1>4, Kinds

-----------------------------------------------------------------------------
(* The inductive invariant *)

ExchangeTypes ==
    /\ transport \in {"tcp", "rtu"} /\ checked \in BOOLEAN /\ foreign \in BOOLEAN
    /\ poisoned \in BOOLEAN /\ last \in BOOLEAN
    /\ stage \in {"idle", "queued", "sent", "replied"}
    /\ IsCall(call)
    /\ body \in Seq(Byte)

\* The request on the wire, or the last one that was: of a call the API queued,
\* it is what the client formatted.
RequestInv ==
    /\ stage # "idle" => call.function \in AllFunctions
    /\ stage = "queued" => ~foreign /\ body = <<>> /\ Legal(call)
    /\ stage \in {"sent", "replied"} /\ ~foreign => body # <<>>
    /\ body # <<>> /\ ~foreign =>
          /\ Legal(call)
          /\ body = Serialize(call.function, call.start, call.count, Values(call))
          /\ Formats(transport, call.function, call.count, body)

\* What a handler was given is what the server parsed from the request.
AppliedInv ==
    applied # <<>> =>
        /\ call.function \in Singles \cup Multiples
        /\ Parses(call.function, body)
        /\ applied = Written(call.function, body)

\* The points a read is answered with
Points(c) == [i \in 1..c.count |-> Point(c.function, c.start + i - 1)]

\* A reply of this library's server, until the client takes it, is an exception
\* or what the call is due.
ReplyInv ==
    /\ stage # "idle" => outcome.kind \notin {"Ok", "BadResponse"}
    /\ stage = "replied" /\ ~foreign /\ reply.own =>
          \/ reply.function = "exception" /\ Len(reply.body) = 1
          \/ /\ call.function \in Reads /\ reply.function = call.function
             /\ reply.body = ReadReply(call.function, call.count, Points(call))
          \/ /\ call.function \notin Reads /\ reply.function = call.function
             /\ reply.body = SubSeq(body, 1, 4) /\ applied # <<>>

\* What a call ended with
OutcomeInv ==
    /\ ReadsAreExact
    /\ outcome.kind = "Ok" /\ reply.own /\ call.function \notin Reads => applied # <<>> /\ ~foreign
    /\ OwnRepliesAccepted

ExchangeInv ==
    /\ ExchangeTypes
    /\ RequestInv
    /\ AppliedInv
    /\ ReplyInv
    /\ OutcomeInv
    /\ HandlerSurvives

-----------------------------------------------------------------------------
(* What the invariant says of a request and of a reply *)

\* Two bytes are a u16.
LEMMA ReadU16Type ==
    ASSUME NEW b \in Seq(Byte), NEW i \in 1..(Len(b) - 1)
    PROVE  ReadU16(b, i) \in 0..U16_MAX
<1>1. i \in 1..Len(b) /\ i + 1 \in 1..Len(b)
    OBVIOUS
<1>2. b[i] \in Byte /\ b[i + 1] \in Byte
    BY <1>1, ElementOfSeq
<1>3. QED
    <2>1. ASSUME NEW x \in Byte, NEW y \in Byte PROVE 256 * x + y \in Nat /\ 256 * x + y <= U16_MAX
        BY SMT DEF Byte, U16_MAX
    <2>2. 256 * b[i] + b[i + 1] \in Nat /\ 256 * b[i] + b[i + 1] <= U16_MAX
        BY <1>2, <2>1
    <2>3. QED
        BY <2>2, U16Type DEF ReadU16

\* Whatever is parsed as a write gives the handler a value at least, at
\* addresses that follow each other from the first one of the request, and none
\* beyond the last address.
LEMMA WrittenRange ==
    ASSUME NEW f \in Singles \cup Multiples, NEW b \in Seq(Byte), Parses(f, b)
    PROVE  LET w == Written(f, b)
           IN /\ w # <<>> /\ Len(w) \in Nat \ {0}
              /\ Indices(w) =
                    Addresses(ReadU16(b, 1), IF f \in Singles THEN 1 ELSE ReadU16(b, 3))
              /\ w[Len(w)].index <= U16_MAX
<1> DEFINE a == ReadU16(b, 1)
           n == ReadU16(b, 3)
           w == Written(f, b)
<1>1. f \in AllFunctions
    BY DEF AllFunctions
<1>2. Len(b) >= 4
    BY DEF Parses
<1>3. a \in 0..U16_MAX /\ n \in 0..U16_MAX
    <2>1. 1 \in 1..(Len(b) - 1) /\ 3 \in 1..(Len(b) - 1)
        BY <1>2
    <2>2. QED
        BY <2>1, ReadU16Type
<1>4. CASE f \in Singles
    <2>1. PICK v : w = <<[index |-> a, value |-> v]>>
        BY <1>1, <1>4, SingleKinds, WrittenAs
    <2> HIDE DEF w, a, n
    <2>2. /\ w # <<>> /\ Len(w) = 1 /\ w[1].index = a /\ Indices(w) = [i \in 1..1 |-> w[i].index]
        BY <2>1 DEF Indices
    <2>3. Indices(w) = Addresses(a, 1)
        <3>1. \A i \in 1..1 : w[i].index = a + i - 1
            BY <1>3, <2>2, U16Type
        <3>2. QED
            BY <2>2, <3>1 DEF Addresses
    <2>4. /\ w # <<>> /\ Len(w) \in Nat \ {0} /\ Indices(w) = Addresses(a, 1)
          /\ w[Len(w)].index <= U16_MAX
        BY <1>3, <2>2, <2>3, U16Type
    <2>5. QED
        BY <1>4, <2>4 DEF w, a
<1>5. CASE f \in Multiples
    <2>1. w = Items(f, a, n, SubSeq(b, 6, Len(b))) /\ ~InvalidRange(a, n)
        BY <1>1, <1>5, ParsesAs, WrittenAs
    <2> HIDE DEF w, a, n
    <2>2. n \in Nat \ {0} /\ a + n - 1 <= U16_MAX /\ a \in Nat
        BY <1>3, <2>1, U16Type DEF InvalidRange
    <2>3. Len(w) = n
        BY <2>1, <2>2 DEF Items
    <2>4. \A i \in 1..n : w[i].index = a + i - 1
        BY <2>1, <2>2 DEF Items
    <2>5. DOMAIN w = 1..n
        BY <2>1 DEF Items
    <2>6. Indices(w) = Addresses(a, n)
        BY <2>4, <2>5 DEF Indices, Addresses
    <2>7. w[n].index = a + n - 1 /\ w # <<>>
        BY <2>2, <2>3, <2>4
    <2>8. f \notin Singles
        BY <1>1, <1>5, SingleKinds, Kinds DEF Singles, Multiples
    <2>9. QED
        BY <2>2, <2>3, <2>6, <2>7, <2>8 DEF w, a, n
<1>6. QED
    BY <1>4, <1>5

\* The reply to a read carries the handler's points at the addresses of the call.
LEMMA ReplyOf ==
    ASSUME NEW c, Legal(c), c.function \in Reads
    PROVE  LET r == ReadReply(c.function, c.count, Points(c))
           IN /\ Len(r) = 1 + ByteCount(c.function, c.count)
              /\ Items(c.function, c.start, c.count, Tail(r)) = Indexed(c.start, Points(c))
              /\ Len(Points(c)) = c.count
<1> DEFINE f == c.function
           a == c.start
           n == c.count
           v == Points(c)
           k == ByteCount(f, n)
           p == Pack(f, v)
<1>1. /\ f \in Reads /\ a \in 0..U16_MAX /\ n \in Nat \ {0} /\ a + n - 1 <= U16_MAX
      /\ n <= limited_count(f)
    BY LegalRange
<1>2. ASSUME NEW i \in 1..n PROVE IsValue(f, Point(f, a + i - 1))
    <2>1. a + i - 1 \in 0..U16_MAX
        BY <1>1, U16Type
    <2>2. QED
        BY <1>1, <2>1, ValueAssumption
<1>3. v = [i \in 1..n |-> Point(f, a + i - 1)]
    BY DEF Points
<1> HIDE DEF f, a, n, v
<1>4. IsValues(f, v) /\ Len(v) = n
    <2>1. CASE f \in OfBits
        <3>1. \A i \in 1..n : Point(f, a + i - 1) \in BOOLEAN
            BY <1>2, <2>1 DEF IsValue
        <3>2. v \in Seq(BOOLEAN) /\ Len(v) = n
            BY <1>1, <1>3, <3>1
        <3>3. QED
            BY <2>1, <3>2 DEF IsValues, Bits
    <2>2. CASE f \notin OfBits
        <3> DEFINE U16 == 0..U16_MAX
        <3>1. \A i \in 1..n : Point(f, a + i - 1) \in U16
            BY <1>2, <2>2 DEF IsValue
        <3> HIDE DEF U16
        <3>2. v \in Seq(U16) /\ Len(v) = n
            BY <1>1, <1>3, <3>1
        <3>3. QED
            BY <2>2, <3>2 DEF IsValues, Words, U16
    <2>3. QED
        BY <2>1, <2>2
<1>5. p \in Seq(Byte) /\ Len(p) = k /\ Items(f, a, n, p) = Indexed(a, v)
    <2>1. a \in Nat
        BY <1>1, U16Type
    <2>2. QED
        BY <1>4, <2>1, ItemsOfPacked
<1>6. k \in Byte
    BY <1>1 DEF ByteCount, NumBytes, limited_count, MAX_READ_COILS_COUNT,
        MAX_READ_REGISTERS_COUNT, Byte
<1>7. ReadReply(f, n, v) = <<k>> \o p
    BY DEF ReadReply
<1> HIDE DEF p, k
<1>8. Len(<<k>> \o p) = 1 + k /\ Tail(<<k>> \o p) = p
    BY <1>5, <1>6
<1>9. QED
    BY <1>4, <1>5, <1>7, <1>8, Zenon DEF f, a, n, v, k

\* The calls of the API have a function, an address and a count, which is 1 for
\* a single write.
LEMMA CallsTyped ==
    ASSUME NEW c \in Calls
    PROVE  /\ IsCall(c) /\ c.function \in AllFunctions
           /\ c.function \in Singles => c.count = 1
<1>1. CASE \E f \in (Reads \cup Multiples) \cap OfBits, a \in Starts, n \in BitCounts :
               c = Call(f, a, n)
    <2>1. PICK f \in (Reads \cup Multiples) \cap OfBits, a \in Starts, n \in BitCounts :
               c = Call(f, a, n)
        BY <1>1
    <2>2. f \in AllFunctions /\ f \notin Singles /\ a \in 0..U16_MAX /\ n \in Nat
        BY ExchangeAssumption, Kinds DEF AllFunctions
    <2>3. QED
        BY <2>1, <2>2 DEF Call, IsCall
<1>2. CASE \E f \in (Reads \cup Multiples) \ OfBits, a \in Starts, n \in RegisterCounts :
               c = Call(f, a, n)
    <2>1. PICK f \in (Reads \cup Multiples) \ OfBits, a \in Starts, n \in RegisterCounts :
               c = Call(f, a, n)
        BY <1>2
    <2>2. f \in AllFunctions /\ f \notin Singles /\ a \in 0..U16_MAX /\ n \in Nat
        BY ExchangeAssumption, Kinds DEF AllFunctions
    <2>3. QED
        BY <2>1, <2>2 DEF Call, IsCall
<1>3. CASE \E f \in Singles, a \in Starts : c = Call(f, a, 1)
    <2>1. PICK f \in Singles, a \in Starts : c = Call(f, a, 1)
        BY <1>3
    <2>2. f \in AllFunctions /\ a \in 0..U16_MAX
        BY ExchangeAssumption DEF AllFunctions
    <2>3. QED
        BY <2>1, <2>2 DEF Call, IsCall
<1>4. QED
    BY <1>1, <1>2, <1>3 DEF Calls

-----------------------------------------------------------------------------
(* The actions *)

\* Before the first call
LEMMA ExchangeStarts == ExchangeInit => ExchangeInv
<1> SUFFICES ASSUME ExchangeInit PROVE ExchangeInv
    OBVIOUS
<1> USE DEF ExchangeInit
<1>1. ExchangeTypes
    <2>1. IsCall(call)
        BY U16Type DEF IsCall, Call
    <2>2. body \in Seq(Byte)
        OBVIOUS
    <2>3. QED
        BY <2>1, <2>2 DEF ExchangeTypes
<1>2. RequestInv
    BY DEF RequestInv
<1>3. AppliedInv /\ HandlerSurvives
    BY DEF AppliedInv, HandlerSurvives
<1>4. ReplyInv
    BY DEF ReplyInv
<1>5. OutcomeInv
    BY DEF OutcomeInv, ReadsAreExact, OwnRepliesAccepted, None
<1>6. QED
    BY <1>1, <1>2, <1>3, <1>4, <1>5 DEF ExchangeInv

\* The API queues only legal calls, and forgets the one before.
LEMMA SubmitPreserves == ExchangeInv /\ Submit => ExchangeInv'
<1> SUFFICES ASSUME ExchangeInv, Submit PROVE ExchangeInv'
    OBVIOUS
<1> USE DEF ExchangeInv
<1>1. PICK c \in Calls :
        /\ call' = c
        /\ IF Refused(c.function, c.start, c.count)
           THEN stage' = "idle" /\ outcome' = Failure("Refused")
           ELSE stage' = "queued" /\ outcome' = None
    BY DEF Submit
<1>2. /\ applied' = <<>> /\ body' = <<>> /\ reply' = NoReply /\ foreign' = FALSE
      /\ UNCHANGED <<transport, checked, poisoned, last>>
    BY DEF Submit
<1>3. /\ IsCall(call') /\ call'.function \in AllFunctions
      /\ call'.function \in Singles => call'.count = 1
    BY <1>1, CallsTyped
<1>4. stage' \in {"idle", "queued"} /\ outcome'.kind \notin {"Ok", "BadResponse"}
    BY <1>1 DEF Failure, None
<1>5. stage' = "queued" => Legal(call')
    BY <1>1, <1>3 DEF Legal
<1>6. ExchangeTypes'
    <2>1. body' = <<>> /\ foreign' = FALSE
        BY <1>2
    <2>2. body' \in Seq(Byte)
        BY <2>1
    <2>3. QED
        BY <1>2, <1>3, <1>4, <2>1, <2>2 DEF ExchangeTypes
<1>7. RequestInv'
    BY <1>2, <1>3, <1>4, <1>5 DEF RequestInv
<1>8. AppliedInv' /\ HandlerSurvives'
    BY <1>2 DEF AppliedInv, HandlerSurvives
<1>9. ReplyInv'
    BY <1>2, <1>4 DEF ReplyInv, NoReply
<1>10. OutcomeInv'
    BY <1>4 DEF OutcomeInv, ReadsAreExact, OwnRepliesAccepted
<1>11. QED
    BY <1>6, <1>7, <1>8, <1>9, <1>10

\* What fits the frame is the whole request.
LEMMA SendPreserves == ExchangeInv /\ Send => ExchangeInv'
<1> SUFFICES ASSUME ExchangeInv, Send PROVE ExchangeInv'
    OBVIOUS
<1> USE DEF ExchangeInv
<1> DEFINE s == Serialize(call.function, call.start, call.count, Values(call))
<1>1. /\ stage = "queued" /\ ~foreign /\ body = <<>> /\ Legal(call)
      /\ call.function \in AllFunctions /\ outcome.kind \notin {"Ok", "BadResponse"}
    BY DEF Send, RequestInv, ReplyInv
<1>2. UNCHANGED <<transport, checked, call, foreign, reply, applied, poisoned, last>>
    BY DEF Send
<1>3. applied = <<>>
    <2>1. ASSUME applied # <<>> PROVE FALSE
        <3>1. Parses(call.function, body)
            BY <2>1 DEF AppliedInv
        <3>2. Len(body) >= 4
            BY <3>1 DEF Parses
        <3>3. QED
            BY <1>1, <3>2
    <2>2. QED
        BY <2>1
<1>4. AppliedInv' /\ HandlerSurvives'
    BY <1>2, <1>3 DEF AppliedInv, HandlerSurvives
<1>5. CASE /\ stage' = "idle" /\ outcome' = Failure("Internal") /\ UNCHANGED body
    <2>1. ExchangeTypes'
        BY <1>2, <1>5 DEF ExchangeTypes
    <2>2. RequestInv'
        BY <1>1, <1>2, <1>5 DEF RequestInv
    <2>3. ReplyInv'
        BY <1>5 DEF ReplyInv
    <2>4. OutcomeInv'
        BY <1>5 DEF OutcomeInv, ReadsAreExact, OwnRepliesAccepted, Failure
    <2>5. QED
        BY <1>4, <2>1, <2>2, <2>3, <2>4
<1>6. CASE ~(stage' = "idle" /\ outcome' = Failure("Internal") /\ UNCHANGED body)
    <2>1. PICK b : /\ b = IF /\ call.function \in Multiples
                             /\ ByteCount(call.function, call.count) > 255
                          THEN <<>> ELSE s
                   /\ Formats(transport, call.function, call.count, b)
                   /\ stage' = "sent" /\ body' = b /\ UNCHANGED outcome
        BY <1>6 DEF Send
    <2>2. call.function \in Multiples => ByteCount(call.function, call.count) <= 255
        BY <2>1 DEF Formats
    <2>3. ByteCount(call.function, call.count) \in Int
        BY <1>1, LegalRange DEF ByteCount, NumBytes
    <2>4. ~(call.function \in Multiples /\ ByteCount(call.function, call.count) > 255)
        BY <2>2, <2>3
    <2>5. b = s
        BY <2>1, <2>4
    <2>6. s \in Seq(Byte) /\ Len(s) >= 4
        BY <1>1, <2>2, RequestOf
    <2> HIDE DEF s
    <2>7. ExchangeTypes'
        BY <1>2, <2>1, <2>5, <2>6 DEF ExchangeTypes
    <2>8. s # <<>>
        BY <2>6
    <2>9. RequestInv'
        <3>1. body' = s /\ Formats(transport, call.function, call.count, s)
            BY <2>1, <2>5
        <3>2. QED
            BY <1>1, <1>2, <2>1, <2>8, <3>1 DEF RequestInv, s
    <2>10. ReplyInv'
        BY <1>1, <2>1 DEF ReplyInv
    <2>11. OutcomeInv'
        BY <1>1, <2>1 DEF OutcomeInv, ReadsAreExact, OwnRepliesAccepted
    <2>12. QED
        BY <1>4, <2>7, <2>9, <2>10, <2>11
<1>7. QED
    BY <1>5, <1>6

\* What a call ends with: a read with the values of the reply at the addresses
\* of the call, anything of this library's server with no bad response.
LEMMA ReceivePreserves == ExchangeInv /\ Receive => ExchangeInv'
<1> SUFFICES ASSUME ExchangeInv, Receive PROVE ExchangeInv'
    OBVIOUS
<1> USE DEF ExchangeInv
<1> DEFINE f == call.function
<1>1. /\ stage = "replied" /\ ~foreign /\ stage' = "idle" /\ outcome' = Outcome
      /\ UNCHANGED <<transport, checked, call, foreign, body, reply, applied, poisoned, last>>
    BY DEF Receive
<1>2. /\ f \in AllFunctions /\ Legal(call) /\ body # <<>>
      /\ body = Serialize(f, call.start, call.count, Values(call))
      /\ f \in Multiples => ByteCount(f, call.count) <= 255
    BY <1>1 DEF RequestInv, Formats
<1>3. f # "exception"
    BY <1>2 DEF AllFunctions, Reads, Singles, Multiples
<1>4. ASSUME outcome'.kind = "Ok"
      PROVE  /\ reply.function = f /\ Matches(f, call.start, call.count, Values(call), reply.body)
             /\ f \in Reads => outcome'.items = Items(f, call.start, call.count, Tail(reply.body))
    BY <1>1, <1>4 DEF Outcome, Failure
<1>5. ReadsAreExact'
    <2> SUFFICES ASSUME outcome'.kind = "Ok", f \in Reads
                 PROVE  /\ Indices(outcome'.items) = Addresses(call.start, call.count)
                        /\ call.start + call.count - 1 <= U16_MAX
                        /\ reply.own => \A i \in 1..call.count :
                             outcome'.items[i].value = Point(f, call.start + i - 1)
        BY <1>1 DEF ReadsAreExact
    <2> DEFINE t == Tail(reply.body)
               items == outcome'.items
    <2>1. items = Items(f, call.start, call.count, t) /\ reply.function = f
        BY <1>4
    <2> HIDE DEF items
    <2>2. call.start \in Nat /\ call.count \in Nat /\ call.start + call.count - 1 <= U16_MAX
        BY <1>2, LegalRange, U16Type
    <2>3. /\ DOMAIN items = 1..call.count
          /\ \A i \in 1..call.count : items[i].index = call.start + i - 1
        <3> HIDE DEF t, f
        <3>1. QED
            BY <2>1, <2>2 DEF Items
    <2>4. Indices(items) = Addresses(call.start, call.count)
        BY <2>3 DEF Indices, Addresses
    <2>5. ASSUME reply.own, NEW i \in 1..call.count
          PROVE  items[i].value = Point(f, call.start + i - 1)
        <3>1. reply.body = ReadReply(f, call.count, Points(call))
            BY <1>1, <1>2, <1>3, <2>1, <2>5 DEF ReplyInv
        <3>2. /\ items = Indexed(call.start, Points(call)) /\ Len(Points(call)) = call.count
            BY <1>2, <2>1, <3>1, ReplyOf
        <3>3. items[i].value = Points(call)[i]
            BY <3>2 DEF Indexed
        <3>4. QED
            BY <3>3 DEF Points
    <2>6. QED
        BY <2>2, <2>4, <2>5 DEF items
<1>6. ASSUME outcome'.kind = "Ok", reply.own, f \notin Reads PROVE applied # <<>>
    BY <1>1, <1>3, <1>4, <1>6 DEF ReplyInv
<1>7. ASSUME reply.own PROVE outcome'.kind # "BadResponse"
    <2>1. CASE reply.function = "exception" /\ Len(reply.body) = 1
        BY <1>1, <1>3, <2>1 DEF Outcome, Failure
    <2>2. CASE f \in Reads /\ reply.function = f
               /\ reply.body = ReadReply(f, call.count, Points(call))
        <3>1. Len(reply.body) = 1 + ByteCount(f, call.count)
            BY <1>2, <2>2, ReplyOf
        <3>2. f \notin Singles /\ f \notin Multiples
            BY <1>2, <2>2, Kinds
        <3>3. Matches(f, call.start, call.count, Values(call), reply.body)
            BY <2>2, <3>1, <3>2 DEF Matches
        <3>4. QED
            BY <1>1, <2>2, <3>3 DEF Outcome
    <2>3. CASE f \notin Reads /\ reply.function = f /\ reply.body = SubSeq(body, 1, 4)
        <3>1. Matches(f, call.start, call.count, Values(call), reply.body)
            BY <1>2, <2>3, RequestOf
        <3>2. QED
            BY <1>1, <2>3, <3>1 DEF Outcome
    <2>4. QED
        BY <1>1, <1>7, <2>1, <2>2, <2>3 DEF ReplyInv
<1>8. ExchangeTypes'
    BY <1>1 DEF ExchangeTypes
<1>9. RequestInv'
    BY <1>1 DEF RequestInv
<1>10. AppliedInv' /\ HandlerSurvives'
    BY <1>1 DEF AppliedInv, HandlerSurvives
<1>11. ReplyInv'
    BY <1>1 DEF ReplyInv
<1>12. OutcomeInv'
    BY <1>1, <1>5, <1>6, <1>7 DEF OutcomeInv, OwnRepliesAccepted
<1>13. QED
    BY <1>8, <1>9, <1>10, <1>11, <1>12

\* A request that gets no answer leaves everything but the outcome as it was.
LEMMA UnansweredPreserves ==
    ASSUME ExchangeInv, Unanswered, stage = "sent",
           UNCHANGED <<transport, checked, call, foreign, body, applied>>,
           HandlerSurvives', poisoned' \in BOOLEAN, last' \in BOOLEAN
    PROVE  ExchangeInv'
<1> USE DEF ExchangeInv
<1>1. stage' = "idle" /\ outcome' = Failure("NoResponse") /\ reply' = reply
    BY DEF Unanswered
<1>2. ExchangeTypes'
    BY <1>1 DEF ExchangeTypes
<1>3. RequestInv'
    BY <1>1 DEF RequestInv
<1>4. AppliedInv'
    BY DEF AppliedInv
<1>5. ReplyInv'
    BY <1>1 DEF ReplyInv
<1>6. OutcomeInv'
    BY <1>1 DEF OutcomeInv, ReadsAreExact, OwnRepliesAccepted, Failure
<1>7. QED
    BY <1>2, <1>3, <1>4, <1>5, <1>6

\* A reply that is due, or an exception, leaves the rest as it was.
LEMMA ReplyPreserves ==
    ASSUME ExchangeInv, NEW g, NEW b, Reply(g, b), stage = "sent",
           UNCHANGED <<transport, checked, call, foreign, body>>,
           AppliedInv', HandlerSurvives', poisoned' \in BOOLEAN, last' \in BOOLEAN,
           ~foreign => \/ g = "exception" /\ Len(b) = 1
                       \/ /\ call.function \in Reads /\ g = call.function
                          /\ b = ReadReply(g, call.count, Points(call))
                       \/ /\ call.function \notin Reads /\ g = call.function
                          /\ b = SubSeq(body, 1, 4) /\ applied' # <<>>
    PROVE  ExchangeInv'
<1> USE DEF ExchangeInv
<1>1. /\ stage' = "replied" /\ reply' = [function |-> g, body |-> b, own |-> TRUE]
      /\ outcome' = outcome
    BY DEF Reply
<1>2. outcome.kind \notin {"Ok", "BadResponse"}
    BY DEF ReplyInv
<1>3. ExchangeTypes'
    BY <1>1 DEF ExchangeTypes
<1>4. RequestInv'
    BY <1>1 DEF RequestInv
<1>5. ReplyInv'
    BY <1>1, <1>2 DEF ReplyInv
<1>6. OutcomeInv'
    BY <1>1, <1>2 DEF OutcomeInv, ReadsAreExact, OwnRepliesAccepted
<1>7. QED
    BY <1>3, <1>4, <1>5, <1>6

\* The framing refuses the request, or a poisoned mutex ends the session.
LEMMA RefusalPreserves == ExchangeInv /\ (RefuseFrame \/ LockPanics) => ExchangeInv'
<1> SUFFICES ASSUME ExchangeInv, RefuseFrame \/ LockPanics PROVE ExchangeInv'
    OBVIOUS
<1>1. /\ Unanswered /\ stage = "sent"
      /\ UNCHANGED <<transport, checked, call, foreign, body, applied, poisoned, last>>
    BY DEF RefuseFrame, LockPanics, Accepted
<1>2. HandlerSurvives' /\ poisoned' \in BOOLEAN /\ last' \in BOOLEAN
    BY <1>1 DEF ExchangeInv, ExchangeTypes, HandlerSurvives
<1>3. QED
    BY <1>1, <1>2, UnansweredPreserves

\* A request that cannot be parsed is answered with an exception.
LEMMA ParseFailsPreserves == ExchangeInv /\ ParseFails => ExchangeInv'
<1> SUFFICES ASSUME ExchangeInv, ParseFails PROVE ExchangeInv'
    OBVIOUS
<1>1. /\ Reply("exception", <<3>>) /\ stage = "sent"
      /\ UNCHANGED <<transport, checked, call, foreign, body, applied, poisoned, last>>
    BY DEF ParseFails, Accepted
<1>2. /\ HandlerSurvives' /\ AppliedInv' /\ poisoned' \in BOOLEAN /\ last' \in BOOLEAN
    BY <1>1 DEF ExchangeInv, ExchangeTypes, HandlerSurvives, AppliedInv
<1>3. Len(<<3>>) = 1
    OBVIOUS
<1>4. QED
    BY <1>1, <1>2, <1>3, ReplyPreserves

\* A read is answered with the points of the handler; the iterator overflows at
\* the last address only, in a build that checks for it.
LEMMA ServeReadPreserves == ExchangeInv /\ ServeRead => ExchangeInv'
<1> SUFFICES ASSUME ExchangeInv, ServeRead PROVE ExchangeInv'
    OBVIOUS
<1> DEFINE f == call.function
           a == ReadU16(body, 1)
           n == ReadU16(body, 3)
           due == ReadReply(f, n, [i \in 1..n |-> Point(f, a + i - 1)])
<1>1. /\ stage = "sent" /\ f \in Reads /\ Parses(f, body) /\ ~poisoned
      /\ UNCHANGED <<transport, checked, call, foreign, body, applied>>
    BY DEF ServeRead, Serving, Accepted
<1>2. PICK refused \in Refusals :
        LET fails == refused >= 0
            panics == /\ checked /\ IteratorOverflows(a, n)
                      /\ fails => refused = n - 1
        IN /\ IF panics THEN Unanswered
              ELSE IF fails THEN Reply("exception", <<2>>) ELSE Reply(f, due)
           /\ poisoned' = panics
           /\ last' = (last \/ a + n - 1 = U16_MAX)
    BY DEF ServeRead
<1>3. f \in AllFunctions
    BY <1>1 DEF AllFunctions
<1>4. a \in 0..U16_MAX /\ n \in 0..U16_MAX
    <2>1. body \in Seq(Byte)
        BY DEF ExchangeInv, ExchangeTypes
    <2>2. Len(body) >= 4
        BY <1>1 DEF Parses
    <2>3. 1 \in 1..(Len(body) - 1) /\ 3 \in 1..(Len(body) - 1)
        BY <2>1, <2>2
    <2>4. QED
        BY <2>1, <2>3, ReadU16Type
<1>5. ~InvalidRange(a, n)
    BY <1>1, <1>3, ParsesAs
<1>6. IteratorOverflows(a, n) => a + n - 1 = U16_MAX
    <2> HIDE DEF a, n
    <2>1. QED
        BY <1>4, <1>5, U16Type DEF InvalidRange, IteratorOverflows
<1>7. poisoned' \in BOOLEAN /\ last' \in BOOLEAN /\ (poisoned' => checked /\ last')
    BY <1>2, <1>6
<1>8. HandlerSurvives' /\ AppliedInv'
    BY <1>1, <1>7 DEF HandlerSurvives, AppliedInv, ExchangeInv
<1>9. Unanswered \/ Reply("exception", <<2>>) \/ Reply(f, due)
    BY <1>2
<1>10. CASE Unanswered
    BY <1>1, <1>7, <1>8, <1>10, UnansweredPreserves
<1>11. CASE Reply("exception", <<2>>)
    <2>1. Len(<<2>>) = 1
        OBVIOUS
    <2>2. QED
        BY <1>1, <1>7, <1>8, <1>11, <2>1, ReplyPreserves
<1>12. CASE Reply(f, due)
    <2>1. ASSUME ~foreign PROVE due = ReadReply(f, call.count, Points(call))
        <3>1. /\ Legal(call) /\ body = Serialize(f, call.start, call.count, Values(call))
              /\ f \in Multiples => ByteCount(f, call.count) <= 255
            BY <1>1, <2>1 DEF ExchangeInv, RequestInv, Formats
        <3>2. a = call.start /\ n = call.count
            BY <1>1, <3>1, RequestOf
        <3>3. QED
            BY <3>2 DEF Points
    <2> HIDE DEF due
    <2>2. QED
        BY <1>1, <1>7, <1>8, <1>12, <2>1, ReplyPreserves
<1>13. QED
    BY <1>9, <1>10, <1>11, <1>12

\* A write reaches the handler as the server parsed it, and is echoed or refused.
LEMMA ServeWritePreserves == ExchangeInv /\ ServeWrite => ExchangeInv'
<1> SUFFICES ASSUME ExchangeInv, ServeWrite PROVE ExchangeInv'
    OBVIOUS
<1> DEFINE f == call.function
<1>1. /\ stage = "sent" /\ f \in Singles \cup Multiples /\ Parses(f, body)
      /\ applied' = Written(f, body)
      /\ UNCHANGED <<transport, checked, call, foreign, body, poisoned, last>>
      /\ Reply(f, SubSeq(body, 1, 4)) \/ Reply("exception", <<2>>)
    BY DEF ServeWrite, Serving, Accepted
<1>2. body \in Seq(Byte) /\ poisoned' \in BOOLEAN /\ last' \in BOOLEAN
    BY <1>1 DEF ExchangeInv, ExchangeTypes
<1>3. applied' # <<>>
    BY <1>1, <1>2, WrittenRange
<1>4. f \notin Reads
    <2>1. f \in AllFunctions
        BY <1>1 DEF AllFunctions
    <2>2. QED
        BY <1>1, <2>1, Kinds
<1>5. HandlerSurvives' /\ AppliedInv'
    BY <1>1 DEF HandlerSurvives, AppliedInv, ExchangeInv
<1>6. Len(<<2>>) = 1
    OBVIOUS
<1>7. QED
    BY <1>1, <1>2, <1>3, <1>4, <1>5, <1>6, ReplyPreserves

\* Whatever another device answers, it is not this library's reply.
LEMMA DeviceAnswersPreserves == ExchangeInv /\ DeviceAnswers => ExchangeInv'
<1> SUFFICES ASSUME ExchangeInv, DeviceAnswers PROVE ExchangeInv'
    OBVIOUS
<1> USE DEF ExchangeInv
<1>1. /\ stage = "sent" /\ stage' = "replied" /\ reply'.own = FALSE
      /\ UNCHANGED <<transport, checked, call, foreign, body, outcome, applied, poisoned, last>>
    BY DEF DeviceAnswers
<1>2. outcome.kind \notin {"Ok", "BadResponse"}
    BY <1>1 DEF ReplyInv
<1>3. ExchangeTypes'
    BY <1>1 DEF ExchangeTypes
<1>4. RequestInv'
    BY <1>1 DEF RequestInv
<1>5. AppliedInv' /\ HandlerSurvives'
    BY <1>1 DEF AppliedInv, HandlerSurvives
<1>6. ReplyInv'
    BY <1>1, <1>2 DEF ReplyInv
<1>7. OutcomeInv'
    BY <1>1, <1>2 DEF OutcomeInv, ReadsAreExact, OwnRepliesAccepted
<1>8. QED
    BY <1>3, <1>4, <1>5, <1>6, <1>7

\* Another master's request is bytes, and no call of this client.
LEMMA MasterSendsPreserves == ExchangeInv /\ MasterSends => ExchangeInv'
<1> SUFFICES ASSUME ExchangeInv, MasterSends PROVE ExchangeInv'
    OBVIOUS
<1> USE DEF ExchangeInv
<1>1. PICK f \in AllFunctions : call' = Call(f, 0, 0) /\ body' \in Bodies(f)
    BY DEF MasterSends, AllFunctions
<1>2. /\ stage' = "sent" /\ foreign' = TRUE /\ applied' = <<>>
      /\ reply' = NoReply /\ outcome' = None
      /\ UNCHANGED <<transport, checked, poisoned, last>>
    BY DEF MasterSends
<1>3. body' \in Seq(Byte)
    BY <1>1, BodiesAssumption DEF Byte, AllFunctions
<1>4. IsCall(call') /\ call'.function \in AllFunctions
    BY <1>1, U16Type DEF IsCall, Call
<1>5. outcome'.kind \notin {"Ok", "BadResponse"}
    BY <1>2 DEF None
<1>6. ExchangeTypes'
    BY <1>2, <1>3, <1>4 DEF ExchangeTypes
<1>7. RequestInv'
    BY <1>2, <1>4 DEF RequestInv
<1>8. AppliedInv' /\ HandlerSurvives'
    BY <1>2 DEF AppliedInv, HandlerSurvives
<1>9. ReplyInv'
    BY <1>2, <1>5 DEF ReplyInv
<1>10. OutcomeInv'
    BY <1>5 DEF OutcomeInv, ReadsAreExact, OwnRepliesAccepted
<1>11. QED
    BY <1>6, <1>7, <1>8, <1>9, <1>10

\* Another master takes its reply.
LEMMA MasterReceivesPreserves == ExchangeInv /\ MasterReceives => ExchangeInv'
<1> SUFFICES ASSUME ExchangeInv, MasterReceives PROVE ExchangeInv'
    OBVIOUS
<1> USE DEF ExchangeInv
<1>1. /\ stage = "replied" /\ foreign /\ stage' = "idle"
      /\ UNCHANGED <<transport, checked, call, foreign, body, reply, outcome, applied>>
      /\ UNCHANGED <<poisoned, last>>
    BY DEF MasterReceives
<1>2. ExchangeTypes'
    BY <1>1 DEF ExchangeTypes
<1>3. RequestInv'
    BY <1>1 DEF RequestInv
<1>4. AppliedInv' /\ HandlerSurvives'
    BY <1>1 DEF AppliedInv, HandlerSurvives
<1>5. ReplyInv'
    BY <1>1 DEF ReplyInv
<1>6. OutcomeInv'
    BY <1>1 DEF OutcomeInv, ReadsAreExact, OwnRepliesAccepted
<1>7. QED
    BY <1>2, <1>3, <1>4, <1>5, <1>6

\* A step that changes nothing here changes nothing of it.
LEMMA StutterPreserves == ExchangeInv /\ UNCHANGED exchangeVars => ExchangeInv'
BY DEF ExchangeInv, exchangeVars, ExchangeTypes, RequestInv, AppliedInv, ReplyInv, OutcomeInv,
    ReadsAreExact, OwnRepliesAccepted, HandlerSurvives

-----------------------------------------------------------------------------
(* The theorems *)

\* The invariant of an exchange: what is on the wire, with the handler and with
\* the caller belong together.
THEOREM ExchangeInvariant == ExchangeSpec => []ExchangeInv
<1>1. ExchangeInv /\ [ExchangeNext]_exchangeVars => ExchangeInv'
    BY SubmitPreserves, SendPreserves, ReceivePreserves, RefusalPreserves, ParseFailsPreserves,
       ServeReadPreserves, ServeWritePreserves, DeviceAnswersPreserves, MasterSendsPreserves,
       MasterReceivesPreserves, StutterPreserves DEF ExchangeNext
<1>2. QED
    BY <1>1, ExchangeStarts, PTL DEF ExchangeSpec

\* A read that succeeds has the addresses asked for and the handler's points, for
\* any points, ranges and functions: BitIterator and RegisterIterator undo what
\* BitWriter and RegisterWriter packed.
THEOREM ReadsAreExactAlways == ExchangeSpec => []ReadsAreExact
<1>1. ExchangeInv => ReadsAreExact
    BY DEF ExchangeInv, OutcomeInv
<1>2. QED
    BY <1>1, ExchangeInvariant, PTL

\* Request::get_reply gives the handler the values of the call at their addresses,
\* and of any request at all values at addresses that exist (Request::parse).
THEOREM WritesAreExactAlways == ExchangeSpec => []WritesAreExact
<1>1. ASSUME ExchangeInv PROVE WritesAreExact
    <2> USE DEF ExchangeInv
    <2> SUFFICES ASSUME call.function \notin Reads
                 PROVE  /\ applied # <<>> /\ ~foreign => applied = WrittenBy(call)
                        /\ outcome.kind = "Ok" /\ reply.own => applied = WrittenBy(call)
                        /\ applied # <<>> =>
                              /\ Indices(applied) = Addresses(ReadU16(body, 1), Counted)
                              /\ applied[Len(applied)].index <= U16_MAX
        BY <1>1, Zenon DEF WritesAreExact, WrittenBy
    <2>1. ASSUME applied # <<>>
          PROVE  /\ call.function \in Singles \cup Multiples /\ Parses(call.function, body)
                 /\ applied = Written(call.function, body) /\ body \in Seq(Byte)
        BY <1>1, <2>1 DEF AppliedInv, ExchangeTypes
    <2>2. ASSUME applied # <<>>, ~foreign PROVE applied = WrittenBy(call)
        <3>1. body # <<>>
            <4>1. Len(body) >= 4
                BY <2>1, <2>2 DEF Parses
            <4>2. QED
                BY <4>1
        <3>2. /\ Legal(call)
              /\ body = Serialize(call.function, call.start, call.count, Values(call))
              /\ call.function \in Multiples => ByteCount(call.function, call.count) <= 255
            BY <1>1, <2>2, <3>1 DEF RequestInv, Formats
        <3>3. QED
            BY <2>1, <2>2, <3>2, RequestOf
    <2>3. ASSUME outcome.kind = "Ok", reply.own PROVE applied # <<>> /\ ~foreign
        BY <1>1, <2>3 DEF OutcomeInv
    <2>4. ASSUME applied # <<>>
          PROVE  /\ Indices(applied) = Addresses(ReadU16(body, 1), Counted)
                 /\ applied[Len(applied)].index <= U16_MAX
        BY <2>1, <2>4, WrittenRange DEF Counted
    <2>5. QED
        BY <2>2, <2>3, <2>4
<1>2. QED
    BY <1>1, ExchangeInvariant, PTL

\* Request::handle_response of the client takes what Request::get_reply of the
\* server formats, whatever the handler has or refuses.
THEOREM OwnRepliesAcceptedAlways == ExchangeSpec => []OwnRepliesAccepted
<1>1. ExchangeInv => OwnRepliesAccepted
    BY DEF ExchangeInv, OutcomeInv
<1>2. QED
    BY <1>1, ExchangeInvariant, PTL

\* What FrameWriter::format_request writes, Request::parse takes, and the framing
\* refuses only over RTU; and the client takes what is answered.
THEOREM FormattedIsServedAlways == ExchangeSpec => []FormattedIsServed
<1>1. ASSUME ExchangeInv PROVE FormattedIsServed
    <2> SUFFICES ASSUME ~foreign, stage = "sent"
                 PROVE  /\ Parses(call.function, body)
                        /\ 1 + Len(body) > MAX_ADU_LENGTH =>
                               transport = "rtu" /\ call.function \in Multiples
        BY <1>1 DEF FormattedIsServed, ExchangeInv, OutcomeInv
    <2>1. /\ Legal(call) /\ body = Serialize(call.function, call.start, call.count, Values(call))
          /\ Formats(transport, call.function, call.count, body)
        BY <1>1 DEF ExchangeInv, RequestInv
    <2>2. /\ Parses(call.function, body) /\ body \in Seq(Byte)
          /\ call.function \notin Multiples => Len(body) = 4
        BY <2>1, RequestOf DEF Formats
    <2>3. Len(body) \in Nat /\ (transport = "tcp" => 8 + Len(body) <= MAX_FRAME_LENGTH)
        BY <2>1, <2>2 DEF Formats
    <2>4. transport \in {"tcp", "rtu"}
        BY <1>1 DEF ExchangeInv, ExchangeTypes
    <2>5. ASSUME 1 + Len(body) > MAX_ADU_LENGTH
          PROVE  Len(body) # 4 /\ ~(8 + Len(body) <= MAX_FRAME_LENGTH)
        <3>1. \A n \in Nat : 1 + n > 253 => n # 4 /\ ~(8 + n <= 260)
            OBVIOUS
        <3>2. QED
            BY <2>3, <2>5, <3>1, Zenon DEF MAX_ADU_LENGTH, MAX_FRAME_LENGTH
    <2>6. QED
        BY <2>2, <2>3, <2>4, <2>5
<1>2. QED
    BY <1>1, ExchangeInvariant, PTL

\* The mutex of a handler is poisoned by AddressIterator only, after a read of the
\* last address, in a build that checks for overflow, whatever requests came before.
THEOREM HandlerSurvivesAlways == ExchangeSpec => []HandlerSurvives
<1>1. ExchangeInv => HandlerSurvives
    BY DEF ExchangeInv
<1>2. QED
    BY <1>1, ExchangeInvariant, PTL
=============================================================================
