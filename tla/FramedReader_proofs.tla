------------------------ MODULE FramedReader_proofs ------------------------
(***************************************************************************)
(* Theorems about reading MBAP frames from a byte stream (FramedReader): for *)
(* any header length and largest ADU, any frames and any cuts into reads.    *)
(***************************************************************************)
EXTENDS FramedReader, TLAPS, SequenceTheorems

-----------------------------------------------------------------------------
(* The inductive invariant *)

TypeOK ==
    /\ pipelined \in BOOLEAN /\ reused \in BOOLEAN /\ clean \in BOOLEAN
    /\ conn \in Nat /\ count \in Nat /\ begin \in Nat
    /\ stream \in Seq(Bytes) /\ data \in Seq(Bytes)
    /\ parser \in [state: {"Begin", "Header"}, conn: Nat, frame: Nat, adu: 0..MaxAdu]
    /\ frame \in [conn: Nat, frame: Nat, adu: 0..MaxAdu, body: Seq(Bytes)]

\* A sequence of bytes of the frames up to last that were sent on connection c,
\* each at a place in its frame.
Sent(p, c, last) ==
    \A i \in 1..Len(p) :
        /\ p[i].conn = c /\ p[i].frame <= last
        /\ 1 <= p[i].pos /\ p[i].pos <= HeaderLength + p[i].adu

\* Place j is one of those that the frame of byte i takes, if it is not cut.
InFrameOf(p, i, j) ==
    i < j + p[i].pos /\ j + p[i].pos <= i + HeaderLength + p[i].adu

\* The bytes of a frame are together, from the first that is left to its last.
Together(p) ==
    \A i \in 1..Len(p), j \in Nat \ {0} :
        InFrameOf(p, i, j) =>
            /\ j <= Len(p)
            /\ p[j].frame = p[i].frame /\ p[j].adu = p[i].adu
            /\ p[j].pos + i = p[i].pos + j

\* Place k is where frame n starts; frames after the last are not there.
StartsAt(p, k, n, last) ==
    IF n <= last THEN k <= Len(p) /\ p[k].pos = 1 /\ p[k].frame = n ELSE k = Len(p) + 1

\* A frame is followed by the next one.
InTurn(p, last) ==
    \A i \in 1..Len(p), k \in Nat \ {0} :
        k + p[i].pos = i + HeaderLength + p[i].adu + 1 =>
            StartsAt(p, k, p[i].frame + 1, last)

Chain(p, c, last) == Sent(p, c, last) /\ Together(p) /\ InTurn(p, last)

\* What the parser expects is what comes: the header of the frame after the one
\* returned last, or the body of the header it has read.
Expected(p) ==
    /\ parser.state = "Begin" => StartsAt(p, 1, frame.frame + 1, count)
    /\ parser.state = "Header" =>
        /\ parser.conn = conn /\ parser.frame = frame.frame + 1 /\ parser.frame <= count
        /\ parser.adu = 0 => StartsAt(p, 1, parser.frame + 1, count)
        /\ parser.adu > 0 =>
            /\ 1 <= Len(p)
            /\ p[1].pos = HeaderLength + 1
            /\ p[1].frame = parser.frame /\ p[1].adu = parser.adu

\* The bytes that are sent and not consumed: those in the buffer, then those on
\* their way.
Pending == data \o stream

StreamInv ==
    frame.frame <= count /\ Chain(Pending, conn, count) /\ Expected(Pending)

\* With one frame at a time, the buffer starts with the frame that it holds.
OneAtATime ==
    ~pipelined =>
        /\ count <= frame.frame + 1
        /\ data # <<>> => begin < data[1].pos

ReaderInv ==
    /\ TypeOK /\ WholeFrames
    /\ clean /\ phase = "reading" => StreamInv /\ OneAtATime

-----------------------------------------------------------------------------
(* Lemmas about chains of frames *)

\* Places that are moved by n stay in their relation.
LEMMA AddBoth ==
    ASSUME NEW n \in Nat
    PROVE  /\ \A a, b, c, d \in Nat : a + (b + n) = c + (d + n) => a + b = c + d
           /\ \A a, b, c \in Nat : a < b + c => a + n < (b + n) + c
           /\ \A a, b, c, d, e \in Nat : a + b <= c + d + e => (a + n) + b <= (c + n) + d + e
           /\ \A a, b, c, d, e \in Nat :
                a + b = c + d + e + 1 => (a + n) + b = (c + n) + d + e + 1
OBVIOUS

\* The fields of the bytes of a stream are numbers within their bounds.
LEMMA ByteFacts ==
    ASSUME NEW p \in Seq(Bytes)
    PROVE  /\ Len(p) \in Nat
           /\ \A i \in 1..Len(p) : /\ p[i] \in Bytes
                                   /\ p[i].pos \in Nat /\ p[i].frame \in Nat
                                   /\ p[i].adu \in Nat /\ p[i].adu <= MaxAdu + 1
<1>1. Len(p) \in Nat /\ \A i \in 1..Len(p) : p[i] \in Bytes
    OBVIOUS
<1>2. \A b \in Bytes : b.pos \in Nat /\ b.frame \in Nat /\ b.adu \in 0..(MaxAdu + 1)
    BY DEF Bytes, Adus
<1>3. \A a \in 0..(MaxAdu + 1) : a \in Nat /\ a <= MaxAdu + 1
    BY ReaderAssumption
<1>4. QED
    BY <1>1, <1>2, <1>3

\* What is left of a chain after its first n bytes is one.
LEMMA ChainShift ==
    ASSUME NEW p \in Seq(Bytes), NEW q \in Seq(Bytes), NEW n \in Nat, NEW c, NEW last \in Nat,
           Chain(p, c, last), Len(p) = Len(q) + n, \A i \in 1..Len(q) : q[i] = p[i + n]
    PROVE  /\ Chain(q, c, last)
           /\ \A k \in Nat \ {0}, m \in Nat : StartsAt(p, k + n, m, last) => StartsAt(q, k, m, last)
<1>1. PICK l \in Nat : l = Len(q)
    OBVIOUS
<1>2. Len(p) = l + n /\ \A i \in 1..l : i + n \in 1..(l + n) /\ q[i] = p[i + n]
    BY <1>1
<1>3. \A i \in 1..(l + n) : p[i].pos \in Nat /\ p[i].frame \in Nat /\ p[i].adu \in Nat
    BY <1>2, ByteFacts
<1>4. \A k \in Nat \ {0}, m \in Nat : StartsAt(p, k + n, m, last) => StartsAt(q, k, m, last)
    BY <1>1, <1>2 DEF StartsAt
<1>5. Sent(q, c, last)
    BY <1>1, <1>2 DEF Chain, Sent
<1>6. Together(q)
    <2> SUFFICES ASSUME NEW i \in 1..l, NEW j \in Nat \ {0}, InFrameOf(q, i, j)
                 PROVE  /\ j <= l
                        /\ q[j].frame = q[i].frame /\ q[j].adu = q[i].adu
                        /\ q[j].pos + i = q[i].pos + j
        BY <1>1 DEF Together
    <2>1. i + n \in 1..(l + n) /\ q[i] = p[i + n] /\ j + n \in Nat \ {0}
        BY <1>2
    <2>2. InFrameOf(p, i + n, j + n)
        <3>1. PICK x \in Nat, y \in Nat : x = p[i + n].pos /\ y = p[i + n].adu
            BY <1>3, <2>1
        <3>2. i < j + x /\ j + x <= i + HeaderLength + y
            BY <2>1, <3>1 DEF InFrameOf
        <3>3. i + n < (j + n) + x /\ (j + n) + x <= (i + n) + HeaderLength + y
            BY <3>2, AddBoth, ReaderAssumption
        <3>4. QED
            BY <3>1, <3>3 DEF InFrameOf
    <2>3. /\ j + n <= l + n
          /\ p[j + n].frame = p[i + n].frame /\ p[j + n].adu = p[i + n].adu
          /\ p[j + n].pos + (i + n) = p[i + n].pos + (j + n)
        BY <1>2, <2>1, <2>2 DEF Chain, Together
    <2>4. j \in 1..l /\ q[j] = p[j + n]
        BY <1>2, <2>3
    <2>5. p[j + n].pos \in Nat /\ p[i + n].pos \in Nat
        BY <1>2, <1>3, <2>4
    <2>6. PICK x \in Nat, y \in Nat : x = p[j + n].pos /\ y = p[i + n].pos
        BY <2>5
    <2>7. x + i = y + j
        <3>1. x + (i + n) = y + (j + n)
            BY <2>3, <2>6
        <3>2. i \in Nat /\ j \in Nat
            OBVIOUS
        <3>3. QED
            BY <3>1, <3>2, AddBoth
    <2>8. QED
        BY <2>1, <2>3, <2>4, <2>6, <2>7
<1>7. InTurn(q, last)
    <2> SUFFICES ASSUME NEW i \in 1..l, NEW k \in Nat \ {0},
                        k + q[i].pos = i + HeaderLength + q[i].adu + 1
                 PROVE  StartsAt(q, k, q[i].frame + 1, last)
        BY <1>1 DEF InTurn
    <2>1. i + n \in 1..(l + n) /\ q[i] = p[i + n] /\ k + n \in Nat \ {0}
        BY <1>2
    <2>2. (k + n) + p[i + n].pos = (i + n) + HeaderLength + p[i + n].adu + 1
        <3>1. PICK x \in Nat, y \in Nat : x = p[i + n].pos /\ y = p[i + n].adu
            BY <1>3, <2>1
        <3>2. k + x = i + HeaderLength + y + 1
            BY <2>1, <3>1
        <3>3. (k + n) + x = (i + n) + HeaderLength + y + 1
            BY <3>2, AddBoth, ReaderAssumption
        <3>4. QED
            BY <3>1, <3>3
    <2>3. StartsAt(p, k + n, p[i + n].frame + 1, last)
        BY <1>2, <2>1, <2>2 DEF Chain, InTurn
    <2>4. p[i + n].frame + 1 \in Nat
        <3>1. PICK x \in Nat : x = p[i + n].frame
            BY <1>3, <2>1
        <3>2. QED
            BY <3>1
    <2>5. QED
        BY <1>4, <2>1, <2>3, <2>4
<1>8. QED
    BY <1>4, <1>5, <1>6, <1>7 DEF Chain

\* A chain and the bytes of the frame after its last one are a chain.
LEMMA ChainAppend ==
    ASSUME NEW p \in Seq(Bytes), NEW q \in Seq(Bytes), NEW c \in Nat, NEW last \in Nat,
           NEW adu \in Adus, Chain(p, c, last),
           Len(q) = Len(p) + HeaderLength + adu,
           \A i \in 1..Len(p) : q[i] = p[i],
           \A i \in 1..(HeaderLength + adu) :
                q[Len(p) + i] = [conn |-> c, frame |-> last + 1, pos |-> i, adu |-> adu]
    PROVE  /\ Chain(q, c, last + 1)
           /\ \A k \in Nat \ {0}, m \in Nat :
                m <= last + 1 /\ StartsAt(p, k, m, last) => StartsAt(q, k, m, last + 1)
<1>1. PICK l \in Nat : l = Len(p)
    OBVIOUS
<1>2. PICK s \in Nat : s = HeaderLength + adu
    BY ReaderAssumption DEF Adus
<1>3. adu \in Nat /\ HeaderLength \in Nat /\ HeaderLength > 0 /\ s >= 1
    BY <1>2, ReaderAssumption DEF Adus
<1>4. /\ Len(q) = l + s
      /\ \A i \in 1..l : q[i] = p[i] /\ p[i].pos \in Nat /\ p[i].frame \in Nat /\ p[i].adu \in Nat
      /\ \A i \in 1..s : /\ q[l + i].conn = c /\ q[l + i].frame = last + 1
                         /\ q[l + i].pos = i /\ q[l + i].adu = adu
    <2>1. Len(q) = l + s
        <3>1. l + HeaderLength + adu = l + s
            BY <1>2, <1>3
        <3>2. QED
            BY <1>1, <3>1
    <2>2. \A i \in 1..s : q[l + i] = [conn |-> c, frame |-> last + 1, pos |-> i, adu |-> adu]
        BY <1>1, <1>2
    <2>3. \A i \in 1..l :
            q[i] = p[i] /\ p[i].pos \in Nat /\ p[i].frame \in Nat /\ p[i].adu \in Nat
        BY <1>1, ByteFacts
    <2>4. \A i \in 1..s : /\ q[l + i].conn = c /\ q[l + i].frame = last + 1
                           /\ q[l + i].pos = i /\ q[l + i].adu = adu
        <3> TAKE i \in 1..s
        <3>1. q[l + i] = [conn |-> c, frame |-> last + 1, pos |-> i, adu |-> adu]
            BY <2>2
        <3>2. QED
            BY <3>1
    <2>5. QED
        BY <2>1, <2>3, <2>4
<1>5. \A i \in 1..(l + s) : i \in 1..l \/ \E d \in 1..s : i = l + d
    <2>1. \A i \in 1..(l + s) : i \in 1..l \/ (i - l \in 1..s /\ i = l + (i - l))
        OBVIOUS
    <2>2. QED
        BY <2>1
<1>6. \A k \in Nat \ {0}, m \in Nat :
        m <= last + 1 /\ StartsAt(p, k, m, last) => StartsAt(q, k, m, last + 1)
    <2> SUFFICES ASSUME NEW k \in Nat \ {0}, NEW m \in Nat, m <= last + 1, StartsAt(p, k, m, last)
                 PROVE  StartsAt(q, k, m, last + 1)
        OBVIOUS
    <2>1. CASE m <= last
        BY <1>1, <1>4, <2>1 DEF StartsAt
    <2>2. CASE m = last + 1
        <3>1. k = l + 1
            BY <1>1, <2>2 DEF StartsAt
        <3>2. q[l + 1].frame = last + 1 /\ q[l + 1].pos = 1 /\ l + 1 <= l + s
            BY <1>3, <1>4
        <3>3. QED
            BY <1>4, <2>2, <3>1, <3>2 DEF StartsAt
    <2>3. QED
        BY <2>1, <2>2
<1>7. Sent(q, c, last + 1)
    <2> SUFFICES ASSUME NEW i \in 1..(l + s)
                 PROVE  /\ q[i].conn = c /\ q[i].frame <= last + 1
                        /\ 1 <= q[i].pos /\ q[i].pos <= HeaderLength + q[i].adu
        BY <1>4 DEF Sent
    <2>1. CASE i \in 1..l
        BY <1>1, <1>4, <2>1 DEF Chain, Sent
    <2>2. CASE \E d \in 1..s : i = l + d
        BY <1>2, <1>4, <2>2
    <2>3. QED
        BY <1>5, <2>1, <2>2
<1>8. Together(q)
    <2> SUFFICES ASSUME NEW i \in 1..(l + s), NEW j \in Nat \ {0}, InFrameOf(q, i, j)
                 PROVE  /\ j <= l + s
                        /\ q[j].frame = q[i].frame /\ q[j].adu = q[i].adu
                        /\ q[j].pos + i = q[i].pos + j
        BY <1>4 DEF Together
    <2>1. CASE i \in 1..l
        <3>1. q[i] = p[i] /\ InFrameOf(p, i, j)
            BY <1>4, <2>1 DEF InFrameOf
        <3>2. /\ j <= l
              /\ p[j].frame = p[i].frame /\ p[j].adu = p[i].adu
              /\ p[j].pos + i = p[i].pos + j
            BY <1>1, <2>1, <3>1 DEF Chain, Together
        <3>3. q[j] = p[j]
            BY <1>4, <3>2
        <3>4. QED
            BY <3>1, <3>2, <3>3
    <2>2. ASSUME NEW d \in 1..s, i = l + d
          PROVE  /\ j <= l + s
                 /\ q[j].frame = q[i].frame /\ q[j].adu = q[i].adu
                 /\ q[j].pos + i = q[i].pos + j
        <3>1. q[i].frame = last + 1 /\ q[i].pos = d /\ q[i].adu = adu
            BY <1>4, <2>2
        <3>2. j - l \in 1..s
            BY <1>2, <1>3, <2>2, <3>1 DEF InFrameOf
        <3>3. q[l + (j - l)].frame = last + 1 /\ q[l + (j - l)].pos = j - l
              /\ q[l + (j - l)].adu = adu
            BY <1>4, <3>2
        <3>4. l + (j - l) = j
            OBVIOUS
        <3>5. QED
            BY <2>2, <3>1, <3>2, <3>3, <3>4
    <2>3. QED
        BY <1>5, <2>1, <2>2
<1>9. InTurn(q, last + 1)
    <2> SUFFICES ASSUME NEW i \in 1..(l + s), NEW k \in Nat \ {0},
                        k + q[i].pos = i + HeaderLength + q[i].adu + 1
                 PROVE  StartsAt(q, k, q[i].frame + 1, last + 1)
        BY <1>4 DEF InTurn
    <2>1. CASE i \in 1..l
        <3>1. q[i] = p[i] /\ p[i].frame + 1 \in Nat /\ p[i].frame <= last
            BY <1>1, <1>4, <2>1 DEF Chain, Sent
        <3>2. StartsAt(p, k, p[i].frame + 1, last)
            BY <1>1, <2>1, <3>1 DEF Chain, InTurn
        <3>3. p[i].frame + 1 <= last + 1
            BY <1>4, <2>1, <3>1
        <3>4. QED
            BY <1>6, <3>1, <3>2, <3>3
    <2>2. ASSUME NEW d \in 1..s, i = l + d
          PROVE  StartsAt(q, k, q[i].frame + 1, last + 1)
        <3>1. q[i].frame = last + 1 /\ q[i].pos = d /\ q[i].adu = adu
            BY <1>4, <2>2
        <3>2. k + d = l + d + HeaderLength + adu + 1
            BY <2>2, <3>1
        <3>size. k = l + s + 1
            BY <1>2, <1>3, <3>2
        <3>3. ~(last + 1 + 1 <= last + 1)
            OBVIOUS
        <3>4. QED
            BY <1>4, <3>1, <3>size, <3>3 DEF StartsAt
    <2>3. QED
        BY <1>5, <2>1, <2>2
<1>10. QED
    BY <1>6, <1>7, <1>8, <1>9 DEF Chain

-----------------------------------------------------------------------------
(* Lemmas about the buffer *)

\* What is read first stays in front of what is read later.
LEMMA ConcatPrefix ==
    ASSUME NEW d \in Seq(Bytes), NEW s \in Seq(Bytes)
    PROVE  /\ d \o s \in Seq(Bytes)
           /\ Len(d \o s) = Len(d) + Len(s)
           /\ Len(d) \in Nat /\ Len(s) \in Nat
           /\ \A i \in 1..Len(d) : i \in 1..Len(d \o s) /\ (d \o s)[i] = d[i]
<1>1. PICK m \in Nat, n \in Nat : m = Len(d) /\ n = Len(s)
    OBVIOUS
<1>2. /\ d \o s \in Seq(Bytes) /\ Len(d \o s) = m + n
      /\ \A i \in 1..(m + n) : (d \o s)[i] = IF i <= m THEN d[i] ELSE s[i - m]
    BY <1>1, ConcatProperties
<1>3. \A i \in 1..m : i \in 1..(m + n) /\ i <= m
    OBVIOUS
<1>4. QED
    BY <1>1, <1>2, <1>3

\* The bytes in the buffer are the first of those not consumed.
LEMMA PendingFacts ==
    ASSUME TypeOK
    PROVE  /\ Pending \in Seq(Bytes)
           /\ Len(Pending) = Len(data) + Len(stream)
           /\ Len(data) \in Nat /\ Len(stream) \in Nat
           /\ \A i \in 1..Len(data) : i \in 1..Len(Pending) /\ Pending[i] = data[i]
BY ConcatPrefix DEF TypeOK, Pending

\* ReadBuffer::read takes the first bytes.
LEMMA ConsumeFacts ==
    ASSUME TypeOK, NEW n \in Nat, n <= Len(data), Consume(n), UNCHANGED stream
    PROVE  /\ begin' = begin + n /\ begin' \in Nat
           /\ data' \in Seq(Bytes) /\ Len(data) = Len(data') + n
           /\ Pending' \in Seq(Bytes) /\ Len(Pending) = Len(Pending') + n
           /\ \A i \in 1..Len(Pending') : Pending'[i] = Pending[i + n]
           /\ data' # <<>> => 1 \in 1..Len(Pending') /\ data'[1] = Pending'[1]
<1>1. data \in Seq(Bytes) /\ stream \in Seq(Bytes) /\ begin \in Nat
    BY DEF TypeOK
<1>2. PICK l \in Nat, s \in Nat : l = Len(data) /\ s = Len(stream)
    BY <1>1
<1>3. data' = SubSeq(data, n + 1, l) /\ begin' = begin + n /\ stream' = stream /\ n <= l
    BY <1>2 DEF Consume
<1>4. \A i \in (n + 1)..l : data[i] \in Bytes
    <2>1. \A i \in (n + 1)..l : i \in 1..Len(data)
        BY <1>2
    <2>2. QED
        BY <1>1, <2>1
<1>5. /\ data' \in Seq(Bytes)
      /\ Len(data') = IF n + 1 <= l THEN l - (n + 1) + 1 ELSE 0
      /\ \A i \in 1..(l - (n + 1) + 1) : data'[i] = data[n + 1 + i - 1]
    <2>1. n + 1 \in Int /\ l \in Int
        OBVIOUS
    <2>2. QED
        BY <1>3, <1>4, <2>1, SubSeqProperties
<1>6. PICK r \in Nat : r + n = l
    <2>1. l - n \in Nat /\ (l - n) + n = l
        BY <1>3
    <2>2. QED
        BY <2>1
<1>7. Len(data') = r /\ \A i \in 1..r : data'[i] = data[i + n]
    <2>1. Len(data') = r /\ l - (n + 1) + 1 = r
        BY <1>5, <1>6
    <2>2. \A i \in 1..r : n + 1 + i - 1 = i + n
        OBVIOUS
    <2>3. QED
        BY <1>5, <2>1, <2>2
<1>8. /\ Pending' \in Seq(Bytes) /\ Len(Pending') = r + s
      /\ \A i \in 1..(r + s) : Pending'[i] = IF i <= r THEN data'[i] ELSE stream[i - r]
    <2>1. PICK d \in Seq(Bytes) : d = data'
        BY <1>5
    <2>2. Pending' = d \o stream /\ Len(d) = r
        BY <1>3, <1>7, <2>1 DEF Pending
    <2>3. /\ d \o stream \in Seq(Bytes) /\ Len(d \o stream) = r + s
          /\ \A i \in 1..(r + s) : (d \o stream)[i] = IF i <= r THEN d[i] ELSE stream[i - r]
        BY <1>1, <1>2, <2>2, ConcatProperties
    <2>4. QED
        BY <2>1, <2>2, <2>3
<1>9. /\ Pending \in Seq(Bytes) /\ Len(Pending) = l + s
      /\ \A i \in 1..(l + s) : Pending[i] = IF i <= l THEN data[i] ELSE stream[i - l]
    BY <1>1, <1>2, ConcatProperties DEF Pending
<1>10. ASSUME NEW i \in 1..(r + s)
       PROVE  Pending'[i] = Pending[i + n]
    <2>1. i + n \in 1..(l + s)
        BY <1>6
    <2>2. CASE i <= r
        <3>1. i + n <= l /\ i \in 1..r
            BY <1>6, <2>2
        <3>2. QED
            BY <1>7, <1>8, <1>9, <2>1, <2>2, <3>1
    <2>3. CASE ~(i <= r)
        <3>1. ~(i + n <= l) /\ (i + n) - l = i - r
            BY <1>6, <2>3
        <3>2. Pending'[i] = stream[i - r]
            BY <1>8, <2>3
        <3>3. Pending[i + n] = stream[(i + n) - l]
            BY <1>9, <2>1, <3>1
        <3>4. QED
            BY <3>1, <3>2, <3>3
    <2>4. QED
        BY <2>2, <2>3
<1>11. l + s = r + s + n /\ begin + n \in Nat
    BY <1>1, <1>6
<1>12. data' # <<>> => 1 \in 1..Len(Pending') /\ data'[1] = Pending'[1]
    <2>1. SUFFICES ASSUME data' # <<>>
                   PROVE  1 \in 1..Len(Pending') /\ data'[1] = Pending'[1]
        OBVIOUS
    <2>2. Len(data') \in Nat \ {0}
        BY <1>5, <2>1, EmptySeq
    <2>3. 1 <= r /\ 1 \in 1..(r + s)
        BY <1>7, <2>2
    <2>4. QED
        BY <1>8, <2>3
<1>13. QED
    BY <1>2, <1>3, <1>5, <1>6, <1>7, <1>8, <1>9, <1>10, <1>11, <1>12

\* read_some moves bytes from the stream to the buffer.
LEMMA ReadSomeFacts ==
    ASSUME TypeOK, ReadSome
    PROVE  /\ data' \in Seq(Bytes) /\ stream' \in Seq(Bytes)
           /\ Pending' = Pending
           /\ data # <<>> => data'[1] = data[1]
<1>1. data \in Seq(Bytes) /\ stream \in Seq(Bytes)
    BY DEF TypeOK
<1>2. PICK n \in 1..Len(stream) :
        /\ data' = data \o SubSeq(stream, 1, n)
        /\ stream' = SubSeq(stream, n + 1, Len(stream))
    BY DEF ReadSome
<1>3. PICK s \in Nat : s = Len(stream)
    BY <1>1
<1> DEFINE head == SubSeq(stream, 1, n)
           rest == SubSeq(stream, n + 1, Len(stream))
<1>4. n \in Int /\ n + 1 \in Int /\ s \in Int /\ 1 \in Int /\ n <= s /\ 1 <= n
    BY <1>3
<1>5. \A i \in 1..s : stream[i] \in Bytes
    BY <1>1, <1>3
<1>6. (\A i \in 1..n : stream[i] \in Bytes) /\ (\A i \in (n + 1)..s : stream[i] \in Bytes)
    <2>1. (\A i \in 1..n : i \in 1..s) /\ (\A i \in (n + 1)..s : i \in 1..s)
        BY <1>4
    <2>2. QED
        BY <1>5, <2>1
<1>7. head \in Seq(Bytes) /\ rest \in Seq(Bytes)
    BY <1>3, <1>4, <1>6, SubSeqProperties
<1>8. head \o rest = stream
    <2>1. /\ 1 \in 1..(Len(stream) + 1) /\ n \in (1 - 1)..Len(stream)
          /\ Len(stream) \in n..Len(stream)
        BY <1>3, <1>4
    <2>2. head \o rest = SubSeq(stream, 1, Len(stream))
        BY <1>1, <2>1, ConcatAdjacentSubSeq
    <2>3. QED
        BY <1>1, <2>2, SubSeqFull
<1> HIDE DEF head, rest
<1>9. data' = data \o head /\ stream' = rest
    BY <1>2 DEF head, rest
<1>10. (data \o head) \o rest = data \o (head \o rest)
    <2>1. \A p, q, r \in Seq(Bytes) : (p \o q) \o r = p \o (q \o r)
        BY ConcatAssociative
    <2>2. QED
        BY <1>1, <1>7, <2>1, Zenon
<1>11. Pending' = Pending
    BY <1>8, <1>9, <1>10 DEF Pending
<1>12. data # <<>> => data'[1] = data[1]
    <2>1. SUFFICES ASSUME data # <<>> PROVE data'[1] = data[1]
        OBVIOUS
    <2>2. Len(data) \in Nat \ {0} /\ Len(head) \in Nat
        BY <1>1, <1>7, <2>1, EmptySeq
    <2>3. 1 \in 1..(Len(data) + Len(head)) /\ 1 <= Len(data)
        BY <2>2
    <2>4. QED
        BY <1>1, <1>7, <1>9, <2>3, ConcatProperties
<1>13. QED
    BY <1>1, <1>7, <1>9, <1>11, <1>12, ConcatProperties

-----------------------------------------------------------------------------
(* Steps of the parser *)

\* The header that comes next is read in place, and what follows is its body.
LEMMA HeaderFacts ==
    ASSUME TypeOK, StreamInv, parser.state = "Begin", Len(data) >= HeaderLength
    PROVE  /\ Aligned(data)
           /\ data[1] \in Bytes /\ data[1].conn = conn /\ data[1].pos = 1
           /\ data[1].frame = frame.frame + 1 /\ data[1].frame <= count
           /\ data[1].adu = 0 => StartsAt(Pending, 1 + HeaderLength, data[1].frame + 1, count)
           /\ data[1].adu > 0 =>
                /\ 1 + HeaderLength <= Len(Pending)
                /\ Pending[1 + HeaderLength].pos = HeaderLength + 1
                /\ Pending[1 + HeaderLength].frame = data[1].frame
                /\ Pending[1 + HeaderLength].adu = data[1].adu
<1> DEFINE p == Pending
<1>1. /\ p \in Seq(Bytes) /\ Len(data) \in Nat /\ Len(stream) \in Nat
      /\ Len(p) = Len(data) + Len(stream)
      /\ \A i \in 1..Len(data) : i \in 1..Len(p) /\ p[i] = data[i]
    BY PendingFacts
<1>2. HeaderLength \in Nat /\ HeaderLength >= 1
    BY ReaderAssumption
<1>3. /\ 1 \in 1..Len(data) /\ 1 \in 1..Len(p)
      /\ \A i \in 1..HeaderLength : i \in 1..Len(data)
    BY <1>1, <1>2
<1>4. p[1] = data[1] /\ p[1] \in Bytes /\ p[1].pos \in Nat /\ p[1].frame \in Nat /\ p[1].adu \in Nat
    BY <1>1, <1>3, ByteFacts
<1>5. p[1].pos = 1 /\ p[1].frame = frame.frame + 1 /\ frame.frame + 1 <= count
    <2>1. StartsAt(p, 1, frame.frame + 1, count)
        BY DEF StreamInv, Expected
    <2>2. 1 # Len(p) + 1
        BY <1>1, <1>3
    <2>3. QED
        BY <2>1, <2>2 DEF StartsAt
<1>6. Sent(p, conn, count) /\ Together(p) /\ InTurn(p, count)
    BY DEF StreamInv, Chain
<1> HIDE DEF p
<1>7. ASSUME NEW j \in Nat \ {0}, j <= HeaderLength + p[1].adu
      PROVE  /\ j <= Len(p) /\ p[j].pos = j
             /\ p[j].frame = p[1].frame /\ p[j].adu = p[1].adu
    <2>1. InFrameOf(p, 1, j)
        BY <1>2, <1>4, <1>5, <1>7 DEF InFrameOf
    <2>2. /\ j <= Len(p) /\ p[j].frame = p[1].frame /\ p[j].adu = p[1].adu
          /\ p[j].pos + 1 = 1 + j
        BY <1>3, <1>5, <1>6, <2>1 DEF Together
    <2>3. p[j].pos \in Nat
        BY <1>1, <2>2, ByteFacts
    <2>4. QED
        BY <2>2, <2>3
<1>8. Aligned(data)
    <2> SUFFICES ASSUME NEW i \in 1..HeaderLength
                 PROVE  data[i].pos = i /\ data[i].conn = data[1].conn /\ data[i].frame = data[1].frame
        BY DEF Aligned
    <2>1. i \in Nat \ {0} /\ i <= HeaderLength + p[1].adu /\ i \in 1..Len(data)
        BY <1>2, <1>3, <1>4
    <2>2. p[i] = data[i] /\ i \in 1..Len(p)
        BY <1>1, <2>1 DEF p
    <2>3. p[i].conn = conn /\ p[1].conn = conn
        BY <1>3, <1>6, <2>2 DEF Sent
    <2>4. QED
        BY <1>4, <1>7, <2>1, <2>2, <2>3
<1>9. p[1].conn = conn
    BY <1>3, <1>6 DEF Sent
<1>10. p[1].adu = 0 => StartsAt(p, 1 + HeaderLength, p[1].frame + 1, count)
    <2>1. 1 + HeaderLength \in Nat \ {0}
        BY <1>2
    <2>2. p[1].adu = 0 => (1 + HeaderLength) + p[1].pos = 1 + HeaderLength + p[1].adu + 1
        BY <1>2, <1>5
    <2>3. QED
        BY <1>3, <1>6, <2>1, <2>2 DEF InTurn
<1>11. p[1].adu > 0 =>
        /\ 1 + HeaderLength <= Len(p)
        /\ p[1 + HeaderLength].pos = HeaderLength + 1
        /\ p[1 + HeaderLength].frame = p[1].frame /\ p[1 + HeaderLength].adu = p[1].adu
    <2>1. SUFFICES ASSUME p[1].adu > 0
                   PROVE  /\ 1 + HeaderLength <= Len(p)
                          /\ p[1 + HeaderLength].pos = HeaderLength + 1
                          /\ p[1 + HeaderLength].frame = p[1].frame
                          /\ p[1 + HeaderLength].adu = p[1].adu
        OBVIOUS
    <2>2. /\ 1 + HeaderLength \in Nat \ {0} /\ 1 + HeaderLength <= HeaderLength + p[1].adu
          /\ 1 + HeaderLength = HeaderLength + 1
        BY <1>2, <1>4, <2>1
    <2>3. QED
        BY <1>7, <2>2
<1>12. QED
    BY <1>4, <1>5, <1>8, <1>9, <1>10, <1>11 DEF p

\* A header that is taken is the one of the next frame, since the chain starts there.
LEMMA ParseHeaderPreserves ==
    ASSUME ReaderInv, ParseHeader
    PROVE  ReaderInv'
<1> USE DEF ReaderInv
<1>1. /\ phase = "reading" /\ parser.state = "Begin" /\ Len(data) >= HeaderLength
      /\ Consume(HeaderLength)
      /\ UNCHANGED <<pipelined, reused, clean, conn, count, stream, frame>>
    BY DEF ParseHeader, mode
<1>2. PICK adu \in (IF Aligned(data) THEN {data[1].adu} ELSE Adus) :
        IF adu > MaxAdu
        THEN phase' = "BadFrame" /\ parser' = Begin
        ELSE /\ parser' = [state |-> "Header", conn |-> data[1].conn,
                           frame |-> data[1].frame, adu |-> adu]
             /\ phase' = phase
    BY DEF ParseHeader
<1>3. HeaderLength \in Nat /\ HeaderLength >= 1 /\ HeaderLength <= Len(data) /\ MaxAdu \in Nat
    <2>1. Len(data) \in Nat
        BY PendingFacts
    <2>2. QED
        BY <1>1, <2>1, ReaderAssumption
<1>4. /\ begin' = begin + HeaderLength /\ begin' \in Nat
      /\ data' \in Seq(Bytes)
      /\ Pending' \in Seq(Bytes) /\ Len(Pending) = Len(Pending') + HeaderLength
      /\ \A i \in 1..Len(Pending') : Pending'[i] = Pending[i + HeaderLength]
      /\ data' # <<>> => 1 \in 1..Len(Pending') /\ data'[1] = Pending'[1]
    BY <1>1, <1>3, ConsumeFacts
<1>5. 1 \in 1..Len(data) /\ data[1] \in Bytes /\ data # <<>>
    <2>1. 1 \in 1..Len(data) /\ data \in Seq(Bytes)
        BY <1>3, PendingFacts DEF TypeOK
    <2>2. QED
        BY <2>1
<1>6. TypeOK'
    <2>1. adu \in 0..(MaxAdu + 1) /\ data[1].conn \in Nat /\ data[1].frame \in Nat
        BY <1>2, <1>5 DEF Bytes, Adus
    <2>2. ~(adu > MaxAdu) => adu \in 0..MaxAdu
        BY <1>3, <2>1
    <2>3. parser' \in [state: {"Begin", "Header"}, conn: Nat, frame: Nat, adu: 0..MaxAdu]
        <3>1. CASE adu > MaxAdu
            <4>1. 0 \in 0..MaxAdu /\ 0 \in Nat
                BY <1>3
            <4>2. QED
                BY <1>2, <3>1, <4>1 DEF Begin
        <3>2. CASE ~(adu > MaxAdu)
            BY <1>2, <2>1, <2>2, <3>2
        <3>3. QED
            BY <3>1, <3>2
    <2>4. QED
        BY <1>1, <1>4, <2>3 DEF TypeOK
<1>7. WholeFrames'
    BY <1>1 DEF WholeFrames
<1>8. clean' /\ phase' = "reading" => StreamInv' /\ OneAtATime'
    <2>1. SUFFICES ASSUME clean', phase' = "reading"
                   PROVE  StreamInv' /\ OneAtATime'
        OBVIOUS
    <2>2. StreamInv /\ OneAtATime /\ clean
        BY <1>1, <2>1
    <2>3. /\ Aligned(data) /\ data[1].conn = conn /\ data[1].pos = 1
          /\ data[1].frame = frame.frame + 1 /\ data[1].frame <= count
          /\ data[1].adu = 0 => StartsAt(Pending, 1 + HeaderLength, data[1].frame + 1, count)
          /\ data[1].adu > 0 =>
                /\ 1 + HeaderLength <= Len(Pending)
                /\ Pending[1 + HeaderLength].pos = HeaderLength + 1
                /\ Pending[1 + HeaderLength].frame = data[1].frame
                /\ Pending[1 + HeaderLength].adu = data[1].adu
        BY <1>1, <2>2, HeaderFacts
    <2>4. parser' = [state |-> "Header", conn |-> data[1].conn,
                     frame |-> data[1].frame, adu |-> data[1].adu]
        BY <1>2, <2>1, <2>3
    <2>5. /\ parser'.state = "Header" /\ parser'.conn = conn /\ parser'.frame = data[1].frame
          /\ parser'.adu = data[1].adu
        BY <2>3, <2>4
    <2>6. Pending \in Seq(Bytes) /\ count \in Nat
        BY PendingFacts DEF TypeOK
    <2>7. /\ Chain(Pending', conn, count)
          /\ \A k \in Nat \ {0}, m \in Nat :
                StartsAt(Pending, k + HeaderLength, m, count) => StartsAt(Pending', k, m, count)
        BY <1>3, <1>4, <2>2, <2>6, ChainShift DEF StreamInv
    <2>8. data[1].frame + 1 \in Nat /\ data[1].adu \in Nat
        BY <1>5, ReaderAssumption DEF Bytes, Adus
    <2>9. data[1].adu = 0 => StartsAt(Pending', 1, data[1].frame + 1, count)
        BY <2>3, <2>7, <2>8
    <2>10. data[1].adu > 0 =>
            /\ 1 <= Len(Pending') /\ Pending'[1].pos = HeaderLength + 1
            /\ Pending'[1].frame = data[1].frame /\ Pending'[1].adu = data[1].adu
        <3>1. PICK l \in Nat : l = Len(Pending')
            BY <1>4
        <3>2. data[1].adu > 0 => 1 \in 1..l
            BY <1>3, <1>4, <2>3, <3>1
        <3>3. QED
            BY <1>4, <2>3, <3>1, <3>2
    <2>11. StreamInv'
        <3>1. Expected(Pending)'
            BY <1>1, <2>3, <2>5, <2>9, <2>10 DEF Expected, StartsAt
        <3>2. Chain(Pending, conn, count)'
            BY <1>1, <2>7 DEF Chain, Sent, Together, InFrameOf, InTurn, StartsAt
        <3>3. QED
            BY <1>1, <2>2, <3>1, <3>2 DEF StreamInv
    <2>12. OneAtATime'
        <3>1. SUFFICES ASSUME ~pipelined, data' # <<>>
                       PROVE  begin' < data'[1].pos
            BY <1>1, <2>2 DEF OneAtATime
        <3>2. begin = 0 /\ count <= frame.frame + 1
            BY <1>5, <2>2, <2>3, <3>1 DEF OneAtATime, TypeOK
        <3>3. data[1].adu > 0
            <4>1. SUFFICES ASSUME data[1].adu = 0 PROVE FALSE
                BY <2>8
            <4>2. ~(data[1].frame + 1 <= count)
                BY <2>3, <2>6, <2>8, <3>2 DEF TypeOK
            <4>3. 1 = Len(Pending') + 1 /\ 1 \in 1..Len(Pending')
                BY <1>4, <2>9, <3>1, <4>1, <4>2 DEF StartsAt
            <4>4. QED
                BY <4>3
        <3>4. data'[1].pos = HeaderLength + 1
            BY <1>4, <2>10, <3>1, <3>3
        <3>5. begin' = HeaderLength
            BY <1>3, <1>4, <3>2
        <3>6. QED
            BY <1>3, <3>4, <3>5
    <2>13. QED
        BY <2>11, <2>12
<1>9. QED
    BY <1>6, <1>7, <1>8

\* A body that is taken ends its frame, and the chain goes on with the next one.
LEMMA ParseBodyPreserves ==
    ASSUME ReaderInv, ParseBody
    PROVE  ReaderInv'
<1> USE DEF ReaderInv
<1> DEFINE a == parser.adu
           body == SubSeq(data, 1, a)
<1>1. /\ phase = "reading" /\ phase' = "reading" /\ parser.state = "Header" /\ Len(data) >= a
      /\ Consume(a)
      /\ frame' = [conn |-> parser.conn, frame |-> parser.frame, adu |-> a, body |-> body]
      /\ parser' = Begin
      /\ UNCHANGED <<pipelined, reused, clean, conn, count, stream>>
    BY DEF ParseBody, mode
<1>2. /\ a \in 0..MaxAdu /\ a \in Nat /\ a <= Len(data) /\ MaxAdu \in Nat /\ HeaderLength \in Nat
      /\ parser.conn \in Nat /\ parser.frame \in Nat
    <2>1. Len(data) \in Nat
        BY PendingFacts
    <2>2. QED
        BY <1>1, <2>1, ReaderAssumption DEF TypeOK
<1> HIDE DEF a
<1>3. /\ begin' \in Nat /\ data' \in Seq(Bytes)
      /\ Pending' \in Seq(Bytes) /\ Len(Pending) = Len(Pending') + a
      /\ \A i \in 1..Len(Pending') : Pending'[i] = Pending[i + a]
      /\ data' # <<>> => 1 \in 1..Len(Pending') /\ data'[1] = Pending'[1]
    BY <1>1, <1>2, ConsumeFacts
<1>4. body \in Seq(Bytes) /\ Len(body) = a /\ \A i \in 1..a : body[i] = data[i] /\ i \in 1..Len(data)
    <2>1. data \in Seq(Bytes)
        BY DEF TypeOK
    <2>2. \A i \in 1..a : i \in 1..Len(data) /\ data[i] \in Bytes
        <3>1. PICK l \in Nat : l = Len(data)
            BY <2>1
        <3>2. \A i \in 1..a : i \in 1..l
            BY <1>2, <3>1
        <3>3. QED
            BY <2>1, <3>1, <3>2
    <2>3. /\ SubSeq(data, 1, a) \in Seq(Bytes)
          /\ Len(SubSeq(data, 1, a)) = IF 1 <= a THEN a - 1 + 1 ELSE 0
          /\ \A i \in 1..(a - 1 + 1) : SubSeq(data, 1, a)[i] = data[1 + i - 1]
        <3>1. 1 \in Int /\ a \in Int
            BY <1>2
        <3>2. QED
            BY <2>2, <3>1, SubSeqProperties
    <2>4. a - 1 + 1 = a /\ (IF 1 <= a THEN a - 1 + 1 ELSE 0) = a /\ \A i \in 1..a : 1 + i - 1 = i
        BY <1>2
    <2>5. QED
        BY <2>2, <2>3, <2>4
<1> HIDE DEF body
<1>5. TypeOK'
    <2>1. frame' \in [conn: Nat, frame: Nat, adu: 0..MaxAdu, body: Seq(Bytes)]
        BY <1>1, <1>2, <1>4
    <2>2. parser' \in [state: {"Begin", "Header"}, conn: Nat, frame: Nat, adu: 0..MaxAdu]
        <3>1. 0 \in 0..MaxAdu /\ 0 \in Nat
            BY <1>2
        <3>2. QED
            BY <1>1, <3>1 DEF Begin
    <2>3. QED
        BY <1>1, <1>3, <2>1, <2>2 DEF TypeOK
<1>6. ASSUME clean
      PROVE  WholeFrames' /\ StreamInv' /\ OneAtATime'
    <2>1. StreamInv /\ OneAtATime
        BY <1>1, <1>6
    <2> DEFINE p == Pending
    <2>2. /\ p \in Seq(Bytes) /\ \A i \in 1..Len(data) : i \in 1..Len(p) /\ p[i] = data[i]
          /\ count \in Nat /\ frame.frame \in Nat
        BY PendingFacts DEF TypeOK
    <2>3. Sent(p, conn, count) /\ Together(p) /\ InTurn(p, count)
        BY <2>1 DEF StreamInv, Chain
    <2>4. /\ parser.conn = conn /\ parser.frame = frame.frame + 1 /\ parser.frame <= count
          /\ a = 0 => StartsAt(p, 1, parser.frame + 1, count)
          /\ a > 0 => /\ 1 <= Len(p) /\ p[1].pos = HeaderLength + 1
                      /\ p[1].frame = parser.frame /\ p[1].adu = a
        BY <1>1, <2>1 DEF StreamInv, Expected, a
    <2>5. StartsAt(p, 1 + a, parser.frame + 1, count)
        <3>1. CASE a = 0
            BY <2>4, <3>1
        <3>2. CASE a > 0
            <4>1. 1 \in 1..Len(p) /\ 1 + a \in Nat \ {0}
                BY <1>2, <2>2, <2>4, <3>2
            <4>2. (1 + a) + (HeaderLength + 1) = 1 + HeaderLength + a + 1
                BY <1>2
            <4>3. (1 + a) + p[1].pos = 1 + HeaderLength + p[1].adu + 1
                BY <2>4, <3>2, <4>2
            <4>4. StartsAt(p, 1 + a, p[1].frame + 1, count)
                BY <2>3, <4>1, <4>3 DEF InTurn
            <4>5. QED
                BY <2>4, <3>2, <4>4
        <3>3. QED
            BY <1>2, <3>1, <3>2
    <2>6. /\ Chain(Pending', conn, count)
          /\ StartsAt(Pending', 1, parser.frame + 1, count)
        <3>1. /\ Chain(Pending', conn, count)
              /\ \A k \in Nat \ {0}, m \in Nat :
                    StartsAt(p, k + a, m, count) => StartsAt(Pending', k, m, count)
            BY <1>2, <1>3, <2>1, <2>2, ChainShift DEF StreamInv
        <3>2. parser.frame + 1 \in Nat /\ 1 \in Nat \ {0}
            BY <1>2
        <3>3. QED
            BY <2>5, <3>1, <3>2
    <2>7. frame'.frame = parser.frame /\ parser'.state = "Begin"
        BY <1>1 DEF Begin
    <2>8. StreamInv'
        <3>1. Expected(Pending)'
            BY <1>1, <2>6, <2>7 DEF Expected, StartsAt
        <3>2. Chain(Pending, conn, count)'
            BY <1>1, <2>6 DEF Chain, Sent, Together, InFrameOf, InTurn, StartsAt
        <3>3. QED
            BY <1>1, <2>4, <2>7, <3>1, <3>2 DEF StreamInv
    <2>9. OneAtATime'
        <3>1. SUFFICES ASSUME ~pipelined
                       PROVE  count <= frame'.frame + 1 /\ data' = <<>>
            BY <1>1 DEF OneAtATime
        <3>2. count <= parser.frame
            BY <2>1, <2>4, <3>1 DEF OneAtATime
        <3>3. count <= parser.frame + 1 /\ ~(parser.frame + 1 <= count)
            BY <1>2, <2>2, <3>2
        <3>4. 1 = Len(Pending') + 1
            BY <2>6, <3>3 DEF StartsAt
        <3>5. ~(1 \in 1..Len(Pending'))
            BY <1>3, <3>4
        <3>6. QED
            BY <1>3, <2>7, <3>3, <3>5
    <2> HIDE DEF p
    <2>10. ASSUME NEW i \in 1..a
           PROVE  body[i] = [conn |-> conn, frame |-> parser.frame, pos |-> HeaderLength + i, adu |-> a]
        <3>1. body[i] = p[i] /\ i \in 1..Len(p) /\ i \in Nat \ {0}
            BY <1>2, <1>4, <2>2
        <3>2. a > 0
            BY <1>2
        <3>3. 1 \in 1..Len(p)
            BY <2>2, <2>4, <3>2
        <3>4. InFrameOf(p, 1, i)
            <4>1. 1 < i + (HeaderLength + 1) /\ i + (HeaderLength + 1) <= 1 + HeaderLength + a
                BY <1>2
            <4>2. QED
                BY <2>4, <3>2, <4>1 DEF InFrameOf
        <3>5. /\ p[i].frame = parser.frame /\ p[i].adu = a
              /\ p[i].pos + 1 = HeaderLength + 1 + i
            BY <2>3, <2>4, <3>1, <3>2, <3>3, <3>4 DEF Together
        <3>6. p[i].conn = conn /\ p[i] \in Bytes /\ p[i].pos \in Nat
            BY <2>2, <2>3, <3>1, ByteFacts DEF Sent
        <3>7. p[i].pos = HeaderLength + i
            BY <1>2, <3>5, <3>6
        <3>8. QED
            BY <3>1, <3>5, <3>6, <3>7 DEF Bytes
    <2>11. WholeFrames'
        <3>1. /\ frame'.conn = conn /\ frame'.body = body /\ frame'.adu = a
              /\ frame'.frame = parser.frame
            BY <1>1, <2>4
        <3>2. QED
            BY <1>1, <1>4, <2>10, <3>1 DEF WholeFrames
    <2>12. QED
        BY <2>8, <2>9, <2>11
<1>7. ~clean => WholeFrames'
    BY <1>1 DEF WholeFrames
<1>8. QED
    BY <1>1, <1>5, <1>6, <1>7 DEF TypeOK

-----------------------------------------------------------------------------
(* Steps of the buffer, the peer and the connection *)

\* A read moves bytes from the stream to the buffer and changes their order nowhere.
LEMMA ReadSomePreserves ==
    ASSUME ReaderInv, ReadSome
    PROVE  ReaderInv'
<1> USE DEF ReaderInv
<1>1. begin' = Adjusted /\ UNCHANGED <<pipelined, reused, clean, conn, count, parser, phase, frame>>
    BY DEF ReadSome, mode
<1>2. /\ data' \in Seq(Bytes) /\ stream' \in Seq(Bytes) /\ Pending' = Pending
      /\ data # <<>> => data'[1] = data[1]
    BY ReadSomeFacts
<1>3. begin \in Nat /\ begin' \in {0, begin} /\ (data = <<>> => begin' = 0)
    BY <1>1 DEF TypeOK, Adjusted
<1>4. TypeOK'
    BY <1>1, <1>2, <1>3 DEF TypeOK
<1>5. WholeFrames'
    BY <1>1 DEF WholeFrames
<1>6. ASSUME clean, phase = "reading"
      PROVE  StreamInv' /\ OneAtATime'
    <2>1. StreamInv /\ OneAtATime
        BY <1>6
    <2>2. StreamInv'
        BY <1>1, <1>2, <2>1
        DEF StreamInv, Expected, Chain, Sent, Together, InFrameOf, InTurn, StartsAt
    <2>3. OneAtATime'
        <3>1. SUFFICES ASSUME ~pipelined, data' # <<>>
                       PROVE  begin' < data'[1].pos
            BY <1>1, <2>1 DEF OneAtATime
        <3>2. Len(data') \in Nat \ {0} /\ Len(data') \in Nat
            BY <1>2, <3>1, EmptySeq
        <3>3. 1 \in 1..Len(data') /\ data'[1].pos \in Nat
            BY <1>2, <3>2, ByteFacts
        <3>4. CASE data = <<>>
            <4>1. Pending'[1] = data'[1] /\ 1 \in 1..Len(Pending')
                <5>1. \A i \in 1..Len(data') : i \in 1..Len(Pending') /\ Pending'[i] = data'[i]
                    BY <1>2, ConcatPrefix DEF Pending
                <5>2. QED
                    BY <3>3, <5>1
            <4>2. 1 <= Pending[1].pos
                BY <1>2, <2>1, <4>1 DEF StreamInv, Chain, Sent
            <4>3. QED
                BY <1>2, <1>3, <3>3, <3>4, <4>1, <4>2
        <3>5. CASE data # <<>>
            <4>1. begin < data[1].pos
                BY <2>1, <3>1, <3>5 DEF OneAtATime
            <4>2. QED
                BY <1>2, <1>3, <3>3, <3>5, <4>1
        <3>6. QED
            BY <3>4, <3>5
    <2>4. QED
        BY <2>2, <2>3
<1>7. QED
    BY <1>1, <1>4, <1>5, <1>6

\* The peer sends the bytes of one more frame.
LEMMA PeerSendsPreserves ==
    ASSUME ReaderInv, PeerSends
    PROVE  ReaderInv'
<1> USE DEF ReaderInv
<1>1. /\ count' = count + 1 /\ (pipelined \/ LastReturned)
      /\ UNCHANGED <<pipelined, reused, clean, conn, begin, data, parser, phase, frame>>
    BY DEF PeerSends, mode
<1>2. PICK adu \in Adus : stream' = stream \o FrameBytes(conn, count + 1, adu)
    BY DEF PeerSends
<1>3. data \in Seq(Bytes) /\ stream \in Seq(Bytes) /\ conn \in Nat /\ count \in Nat /\ frame.frame \in Nat
    BY DEF TypeOK
<1> DEFINE size == HeaderLength + adu
           Byte(i) == [conn |-> conn, frame |-> count + 1, pos |-> i, adu |-> adu]
           f == [i \in 1..size |-> Byte(i)]
<1>4. size \in Nat /\ adu \in Nat /\ HeaderLength \in Nat
    BY ReaderAssumption DEF Adus
<1>5. \A i \in 1..size : Byte(i) \in Bytes
    BY <1>3, <1>4 DEF Bytes
<1>6. stream' = stream \o f
    BY <1>2 DEF FrameBytes
<1> HIDE DEF size
<1>7. f \in Seq(Bytes) /\ Len(f) = size /\ \A i \in 1..size : f[i] = Byte(i)
    BY <1>4, <1>5
<1> HIDE DEF f
<1>8. stream' \in Seq(Bytes) /\ Pending \in Seq(Bytes)
    BY <1>3, <1>6, <1>7, ConcatPrefix DEF Pending
<1>9. TypeOK'
    BY <1>1, <1>3, <1>8 DEF TypeOK
<1>10. WholeFrames'
    BY <1>1 DEF WholeFrames
<1>11. ASSUME clean, phase = "reading"
       PROVE  StreamInv' /\ OneAtATime'
    <2>1. StreamInv /\ OneAtATime
        BY <1>11
    <2>2. Pending' = Pending \o f
        <3>1. \A p, q, r \in Seq(Bytes) : (p \o q) \o r = p \o (q \o r)
            BY ConcatAssociative
        <3>2. (data \o stream) \o f = data \o (stream \o f)
            BY <1>3, <1>7, <3>1, Zenon
        <3>3. QED
            BY <1>1, <1>6, <3>2 DEF Pending
    <2>3. PICK p \in Seq(Bytes) : p = Pending
        BY <1>8
    <2>4. PICK q \in Seq(Bytes) : q = Pending'
        BY <1>7, <1>8, <2>2, ConcatProperties
    <2>5. PICK l \in Nat : l = Len(p)
        BY <2>3
    <2>6. /\ Len(q) = l + size
          /\ \A i \in 1..(l + size) : q[i] = IF i <= l THEN p[i] ELSE f[i - l]
        BY <1>7, <2>2, <2>3, <2>4, <2>5, ConcatProperties
    <2>7. \A i \in 1..Len(p) : q[i] = p[i]
        <3>1. \A i \in 1..l : i \in 1..(l + size) /\ i <= l
            BY <1>4
        <3>2. QED
            BY <2>5, <2>6, <3>1
    <2>8. \A i \in 1..size : q[l + i] = Byte(i)
        <3>1. \A i \in 1..size : l + i \in 1..(l + size) /\ ~(l + i <= l) /\ (l + i) - l = i
            BY <1>4
        <3>2. QED
            BY <1>7, <2>6, <3>1
    <2>9. Len(q) = Len(p) + HeaderLength + adu
        BY <1>4, <2>5, <2>6 DEF size
    <2>10. Chain(p, conn, count)
        BY <2>1, <2>3 DEF StreamInv
    <2>11. /\ Chain(q, conn, count + 1)
           /\ \A k \in Nat \ {0}, m \in Nat :
                m <= count + 1 /\ StartsAt(p, k, m, count) => StartsAt(q, k, m, count + 1)
        <3>1. \A i \in 1..(HeaderLength + adu) :
                q[Len(p) + i] = [conn |-> conn, frame |-> count + 1, pos |-> i, adu |-> adu]
            BY <2>5, <2>8 DEF size
        <3>2. QED
            BY <1>3, <2>7, <2>9, <2>10, <3>1, ChainAppend
    <2>12. Expected(Pending)'
        <3>1. Expected(p) /\ frame.frame <= count
            BY <2>1, <2>3 DEF StreamInv
        <3>2. /\ frame.frame + 1 \in Nat /\ frame.frame + 1 <= count + 1
              /\ parser.frame \in Nat /\ parser.frame + 1 \in Nat
              /\ parser.frame <= count => parser.frame <= count + 1 /\ parser.frame + 1 <= count + 1
            BY <1>3, <3>1 DEF TypeOK
        <3>3. parser.state = "Begin" => StartsAt(q, 1, frame.frame + 1, count + 1)
            BY <2>11, <3>1, <3>2 DEF Expected
        <3>4. parser.state = "Header" /\ parser.adu = 0 => StartsAt(q, 1, parser.frame + 1, count + 1)
            BY <2>11, <3>1, <3>2 DEF Expected
        <3>5. parser.state = "Header" /\ parser.adu > 0 =>
                1 <= Len(p) /\ 1 <= Len(q) /\ q[1] = p[1]
            <4>1. 1 <= l => 1 <= l + size /\ 1 \in 1..l
                BY <1>4
            <4>2. QED
                BY <2>5, <2>6, <2>7, <3>1, <4>1 DEF Expected
        <3>6. QED
            BY <1>1, <2>4, <3>1, <3>2, <3>3, <3>4, <3>5 DEF Expected, StartsAt
    <2>13. StreamInv'
        <3>1. frame.frame <= count + 1
            BY <1>3, <2>1 DEF StreamInv
        <3>2. Chain(Pending, conn, count)'
            BY <1>1, <2>4, <2>11 DEF Chain, Sent, Together, InFrameOf, InTurn, StartsAt
        <3>3. QED
            BY <1>1, <2>12, <3>1, <3>2 DEF StreamInv
    <2>14. OneAtATime'
        <3>1. ~pipelined => count + 1 <= frame.frame + 1
            BY <1>1, <1>3 DEF LastReturned
        <3>2. QED
            BY <1>1, <2>1, <3>1 DEF OneAtATime
    <2>15. QED
        BY <2>13, <2>14
<1>12. QED
    BY <1>1, <1>9, <1>10, <1>11

\* A connection that ends within a frame is no longer clean.
LEMMA ReadErrorPreserves ==
    ASSUME ReaderInv, ReadNothing \/ ReadFails
    PROVE  ReaderInv'
<1> USE DEF ReaderInv
<1>1. /\ begin' = Adjusted /\ phase' # "reading"
      /\ UNCHANGED <<pipelined, reused, clean, conn, count, stream, data, parser, frame>>
    BY DEF ReadNothing, ReadFails, mode
<1>2. TypeOK'
    BY <1>1 DEF TypeOK, Adjusted
<1>3. WholeFrames'
    BY <1>1 DEF WholeFrames
<1>4. QED
    BY <1>1, <1>2, <1>3

\* A connection starts with nothing sent; if no reader was left with anything, the
\* parser is at the beginning too.
LEMMA ReconnectPreserves ==
    ASSUME ReaderInv, Reconnect
    PROVE  ReaderInv'
<1> USE DEF ReaderInv
<1>1. /\ conn' = conn + 1 /\ count' = 0 /\ stream' = <<>> /\ frame' = NoFrame
      /\ UNCHANGED <<pipelined, reused>>
      /\ IF reused THEN UNCHANGED <<begin, data, parser>>
                   ELSE begin' = 0 /\ data' = <<>> /\ parser' = Begin
      /\ clean' = (clean /\ (reused => data = <<>> /\ parser = Begin))
    BY DEF Reconnect
<1>2. TypeOK'
    <2>1. MaxAdu \in Nat /\ 0 \in 0..MaxAdu
        BY ReaderAssumption
    <2>2. frame' \in [conn: Nat, frame: Nat, adu: 0..MaxAdu, body: Seq(Bytes)]
        BY <1>1, <2>1 DEF NoFrame
    <2>3. parser' \in [state: {"Begin", "Header"}, conn: Nat, frame: Nat, adu: 0..MaxAdu]
        BY <1>1, <2>1 DEF TypeOK, Begin
    <2>4. data' \in Seq(Bytes) /\ stream' \in Seq(Bytes) /\ begin' \in Nat
        <3>1. <<>> \in Seq(Bytes) /\ 0 \in Nat
            OBVIOUS
        <3>2. data \in Seq(Bytes) /\ begin \in Nat
            BY DEF TypeOK
        <3>3. CASE reused
            BY <1>1, <3>1, <3>2, <3>3
        <3>4. CASE ~reused
            BY <1>1, <3>1, <3>4
        <3>5. QED
            BY <3>3, <3>4
    <2>5. clean' \in BOOLEAN
        BY <1>1
    <2>6. QED
        BY <1>1, <2>2, <2>3, <2>4, <2>5 DEF TypeOK
<1>3. WholeFrames'
    BY <1>1 DEF WholeFrames
<1>4. ASSUME clean'
      PROVE  StreamInv' /\ OneAtATime'
    <2>1. data' = <<>> /\ parser' = Begin
        BY <1>1, <1>4
    <2>2. Pending' = <<>> \o <<>> /\ frame'.frame = 0
        BY <1>1, <2>1 DEF Pending, NoFrame
    <2>3. Len(Pending') = 0
        BY <2>2, ConcatProperties, EmptySeq
    <2>4. Chain(Pending, conn, count)'
        BY <2>3 DEF Chain, Sent, Together, InTurn
    <2>5. Expected(Pending)'
        BY <1>1, <2>1, <2>2, <2>3 DEF Expected, StartsAt, Begin
    <2>6. OneAtATime'
        BY <1>1, <2>1, <2>2 DEF OneAtATime
    <2>7. QED
        BY <1>1, <2>2, <2>4, <2>5, <2>6 DEF StreamInv
<1>5. QED
    BY <1>2, <1>3, <1>4

-----------------------------------------------------------------------------
(* Theorems *)

\* The reader starts with nothing to read.
LEMMA InitReader ==
    ASSUME Init
    PROVE  ReaderInv
<1>1. TypeOK
    <2>1. MaxAdu \in Nat /\ 0 \in 0..MaxAdu
        BY ReaderAssumption
    <2>2. /\ frame \in [conn: Nat, frame: Nat, adu: 0..MaxAdu, body: Seq(Bytes)]
          /\ parser \in [state: {"Begin", "Header"}, conn: Nat, frame: Nat, adu: 0..MaxAdu]
        BY <2>1 DEF Init, NoFrame, Begin
    <2>3. QED
        BY <2>2 DEF Init, TypeOK
<1>2. data = <<>> /\ parser = Begin /\ count = 0 /\ frame.frame = 0 /\ frame = NoFrame
    BY DEF Init, NoFrame
<1>3. Len(Pending) = 0
    <2>1. Pending = <<>> \o <<>>
        BY DEF Pending, Init
    <2>2. QED
        BY <2>1, ConcatProperties, EmptySeq
<1>4. Chain(Pending, conn, count)
    BY <1>3 DEF Chain, Sent, Together, InTurn
<1>5. Expected(Pending)
    BY <1>2, <1>3 DEF Expected, StartsAt, Begin
<1>6. WholeFrames /\ OneAtATime
    BY <1>2 DEF WholeFrames, OneAtATime
<1>7. QED
    BY <1>1, <1>2, <1>4, <1>5, <1>6 DEF ReaderInv, StreamInv

\* Every step of the peer, the reader and the connection preserves the invariant.
THEOREM ReaderInvariant == Spec => []ReaderInv
<1>1. Init => ReaderInv
    BY InitReader
<1>2. ReaderInv /\ [Next]_vars => ReaderInv'
    <2> SUFFICES ASSUME ReaderInv, [Next]_vars PROVE ReaderInv'
        OBVIOUS
    <2>1. CASE UNCHANGED vars
        <3>1. UNCHANGED <<pipelined, reused, clean, conn, count, stream, begin, data, parser, phase, frame>>
            BY <2>1 DEF vars, mode
        <3>2. TypeOK' /\ WholeFrames' /\ (OneAtATime' <=> OneAtATime)
            BY <3>1 DEF ReaderInv, TypeOK, WholeFrames, OneAtATime
        <3>3. StreamInv => StreamInv'
            BY <3>1
            DEF StreamInv, Pending, Expected, Chain, Sent, Together, InFrameOf, InTurn, StartsAt
        <3>4. QED
            BY <3>1, <3>2, <3>3 DEF ReaderInv
    <2>2. CASE Next
        BY <2>2, PeerSendsPreserves, ParseHeaderPreserves, ParseBodyPreserves,
           ReadSomePreserves, ReadErrorPreserves, ReconnectPreserves
        DEF Next
    <2>3. QED
        BY <2>1, <2>2
<1>3. QED
    BY <1>1, <1>2, PTL DEF Spec

\* next_frame returns whole frames of its connection, header and body of the same
\* one, however the stream is cut into reads and however many frames a read brings.
THEOREM WholeFramesAlways == Spec => []WholeFrames
<1>1. ReaderInv => WholeFrames
    BY DEF ReaderInv
<1>2. QED
    BY <1>1, ReaderInvariant, PTL

\* A peer that sends one frame at a time never fills the read buffer: read_some has
\* room for the rest of the frame, though it moves nothing to the front.
THEOREM RoomForOneFrameAlways == Spec => []RoomForOneFrame
<1>1. ReaderInv => RoomForOneFrame
    <2> SUFFICES ASSUME ReaderInv, ~pipelined, clean, NeedsMore
                 PROVE  Room > 0
        BY DEF RoomForOneFrame
    <2>1. TypeOK /\ StreamInv /\ OneAtATime
        BY DEF ReaderInv, NeedsMore
    <2>2. /\ HeaderLength \in Nat /\ HeaderLength >= 1 /\ MaxAdu \in Nat
          /\ begin \in Nat /\ parser.adu \in Nat /\ parser.adu <= MaxAdu
        BY <2>1, ReaderAssumption DEF TypeOK
    <2>3. PICK l \in Nat : l = Len(data)
        BY <2>1, PendingFacts
    <2>4. CASE data = <<>>
        <3>1. Adjusted = 0 /\ Len(data) = 0
            BY <2>4, EmptySeq DEF Adjusted
        <3>2. QED
            BY <2>2, <3>1 DEF Room, Capacity
    <2>5. CASE data # <<>>
        <3>1. data \in Seq(Bytes)
            BY <2>1 DEF TypeOK
        <3>2. l >= 1
            BY <2>3, <2>5, <3>1, EmptySeq
        <3>3. 1 \in 1..Len(data) /\ 1 \in 1..Len(Pending) /\ Pending[1] = data[1] /\ Len(Pending) \in Nat
            <4>1. 1 \in 1..Len(data)
                BY <2>3, <3>2
            <4>2. QED
                BY <2>1, <4>1, PendingFacts
        <3>4. data[1].pos \in Nat /\ begin < data[1].pos
            BY <2>1, <2>5, <3>1, <3>3, ByteFacts DEF OneAtATime
        <3>5. begin + l < HeaderLength + MaxAdu
            <4>1. CASE parser.state = "Begin" /\ Len(data) < HeaderLength
                <5>1. StartsAt(Pending, 1, frame.frame + 1, count)
                    BY <2>1, <4>1 DEF StreamInv, Expected
                <5>2. data[1].pos = 1
                    BY <3>3, <5>1 DEF StartsAt
                <5>3. QED
                    BY <2>2, <2>3, <3>4, <4>1, <5>2
            <4>2. CASE parser.state = "Header" /\ Len(data) < parser.adu
                <5>1. parser.adu > 0
                    BY <2>2, <2>3, <4>2
                <5>2. data[1].pos = HeaderLength + 1
                    BY <2>1, <3>3, <4>2, <5>1 DEF StreamInv, Expected
                <5>3. QED
                    BY <2>2, <2>3, <3>4, <4>2, <5>2
            <4>3. QED
                BY <4>1, <4>2 DEF NeedsMore
        <3>6. Adjusted + l <= begin + l /\ Adjusted \in Nat
            BY <2>2 DEF Adjusted
        <3>7. QED
            BY <2>2, <2>3, <3>5, <3>6 DEF Room, Capacity
    <2>6. QED
        BY <2>4, <2>5
<1>2. QED
    BY <1>1, ReaderInvariant, PTL

\* Frames come out in the order they were sent and none is skipped.
THEOREM FramesInOrderAlways == Spec => FramesInOrder
<1>1. ReaderInv /\ [Next]_vars =>
        [clean /\ conn' = conn /\ frame' # frame => frame'.frame = frame.frame + 1]_vars
    <2> SUFFICES ASSUME ReaderInv, Next, clean, conn' = conn, frame' # frame
                 PROVE  frame'.frame = frame.frame + 1
        OBVIOUS
    <2>1. CASE ParseBody
        <3>1. parser.state = "Header" /\ StreamInv /\ frame'.frame = parser.frame
            BY <2>1 DEF ParseBody, ReaderInv
        <3>2. QED
            BY <3>1 DEF StreamInv, Expected
    <2>2. CASE Reconnect
        BY <2>2 DEF Reconnect, ReaderInv, TypeOK
    <2>3. QED
        BY <2>1, <2>2 DEF Next, PeerSends, ParseHeader, ReadSome, ReadNothing, ReadFails
<1>2. QED
    BY <1>1, ReaderInvariant, PTL DEF Spec, FramesInOrder
=============================================================================
