-------------------------------- MODULE Pdu --------------------------------
(***************************************************************************)
(* The bodies of Modbus requests and responses and the address ranges they  *)
(* name: what the client checks, serializes and accepts                     *)
(* (rodbus/src/client/requests) and what the server parses and answers      *)
(* (rodbus/src/server/request.rs), byte by byte and with the code's limits. *)
(***************************************************************************)
EXTENDS Integers, Sequences

U16_MAX == 65535
MAX_READ_COILS_COUNT == 2000
MAX_READ_REGISTERS_COUNT == 125
COIL_ON == 65280
COIL_OFF == 0
MAX_ADU_LENGTH == 253
MAX_FRAME_LENGTH == 260

Reads == {"ReadCoils", "ReadDiscreteInputs", "ReadHoldingRegisters", "ReadInputRegisters"}
Singles == {"WriteSingleCoil", "WriteSingleRegister"}
Multiples == {"WriteMultipleCoils", "WriteMultipleRegisters"}
OfBits == {"ReadCoils", "ReadDiscreteInputs", "WriteSingleCoil", "WriteMultipleCoils"}

-----------------------------------------------------------------------------
(* Ranges *)

InvalidRange(start, count) == count = 0 \/ start > U16_MAX - (count - 1)

limited_count(f) == IF f \in OfBits THEN MAX_READ_COILS_COUNT ELSE MAX_READ_REGISTERS_COUNT

\* Mutant of IteratorOverflows: it looks one address ahead.
OverflowsEarly(start, count) == start + count >= U16_MAX

\* AddressIterator::next adds 1 to an address as it returns it, the last too.
IteratorOverflows(start, count) == start + count > U16_MAX

-----------------------------------------------------------------------------
(* Bytes *)

U16be(v) == <<v \div 256, v % 256>>
ReadU16(bytes, i) == 256 * bytes[i] + bytes[i + 1]

\* num_bytes_for_bits and, but for its limit of a u8, calc_bytes_for_bits
NumBytes(bits) == (bits + 7) \div 8

\* 1 << i, of a u8
Mask(i) == <<1, 2, 4, 8, 16, 32, 64, 128>>[i + 1]

ByteCount(f, count) == IF f \in OfBits THEN NumBytes(count) ELSE 2 * count

\* Mutant of PackBits: the first bit is the highest of its byte.
HighBitFirst(bits) ==
    LET Bit(k, i) ==
            IF 8 * (k - 1) + i < Len(bits) /\ bits[8 * (k - 1) + i + 1] THEN Mask(7 - i) ELSE 0
    IN [k \in 1..NumBytes(Len(bits)) |->
            Bit(k, 0) + Bit(k, 1) + Bit(k, 2) + Bit(k, 3)
            + Bit(k, 4) + Bit(k, 5) + Bit(k, 6) + Bit(k, 7)]

\* Bits are accumulated from the lowest of a byte up; a partial byte ends them.
PackBits(bits) ==
    LET Bit(k, i) ==
            IF 8 * (k - 1) + i < Len(bits) /\ bits[8 * (k - 1) + i + 1] THEN Mask(i) ELSE 0
    IN [k \in 1..NumBytes(Len(bits)) |->
            Bit(k, 0) + Bit(k, 1) + Bit(k, 2) + Bit(k, 3)
            + Bit(k, 4) + Bit(k, 5) + Bit(k, 6) + Bit(k, 7)]

PackRegisters(values) ==
    [k \in 1..(2 * Len(values)) |-> U16be(values[(k + 1) \div 2])[2 - (k % 2)]]

Pack(f, values) == IF f \in OfBits THEN PackBits(values) ELSE PackRegisters(values)

\* What BitIterator and RegisterIterator yield over a range
Items(f, start, count, data) ==
    [i \in 1..count |->
        [index |-> start + i - 1,
         value |-> IF f \in OfBits
                   THEN (data[(i - 1) \div 8 + 1] \div Mask((i - 1) % 8)) % 2 = 1
                   ELSE ReadU16(data, 2 * i - 1)]]

coil_to_u16(v) == IF v THEN COIL_ON ELSE COIL_OFF

-----------------------------------------------------------------------------
(* The client's side of a request: its function, address and values.  A read *)
(* has no values but a count.                                                *)

\* What makes the API return an error before the request is queued
Refused(f, start, count) ==
    \/ f \in Reads /\ (InvalidRange(start, count) \/ count > limited_count(f))
    \/ f \in Multiples /\ (count > U16_MAX \/ InvalidRange(start, count))

SingleBody(f, start, value) ==
    U16be(start) \o U16be(IF f \in OfBits THEN coil_to_u16(value) ELSE value)

Serialize(f, start, count, values) ==
    IF f \in Singles THEN SingleBody(f, start, values[1])
    ELSE U16be(start) \o U16be(count)
         \o IF f \in Reads THEN <<>> ELSE <<ByteCount(f, count)>> \o Pack(f, values)

\* Mutant of Formats: the length of the header is forgotten.
FormatsWithoutHeader(transport, f, count, body) ==
    /\ f \in Multiples => ByteCount(f, count) <= 255
    /\ Len(body) <= MAX_FRAME_LENGTH

\* The byte count is a u8, and the frame is written to a buffer of
\* MAX_FRAME_LENGTH bytes: the header and the function code before the body,
\* over RTU the CRC after it.
Formats(transport, f, count, body) ==
    /\ f \in Multiples => ByteCount(f, count) <= 255
    /\ (IF transport = "tcp" THEN 7 + 1 ELSE 1 + 1 + 2) + Len(body) <= MAX_FRAME_LENGTH

\* length_mode: over RTU a frame is as long as its function, or the byte count
\* in it, says.
RequestLength(f, body) == IF f \in Multiples /\ Len(body) >= 5 THEN 5 + body[5] ELSE 4
ReplyLength(f, body) ==
    IF f = "exception" THEN 1
    ELSE IF f \in Reads /\ Len(body) >= 1 THEN 1 + body[1] ELSE 4

\* The body of a response is accepted: the byte count is skipped and exactly
\* the values asked for follow, or a write is echoed.
Matches(f, start, count, values, body) ==
    CASE f \in Reads -> Len(body) = 1 + ByteCount(f, count)
      [] f \in Singles -> body = SingleBody(f, start, values[1])
      [] f \in Multiples -> body = U16be(start) \o U16be(count)

-----------------------------------------------------------------------------
(* The server's side *)

\* Request::parse succeeds.  It ignores the byte count of a write.
Parses(f, body) ==
    /\ Len(body) >= 4
    /\ LET start == ReadU16(body, 1)
           count == ReadU16(body, 3)
       IN CASE f \in Reads -> /\ ~InvalidRange(start, count) /\ count <= limited_count(f)
                              /\ Len(body) = 4
            [] f = "WriteSingleCoil" -> count \in {COIL_ON, COIL_OFF} /\ Len(body) = 4
            [] f = "WriteSingleRegister" -> Len(body) = 4
            [] f \in Multiples -> /\ ~InvalidRange(start, count)
                                  /\ Len(body) = 5 + ByteCount(f, count)

\* The values of a write as its handler gets them
Written(f, body) ==
    LET start == ReadU16(body, 1)
        word == ReadU16(body, 3)
    IN CASE f = "WriteSingleCoil" -> <<[index |-> start, value |-> word = COIL_ON]>>
         [] f = "WriteSingleRegister" -> <<[index |-> start, value |-> word]>>
         [] f \in Multiples -> Items(f, start, word, SubSeq(body, 6, Len(body)))

\* Mutant of ReadReply: the first bit is the highest of its byte.
ReplyHighBitFirst(f, count, values) ==
    <<ByteCount(f, count)>> \o IF f \in OfBits THEN HighBitFirst(values) ELSE PackRegisters(values)

\* BitWriter and RegisterWriter: a byte count and the values
ReadReply(f, count, values) == <<ByteCount(f, count)>> \o Pack(f, values)
=============================================================================
