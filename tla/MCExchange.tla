----------------------------- MODULE MCExchange -----------------------------
(* Values, points, and the frames of other devices for model checking Exchange. *)
EXTENDS Exchange

MCValue(f, a) == IF f \in OfBits THEN (a + 1) % 3 = 1 ELSE ((a + 1) * 331) % 65536

MCPoint(f, a) ==
    CASE f = "ReadCoils" -> a % 3 = 0
      [] f = "ReadDiscreteInputs" -> a % 5 = 0
      [] f = "ReadHoldingRegisters" -> (a * 331) % 65536
      [] f = "ReadInputRegisters" -> U16_MAX - a

MCRefusals == {-1, 0, 1}

\* A device that echoes, right or wrong, counts a byte too few or too many,
\* and sends as many as it counts or not, refuses, or answers another function
MCAnswers(c, b) ==
    LET echo == SubSeq(b, 1, 4)
        n == ByteCount(c.function, c.count)
        counts == {n - 1, n, n + 1} \cap Nat
    IN {<<c.function, answer>> :
            answer \in {<<>>, echo, echo \o <<0>>, [echo EXCEPT ![4] = (@ + 1) % 256]}
                       \cup {<<k>> \o [i \in 1..m |-> 1] : k \in counts, m \in counts}}
       \cup {<<"exception", <<>>>>, <<"exception", <<2>>>>, <<"exception", <<2, 2>>>>,
             <<"other", echo>>}

\* Requests cut short, with counts of none and beyond the limits, and with a
\* byte count that is not that of the values
MCBodies(f) ==
    IF f \in Multiples
    THEN {U16be(a) \o U16be(n) \o <<b>> \o [i \in 1..m |-> 90] :
              a \in Starts, n \in 0..2, b \in {0, 2}, m \in 0..4}
    ELSE {SubSeq(U16be(a) \o U16be(n) \o <<0>>, 1, m) :
              a \in Starts, n \in {0, 1, 2, 126, 2001, COIL_ON}, m \in {0, 3, 4, 5}}
=============================================================================
