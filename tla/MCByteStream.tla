---------------------------- MODULE MCByteStream ----------------------------
(* Small instances of ByteStream for TLC. *)
EXTENDS ByteStream

CONSTANTS a, b   \* two characters, told apart by position only

\* An int of IntMod = 16 values: zero, nearly the largest, the smallest.
MCCounters == {0, 6, -8}

MCByte == {a, b}

\* Every string of up to two characters, and one that is longer than the
\* smaller capacities.
MCStrings == UNION {[1 .. n -> MCByte] : n \in 0 .. 2} \cup {<<a, b, a, b>>}
=============================================================================
