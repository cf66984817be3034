------------------------------- MODULE MCWire -------------------------------
(* A small instance of Wire for TLC. *)
EXTENDS Wire

\* The smallest and the largest integer of each width, and one below.
EdgeValues == {0, ByteMod - 1, WordMod - 2, WordMod - 1, SumMod - 1}

\* No pseudo-header; the largest initial sum that is always safe; one with
\* which _sum wraps on the first words.
EdgeSums == {0, SumMod \div 2, SumMod - 6}
=============================================================================
