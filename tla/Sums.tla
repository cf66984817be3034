-------------------------------- MODULE Sums --------------------------------
(* Adding up the numbers of a sequence, from the first to the last, as the   *)
(* loops of the code do.                                                     *)
EXTENDS Integers, Sequences

Total(s) ==
    LET upto[i \in 0 .. Len(s)] == IF i = 0 THEN 0 ELSE upto[i - 1] + s[i]
    IN  upto[Len(s)]
=============================================================================
