------------------------------- MODULE Octets -------------------------------
(***************************************************************************)
(* Bytes and the unsigned integers made of them, for the modules about     *)
(* what goes over the wire.  ByteMod is 256 in the code and small in a     *)
(* run; the wider types are as many bytes wide as in the code, so that the *)
(* places where they overflow stay where they are, relative to each other. *)
(***************************************************************************)
EXTENDS Integers

CONSTANT ByteMod   \* the values of a uint8_t (2^8)

ASSUME ByteModAssumption == ByteMod \in Nat \ {0, 1}

Bytes   == 0 .. ByteMod - 1
WordMod == ByteMod * ByteMod     \* the values of a uint16_t
SumMod  == WordMod * WordMod     \* the values of a uint32_t

\* What the byte k places from the right counts for; and how many values an
\* integer of k bytes has.
Place[k \in 0 .. 4] == IF k = 0 THEN 1 ELSE Place[k - 1] * ByteMod
=============================================================================
