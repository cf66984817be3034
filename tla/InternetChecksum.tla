-------------------------- MODULE InternetChecksum --------------------------
(***************************************************************************)
(* InternetChecksum (libsponge/util/util.hh, util.cc): the ones'           *)
(* complement sum of 16-bit words that IP and TCP headers carry, added     *)
(* chunk by chunk.                                                         *)
(*                                                                         *)
(* Three history variables, read by no action: `initial' is the sum that   *)
(* was started with, `total' that sum plus every word added, without a     *)
(* bound, and `count' the number of bytes added.                           *)
(***************************************************************************)
EXTENDS Octets, Sums

VARIABLES
    sum, parity,     \* _sum, _parity
    initial, total, count     \* history

checksum == <<sum, parity, initial, total, count>>

-----------------------------------------------------------------------------

\* What a byte adds to the sum: it is the high byte of its word at even
\* parity, the low byte at odd parity.
Val(byte, odd) == IF odd THEN byte ELSE byte * ByteMod

\* What the bytes of data add when the first of them has the given parity.
Words(data, odd) ==
    Total([i \in DOMAIN data |-> Val(data[i], odd # (i % 2 = 0))])

\* The same by the place of each byte in the whole of what is added: bytes 1,
\* 3, 5 ... are the high bytes of the words.
Placed(data) ==
    Total([i \in DOMAIN data |-> data[i] * Place[(count + i) % 2]])

\* InternetChecksum(initial_sum)
InitialSum(initial_sum) ==
    /\ sum' = initial_sum /\ parity' = FALSE
    /\ initial' = initial_sum /\ total' = initial_sum /\ count' = 0

\* Mutant: every chunk starts a word of its own.
AddAligned(data) ==
    /\ sum' = (sum + Words(data, FALSE)) % SumMod
    /\ parity' = (Len(data) % 2 = 1)
    /\ total' = total + Placed(data)
    /\ count' = count + Len(data)
    /\ UNCHANGED initial

\* add(): the unsigned sum wraps silently, and the parity is kept for the
\* next chunk.
Add(data) ==
    /\ sum' = (sum + Words(data, parity)) % SumMod
    /\ parity' = (parity # (Len(data) % 2 = 1))
    /\ total' = total + Placed(data)
    /\ count' = count + Len(data)
    /\ UNCHANGED initial

\* A turn of the loop of value(): the carries out of the word are added back.
Folded(ret) == IF ret >= WordMod THEN (ret \div WordMod) + (ret % WordMod) ELSE ret

\* value(): two turns bring every uint32_t below WordMod (the first leaves at
\* most 2 * (WordMod - 1), whose only carry the second adds to at most
\* WordMod - 2); then the complement, in 16 bits.
value == WordMod - 1 - Folded(Folded(sum))

-----------------------------------------------------------------------------

\* The sum of words in ones' complement arithmetic (RFC 1071): modulo
\* WordMod - 1, with 0 only for nothing but zeros.
OnesComplement(t) == IF t = 0 THEN 0 ELSE ((t - 1) % (WordMod - 1)) + 1

\* However the data is cut into chunks, of odd or even length, value() is the
\* complement of the ones' complement sum of the words of the whole data and
\* the initial sum, as long as no carry is lost at the top of _sum.  None is
\* lost in a packet whose length fits 16 bits, if the initial sum leaves the
\* top bit of _sum alone.
ChecksumExact ==
    total < SumMod \/ (count < WordMod /\ 2 * initial <= SumMod) =>
        value = WordMod - 1 - OnesComplement(total)
=============================================================================
