------------------------------ MODULE NetParser ------------------------------
(***************************************************************************)
(* NetParser and NetUnparser (libsponge/util/parser.hh, parser.cc):        *)
(* integers of one, two or four bytes in network byte order, read from the *)
(* front of a Buffer, with an error that stays until somebody changes it.  *)
(*                                                                         *)
(* A Buffer is the sequence of its bytes (module BufferList has the shared *)
(* storage underneath).                                                    *)
(***************************************************************************)
EXTENDS Octets, SequencesExt

ParseResults == {"NoError", "BadChecksum", "PacketTooShort", "WrongIPVersion",
                 "HeaderTooShort", "TruncatedPacket"}

Lengths == {1, 2, 4}   \* sizeof(T) for u8, u16 and u32

VARIABLES
    buffer, error,   \* _buffer, _error
    ret              \* what the last call returned

parser == <<buffer, error, ret>>

-----------------------------------------------------------------------------
(* NetUnparser *)

\* The bytes _unparse_int() appends for an integer of len bytes.
Unparse(len, val) ==
    [i \in 1 .. len |-> (val \div Place[len - i]) % ByteMod]

-----------------------------------------------------------------------------
(* NetParser *)

\* NetParser(buffer)
ParserOf(data) == buffer' = data /\ error' = "NoError" /\ ret' = 0

\* set_error() sets, replaces or clears.
SetError(res) == error' = res /\ UNCHANGED <<buffer, ret>>

\* Mutant: a size that fits clears the error.
CheckSizeClears(size) == IF size > Len(buffer) THEN "PacketTooShort" ELSE "NoError"

\* _error after _check_size(): a token that does not fit replaces whatever
\* error there was, one that fits changes nothing.
CheckSize(size) == IF size > Len(buffer) THEN "PacketTooShort" ELSE error

\* Mutant: the first byte is the least significant one.
LittleEndian(s) ==
    FoldRight(LAMBDA byte, acc : (acc * ByteMod + byte) % Place[Len(s)], s, 0)

\* The loop of _parse_int(), in the width of T.
BigEndian(s) ==
    LET upto[i \in 0 .. Len(s)] ==
            IF i = 0 THEN 0 ELSE (upto[i - 1] * ByteMod + s[i]) % Place[Len(s)]
    IN  upto[Len(s)]

\* Mutant: only the size of this token is looked at, not an earlier error.
ParseGoesOn(len) ==
    /\ error' = CheckSize(len)
    /\ IF len > Len(buffer)
       THEN ret' = 0 /\ UNCHANGED buffer
       ELSE /\ ret' = BigEndian(SubSeq(buffer, 1, len))
            /\ buffer' = SubSeq(buffer, len + 1, Len(buffer))

\* _parse_int() for T of len bytes: u8(), u16(), u32().
Parse(len) ==
    /\ error' = CheckSize(len)
    /\ IF error' # "NoError"
       THEN ret' = 0 /\ UNCHANGED buffer
       ELSE /\ ret' = BigEndian(SubSeq(buffer, 1, len))
            /\ buffer' = SubSeq(buffer, len + 1, Len(buffer))

\* remove_prefix()
RemovePrefix(n) ==
    /\ error' = CheckSize(n)
    /\ buffer' = IF error' # "NoError" THEN buffer
                 ELSE SubSeq(buffer, n + 1, Len(buffer))
    /\ UNCHANGED ret
=============================================================================
