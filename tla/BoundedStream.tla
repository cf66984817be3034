--------------------------- MODULE BoundedStream ----------------------------
(***************************************************************************)
(* What libsponge/byte_stream.hh promises of a ByteStream: a first-in      *)
(* first-out queue of bytes that never holds more than `capacity' of them. *)
(* It says nothing of how the bytes are stored.                            *)
(***************************************************************************)
EXTENDS Integers, Sequences

CONSTANTS Strings, Lens, SizeMod

VARIABLES capacity, buffer, ended, failed, written, popped, out

vars == <<capacity, buffer, ended, failed, written, popped, out>>

Smaller(a, b) == IF a > b THEN b ELSE a

Init ==
    /\ capacity \in Nat
    /\ buffer = <<>>   \* and no claim about `out' before the first call
    /\ ended = FALSE /\ failed = FALSE
    /\ written = 0 /\ popped = 0

Front(len) == IF failed THEN <<>> ELSE SubSeq(buffer, 1, Smaller(len, Len(buffer)))

WriteRefused ==
    /\ ended \/ failed
    /\ failed' = TRUE
    /\ UNCHANGED <<capacity, buffer, ended, written, popped, out>>

WriteAccepted(data) ==
    LET n == Smaller(Len(data), capacity - Len(buffer))
    IN  /\ ~ended /\ ~failed
        /\ buffer' = buffer \o SubSeq(data, 1, n)
        /\ written' = (written + n) % SizeMod
        /\ UNCHANGED <<capacity, ended, failed, popped, out>>

EndInput ==
    /\ ended' = TRUE
    /\ UNCHANGED <<capacity, buffer, failed, written, popped, out>>

SetError ==
    /\ failed' = TRUE
    /\ UNCHANGED <<capacity, buffer, ended, written, popped, out>>

Drop(n) ==
    /\ buffer' = SubSeq(buffer, n + 1, Len(buffer))
    /\ popped' = (popped + n) % SizeMod
    /\ UNCHANGED <<capacity, ended, failed, written>>

PopOutput(len)  == Drop(Len(Front(len))) /\ UNCHANGED out
Read(len)       == Drop(Len(Front(len))) /\ out' = Front(len)
PeekOutput(len) ==
    /\ out' = Front(len)
    /\ UNCHANGED <<capacity, buffer, ended, failed, written, popped>>

Next ==
    \/ WriteRefused
    \/ \E data \in Strings : WriteAccepted(data)
    \/ EndInput
    \/ SetError
    \/ \E len \in Lens : PopOutput(len) \/ PeekOutput(len) \/ Read(len)

Spec == Init /\ [][Next]_vars
=============================================================================
