--------------------------- MODULE Transmission ----------------------------
(***************************************************************************)
(* What a caller of FileDescriptor::write(string, all) may rely on: the    *)
(* string goes out in pieces, from the front; without `all' there is one   *)
(* piece.  It says nothing of the views the string is cut into, nor of how *)
(* the bytes that have gone are counted off.                               *)
(***************************************************************************)
EXTENDS Integers, Sequences

CONSTANT Byte

VARIABLES
    phase,     \* "idle", "writing", "returned" or "threw"
    all,       \* whether the whole string is to be written
    string,    \* what write() was given
    sent,      \* what has gone out
    served,    \* whether the descriptor's write count has moved
    answer     \* what write() returns

vars == <<phase, all, string, sent, served, answer>>

Init ==
    /\ phase = "idle" /\ all = FALSE
    /\ string = <<>> /\ sent = <<>>
    /\ served = FALSE /\ answer = 0

Call ==
    /\ phase = "idle" /\ phase' = "writing"
    /\ all' \in BOOLEAN /\ string' \in Seq(Byte)
    /\ UNCHANGED <<sent, served, answer>>

\* The kernel is asked once, and then again while there is more to write.
Asking == phase = "writing" /\ (~served \/ (all /\ sent # string))

\* A piece goes out, which is empty only if the string is.
Piece ==
    /\ Asking
    /\ \E k \in Len(sent) .. Len(string) :
          /\ k = Len(sent) => sent = string
          /\ sent' = SubSeq(string, 1, k)
    /\ served' = TRUE
    /\ UNCHANGED <<phase, all, string, answer>>

\* The kernel refuses, or says that it took more than there was.
Throw ==
    /\ Asking /\ phase' = "threw"
    /\ sent' \in {sent, string}
    /\ UNCHANGED <<all, string, served, answer>>

Return ==
    /\ phase = "writing" /\ ~Asking
    /\ phase' = "returned" /\ answer' = Len(sent)
    /\ UNCHANGED <<all, string, sent, served>>

Leave == phase \in {"returned", "threw"} /\ Init'

Next == Call \/ Piece \/ Throw \/ Return \/ Leave

Spec == Init /\ [][Next]_vars
=============================================================================
