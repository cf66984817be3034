----------------------------- MODULE WriteLoop ------------------------------
(***************************************************************************)
(* FileDescriptor::write() (libsponge/util/file_descriptor.cc): the loop   *)
(* that offers a BufferViewList to writev(2) until everything has been     *)
(* taken, composed with the BufferLists it is given.                       *)
(*                                                                         *)
(* A view is a record like the Buffer it was made from: where it starts in *)
(* which storage.  Views do not own their storage; write() is the only     *)
(* user of BufferViewList, and no BufferList changes while it runs.        *)
(*                                                                         *)
(* writev(2) is external: it takes any number of the bytes it is offered,  *)
(* from the front, or fails.  The code does not trust its answer, and so   *)
(* the model also lets it answer with one byte more than it was offered.   *)
(* Nothing of what write() has sent is lost when a later turn fails; the   *)
(* caller is not told how much that was.                                   *)
(*                                                                         *)
(* Two history variables, read by no action: `payload' is what write() was *)
(* given, `sent' what writev(2) has taken.                                 *)
(***************************************************************************)
EXTENDS BufferList

VARIABLES
    pc,                    \* where write() is, or how it ended
    views,                 \* BufferViewList::_views
    write_all,             \* the second argument of write()
    bytes_written,         \* the answer of writev(2)
    m,                     \* the n of BufferViewList::remove_prefix()
    total_bytes_written,
    registered,            \* whether this write() has moved FDWrapper::_write_count
    payload, sent          \* history

writevars == <<pc, views, write_all, bytes_written, m, total_bytes_written,
               registered, payload, sent>>
vars == <<listvars, writevars>>

Init ==
    /\ ListInit
    /\ pc = "idle" /\ views = <<>> /\ write_all = FALSE
    /\ bytes_written = 0 /\ m = 0 /\ total_bytes_written = 0
    /\ registered = FALSE
    /\ payload = <<>> /\ sent = <<>>

-----------------------------------------------------------------------------

\* write(list[x], all) is called; BufferViewList(const BufferList &) makes a
\* view of each Buffer.  (write() of a string makes one view, and is the case
\* of a list of one Buffer.)
Call(x, all) ==
    /\ pc = "idle" /\ target = Null
    /\ pc' = "writev" /\ write_all' = all
    /\ views' = list[x]
    /\ payload' = Contents(list[x])
    /\ result' = "returned"
    /\ UNCHANGED <<list, buffer, target, n, before, asked>>
    /\ UNCHANGED <<bytes_written, m, total_bytes_written, registered, sent>>

\* writev(2) fails, and SystemCall throws.
WritevFails ==
    /\ pc = "writev" /\ pc' = "threw"
    /\ UNCHANGED <<views, write_all, bytes_written, m, total_bytes_written,
                   registered, payload, sent>>

\* Mutant: an answer of 0 bytes is as good as any other.
AcceptsZero(k) == k <= Size(views)

\* Mutant: the answer is not compared with what was offered.
AcceptsMore(k) == k # 0 \/ Size(views) = 0

\* The two tests of the answer of writev(2).
Accepts(k) == ~(k = 0 /\ Size(views) # 0) /\ ~(k > Size(views))

\* Mutant: only a write that is finished is registered.
register_finished(k) ==
    registered' = (registered \/ k = Size(views))

\* register_write(), after an answer of k bytes.
register_write(k) == registered' = TRUE

\* The bytes that writev(2) takes when it answers k.
Taken(k) == SubSeq(Contents(views), 1, Min({k, Len(Contents(views))}))

\* One turn of the loop of write(), up to the call of remove_prefix().
WritevAnswers(k) ==
    /\ pc = "writev"
    /\ bytes_written' = k
    /\ sent' = sent \o Taken(k)
    /\ \/ ~Accepts(k) /\ pc' = "threw" /\ UNCHANGED <<m, registered>>
       \/ Accepts(k) /\ register_write(k) /\ pc' = "remove" /\ m' = k
    /\ UNCHANGED <<views, write_all, total_bytes_written, payload>>

\* Mutant: the view starts k bytes into the string, not k bytes further on.
TrimViewAbsolute(v, k) == [v EXCEPT !.offset = k]

\* string_view::remove_prefix().
TrimView(v, k) == [v EXCEPT !.offset = @ + k]

\* One turn of the loop of BufferViewList::remove_prefix(), which throws when
\* there is no view left.
RemoveViews ==
    /\ pc = "remove" /\ m > 0
    /\ LET t == IF views = <<>> THEN [rest |-> views, n |-> m]
                ELSE Turn(views, m, TrimView(Head(views), m))
       IN  views' = t.rest /\ m' = t.n
    /\ pc' = IF views = <<>> THEN "out_of_range" ELSE "remove"
    /\ UNCHANGED <<write_all, bytes_written, total_bytes_written, registered,
                   payload, sent>>

\* Mutant: the loop goes on only while there is more than one view.
MoreToWriteByViews == write_all /\ Len(views) > 1

\* Mutant: the loop goes on whether or not everything is to be written.
MoreToWriteAlways == Size(views) # 0

\* The condition of the loop.
MoreToWrite == write_all /\ Size(views) # 0

\* The rest of the turn.
TurnEnds ==
    /\ pc = "remove" /\ m = 0
    /\ total_bytes_written' = total_bytes_written + bytes_written
    /\ pc' = IF MoreToWrite THEN "writev" ELSE "returned"
    /\ UNCHANGED <<views, write_all, bytes_written, m, registered, payload, sent>>

\* write() is left, and its local variables are gone.
Leave ==
    /\ pc \in {"returned", "threw", "out_of_range"}
    /\ pc' = "idle" /\ views' = <<>> /\ write_all' = FALSE
    /\ bytes_written' = 0 /\ m' = 0 /\ total_bytes_written' = 0
    /\ registered' = FALSE
    /\ payload' = <<>> /\ sent' = <<>>

write ==
    \/ WritevFails
    \/ \E k \in 0 .. Size(views) + 1 : WritevAnswers(k)
    \/ RemoveViews \/ TurnEnds \/ Leave

Next ==
    \/ pc = "idle" /\ ListNext /\ UNCHANGED writevars
    \/ \E x \in Lists, all \in BOOLEAN : Call(x, all)
    \/ write /\ UNCHANGED listvars

Spec == Init /\ [][Next]_vars

\* The kernel answers, sooner or later, each writev(2) that it is asked.
FairSpec == Spec /\ WF_vars(write /\ UNCHANGED listvars)

-----------------------------------------------------------------------------
(* Properties that hold of the code. *)

BufferType == [storage : Storages \cup {Null}, offset : Nat]

\* The variables keep their types, and write() never makes remove_prefix()
\* run out of views, whatever writev(2) answers.
TypeOK ==
    /\ list \in [Lists -> Seq(BufferType)] /\ buffer \in BufferType
    /\ target \in Lists \cup {Null} /\ n \in Nat
    /\ result \in {"returned", "runtime_error", "out_of_range"}
    /\ pc \in {"idle", "writev", "remove", "returned", "threw"}
    /\ views \in Seq(BufferType) /\ write_all \in BOOLEAN
    /\ bytes_written \in Nat /\ m \in Nat
    /\ total_bytes_written \in Nat /\ registered \in BOOLEAN

\* Nothing is skipped, repeated or reordered, however writev(2) cuts the
\* payload and however the views cut it: what was sent, followed by what the
\* views still show beyond the bytes being removed, is the payload; and a
\* throw leaves a prefix of the payload sent.
SentThenRest ==
    /\ pc \in {"writev", "remove", "returned"} =>
          sent \o SubSeq(Contents(views), m + 1, Len(Contents(views))) = payload
    /\ IsPrefix(sent, payload)

\* write() returns the number of bytes sent, and when it was asked to write all
\* it returns only after the whole payload is sent.
ReturnsWhatWasSent ==
    pc = "returned" =>
        total_bytes_written = Len(sent) /\ (write_all => sent = payload)

\* A write that got part of the payload out has moved the service count, even
\* if it throws later: EventLoop must not take its callback for a busy wait.
\* (Except where the kernel's answer is beyond belief.)
SentIsCounted ==
    sent # <<>> /\ bytes_written <= Len(payload) => registered

\* write() ends: each turn that does not throw sends something.
WriteEnds == pc # "idle" ~> pc = "idle"

-----------------------------------------------------------------------------
(* The abstract specification. *)

Promise == INSTANCE Transmission WITH
    phase <- IF pc \in {"writev", "remove"} THEN "writing" ELSE pc,
    all <- write_all, string <- payload, served <- registered,
    answer <- IF pc = "returned" THEN total_bytes_written ELSE 0

\* Step by step, write() over a list of views does what Transmission says of
\* the whole string: it takes back nothing it has sent, asks the kernel once
\* unless it was told to write all, asks no more once everything is out, and
\* so throws only while something is left (or the kernel's answer is absurd).
IsTransmission == Promise!Spec
=============================================================================
