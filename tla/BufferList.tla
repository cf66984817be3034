----------------------------- MODULE BufferList -----------------------------
(***************************************************************************)
(* Buffer and BufferList (libsponge/util/buffer.hh, buffer.cc): strings    *)
(* that are shared by reference count, discard bytes from the front, and   *)
(* are chained into longer strings without copying.                        *)
(*                                                                         *)
(* A Buffer is a record of its _storage (or Null) and _starting_offset.    *)
(* Storage is never written to, so that its contents are a constant, Text; *)
(* it exists while some Buffer points to it.  BufferList::remove_prefix()  *)
(* is a loop, one turn of which is one step; the other operations are one  *)
(* step each.  `target' is the list whose remove_prefix() is running.      *)
(*                                                                         *)
(* Two history variables, read by no action: `before' and `asked' are the  *)
(* contents of the list and the argument when the remove_prefix() that is  *)
(* running was called.                                                     *)
(***************************************************************************)
EXTENDS Sums, SequencesExt, FiniteSetsExt

CONSTANTS
    Lists,        \* BufferList objects
    Storages,     \* the strings that Buffers share
    Text,         \* what is in them
    Byte,
    MaxBuffers,   \* bound: Buffers in all lists together
    MaxPrefix,    \* bound: the argument of remove_prefix()
    Null

ASSUME BufferListAssumption ==
    /\ Text \in [Storages -> Seq(Byte)]
    /\ MaxBuffers \in Nat /\ MaxPrefix \in Nat
    /\ Null \notin Storages \cup Lists

VARIABLES
    list,           \* BufferList::_buffers of each list
    buffer,         \* a Buffer on its own
    target, n,      \* inside BufferList::remove_prefix()
    result,         \* how the last operation ended
    before, asked   \* history

listvars == <<list, buffer, target, n, result, before, asked>>

-----------------------------------------------------------------------------
(* Buffer. *)

EmptyBuffer == [storage |-> Null, offset |-> 0]

\* Buffer::str().
Str(b) ==
    IF b.storage = Null THEN <<>>
    ELSE SubSeq(Text[b.storage], b.offset + 1, Len(Text[b.storage]))

\* Mutant: a Buffer keeps its storage when nothing of it is left to see.
KeepStorage(b, k) == [b EXCEPT !.offset = @ + k]

\* Buffer::remove_prefix() of no more than there is.  (No operation looks at
\* the offset of a Buffer without storage; it is 0 in the model.)
TrimBuffer(b, k) ==
    IF b.storage # Null /\ b.offset + k < Len(Text[b.storage])
    THEN [b EXCEPT !.offset = @ + k]
    ELSE EmptyBuffer

-----------------------------------------------------------------------------
(* Sequences of Buffers, or of the views of Buffers. *)

\* size(): the sizes of the parts are added up.
Size(q) == Total([i \in DOMAIN q |-> Len(Str(q[i]))])

\* concatenate().
Contents(q) == FlattenSeq([i \in DOMAIN q |-> Str(q[i])])

\* Mutant: a part that is removed as a whole counts for nothing.
TurnLosesCount(q, k, front) ==
    IF k < Len(Str(Head(q)))
    THEN [rest |-> <<front>> \o Tail(q), n |-> 0]
    ELSE [rest |-> Tail(q), n |-> 0]

\* One turn of the loop of remove_prefix(): k bytes are still to be removed;
\* `front' is the first part without its first k bytes.
Turn(q, k, front) ==
    IF k < Len(Str(Head(q)))
    THEN [rest |-> <<front>> \o Tail(q), n |-> 0]
    ELSE [rest |-> Tail(q), n |-> k - Len(Str(Head(q)))]

-----------------------------------------------------------------------------

BuffersOf(x) == {list[x][i] : i \in DOMAIN list[x]}

\* The storage that some Buffer keeps alive.
Alive == ({b.storage : b \in UNION {BuffersOf(x) : x \in Lists}}
              \cup {buffer.storage}) \ {Null}

ListInit ==
    /\ list = [x \in Lists |-> <<>>]
    /\ buffer = EmptyBuffer
    /\ target = Null /\ n = 0
    /\ result = "returned"
    /\ before = <<>> /\ asked = 0

\* An operation that ends with list x holding q.
Becomes(x, q) ==
    /\ list' = [list EXCEPT ![x] = q]
    /\ MapThenSumSet(LAMBDA y : Len(list'[y]), Lists) <= MaxBuffers
    /\ result' = "returned"
    /\ UNCHANGED <<buffer, target, n, before, asked>>

\* BufferList(std::string &&): a new string, in a Buffer of its own.
FromString(x, s) ==
    /\ s \notin Alive
    /\ Becomes(x, <<[storage |-> s, offset |-> 0]>>)

\* BufferList(Buffer).
FromBuffer(x) == Becomes(x, <<buffer>>)

\* Copies share their storage.
CopyFrom(x, y) == x # y /\ Becomes(x, list[y])

\* append().  (Appending a list to itself would invalidate the iterator of
\* its loop; nothing in the repository does it.)
append(x, y) ==
    x # y /\ Becomes(x, list[x] \o list[y])

\* operator Buffer().
ToBuffer(x) ==
    /\ \/ list[x] = <<>> /\ buffer' = EmptyBuffer /\ result' = "returned"
       \/ Len(list[x]) = 1 /\ buffer' = list[x][1] /\ result' = "returned"
       \/ Len(list[x]) > 1 /\ UNCHANGED buffer /\ result' = "runtime_error"
    /\ UNCHANGED <<list, target, n, before, asked>>

\* Buffer::remove_prefix().
BufferRemovePrefix(k) ==
    /\ \/ /\ k > Len(Str(buffer))
          /\ result' = "out_of_range" /\ UNCHANGED buffer
       \/ /\ k <= Len(Str(buffer))
          /\ result' = "returned" /\ buffer' = TrimBuffer(buffer, k)
    /\ UNCHANGED <<list, target, n, before, asked>>

\* BufferList::remove_prefix(k) is called.
RemovePrefix(x, k) ==
    /\ target' = x /\ n' = k
    /\ before' = Contents(list[x]) /\ asked' = k
    /\ UNCHANGED <<list, buffer, result>>

\* One turn of its loop.
RemoveTurn ==
    LET t == Turn(list[target], n, TrimBuffer(Head(list[target]), n))
    IN  /\ target # Null /\ n > 0 /\ list[target] # <<>>
        /\ list' = [list EXCEPT ![target] = t.rest]
        /\ n' = t.n
        /\ UNCHANGED <<buffer, target, result, before, asked>>

\* It returns, or throws once there is no Buffer left.
RemoveEnds ==
    /\ target # Null
    /\ \/ n = 0 /\ result' = "returned"
       \/ n > 0 /\ list[target] = <<>> /\ result' = "out_of_range"
    /\ target' = Null /\ n' = 0 /\ before' = <<>> /\ asked' = 0
    /\ UNCHANGED <<list, buffer>>

ListCall ==
    /\ target = Null
    /\ \/ \E x \in Lists :
             \/ \E s \in Storages : FromString(x, s)
             \/ FromBuffer(x)
             \/ \E y \in Lists : CopyFrom(x, y) \/ append(x, y)
             \/ ToBuffer(x)
             \/ \E k \in 0 .. MaxPrefix : RemovePrefix(x, k)
       \/ \E k \in 0 .. MaxPrefix : BufferRemovePrefix(k)

ListNext == ListCall \/ RemoveTurn \/ RemoveEnds

-----------------------------------------------------------------------------
(* Properties that hold of the code. *)

\* However a string is cut into Buffers, empty ones among them: after each
\* turn of remove_prefix() the list is what the caller had, less exactly the
\* bytes counted off so far.  So it returns with `asked' bytes gone, and
\* throws, with everything gone, only if there were fewer.
PrefixGone ==
    target # Null =>
        /\ n <= asked
        /\ Contents(list[target]) = SubSeq(before, asked - n + 1, Len(before))

\* Memory is not kept for nothing: a Buffer points to a string only as long as
\* it shows a byte of it (or the string is empty), so that the string goes
\* with the last copy that has not been drained.
DrainedIsReleased ==
    \A b \in {buffer} \cup UNION {BuffersOf(x) : x \in Lists} :
        b.storage # Null => Str(b) # <<>> \/ Text[b.storage] = <<>>
=============================================================================
