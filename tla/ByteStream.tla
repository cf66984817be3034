----------------------------- MODULE ByteStream -----------------------------
(***************************************************************************)
(* ByteStream (libsponge/byte_stream.hh, byte_stream.cc): the in-memory    *)
(* byte stream with a fixed capacity, kept in a ring of capacity+1 chars.  *)
(* One object, one writer and one reader whose calls interleave freely.    *)
(*                                                                         *)
(* Every member variable of the class is a variable here, with its C++     *)
(* name (_error is `error').  `out' is the string the last peek_output()   *)
(* or read() returned to the caller, <<Uninit>> before the first call.     *)
(* Three history variables, read by no action, let the properties speak    *)
(* about the past: `accepted' is all the bytes write() has reported as     *)
(* taken, `removed' how many pop_output() has removed, `garbage' what the  *)
(* two counters held when the constructor returned.                        *)
(***************************************************************************)
EXTENDS Integers, Sequences

CONSTANTS
    Byte,             \* the characters
    Uninit,           \* content of a slot of m_buf that was never stored to
    Capacities,       \* the constructor's arguments, values of size_t
    IntMod,           \* an int holds one of IntMod values (2^32)
    SizeMod,          \* a size_t holds one of SizeMod values (2^64)
    InitialCounters,  \* what memory may hold where the counters are placed
    Strings,          \* the arguments of write()
    Lens,             \* the arguments of peek_output(), pop_output(), read()
    MaxAccepted       \* bound: bytes accepted over the life of the stream

VARIABLES
    m_tail, m_head, m_closed, m_buf, m_buf_size, error, m_num_of_r, m_num_of_w,
    capacity,         \* the argument the constructor was called with
    out, accepted, removed, garbage

ring  == <<m_tail, m_head, m_buf, m_buf_size>>
flags == <<m_closed, error>>
vars  == <<ring, flags, m_num_of_r, m_num_of_w,
           capacity, out, accepted, removed, garbage>>

-----------------------------------------------------------------------------
(* Conversions between int and size_t, as the build's compilers do them.   *)

\* Narrowing to int: reduce modulo IntMod, read as two's complement.
ToInt(x) ==
    LET y == x % IntMod IN IF y >= IntMod \div 2 THEN y - IntMod ELSE y

\* Conversion to size_t: reduce modulo SizeMod.
ToSize(x) == x % SizeMod

IntRange == -(IntMod \div 2) .. (IntMod \div 2) - 1

\* What `m_buf_size=capacity+1' stores for a constructor argument c.
BufSize(c) == ToInt(ToSize(c + 1))

\* A negative m_buf_size makes `new char[m_buf_size]' throw, so that no
\* object exists; an m_buf_size of 0 leaves an array no store fits in, which
\* is undefined behaviour at the first write and outside this model.
ASSUME ByteStreamAssumption ==
    /\ IntMod \in Nat /\ IntMod > 1 /\ IntMod % 2 = 0
    /\ SizeMod \in Nat /\ SizeMod >= IntMod
    /\ Capacities \subseteq {c \in 0 .. SizeMod - 1 : BufSize(c) > 0}
    /\ InitialCounters \subseteq IntRange
    /\ Strings \subseteq Seq(Byte)
    /\ Lens \subseteq Nat
    /\ MaxAccepted \in Nat

Min2(a, b) == IF a > b THEN b ELSE a

-----------------------------------------------------------------------------
(* The accessors. *)

\* `int r=m_head-m_tail' and its wrap-around correction are computed, and
\* then dropped: the function returns 0.
buffer_size == 0

buffer_empty == m_head = m_tail

input_ended == m_closed

eof == input_ended /\ buffer_empty

bytes_written == ToSize(m_num_of_w)

bytes_read == ToSize(m_num_of_r)

\* int minus size_t is size_t.
remaining_capacity == ToSize(m_buf_size - 1 - buffer_size)

\* Mutant: the wrap test is off by one.
ForwardOffByOne(i, n) ==
    IF i + n > m_buf_size THEN i + n - m_buf_size ELSE i + n

\* One index moved n places forward round the ring (n <= m_buf_size).
Forward(i, n) == IF i + n >= m_buf_size THEN i + n - m_buf_size ELSE i + n

\* Mutant: the store pre-increments m_head.
AheadOfHeadPreInc(j) ==
    IF j > m_head THEN j - m_head - 1 ELSE j - m_head - 1 + m_buf_size

\* How far slot j lies ahead of m_head, going forward round the ring.
AheadOfHead(j) == IF j >= m_head THEN j - m_head ELSE j - m_head + m_buf_size

\* reserve(n) leaves the returned string at size 0: the n characters copied
\* to s[0..n-1] lie beyond its end, and the caller gets none of them.
peek_output(len) ==
    LET n      == IF error THEN 0 ELSE Min2(len, buffer_size)
        copied == [i \in 1 .. n |-> m_buf[Forward(m_tail, i - 1)]]
        size   == 0
    IN  SubSeq(copied, 1, size)

-----------------------------------------------------------------------------
(* The constructor, and the operations that change the object.             *)

\* m_num_of_r and m_num_of_w have no initializer.
Init ==
    /\ capacity \in Capacities
    /\ m_buf_size = BufSize(capacity)
    /\ m_buf = [i \in 0 .. m_buf_size - 1 |-> Uninit]
    /\ m_head = 0 /\ m_tail = 0
    /\ m_closed = FALSE /\ error = FALSE
    /\ m_num_of_r \in InitialCounters
    /\ m_num_of_w \in InitialCounters
    /\ garbage = [r |-> m_num_of_r, w |-> m_num_of_w]
    /\ out = <<Uninit>> /\ accepted = <<>> /\ removed = 0

\* Mutant: write() does not look at m_closed.
RefusesOnErrorOnly == error

\* Whether write() refuses, before it looks at the data.
Refuses == m_closed \/ error

\* write() on an ended or failed stream: it fails the stream.
WriteRefused ==
    /\ Refuses
    /\ error' = TRUE
    /\ UNCHANGED <<ring, m_closed, m_num_of_r, m_num_of_w,
                   capacity, out, accepted, removed, garbage>>

\* write(): the loop stores data[0..n-1] at m_head and moves m_head past
\* them.  n < m_buf_size, so the head passes the end of the array at most
\* once and no slot is stored to twice.
WriteAccepted(data) ==
    LET n == Min2(Len(data), remaining_capacity)
    IN  /\ ~Refuses
        /\ m_buf' = [j \in 0 .. m_buf_size - 1 |->
                        IF AheadOfHead(j) < n THEN data[AheadOfHead(j) + 1]
                                              ELSE m_buf[j]]
        /\ m_head' = Forward(m_head, n)
        /\ m_num_of_w' = ToInt(m_num_of_w + n)
        /\ accepted' = accepted \o SubSeq(data, 1, n)
        /\ UNCHANGED <<m_tail, m_buf_size, flags, m_num_of_r,
                       capacity, out, removed, garbage>>

Write(data) ==
    WriteRefused \/ WriteAccepted(data)

EndInput ==
    /\ m_closed' = TRUE
    /\ UNCHANGED <<ring, error, m_num_of_r, m_num_of_w,
                   capacity, out, accepted, removed, garbage>>

SetError ==
    /\ error' = TRUE
    /\ UNCHANGED <<ring, m_closed, m_num_of_r, m_num_of_w,
                   capacity, out, accepted, removed, garbage>>

\* Mutant: bytes_read counts what was asked for, not what was removed.
PopCountsAsked(len) ==
    LET n == IF error THEN 0 ELSE Min2(len, buffer_size)
    IN  /\ m_tail' = Forward(m_tail, n)
        /\ m_num_of_r' = ToInt(m_num_of_r + len)
        /\ removed' = removed + n
        /\ UNCHANGED <<m_head, m_buf, m_buf_size, flags, m_num_of_w,
                       capacity, accepted, garbage>>

\* What pop_output() does to the object.
Pop(len) ==
    LET n == IF error THEN 0 ELSE Min2(len, buffer_size)
    IN  /\ m_tail' = Forward(m_tail, n)
        /\ m_num_of_r' = ToInt(m_num_of_r + n)
        /\ removed' = removed + n
        /\ UNCHANGED <<m_head, m_buf, m_buf_size, flags, m_num_of_w,
                       capacity, accepted, garbage>>

PopOutput(len) ==
    Pop(len) /\ UNCHANGED out

PeekOutput(len) ==
    /\ out' = peek_output(len)
    /\ UNCHANGED <<ring, flags, m_num_of_r, m_num_of_w,
                   capacity, accepted, removed, garbage>>

\* read(): peek_output(), then pop_output(), of the same length.
Read(len) ==
    /\ out' = peek_output(len)
    /\ Pop(len)

Next ==
    \/ \E data \in Strings :
            Len(accepted) + Len(data) <= MaxAccepted /\ Write(data)
    \/ EndInput
    \/ SetError
    \/ \E len \in Lens : PopOutput(len) \/ PeekOutput(len) \/ Read(len)

Spec == Init /\ [][Next]_vars

-----------------------------------------------------------------------------
(* Properties that hold of the code.                                       *)

\* The members keep their types, and both indices stay inside the array that
\* the constructor allocated, so that every m_buf[m_head++] is a legal store.
TypeOK ==
    /\ capacity \in Capacities
    /\ m_buf_size \in IntRange /\ m_buf_size = BufSize(capacity)
    /\ m_buf \in [0 .. m_buf_size - 1 -> Byte \cup {Uninit}]
    /\ m_head \in 0 .. m_buf_size - 1
    /\ m_tail \in 0 .. m_buf_size - 1
    /\ m_closed \in BOOLEAN /\ error \in BOOLEAN
    /\ m_num_of_r \in IntRange /\ m_num_of_w \in IntRange
    /\ out \in Seq(Byte \cup {Uninit})
    /\ accepted \in Seq(Byte) /\ removed \in Nat
    /\ garbage \in [r : IntRange, w : IntRange]

\* The slot k places behind m_head.
BehindHead(k) == IF m_head >= k THEN m_head - k ELSE m_head - k + m_buf_size

\* write() puts bytes where they belong whatever the sizes of the writes and
\* wherever they wrap: reading the array backwards from m_head gives the
\* accepted bytes backwards, as far back as the array is long.
RingHoldsAccepted ==
    \A k \in 1 .. Len(accepted) :
        k <= m_buf_size => m_buf[BehindHead(k)] = accepted[Len(accepted) + 1 - k]

\* bytes_written() and bytes_read() advance by what write() and pop_output()
\* report, from whatever the uninitialized counters held, modulo an int.
CountersTrackTotals ==
    /\ m_num_of_w = ToInt(garbage.w + Len(accepted))
    /\ m_num_of_r = ToInt(garbage.r + removed)

\* Once the input has ended or the stream has failed, no call ever changes
\* the input side again (head, contents, bytes_written), and neither flag is
\* ever cleared.
InputSideFrozen ==
    [][m_closed \/ error =>
            /\ UNCHANGED <<m_head, m_buf, m_num_of_w, accepted>>
            /\ m_closed => m_closed'
            /\ error => error']_vars

-----------------------------------------------------------------------------
(* Properties that the header or the tests state and the code refutes.     *)

\* byte_stream.hh: "Total number of bytes written", "Total number of bytes
\* popped"; tests/byte_stream_construction.cc expects both to start at 0.
CountersAreTotals ==
    bytes_written = ToSize(Len(accepted)) /\ bytes_read = ToSize(removed)

\* byte_stream.hh: eof() "returns `true` if the output has reached the
\* ending", which is when the input has ended and every accepted byte has been
\* removed.  eof() takes a full turn of unread bytes for an empty ring, as
\* m_head is back at m_tail.
EofIsTheEnding ==
    eof <=> input_ended /\ removed = Len(accepted)

-----------------------------------------------------------------------------
(* The in-order stream the header promises, with the bytes between m_tail  *)
(* and m_head as its content.                                              *)

Waiting ==
    LET n == IF m_head >= m_tail THEN m_head - m_tail
                                 ELSE m_head - m_tail + m_buf_size
    IN  [i \in 1 .. n |-> m_buf[Forward(m_tail, i - 1)]]

Promise == INSTANCE BoundedStream WITH
    buffer <- Waiting, ended <- m_closed, failed <- error,
    written <- bytes_written, popped <- bytes_read

\* byte_stream.hh: "An in-order byte stream. Bytes are written on the "input"
\* side and read from the "output" side": the stream of BoundedStream.
IsInOrderStream == Promise!Spec
=============================================================================
