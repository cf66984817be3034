------------------------------ MODULE UDPSocket ------------------------------
(***************************************************************************)
(* UDPSocket (libsponge/util/socket.hh, socket.cc): datagrams received and *)
(* sent, here by the callbacks of an event loop's rules, which swallow     *)
(* exceptions; and what the loop's busy-wait test (eventloop.cc:131-138)   *)
(* makes of each call.                                                     *)
(*                                                                         *)
(* A datagram is its source and its length.  Ownership of the descriptor   *)
(* is in modules FileDescriptor and Socket; here there is one wrapper.  A  *)
(* callback is one step: the socket's queue only grows under it.           *)
(*                                                                         *)
(* Three history variables, read by no action: `arrived' is all that was   *)
(* ever queued, `taken' how many have left the queue, and `last' what      *)
(* became of the last of them.                                             *)
(***************************************************************************)
EXTENDS Integers, Sequences

CONSTANTS
    Peers,         \* Addresses of other sockets
    NoAddress,     \* Address{nullptr, 0}
    Lengths,       \* lengths of datagrams
    Mtus,          \* arguments of recv()
    Limits,        \* arguments of the inherited read()
    BUFFER_SIZE,   \* the most one read() asks for
    CountMod,      \* an unsigned holds one of CountMod values
    MaxQueue,      \* datagrams the kernel keeps; more are dropped
    MaxArrivals    \* bound: datagrams ever queued

ASSUME UDPSocketAssumption ==
    /\ NoAddress \notin Peers
    /\ Lengths \cup Mtus \cup Limits \subseteq Nat
    /\ BUFFER_SIZE \in Nat \ {0} /\ CountMod \in Nat \ {0, 1}
    /\ MaxQueue \in Nat /\ MaxArrivals \in Nat

Datagrams == [from : Peers, len : Lengths]

VARIABLES
    queue, peer,                    \* the kernel's
    read_count, write_count, eof,   \* members of the FDWrapper
    datagram,                       \* the caller's received_datagram
    result, accused,                \* how the last callback fared
    arrived, taken, last            \* history

wrapper == <<read_count, write_count, eof>>
vars    == <<queue, peer, wrapper, datagram, result, accused, arrived, taken, last>>

Smaller(a, b) == IF a < b THEN a ELSE b

Init ==
    /\ queue = <<>> /\ peer = NoAddress
    /\ read_count = 0 /\ write_count = 0 /\ eof = FALSE
    /\ datagram = [from |-> NoAddress, size |-> 0]
    /\ result = "returned" /\ accused = FALSE
    /\ arrived = <<>> /\ taken = 0 /\ last = [how |-> "none"]

-----------------------------------------------------------------------------
(* The kernel and the event loop *)

\* A connected socket gets datagrams of its peer only; those queued before
\* stay.  (When the queue is full a datagram is dropped: no step.)
Arrives(d) ==
    /\ peer \in {NoAddress, d.from}
    /\ Len(queue) < MaxQueue /\ Len(arrived) < MaxArrivals
    /\ queue' = Append(queue, d) /\ arrived' = Append(arrived, d)
    /\ UNCHANGED <<peer, wrapper, datagram, result, accused, taken, last>>

\* poll(2) reports the socket readable, and its rule is still there: a rule
\* whose descriptor is at EOF is cancelled.
Readable == queue # <<>> /\ ~eof

\* The busy-wait test after a callback: the count that the rule watches is as
\* it was before, and the rule is still interested.
BusyWait(before, after) == accused' = (before = after)

\* The datagram at the head of the queue leaves it.
Takes(how, mtu) ==
    /\ queue' = Tail(queue)
    /\ taken' = taken + 1
    /\ last' = [how |-> how, sent |-> Head(queue), mtu |-> mtu, got |-> datagram']
    /\ UNCHANGED <<peer, arrived>>

-----------------------------------------------------------------------------
(* recv(), into an object of the caller (byref) or a new one *)

\* Mutant: without MSG_TRUNC, recvfrom(2) answers with what fits.
RecvLenFits(mtu) == Smaller(Head(queue).len, mtu)

\* recvfrom(2) with MSG_TRUNC answers with the datagram's length.
RecvLen(mtu) == Head(queue).len

\* Mutant: only bytes count as a read.
RegisterBytes(recv_len) ==
    read_count' = IF recv_len > 0 THEN (read_count + 1) % CountMod ELSE read_count

\* register_read()
Register(recv_len) == read_count' = (read_count + 1) % CountMod

\* What a recv() that throws leaves in the caller's object: the payload has
\* been resized, the source address is that of an earlier datagram.
Overwritten(byref, mtu) ==
    datagram' = IF byref THEN [datagram EXCEPT !.size = mtu] ELSE datagram

RecvReturns(mtu) ==
    /\ Readable /\ RecvLen(mtu) <= mtu
    /\ Register(RecvLen(mtu))
    /\ datagram' = [from |-> Head(queue).from, size |-> RecvLen(mtu)]
    /\ Takes("returned", mtu)
    /\ result' = "returned"
    /\ BusyWait(read_count, read_count')
    /\ UNCHANGED <<write_count, eof>>

\* Mutant: an oversized datagram stays in the queue.
OversizedStays(mtu) == UNCHANGED <<queue, peer, arrived, taken, last>>

\* An oversized datagram has left the queue when recv() throws.
OversizedTaken(mtu) == Takes("oversized", mtu)

RecvOversized(mtu, byref) ==
    /\ Readable /\ RecvLen(mtu) > mtu
    /\ Overwritten(byref, mtu)
    /\ OversizedTaken(mtu)
    /\ result' = "threw"
    /\ BusyWait(read_count, read_count)
    /\ UNCHANGED wrapper

\* recvfrom(2) fails although poll(2) reported something (a pending ICMP
\* error, a datagram found bad on reading it).
RecvFails(mtu, byref) ==
    /\ Readable
    /\ Overwritten(byref, mtu)
    /\ result' = "threw"
    /\ BusyWait(read_count, read_count)
    /\ UNCHANGED <<queue, peer, wrapper, arrived, taken, last>>

\* Mutant: a read that does not fill the buffer is the last one.
AtEndShort(limit, size_to_read, bytes_read) == limit > 0 /\ bytes_read < size_to_read

\* When read() sets _eof.
AtEnd(limit, size_to_read, bytes_read) == limit > 0 /\ bytes_read = 0

\* The inherited read(): of a datagram longer than what is asked for, the
\* rest is gone; an empty one looks like the end of a file.
Read(limit) ==
    LET size_to_read == Smaller(BUFFER_SIZE, limit)
        bytes_read == Smaller(size_to_read, Head(queue).len)
    IN  /\ Readable /\ size_to_read > 0
        /\ eof' = AtEnd(limit, size_to_read, bytes_read)
        /\ read_count' = (read_count + 1) % CountMod
        /\ UNCHANGED <<write_count, datagram>>
        /\ Takes("read", limit)
        /\ result' = "returned"
        /\ BusyWait(read_count, read_count')

\* read(2) of no byte leaves a socket's queue alone, and counts.
ReadNothing(limit) ==
    /\ Readable /\ Smaller(BUFFER_SIZE, limit) = 0
    /\ read_count' = (read_count + 1) % CountMod
    /\ result' = "returned"
    /\ BusyWait(read_count, read_count')
    /\ UNCHANGED <<queue, peer, write_count, eof, datagram, arrived, taken, last>>

-----------------------------------------------------------------------------
(* connect(), sendto(), send() *)

Connect(a) ==
    /\ peer' = a
    /\ UNCHANGED <<queue, wrapper, datagram, result, accused, arrived, taken, last>>

\* sendto(to) or, with NoAddress, send(): sendmsg(2) takes the whole payload
\* and the write is counted.
SendReturns(to) ==
    /\ to # NoAddress \/ peer # NoAddress
    /\ write_count' = (write_count + 1) % CountMod
    /\ result' = "returned"
    /\ BusyWait(write_count, write_count')
    /\ UNCHANGED <<queue, peer, read_count, eof, datagram, arrived, taken, last>>

\* sendmsg(2) fails (EMSGSIZE, no destination, ...), or takes only a part of
\* the payload: the exception comes before the write is counted.
SendThrows(to) ==
    /\ result' = "threw"
    /\ BusyWait(write_count, write_count)
    /\ UNCHANGED <<queue, peer, wrapper, datagram, arrived, taken, last>>

-----------------------------------------------------------------------------

Taking ==
    \/ \E mtu \in Mtus : RecvReturns(mtu) \/ \E byref \in BOOLEAN : RecvOversized(mtu, byref)
    \/ \E limit \in Limits : Read(limit)

Next ==
    \/ \E d \in Datagrams : Arrives(d)
    \/ Taking
    \/ \E mtu \in Mtus, byref \in BOOLEAN : RecvFails(mtu, byref)
    \/ \E limit \in Limits : ReadNothing(limit)
    \/ \E a \in Peers : Connect(a)
    \/ \E to \in Peers \cup {NoAddress} : SendReturns(to) \/ SendThrows(to)

Spec == Init /\ [][Next]_vars

\* The loop keeps calling the callback of a readable socket, which asks for
\* something, and recvfrom(2) does not fail for ever.
FairSpec == Spec /\ WF_vars(Taking)

-----------------------------------------------------------------------------

\* The types of the state, which the proofs about this module rest on.
TypeOK ==
    /\ queue \in Seq(Datagrams) /\ arrived \in Seq(Datagrams)
    /\ Len(queue) <= MaxQueue
    /\ peer \in Peers \cup {NoAddress}
    /\ read_count \in 0 .. CountMod - 1 /\ write_count \in 0 .. CountMod - 1
    /\ eof \in BOOLEAN /\ accused \in BOOLEAN
    /\ datagram \in [from : Peers \cup {NoAddress}, size : Nat]
    /\ result \in {"returned", "threw"}

\* Every datagram is dealt with once and in order, and recv() never passes on
\* a part of one: it returns the whole datagram with the address it came
\* from, or throws, and throws `oversized' only for one that is larger than
\* the mtu it was given.
OnceWholeInOrder ==
    /\ queue = SubSeq(arrived, taken + 1, Len(arrived))
    /\ taken > 0 => last.sent = arrived[taken]
    /\ last.how = "returned" =>
          last.got = [from |-> last.sent.from, size |-> last.sent.len]
    /\ last.how = "oversized" => last.sent.len > last.mtu

\* The event loop takes a callback for a busy wait only when the socket call
\* in it threw: a recv() that returns has moved the count, be it of an empty
\* datagram.  (The converse of what eventloop.cc asks of callbacks.  A call
\* that throws is taken for one even if it consumed a datagram.)
AccusedOnlyIfThrown == accused => result = "threw"

\* A datagram socket has no end of file.  Its _eof is set, and its reading
\* rule cancelled, only when read() was used on it and met an empty
\* datagram; recv(), oversized datagrams and failures never end it.
EofOnlyByEmptyRead ==
    eof => last.how = "read" /\ last.sent.len = 0

\* Nothing blocks the queue: every datagram that arrives is received or
\* reported, however small the mtu of each call and however the datagrams
\* before it fared, unless read() took an empty one for the end.
QueueMoves ==
    \A n \in 1 .. MaxArrivals : Len(arrived) >= n ~> (taken >= n \/ eof)
=============================================================================
