--------------------------- MODULE FileDescriptor ---------------------------
(***************************************************************************)
(* FileDescriptor and its FDWrapper (libsponge/util/file_descriptor.hh,    *)
(* file_descriptor.cc): reference-counted ownership of kernel descriptor   *)
(* numbers, and the _eof and _closed flags the event loop acts on.         *)
(*                                                                         *)
(* A handle is a FileDescriptor object; internal_fd maps it to the         *)
(* FDWrapper its shared_ptr points to, or to Null.  A wrapper exists while *)
(* a handle points to it.  The flags _eof and _closed are the sets of the  *)
(* wrappers in which they are true.                                        *)
(*                                                                         *)
(* The kernel is external: `table' maps descriptor numbers to open files,  *)
(* and gives a new file the lowest free number, so that a number is reused *)
(* as soon as it is closed.  A file has a domain and a type (`sort'), some *)
(* unread bytes or, if it takes datagrams, unread datagrams, of any length *)
(* and also of none; it may have ended and may be non-blocking.  Bytes and *)
(* datagrams arrive, and the far end closes, between any two calls.        *)
(*                                                                         *)
(* Two history variables, read by no action: file[w] is the file wrapper w *)
(* was made for, and `clean' is true until close(2) reports an error or    *)
(* FileDescriptor::close() is called on a wrapper that is already closed   *)
(* and closes a number that has been reused.                               *)
(***************************************************************************)
EXTENDS Integers, FiniteSets

CONSTANTS
    Handles,      \* FileDescriptor objects
    Wrappers,     \* FDWrapper objects
    Files,        \* open files
    MaxFd,        \* bound: descriptor numbers are 0 .. MaxFd
    MaxData,      \* bound: unread bytes, or datagrams, of a file
    Limits,       \* the arguments of read()
    MaxTurns,     \* bound: turns of the loop of one write()
    BUFFER_SIZE,  \* the most one read() asks for (1 MiB)
    CountMod,     \* an unsigned holds one of CountMod values (2^32)
    Null, Free

Fds == 0 .. MaxFd

NotASocket == <<"none", "none">>
Sorts == {"AF_INET", "AF_UNIX"} \X {"SOCK_DGRAM", "SOCK_STREAM"} \cup {NotASocket}

ASSUME FileDescriptorAssumption ==
    /\ MaxFd \in Nat /\ MaxData \in Nat /\ MaxTurns \in Nat
    /\ BUFFER_SIZE \in Nat \ {0} /\ CountMod \in Nat \ {0}
    /\ Limits \subseteq Nat
    /\ Null \notin Wrappers /\ Free \notin Files

VARIABLES
    internal_fd,               \* FileDescriptor::_internal_fd
    fd, eof, closed, read_count, write_count,   \* the members of FDWrapper
    table, data, ended, nonblock, sort,         \* the kernel
    result,                    \* how the last call ended
    file, clean                \* history

wrapper == <<fd, eof, closed, read_count, write_count>>
kernel  == <<table, data, ended, nonblock, sort>>
vars    == <<internal_fd, wrapper, kernel, result, file, clean>>

-----------------------------------------------------------------------------

\* The wrappers that some handle points to when the handles are as in f.
Referenced(f) == {w \in Wrappers : \E h \in Handles : f[h] = w}

Alive == Referenced(internal_fd)

Valid(h) == internal_fd[h] # Null

\* Wrappers whose number close(2) has to give back: alive and not closed.
Holding == Alive \ closed

Smaller(a, b) == IF a < b THEN a ELSE b

Init ==
    /\ internal_fd = [h \in Handles |-> Null]
    /\ fd = [w \in Wrappers |-> 0]
    /\ eof = {} /\ closed = {}
    /\ read_count = [w \in Wrappers |-> 0]
    /\ write_count = [w \in Wrappers |-> 0]
    /\ table = [n \in Fds |-> Free]
    /\ data = [f \in Files |-> 0]
    /\ ended = {} /\ nonblock = {}
    /\ sort = [f \in Files |-> NotASocket]
    /\ result = "returned"
    /\ file = [w \in Wrappers |-> Free]
    /\ clean = TRUE

-----------------------------------------------------------------------------
(* The kernel, between calls. *)

TakesDatagrams(f) == sort[f][2] = "SOCK_DGRAM"

\* A byte of a stream, or a datagram.  Datagrams also come to a socket that
\* shutdown() has ended.
Arrive(f) ==
    /\ f \notin ended \/ TakesDatagrams(f)
    /\ data[f] < MaxData
    /\ data' = [data EXCEPT ![f] = @ + 1]
    /\ UNCHANGED <<internal_fd, wrapper, table, ended, nonblock, sort, result, file, clean>>

\* Datagrams have no far end whose closing could be read.
FarEndCloses(f) ==
    /\ ~TakesDatagrams(f)
    /\ ended' = ended \cup {f}
    /\ UNCHANGED <<internal_fd, wrapper, table, data, nonblock, sort, result, file, clean>>

OpenFiles == {table[n] : n \in Fds} \ {Free}

Environment == \E f \in OpenFiles : Arrive(f) \/ FarEndCloses(f)

-----------------------------------------------------------------------------
(* Construction, duplication, moves and destruction. *)

\* FileDescriptor(fd) around the number of a file of sort s just opened.  (A failed
\* open throws in SystemCall and a negative number in FDWrapper's
\* constructor, with nothing changed.)
Construct(h, w, f, s) == \E n \in Fds :
    /\ table[n] = Free /\ \A j \in Fds : j < n => table[j] # Free
    /\ ~Valid(h) /\ w \notin Alive
    /\ f \notin OpenFiles /\ \A v \in Alive : file[v] # f
    /\ internal_fd' = [internal_fd EXCEPT ![h] = w]
    /\ fd' = [fd EXCEPT ![w] = n]
    /\ eof' = eof \ {w} /\ closed' = closed \ {w}
    /\ read_count' = [read_count EXCEPT ![w] = 0]
    /\ write_count' = [write_count EXCEPT ![w] = 0]
    /\ table' = [table EXCEPT ![n] = f]
    /\ data' = [data EXCEPT ![f] = 0]
    /\ ended' = ended \ {f} /\ nonblock' = nonblock \ {f}
    /\ sort' = [sort EXCEPT ![f] = s]
    /\ file' = [file EXCEPT ![w] = f]
    /\ result' = "returned"
    /\ UNCHANGED clean

\* duplicate(): a second handle to the same wrapper.
Duplicate(h, g) ==
    /\ Valid(h) /\ ~Valid(g)
    /\ internal_fd' = [internal_fd EXCEPT ![g] = internal_fd[h]]
    /\ result' = "returned"
    /\ UNCHANGED <<wrapper, kernel, file, clean>>

\* Mutant: the destructor does not look at _closed.
DestructorClosesAll(dead) == dead

\* Mutant: the destructor takes _eof for _closed.
DestructorClosesUnlessEof(dead) == dead \ eof

\* Those of the destroyed wrappers whose number ~FDWrapper closes.
DestructorCloses(dead) == dead \ closed

\* The handles become f; a wrapper that loses its last handle is destroyed,
\* and ~FDWrapper closes its number unless it is already closed.  close(2)
\* gives the number back whatever it returns, and the destructor swallows
\* the exception.
Release(f) ==
    LET dead == Alive \ Referenced(f)
    IN  /\ internal_fd' = f
        /\ table' = [n \in Fds |-> IF \E w \in DestructorCloses(dead) : fd[w] = n
                                   THEN Free ELSE table[n]]
        /\ eof' = eof \ dead /\ closed' = closed \ dead
        /\ UNCHANGED <<fd, read_count, write_count, data, ended, nonblock, sort,
                       file, clean>>

Destroy(h) ==
    /\ Valid(h)
    /\ Release([internal_fd EXCEPT ![h] = Null])
    /\ result' = "returned"

\* Move construction and move assignment: g takes h's pointer, h is left
\* null, and what g pointed to is released.
Move(h, g) ==
    /\ h # g /\ Valid(h)
    /\ Release([internal_fd EXCEPT ![g] = internal_fd[h], ![h] = Null])
    /\ result' = "returned"

-----------------------------------------------------------------------------
(* Calls through a handle.  None of them looks at _closed. *)

\* The call throws from SystemCall and changes nothing.
Throws ==
    /\ result' = "threw"
    /\ UNCHANGED <<internal_fd, wrapper, kernel, file, clean>>

\* Mutant: close() does not set _eof.
FlagClosedOnly(w) == closed' = closed \cup {w} /\ UNCHANGED eof

\* `_eof = _closed = true'.
FlagClosed(w) == closed' = closed \cup {w} /\ eof' = eof \cup {w}

\* close(): close(2) succeeds.  It acts on the number, so that on a wrapper
\* that is already closed it closes whatever file has the number now.
CloseSucceeds(h) ==
    LET w == internal_fd[h]
    IN  /\ Valid(h) /\ table[fd[w]] # Free
        /\ table' = [table EXCEPT ![fd[w]] = Free]
        /\ FlagClosed(w)
        /\ result' = "returned"
        /\ clean' = (clean /\ w \notin closed)
        /\ UNCHANGED <<internal_fd, fd, read_count, write_count,
                       data, ended, nonblock, sort, file>>

\* close(): close(2) gives the number back but reports an error (EIO, EINTR);
\* SystemCall throws before the flags are set.
CloseFails(h) ==
    LET w == internal_fd[h]
    IN  /\ Valid(h) /\ table[fd[w]] # Free
        /\ table' = [table EXCEPT ![fd[w]] = Free]
        /\ result' = "threw"
        /\ clean' = FALSE
        /\ UNCHANGED <<internal_fd, wrapper, data, ended, nonblock, sort, file>>

\* Any call on a number that is not open: EBADF.
BadNumber(h) ==
    /\ Valid(h) /\ table[fd[internal_fd[h]]] = Free
    /\ Throws

\* Mutant: a read of no byte is the end of the file, whatever the limit.
AtEndUnlimited(limit, bytes_read) == bytes_read = 0

\* When read() sets _eof.
AtEnd(limit, bytes_read) == limit > 0 /\ bytes_read = 0

\* read(2) asked for `size' bytes answers bytes_read and takes `taken' bytes or
\* datagrams from the file: nothing when nothing is asked for or there is none
\* left; otherwise at least one byte of a stream, a short answer being legal,
\* or one datagram, whole or cut, whose length may be 0.
Answers(f, size, bytes_read, taken) ==
    \/ (size = 0 \/ data[f] = 0) /\ bytes_read = 0 /\ taken = 0
    \/ /\ size > 0 /\ data[f] > 0
       /\ IF TakesDatagrams(f) THEN taken = 1 ELSE taken = bytes_read /\ taken > 0

\* read(limit) that read(2) answers; it waits while a blocking file is empty.
Read(h, limit) ==
    LET w == internal_fd[h]
        f == table[fd[w]]
        size_to_read == Smaller(BUFFER_SIZE, limit)
    IN  /\ Valid(h) /\ f # Free
        /\ size_to_read = 0 \/ data[f] > 0 \/ f \in ended
        /\ \E bytes_read \in 0 .. size_to_read, taken \in 0 .. data[f] :
              /\ Answers(f, size_to_read, bytes_read, taken)
              /\ data' = [data EXCEPT ![f] = @ - taken]
              /\ eof' = IF AtEnd(limit, bytes_read) THEN eof \cup {w} ELSE eof
        /\ read_count' = [read_count EXCEPT ![w] = (@ + 1) % CountMod]
        /\ result' = "returned"
        /\ UNCHANGED <<internal_fd, fd, closed, write_count,
                       table, ended, nonblock, sort, file, clean>>

\* read() that read(2) answers with an error, which SystemCall throws: EAGAIN
\* when a non-blocking file has nothing to read, ECONNRESET or EIO when the
\* far end is gone.  (An empty blocking file makes the caller wait: no step.)
ReadFails(h, limit) ==
    LET f == table[fd[internal_fd[h]]]
    IN  /\ Valid(h) /\ f # Free
        /\ f \in ended \/ (limit > 0 /\ data[f] = 0 /\ f \in nonblock)
        /\ Throws

\* write(): `turns' turns of its loop are answered by writev(2) and counted;
\* then it returns or, at any turn, throws (EPIPE, EAGAIN, ...).  The module
\* WriteLoop is about the bytes.
Write(h, turns) ==
    LET w == internal_fd[h]
    IN  /\ Valid(h) /\ table[fd[w]] # Free
        /\ write_count' = [write_count EXCEPT ![w] = (@ + turns) % CountMod]
        /\ result' \in IF turns = 0 THEN {"threw"} ELSE {"returned", "threw"}
        /\ UNCHANGED <<internal_fd, fd, eof, closed, read_count, kernel, file, clean>>

\* set_blocking(): the flag belongs to the open file.
SetBlocking(h, blocking_state) ==
    LET f == table[fd[internal_fd[h]]]
    IN  /\ Valid(h) /\ f # Free
        /\ nonblock' = IF blocking_state THEN nonblock \ {f} ELSE nonblock \cup {f}
        /\ result' = "returned"
        /\ UNCHANGED <<internal_fd, wrapper, table, data, ended, sort, file, clean>>

-----------------------------------------------------------------------------

Transfer(h) ==
    \/ \E limit \in Limits : Read(h, limit) \/ ReadFails(h, limit)
    \/ \E turns \in 0 .. MaxTurns : Write(h, turns)

Manage(h) ==
    \/ Destroy(h)
    \/ CloseSucceeds(h) \/ CloseFails(h) \/ BadNumber(h)
    \/ \E b \in BOOLEAN : SetBlocking(h, b)

Call(h) ==
    \/ \E w \in Wrappers, f \in Files, s \in Sorts : Construct(h, w, f, s)
    \/ \E g \in Handles : Duplicate(h, g) \/ Move(h, g)
    \/ Manage(h) \/ Transfer(h)

Next == Environment \/ \E h \in Handles : Call(h)

Spec == Init /\ [][Next]_vars

-----------------------------------------------------------------------------
(* Properties that hold of the code. *)

\* The members keep their types; and a closed wrapper is also at EOF, which
\* is what lets EventLoop drop a reading rule by testing eof() first.
TypeOK ==
    /\ internal_fd \in [Handles -> Wrappers \cup {Null}]
    /\ fd \in [Wrappers -> Fds]
    /\ eof \subseteq Alive /\ closed \subseteq eof
    /\ read_count \in [Wrappers -> 0 .. CountMod - 1]
    /\ write_count \in [Wrappers -> 0 .. CountMod - 1]
    /\ table \in [Fds -> Files \cup {Free}]
    /\ data \in [Files -> 0 .. MaxData]
    /\ ended \subseteq Files /\ nonblock \subseteq Files
    /\ sort \in [Files -> Sorts]
    /\ result \in {"returned", "threw"}
    /\ file \in [Wrappers -> Files \cup {Free}]
    /\ clean \in BOOLEAN

\* However handles are duplicated, moved, closed and destroyed, and however
\* soon the kernel reuses numbers: as long as no close(2) fails and nobody
\* closes a closed wrapper's reused number, the number of every wrapper that
\* is not closed is still that of the very file it was made for.
OwnsItsFile ==
    clean => \A w \in Holding : table[fd[w]] = file[w]

\* Under the same conditions no descriptor leaks: a file is open only while
\* a wrapper that is not closed holds its number, so that dropping the last
\* handle, or closing any of them, gives the number back.
NoLeak ==
    clean => \A n \in Fds : table[n] # Free => \E w \in Holding : fd[w] = n

\* On a file that is read as a stream of bytes _eof is never set early: unless
\* the wrapper is closed, its file has ended and every byte of it has been
\* read.  Datagram sockets are excepted: there read() takes an empty datagram
\* for the end and sets _eof on a socket that goes on receiving.
StreamEofIsReal ==
    clean => \A w \in eof \ closed :
        ~TakesDatagrams(file[w]) => file[w] \in ended /\ data[file[w]] = 0

-----------------------------------------------------------------------------
(* A statement of the header that the code refutes. *)

\* file_descriptor.hh: _closed is the "flag indicating whether FDWrapper::_fd
\* has been closed".
ClosedFlagAccurate ==
    \A w \in Alive : table[fd[w]] = Free => w \in closed
=============================================================================
