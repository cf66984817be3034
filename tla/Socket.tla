------------------------------- MODULE Socket -------------------------------
(***************************************************************************)
(* Socket, its subclasses and TunFD (libsponge/util/socket.hh, socket.cc,  *)
(* tun.cc) on top of FileDescriptor: which objects may own which kind of   *)
(* file, the constructor that adopts a descriptor and may refuse it,       *)
(* listen() and accept(), shutdown().  Datagrams are in module UDPSocket.  *)
(*                                                                         *)
(* The class of an object is fixed, so each class is a set of handles; the *)
(* handles in none of them are plain FileDescriptors, a TunFD among them.  *)
(* The kernel also knows of each open file whether it is connected,        *)
(* listens or neither (`stage'), and how many connections wait for accept. *)
(*                                                                         *)
(* Two calls take several steps, between which only the kernel moves:      *)
(* accept(), which may block (`accepting' is the handle it was called on), *)
(* and a constructor whose body may throw after its base class object has  *)
(* taken over a descriptor (`building' is the object under construction).  *)
(***************************************************************************)
EXTENDS FileDescriptor

CONSTANTS
    UDPSockets, TCPSockets, LocalStreamSockets,   \* the handles of each class
    MaxPending                                    \* bound: waiting connections

Sockets == UDPSockets \cup TCPSockets \cup LocalStreamSockets
Plain   == Handles \ Sockets

ASSUME SocketAssumption ==
    /\ Sockets \subseteq Handles /\ Null \notin Handles
    /\ UDPSockets \cap TCPSockets = {}
    /\ LocalStreamSockets \cap (UDPSockets \cup TCPSockets) = {}
    /\ MaxPending \in Nat

Stages == {"fresh", "connected", "listening"}

VARIABLES stage, pending, accepting, building

sockvars == <<stage, pending, accepting, building>>
allvars  == <<vars, sockvars>>

\* The domain and type that the constructors of h's class ask for.
Required(h) ==
    CASE h \in UDPSockets         -> <<"AF_INET", "SOCK_DGRAM">>
      [] h \in TCPSockets         -> <<"AF_INET", "SOCK_STREAM">>
      [] h \in LocalStreamSockets -> <<"AF_UNIX", "SOCK_STREAM">>

\* The file that h's number stands for now.
FileOf(h) == table[fd[internal_fd[h]]]

SocketInit ==
    /\ Init
    /\ stage = [f \in Files |-> "fresh"]
    /\ pending = [f \in Files |-> 0]
    /\ accepting = Null /\ building = Null

-----------------------------------------------------------------------------
(* The kernel.  Bytes come to what is connected, datagrams also to a socket *)
(* that is not.                                                             *)

KernelMoves ==
    /\ \E f \in OpenFiles :
          \/ (stage[f] = "connected" \/ TakesDatagrams(f)) /\ Arrive(f)
          \/ stage[f] = "connected" /\ FarEndCloses(f)
    /\ UNCHANGED sockvars

ConnectionComes(f) ==
    /\ f \in OpenFiles /\ stage[f] = "listening" /\ pending[f] < MaxPending
    /\ pending' = [pending EXCEPT ![f] = @ + 1]
    /\ UNCHANGED <<vars, stage, accepting, building>>

\* The peer gives up before it was accepted.
ConnectionGoes(f) ==
    /\ f \in OpenFiles /\ pending[f] > 0
    /\ pending' = [pending EXCEPT ![f] = @ - 1]
    /\ UNCHANGED <<vars, stage, accepting, building>>

-----------------------------------------------------------------------------
(* Construction *)

\* h gets a wrapper w around the number of a new file f.
Open(h, w, f, s, st) ==
    /\ Construct(h, w, f, s)
    /\ stage' = [stage EXCEPT ![f] = st]

\* Socket(domain, type): socket(2) opens what the class asks for.  (Only
\* UDPSocket and TCPSocket have this constructor.)
OpenSocket(h, w, f) ==
    /\ h \in UDPSockets \cup TCPSockets
    /\ Open(h, w, f, Required(h), "fresh")
    /\ pending' = [pending EXCEPT ![f] = 0]
    /\ UNCHANGED <<accepting, building>>

\* A plain FileDescriptor around a number that came from elsewhere: open(2),
\* socketpair(2).
OpenPlain(h, w, f, s) ==
    /\ h \in Plain
    /\ Open(h, w, f, s, "connected")
    /\ pending' = [pending EXCEPT ![f] = 0]
    /\ UNCHANGED <<accepting, building>>

\* TunFD(): open(2) of the clone device, and the base class object around it.
\* The body asks for the interface.
OpenTun(h, w, f) ==
    /\ h \in Plain
    /\ Open(h, w, f, NotASocket, "fresh")
    /\ pending' = [pending EXCEPT ![f] = 0]
    /\ building' = h
    /\ UNCHANGED accepting

\* Socket(fd, domain, type): the base class object takes the pointer out of d.
\* The body verifies the file.  (TCPSocket's is private to accept().)
Adopt(d, h) ==
    /\ ~Valid(h)
    /\ Move(d, h)
    /\ building' = h
    /\ UNCHANGED <<stage, pending, accepting>>

\* Mutant: the type is not verified.
VerifiedDomain(f, h) == f # Free /\ sort[f][1] = Required(h)[1]

\* getsockopt(2) says that the file has the domain and the type of the class.
Verified(f, h) == f # Free /\ sort[f][1] = Required(h)[1] /\ sort[f][2] = Required(h)[2]

\* The body of Socket(fd, domain, type) ends.
SocketBuilt ==
    /\ building \in Sockets
    /\ Verified(FileOf(building), building)
    /\ building' = Null
    /\ result' = "returned"
    /\ UNCHANGED <<internal_fd, wrapper, kernel, file, clean, stage, pending, accepting>>

\* The body of TunFD() ends: ioctl(2) has attached the interface.
TunBuilt ==
    /\ building \in Plain
    /\ stage' = [stage EXCEPT ![FileOf(building)] = "connected"]
    /\ building' = Null
    /\ result' = "returned"
    /\ UNCHANGED <<internal_fd, wrapper, kernel, file, clean, pending, accepting>>

\* The body throws: the domain or the type is wrong, or getsockopt(2) or
\* ioctl(2) fails, as the kernel may let it.  The base class object is complete
\* and is destroyed.
BodyThrows ==
    /\ building # Null
    /\ Release([internal_fd EXCEPT ![building] = Null])
    /\ building' = Null
    /\ result' = "threw"
    /\ UNCHANGED <<stage, pending, accepting>>

-----------------------------------------------------------------------------
(* Calls on a socket *)

\* bind(), set_reuseaddr(), local_address(), peer_address(): one system call
\* that may fail, and nothing that matters here changes.
Configure(h) ==
    /\ Valid(h) /\ FileOf(h) # Free
    /\ result' \in {"returned", "threw"}
    /\ UNCHANGED <<internal_fd, wrapper, kernel, file, clean, sockvars>>

\* listen() and connect(): one system call that moves the kernel's state of a
\* fresh socket.
Listen(h) ==
    LET f == FileOf(h)
    IN  /\ Valid(h) /\ f # Free /\ stage[f] = "fresh" /\ sort[f][2] = "SOCK_STREAM"
        /\ stage' = [stage EXCEPT ![f] = "listening"]
        /\ result' = "returned"
        /\ UNCHANGED <<internal_fd, wrapper, kernel, file, clean, pending, accepting, building>>

\* A connect(2) that would block throws (EINPROGRESS) although the connection
\* is under way.
Connect(h) ==
    LET f == FileOf(h)
    IN  /\ Valid(h) /\ f # Free /\ stage[f] = "fresh"
        /\ stage' = [stage EXCEPT ![f] = "connected"]
        /\ result' = IF f \in nonblock THEN "threw" ELSE "returned"
        /\ UNCHANGED <<internal_fd, wrapper, kernel, file, clean, pending, accepting, building>>

\* accept(): the read is counted before accept(2) is called.
AcceptCalled(h) ==
    LET w == internal_fd[h]
    IN  /\ Valid(h)
        /\ read_count' = [read_count EXCEPT ![w] = (@ + 1) % CountMod]
        /\ accepting' = h
        /\ UNCHANGED <<internal_fd, fd, eof, closed, write_count, kernel, result,
                       file, clean, stage, pending, building>>

\* accept(2) gives the number of a new file, like the one that listens.  The
\* FileDescriptor made of it is moved into the base class object of g, the
\* TCPSocket that accept() returns, whose body then verifies the file.
AcceptAnswers(g, w, f) ==
    LET l == FileOf(accepting)
    IN  /\ accepting # Null /\ l # Free /\ pending[l] > 0
        /\ Open(g, w, f, sort[l], "connected")
        /\ pending' = [pending EXCEPT ![l] = @ - 1, ![f] = 0]
        /\ accepting' = Null
        /\ building' = g

\* accept(2) fails: nothing waits at a socket that does not block (EAGAIN),
\* the file does not listen or is none (EINVAL, EBADF), every number is
\* taken (EMFILE).
AcceptFails ==
    LET l == FileOf(accepting)
    IN  /\ accepting # Null
        /\ l # Free => \/ stage[l] # "listening"
                       \/ pending[l] = 0 /\ l \in nonblock
                       \/ \A n \in Fds : table[n] # Free
        /\ accepting' = Null
        /\ Throws
        /\ UNCHANGED <<stage, pending, building>>

\* shutdown(): shutdown(2) comes first, and when it fails (an invalid `how'
\* among others, so that the default case is never reached) nothing else
\* happens.  Then each direction that was shut down counts as served.
Shutdown(h, how) ==
    LET w == internal_fd[h]
        f == FileOf(h)
        rd == how \in {"SHUT_RD", "SHUT_RDWR"}
        wr == how \in {"SHUT_WR", "SHUT_RDWR"}
    IN  /\ Valid(h) /\ f # Free /\ stage[f] # "fresh"
        /\ read_count' = [read_count EXCEPT ![w] = IF rd THEN (@ + 1) % CountMod ELSE @]
        /\ write_count' = [write_count EXCEPT ![w] = IF wr THEN (@ + 1) % CountMod ELSE @]
        /\ IF stage[f] = "listening" /\ rd
           THEN /\ stage' = [stage EXCEPT ![f] = "fresh"]
                /\ pending' = [pending EXCEPT ![f] = 0]
                /\ UNCHANGED ended
           ELSE /\ ended' = IF rd THEN ended \cup {f} ELSE ended
                /\ UNCHANGED <<stage, pending>>
        /\ result' = "returned"
        /\ UNCHANGED <<internal_fd, fd, eof, closed, table, data, nonblock, sort,
                       file, clean, accepting, building>>

\* Any call that the kernel refuses: a connection that fails, a shutdown of
\* or a transfer on what is not connected, ...
Refused(h) ==
    /\ Valid(h) /\ FileOf(h) # Free
    /\ Throws
    /\ UNCHANGED sockvars

-----------------------------------------------------------------------------

\* FileDescriptor's own operations.  duplicate() returns a FileDescriptor,
\* whatever it is called on; an object moves to one of its class or to a
\* FileDescriptor.
Inherited(h) ==
    /\ \/ \E g \in Plain : Duplicate(h, g)
       \/ \E g \in Handles : /\ g \in Plain \/ ({h, g} \subseteq Sockets /\ Required(g) = Required(h))
                             /\ Move(h, g)
       \/ Manage(h)
       \/ /\ Valid(h) /\ FileOf(h) # Free
          /\ stage[FileOf(h)] = "connected" \/ TakesDatagrams(FileOf(h))
          /\ Transfer(h)
    /\ UNCHANGED sockvars

SocketCall(h) ==
    \/ \E w \in Wrappers, f \in Files : OpenSocket(h, w, f) \/ OpenTun(h, w, f)
    \/ \E w \in Wrappers, f \in Files, s \in Sorts : OpenPlain(h, w, f, s)
    \/ \E d \in Plain : h \in UDPSockets \cup LocalStreamSockets /\ Adopt(d, h)
    \/ h \in Sockets /\ (Configure(h) \/ Connect(h) \/ Refused(h))
    \/ h \in TCPSockets /\ (Listen(h) \/ AcceptCalled(h))
    \/ \E how \in {"SHUT_RD", "SHUT_WR", "SHUT_RDWR"} : h \in Sockets /\ Shutdown(h, how)
    \/ Inherited(h)

SocketNext ==
    \/ KernelMoves
    \/ \E f \in Files : ConnectionComes(f) \/ ConnectionGoes(f)
    \/ accepting = Null /\ building = Null /\ \E h \in Handles : SocketCall(h)
    \/ \E g \in TCPSockets, w \in Wrappers, f \in Files : AcceptAnswers(g, w, f)
    \/ AcceptFails
    \/ SocketBuilt \/ TunBuilt \/ BodyThrows

SocketSpec == SocketInit /\ [][SocketNext]_allvars

-----------------------------------------------------------------------------

\* FileDescriptor's types, and the kernel's about sockets.  The objects a call
\* or a constructor is at work on have their wrapper all the while.
SocketTypeOK ==
    /\ TypeOK
    /\ stage \in [Files -> Stages]
    /\ pending \in [Files -> 0 .. MaxPending]
    /\ accepting \in {h \in TCPSockets : Valid(h)} \cup {Null}
    /\ building \in {h \in Handles : Valid(h)} \cup {Null}
    /\ accepting = Null \/ building = Null

\* An object of a socket class, once built, owns a socket of the domain and
\* type of its class: nothing else gets past the constructors, accept() and the moves
\* that the classes allow, and nothing else takes the number over.  (As in
\* OwnsItsFile, while no close(2) fails and nobody closes a reused number.)
ClassMatchesFile ==
    clean => \A h \in Sockets \ {building} :
        Valid(h) /\ internal_fd[h] \in Holding => sort[FileOf(h)] = Required(h)
=============================================================================
