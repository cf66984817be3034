---------------------------- MODULE SocketProofs ----------------------------
(* Theorems about Socket, and so about the FileDescriptor under it, for any *)
(* number of objects, files and descriptor numbers.                         *)
EXTENDS Socket, TLAPS

-----------------------------------------------------------------------------
(* The type invariant. *)

\* A counter stays in the range of an unsigned.
LEMMA CountType ==
  ASSUME NEW c \in [Wrappers -> 0 .. CountMod - 1], NEW w, NEW k \in Nat
  PROVE  [c EXCEPT ![w] = (@ + k) % CountMod] \in [Wrappers -> 0 .. CountMod - 1]
<1>1. CountMod \in Nat \ {0}  BY FileDescriptorAssumption
<1>2. \A n \in Nat : n % CountMod \in 0 .. CountMod - 1  BY <1>1
<1>3. \A v \in Wrappers : c[v] + k \in Nat  BY <1>1
<1> QED BY <1>2, <1>3

\* Making an FDWrapper keeps the types.
LEMMA ConstructType ==
  ASSUME TypeOK, NEW h \in Handles, NEW w \in Wrappers, NEW f \in Files, NEW s \in Sorts,
         Construct(h, w, f, s)
  PROVE  TypeOK' /\ Valid(h)'
<1> USE FileDescriptorAssumption
<1>0. PICK n \in Fds : Construct(h, w, f, s)!(n)
  BY DEF Construct
<1>1. internal_fd' \in [Handles -> Wrappers \cup {Null}] /\ fd' \in [Wrappers -> Fds]
  BY <1>0 DEF TypeOK
<1>2. Alive' = Alive \cup {w}
  BY <1>0 DEF TypeOK, Alive, Referenced, Valid
<1>3. eof' \subseteq Alive' /\ closed' \subseteq eof'
  BY <1>0, <1>2 DEF TypeOK
<1>4. /\ read_count' \in [Wrappers -> 0 .. CountMod - 1]
      /\ write_count' \in [Wrappers -> 0 .. CountMod - 1]
  BY <1>0 DEF TypeOK
<1>5. /\ table' \in [Fds -> Files \cup {Free}] /\ data' \in [Files -> 0 .. MaxData]
      /\ ended' \subseteq Files /\ nonblock' \subseteq Files
      /\ sort' \in [Files -> Sorts] /\ file' \in [Wrappers -> Files \cup {Free}]
  BY <1>0 DEF TypeOK
<1>6. clean' \in BOOLEAN /\ result' = "returned"  BY <1>0, Zenon DEF TypeOK
<1>7. TypeOK'  BY <1>1, <1>3, <1>4, <1>5, <1>6, Zenon DEF TypeOK
<1> QED BY <1>0, <1>7 DEF TypeOK, Valid

\* Release(g) when g keeps no wrapper alive that was not.
LEMMA ReleaseType ==
  ASSUME TypeOK, NEW g \in [Handles -> Wrappers \cup {Null}], Referenced(g) \subseteq Alive,
         Release(g), result' \in {"returned", "threw"}
  PROVE  TypeOK'
<1>1. Alive' = Referenced(g)  BY DEF Release, Alive
<1>2. eof' \subseteq Alive' /\ closed' \subseteq eof'
  BY <1>1 DEF TypeOK, Release
<1>3. table' \in [Fds -> Files \cup {Free}]  BY DEF TypeOK, Release
<1> QED BY <1>2, <1>3 DEF TypeOK, Release

\* Taking handles away, or letting one take over from another, keeps no other
\* wrapper alive.
LEMMA FewerReferenced ==
  ASSUME TypeOK, NEW h \in Handles, NEW g \in Handles
  PROVE  LET none == [internal_fd EXCEPT ![h] = Null]
             moved == [internal_fd EXCEPT ![g] = internal_fd[h], ![h] = Null]
         IN  /\ none \in [Handles -> Wrappers \cup {Null}]
             /\ Referenced(none) \subseteq Alive
             /\ moved \in [Handles -> Wrappers \cup {Null}]
             /\ Referenced(moved) \subseteq Alive
BY FileDescriptorAssumption DEF TypeOK, Referenced, Alive

\* Moving a FileDescriptor keeps the types.
LEMMA MoveType ==
  ASSUME TypeOK, NEW h \in Handles, NEW g \in Handles, Move(h, g)
  PROVE  TypeOK'
BY FewerReferenced, ReleaseType DEF Move

\* Destroying a FileDescriptor keeps the types.
LEMMA DestroyType ==
  ASSUME TypeOK, NEW h \in Handles, Destroy(h)
  PROVE  TypeOK'
BY FewerReferenced, ReleaseType DEF Destroy

\* Nothing but the counters, the kernel's bytes and flags, and the result.
LEMMA QuietType ==
  ASSUME TypeOK, UNCHANGED <<internal_fd, fd, eof, closed, table, sort, file, clean>>,
         read_count' \in [Wrappers -> 0 .. CountMod - 1],
         write_count' \in [Wrappers -> 0 .. CountMod - 1],
         data' \in [Files -> 0 .. MaxData], ended' \subseteq Files, nonblock' \subseteq Files,
         result' \in {"returned", "threw"}
  PROVE  TypeOK'
BY DEF TypeOK, Alive

\* An operation that throws keeps the types.
LEMMA ThrowsType ==
  ASSUME TypeOK, Throws
  PROVE  TypeOK'
<1>1. UNCHANGED <<internal_fd, wrapper, kernel, file, clean>> /\ result' = "threw"
  BY DEF Throws
<1> QED BY <1>1, QuietType DEF TypeOK, wrapper, kernel

\* Destroying, close() and set_blocking() keep the types.
LEMMA ManageType ==
  ASSUME TypeOK, NEW h \in Handles, Manage(h)
  PROVE  TypeOK'
<1> DEFINE w == internal_fd[h]
<1>0. Valid(h) => w \in Wrappers /\ w \in Alive
  BY DEF TypeOK, Valid, Alive, Referenced
<1>1. CASE Destroy(h)  BY <1>1, DestroyType
<1>2. CASE CloseSucceeds(h)
  <2>1. /\ Valid(h) /\ table' = [table EXCEPT ![fd[w]] = Free]
        /\ closed' = closed \cup {w} /\ eof' = eof \cup {w} /\ result' = "returned"
        /\ UNCHANGED <<internal_fd, fd, read_count, write_count, data, ended, nonblock, sort, file>>
    BY <1>2 DEF CloseSucceeds, FlagClosed
  <2>2. clean' \in BOOLEAN  BY <1>2, Zenon DEF CloseSucceeds
  <2>3. Alive' = Alive  BY <2>1 DEF Alive
  <2>4. eof' \subseteq Alive' /\ closed' \subseteq eof'
    BY <1>0, <2>1, <2>3 DEF TypeOK
  <2>5. table' \in [Fds -> Files \cup {Free}]  BY <2>1 DEF TypeOK
  <2> QED BY <2>1, <2>2, <2>4, <2>5 DEF TypeOK
<1>3. CASE CloseFails(h)
  <2>1. /\ table' = [table EXCEPT ![fd[w]] = Free]
        /\ clean' = FALSE /\ result' = "threw"
        /\ UNCHANGED <<internal_fd, fd, eof, closed, read_count, write_count, data, ended,
                       nonblock, sort, file>>
    BY <1>3 DEF CloseFails, wrapper
  <2>2. Alive' = Alive  BY <2>1 DEF Alive
  <2>3. table' \in [Fds -> Files \cup {Free}]  BY <2>1 DEF TypeOK
  <2> QED BY <2>1, <2>2, <2>3 DEF TypeOK
<1>4. CASE BadNumber(h)  BY <1>4, ThrowsType DEF BadNumber
<1>5. CASE \E b \in BOOLEAN : SetBlocking(h, b)
  <2>1. PICK b \in BOOLEAN : SetBlocking(h, b)  BY <1>5
  <2>2. table[fd[w]] \in Files  BY <1>0, <2>1 DEF SetBlocking, TypeOK
  <2>3. nonblock' \subseteq Files /\ result' = "returned"
    BY <2>1, <2>2 DEF SetBlocking, TypeOK
  <2>4. UNCHANGED <<internal_fd, fd, eof, closed, read_count, write_count, table, data,
                    ended, sort, file, clean>>
    BY <2>1 DEF SetBlocking, wrapper
  <2> QED BY <2>3, <2>4, QuietType DEF TypeOK
<1> QED BY <1>1, <1>2, <1>3, <1>4, <1>5 DEF Manage

\* read() and write() keep the types.
LEMMA TransferType ==
  ASSUME TypeOK, NEW h \in Handles, Transfer(h)
  PROVE  TypeOK'
<1> USE FileDescriptorAssumption
<1> DEFINE w == internal_fd[h]
           f == table[fd[w]]
<1>0. Valid(h) => w \in Wrappers /\ w \in Alive
  BY DEF TypeOK, Valid, Alive, Referenced
<1>1. ASSUME NEW limit \in Limits, Read(h, limit)  PROVE TypeOK'
  <2> DEFINE size_to_read == Smaller(BUFFER_SIZE, limit)
  <2>0. Valid(h) /\ f \in Files  BY <1>0, <1>1 DEF Read, TypeOK
  <2>1. PICK bytes_read \in 0 .. size_to_read, taken \in 0 .. data[f] :
          /\ data' = [data EXCEPT ![f] = @ - taken]
          /\ eof' = IF AtEnd(limit, bytes_read) THEN eof \cup {w} ELSE eof
    BY <1>1 DEF Read
  <2>2. data[f] \in 0 .. MaxData  BY <2>0 DEF TypeOK
  <2>3. data[f] - taken \in 0 .. MaxData  BY <2>2
  <2>4. data' \in [Files -> 0 .. MaxData]  BY <2>1, <2>3 DEF TypeOK
  <2>5. /\ read_count' = [read_count EXCEPT ![w] = (@ + 1) % CountMod]
        /\ result' = "returned"
        /\ UNCHANGED <<internal_fd, fd, closed, write_count, table, ended, nonblock, sort, file,
                       clean>>
    BY <1>1 DEF Read
  <2>6. read_count' \in [Wrappers -> 0 .. CountMod - 1]
    BY <2>5, CountType DEF TypeOK
  <2>7. Alive' = Alive  BY <2>5 DEF Alive
  <2>8. eof' \subseteq Alive' /\ closed' \subseteq eof'
    BY <1>0, <2>0, <2>1, <2>5, <2>7 DEF TypeOK
  <2> QED BY <2>4, <2>5, <2>6, <2>8 DEF TypeOK
<1>2. ASSUME NEW limit \in Limits, ReadFails(h, limit)  PROVE TypeOK'
  BY <1>2, ThrowsType DEF ReadFails
<1>3. ASSUME NEW turns \in 0 .. MaxTurns, Write(h, turns)  PROVE TypeOK'
  <2>1. /\ write_count' = [write_count EXCEPT ![w] = (@ + turns) % CountMod]
        /\ result' \in {"returned", "threw"}
        /\ UNCHANGED <<internal_fd, fd, eof, closed, read_count, table, data, ended, nonblock,
                       sort, file, clean>>
    BY <1>3 DEF Write, kernel
  <2>2. turns \in Nat  OBVIOUS
  <2>3. write_count' \in [Wrappers -> 0 .. CountMod - 1]
    BY <2>1, <2>2, CountType DEF TypeOK
  <2> QED BY <2>1, <2>3, QuietType DEF TypeOK
<1> QED BY <1>1, <1>2, <1>3 DEF Transfer

\* The kernel's state of sockets, and the objects that calls are at work on.
KernelTypes == stage \in [Files -> Stages] /\ pending \in [Files -> 0 .. MaxPending]

AtWork ==
    /\ accepting \in {h \in TCPSockets : Valid(h)} \cup {Null}
    /\ building \in {h \in Handles : Valid(h)} \cup {Null}
    /\ accepting = Null \/ building = Null

\* Every step of SocketNext, by what it does to the FileDescriptor underneath.
\* Open, Adopt, accept() and a body that throws come down to Construct, Move
\* and Release.
LEMMA TypeInductive ==
  ASSUME SocketTypeOK, [SocketNext]_allvars
  PROVE  SocketTypeOK'
<1> USE FileDescriptorAssumption, SocketAssumption
<1>0. TypeOK /\ KernelTypes /\ AtWork  BY DEF SocketTypeOK, KernelTypes, AtWork
<1>f. \A h \in Handles : Valid(h) => /\ internal_fd[h] \in Wrappers
                                   /\ FileOf(h) \in Files \cup {Free}
  BY <1>0 DEF TypeOK, Valid, FileOf
<1>o. OpenFiles \subseteq Files  BY <1>0 DEF TypeOK, OpenFiles
<1>q. SUFFICES TypeOK' /\ KernelTypes' /\ AtWork'  BY DEF SocketTypeOK, KernelTypes, AtWork
<1>k. UNCHANGED <<stage, pending>> => KernelTypes'  BY <1>0 DEF KernelTypes
<1>w. UNCHANGED <<internal_fd, accepting, building>> => AtWork'
  BY <1>0 DEF AtWork, Valid
<1>n. accepting = Null /\ building = Null /\ UNCHANGED <<accepting, building>> => AtWork'
  BY DEF AtWork
<1>u. UNCHANGED <<internal_fd, sockvars>> => KernelTypes' /\ AtWork'
  BY <1>k, <1>w DEF sockvars
<1>1. CASE UNCHANGED allvars
  <2>1. UNCHANGED <<internal_fd, fd, eof, closed, read_count, write_count, table, data, ended,
                    nonblock, sort, result, file, clean>> /\ UNCHANGED sockvars
    BY <1>1 DEF allvars, vars, wrapper, kernel
  <2> QED BY <1>0, <1>u, <2>1, QuietType DEF TypeOK
<1>2. CASE KernelMoves
  <2>1. PICK f \in OpenFiles : Arrive(f) \/ FarEndCloses(f)
    BY <1>2 DEF KernelMoves
  <2>2. f \in Files  BY <1>o
  <2>3. data' \in [Files -> 0 .. MaxData] /\ ended' \subseteq Files
    BY <1>0, <2>1, <2>2 DEF Arrive, FarEndCloses, TypeOK
  <2>4. UNCHANGED <<internal_fd, fd, eof, closed, read_count, write_count, table, nonblock,
                    sort, result, file, clean>>
    BY <2>1 DEF Arrive, FarEndCloses, wrapper
  <2>5. TypeOK'  BY <1>0, <2>3, <2>4, QuietType DEF TypeOK
  <2> QED BY <1>2, <1>u, <2>4, <2>5 DEF KernelMoves
<1>3. ASSUME NEW f \in Files, ConnectionComes(f) \/ ConnectionGoes(f)
      PROVE  TypeOK' /\ KernelTypes' /\ AtWork'
  <2>1. UNCHANGED <<internal_fd, fd, eof, closed, read_count, write_count, table, data, ended,
                    nonblock, sort, result, file, clean, stage, accepting, building>>
    BY <1>3 DEF ConnectionComes, ConnectionGoes, vars, wrapper, kernel
  <2>2. TypeOK'  BY <1>0, <2>1, QuietType DEF TypeOK
  <2>3. KernelTypes'  BY <1>0, <1>3, <2>1 DEF ConnectionComes, ConnectionGoes, KernelTypes
  <2> QED BY <1>w, <2>1, <2>2, <2>3
<1>5. ASSUME NEW h \in Handles, SocketCall(h), accepting = Null, building = Null
      PROVE  TypeOK' /\ KernelTypes' /\ AtWork'
  <2>1. ASSUME NEW w \in Wrappers, NEW f \in Files, OpenSocket(h, w, f)
        PROVE  TypeOK' /\ KernelTypes' /\ AtWork'
    <3>1. Required(h) \in Sorts  BY <2>1 DEF OpenSocket, Required, Sorts
    <3>2. TypeOK'  BY <1>0, <2>1, <3>1, ConstructType DEF OpenSocket, Open
    <3>3. KernelTypes'  BY <1>0, <2>1 DEF OpenSocket, Open, Stages, KernelTypes
    <3> QED BY <1>5, <1>n, <2>1, <3>2, <3>3 DEF OpenSocket
  <2>2. ASSUME NEW w \in Wrappers, NEW f \in Files, NEW s \in Sorts, OpenPlain(h, w, f, s)
        PROVE  TypeOK' /\ KernelTypes' /\ AtWork'
    <3>1. TypeOK'  BY <1>0, <2>2, ConstructType DEF OpenPlain, Open
    <3>2. KernelTypes'  BY <1>0, <2>2 DEF OpenPlain, Open, Stages, KernelTypes
    <3> QED BY <1>5, <1>n, <2>2, <3>1, <3>2 DEF OpenPlain
  <2>t. ASSUME NEW w \in Wrappers, NEW f \in Files, OpenTun(h, w, f)
        PROVE  TypeOK' /\ KernelTypes' /\ AtWork'
    <3>1. NotASocket \in Sorts  BY DEF Sorts
    <3>2. TypeOK' /\ Valid(h)'  BY <1>0, <2>t, <3>1, ConstructType DEF OpenTun, Open
    <3>3. KernelTypes'  BY <1>0, <2>t DEF OpenTun, Open, Stages, KernelTypes
    <3>4. building' = h /\ accepting' = Null  BY <1>5, <2>t DEF OpenTun
    <3> QED BY <3>2, <3>3, <3>4 DEF AtWork
  <2>3. ASSUME NEW d \in Plain, Adopt(d, h)  PROVE TypeOK' /\ KernelTypes' /\ AtWork'
    <3>0. d \in Handles  BY DEF Plain
    <3>1. TypeOK'  BY <1>0, <2>3, <3>0, MoveType DEF Adopt
    <3>2. KernelTypes'  BY <1>k, <2>3 DEF Adopt
    <3>3. internal_fd' = [internal_fd EXCEPT ![h] = internal_fd[d], ![d] = Null]
          /\ d # h /\ internal_fd[d] # Null
      BY <2>3 DEF Adopt, Move, Release, Valid
    <3>4. Valid(h)'  BY <1>0, <3>0, <3>3 DEF TypeOK, Valid
    <3>5. building' = h /\ accepting' = Null  BY <1>5, <2>3 DEF Adopt
    <3> QED BY <3>1, <3>2, <3>4, <3>5 DEF AtWork
  <2>4. CASE Configure(h)
    <3>1. UNCHANGED <<internal_fd, fd, eof, closed, read_count, write_count, table, data, ended,
                      nonblock, sort, file, clean>> /\ UNCHANGED sockvars
      BY <2>4 DEF Configure, wrapper, kernel
    <3>2. result' \in {"returned", "threw"}  BY <2>4 DEF Configure
    <3> QED BY <1>0, <1>u, <3>1, <3>2, QuietType DEF TypeOK
  <2>5. CASE Connect(h) \/ Listen(h)
    <3>1. UNCHANGED <<internal_fd, fd, eof, closed, read_count, write_count, table, data, ended,
                      nonblock, sort, file, clean, pending, accepting, building>>
      BY <2>5 DEF Connect, Listen, wrapper, kernel
    <3>2. result' \in {"returned", "threw"}  BY <2>5 DEF Connect, Listen
    <3>3. KernelTypes'  BY <1>0, <2>5, <3>1 DEF Connect, Listen, Stages, KernelTypes
    <3> QED BY <1>0, <1>w, <3>1, <3>2, <3>3, QuietType DEF TypeOK
  <2>6. CASE Refused(h)
    <3>1. UNCHANGED internal_fd  BY <2>6 DEF Refused, Throws
    <3> QED BY <1>0, <1>u, <2>6, <3>1, ThrowsType DEF Refused
  <2>7. CASE h \in TCPSockets /\ AcceptCalled(h)
    <3>1. /\ read_count' = [read_count EXCEPT ![internal_fd[h]] = (@ + 1) % CountMod]
          /\ UNCHANGED <<internal_fd, fd, eof, closed, write_count, table, data, ended,
                         nonblock, sort, result, file, clean>>
      BY <2>7 DEF AcceptCalled, kernel
    <3>2. read_count' \in [Wrappers -> 0 .. CountMod - 1]
      BY <1>0, <3>1, CountType DEF TypeOK
    <3>3. TypeOK'  BY <1>0, <3>1, <3>2, QuietType DEF TypeOK
    <3>4. KernelTypes'  BY <1>k, <2>7 DEF AcceptCalled
    <3>5. accepting' = h /\ building' = Null /\ Valid(h)  BY <1>5, <2>7 DEF AcceptCalled
    <3>6. Valid(h)'  BY <3>1, <3>5 DEF Valid
    <3> QED BY <2>7, <3>3, <3>4, <3>5, <3>6 DEF AtWork
  <2>8. ASSUME NEW how \in {"SHUT_RD", "SHUT_WR", "SHUT_RDWR"}, Shutdown(h, how)
        PROVE  TypeOK' /\ KernelTypes' /\ AtWork'
    <3> DEFINE f == FileOf(h)
               rd == how \in {"SHUT_RD", "SHUT_RDWR"}
               wr == how \in {"SHUT_WR", "SHUT_RDWR"}
               w == internal_fd[h]
    <3>1. f \in Files  BY <1>f, <2>8 DEF Shutdown
    <3>2. /\ read_count' = [read_count EXCEPT ![w] = IF rd THEN (@ + 1) % CountMod ELSE @]
          /\ write_count' = [write_count EXCEPT ![w] = IF wr THEN (@ + 1) % CountMod ELSE @]
          /\ result' = "returned"
          /\ UNCHANGED <<internal_fd, fd, eof, closed, table, data, nonblock, sort, file, clean,
                         accepting, building>>
      BY <2>8 DEF Shutdown
    <3>3. /\ [read_count EXCEPT ![w] = (@ + 1) % CountMod] \in [Wrappers -> 0 .. CountMod - 1]
          /\ [write_count EXCEPT ![w] = (@ + 1) % CountMod] \in [Wrappers -> 0 .. CountMod - 1]
      BY <1>0, CountType DEF TypeOK
    <3>4. /\ read_count' \in [Wrappers -> 0 .. CountMod - 1]
          /\ write_count' \in [Wrappers -> 0 .. CountMod - 1]
      <4> HIDE DEF rd, wr
      <4> QED BY <1>0, <3>2, <3>3 DEF TypeOK
    <3>5. ended' \subseteq Files /\ KernelTypes'
      BY <1>0, <2>8, <3>1 DEF Shutdown, Stages, TypeOK, KernelTypes
    <3>6. TypeOK'  BY <1>0, <3>2, <3>4, <3>5, QuietType DEF TypeOK
    <3> QED BY <1>w, <3>2, <3>5, <3>6
  <2>9. CASE Inherited(h)
    <3>1. KernelTypes' /\ AtWork'  BY <1>5, <1>k, <1>n, <2>9 DEF Inherited, sockvars
    <3>2. ASSUME NEW g \in Plain, Duplicate(h, g)  PROVE TypeOK'
      <4>1. g \in Handles  BY DEF Plain
      <4>2. /\ internal_fd' = [internal_fd EXCEPT ![g] = internal_fd[h]] /\ result' = "returned"
            /\ ~Valid(g)
            /\ UNCHANGED <<fd, eof, closed, read_count, write_count, table, data, ended,
                           nonblock, sort, file, clean>>
        BY <3>2 DEF Duplicate, wrapper, kernel
      <4>3. internal_fd' \in [Handles -> Wrappers \cup {Null}]  BY <1>0, <4>1, <4>2 DEF TypeOK
      <4>4. Alive \subseteq Alive'
        BY <1>0, <4>1, <4>2 DEF Alive, Referenced, TypeOK, Valid
      <4> QED BY <1>0, <4>2, <4>3, <4>4 DEF TypeOK
    <3>3. ASSUME NEW g \in Handles, Move(h, g)  PROVE TypeOK'
      BY <1>0, <3>3, MoveType
    <3> QED BY <1>0, <2>9, <3>1, <3>2, <3>3, ManageType, TransferType DEF Inherited
  <2> QED BY <1>5, <2>1, <2>2, <2>t, <2>3, <2>4, <2>5, <2>6, <2>7, <2>8, <2>9 DEF SocketCall
<1>6. ASSUME NEW g \in TCPSockets, NEW w \in Wrappers, NEW f \in Files, AcceptAnswers(g, w, f)
      PROVE  TypeOK' /\ KernelTypes' /\ AtWork'
  <2> DEFINE l == FileOf(accepting)
  <2>0. g \in Handles  BY DEF Sockets
  <2>1. accepting \in Handles /\ Valid(accepting) /\ l # Free
    BY <1>0, <1>6 DEF AtWork, Sockets, AcceptAnswers
  <2>2. l \in Files  BY <1>f, <2>1
  <2>3. sort[l] \in Sorts  BY <1>0, <2>2 DEF TypeOK
  <2>4. Construct(g, w, f, sort[l]) /\ stage' = [stage EXCEPT ![f] = "connected"]
    BY <1>6 DEF AcceptAnswers, Open
  <2>5. TypeOK' /\ Valid(g)'  BY <1>0, <2>0, <2>3, <2>4, ConstructType
  <2>6. pending' = [pending EXCEPT ![l] = @ - 1, ![f] = 0] /\ accepting' = Null
        /\ building' = g /\ pending[l] > 0
    BY <1>6 DEF AcceptAnswers
  <2>7. KernelTypes'  BY <1>0, <2>2, <2>4, <2>6 DEF KernelTypes, Stages
  <2>8. AtWork'  BY <2>0, <2>5, <2>6 DEF AtWork
  <2> QED BY <2>5, <2>7, <2>8
<1>7. CASE AcceptFails
  <2>1. UNCHANGED <<internal_fd, stage, pending, building>> /\ accepting' = Null
    BY <1>7 DEF AcceptFails, Throws
  <2>2. AtWork'  BY <1>0, <2>1 DEF AtWork, Valid
  <2> QED BY <1>0, <1>7, <1>k, <2>1, <2>2, ThrowsType DEF AcceptFails
<1>8. CASE SocketBuilt \/ TunBuilt
  <2>1. /\ UNCHANGED <<internal_fd, fd, eof, closed, read_count, write_count, table, data, ended,
                       nonblock, sort, file, clean, pending, accepting>>
        /\ building' = Null /\ result' = "returned"
    BY <1>8 DEF SocketBuilt, TunBuilt, wrapper, kernel
  <2>2. TypeOK'  BY <1>0, <2>1, QuietType DEF TypeOK
  <2>3. AtWork'  BY <1>0, <2>1 DEF AtWork, Valid
  <2>4. KernelTypes'  BY <1>0, <1>8, <2>1 DEF KernelTypes, SocketBuilt, TunBuilt, Stages
  <2> QED BY <2>2, <2>3, <2>4
<1>9. CASE BodyThrows
  <2>1. building \in Handles /\ Valid(building)  BY <1>0, <1>9 DEF BodyThrows, AtWork
  <2>2. /\ Release([internal_fd EXCEPT ![building] = Null]) /\ result' = "threw"
        /\ UNCHANGED <<stage, pending, accepting>> /\ building' = Null
    BY <1>9 DEF BodyThrows
  <2>3. TypeOK'  BY <1>0, <2>1, <2>2, FewerReferenced, ReleaseType
  <2>4. accepting = Null  BY <1>0, <1>9 DEF BodyThrows, AtWork
  <2> QED BY <1>k, <2>2, <2>3, <2>4 DEF AtWork
<1> QED BY <1>1, <1>2, <1>3, <1>5, <1>6, <1>7, <1>8, <1>9 DEF SocketNext

\* However objects are opened, adopted, accepted, moved and destroyed, the
\* members keep their types, and a closed wrapper is always at EOF, also when
\* close() acts on a number that has been reused.
THEOREM TypeCorrect == SocketSpec => []SocketTypeOK
<1>1. SocketInit => SocketTypeOK
  BY FileDescriptorAssumption, SocketAssumption
  DEF SocketInit, Init, SocketTypeOK, TypeOK, Alive, Referenced, Fds, Sorts, Stages
<1> QED BY <1>1, TypeInductive, PTL DEF SocketSpec

-----------------------------------------------------------------------------
(* Ownership.  OwnsItsFile and NoLeak are not inductive: a destructor that   *)
(* closes one wrapper's number must not free another's, so no two wrappers   *)
(* that hold a number may hold the same one.                                 *)

Owned ==
    clean => /\ \A w \in Holding : file[w] \in Files /\ table[fd[w]] = file[w]
             /\ \A v, w \in Holding : fd[v] = fd[w] => v = w

\* An object that ceases to be under construction owns a file of its class.
Checked == \A h \in Sockets : h = building /\ h # building' => sort[FileOf(h)] = Required(h)

\* What a step can do to handles, numbers, flags and the kernel's files.
Kept == UNCHANGED <<internal_fd, fd, closed, table, file, clean, sort>> /\ Checked

Quiet ==
    /\ Kept /\ UNCHANGED eof
    /\ \A f \in ended : /\ f \in ended'
                        /\ ~TakesDatagrams(f) /\ data[f] = 0 => data'[f] = 0

Reading == Kept /\ \E h \in Handles, limit \in Limits : Read(h, limit)

Shared == \E h \in Handles, g \in Plain : Duplicate(h, g) /\ UNCHANGED building

\* A socket that points to a wrapper and is not under construction has it from
\* a socket of its class, itself included, that was not either.
Fits(p) == \A h \in Sockets : h # building' /\ p[h] # Null =>
    \E k \in Sockets : k # building /\ Required(k) = Required(h) /\ internal_fd[k] = p[h]

Released == \E p \in [Handles -> Wrappers \cup {Null}] :
    Referenced(p) \subseteq Alive /\ Fits(p) /\ Release(p)

Made == \E h \in Handles, w \in Wrappers, f \in Files, s \in Sorts :
    /\ Construct(h, w, f, s) /\ building = Null
    /\ h \in Sockets /\ h # building' => s = Required(h)

Closing == \E h \in Handles : (CloseSucceeds(h) \/ CloseFails(h)) /\ UNCHANGED building

\* A pointer that is passed on within a class, to a plain FileDescriptor, or to
\* an object whose constructor has still to verify the file.
LEMMA PointersFit ==
  ASSUME TypeOK, NEW h \in Handles, NEW g \in Handles, h # g, building = Null,
         \/ g \in Plain
         \/ h \in Sockets /\ g \in Sockets /\ Required(g) = Required(h)
         \/ building' = g
  PROVE  Fits([internal_fd EXCEPT ![g] = internal_fd[h], ![h] = Null])
<1>1. Sockets \subseteq Handles /\ Null \notin Sockets  BY SocketAssumption
<1> QED BY <1>1 DEF Fits, TypeOK, Plain

\* Dropping a handle leaves the others fitting their sockets.
LEMMA FewerFit ==
  ASSUME TypeOK, NEW h \in Handles, building = Null \/ building = h
  PROVE  Fits([internal_fd EXCEPT ![h] = Null])
<1>1. Sockets \subseteq Handles /\ Null \notin Sockets  BY SocketAssumption
<1> QED BY <1>1 DEF Fits, TypeOK

\* Every step is of one of these kinds.  Opening, adopting, accepting, moving,
\* destroying and throwing from a constructor come down to Made and Released.
LEMMA Steps ==
  ASSUME SocketTypeOK, [SocketNext]_allvars
  PROVE  Quiet \/ Reading \/ Shared \/ Released \/ Made \/ Closing
<1>0. TypeOK  BY DEF SocketTypeOK
<1>b. UNCHANGED building \/ building = Null => Checked
  BY SocketAssumption DEF Checked
<1>k. ASSUME UNCHANGED <<internal_fd, fd, closed, table, file, clean, sort, eof, data, ended>>,
             Checked
      PROVE  Quiet
  BY <1>k DEF Quiet, Kept
<1>t. ASSUME Throws, UNCHANGED building  PROVE Quiet
  BY <1>t, <1>b, <1>k DEF Throws, wrapper, kernel
<1>1. CASE UNCHANGED allvars
  BY <1>1, <1>b, <1>k DEF allvars, vars, wrapper, kernel, sockvars
<1>2. CASE KernelMoves
  <2>1. PICK f \in OpenFiles : Arrive(f) \/ FarEndCloses(f)  BY <1>2 DEF KernelMoves
  <2>2. Kept /\ UNCHANGED eof
    BY <1>2, <1>b, <2>1 DEF KernelMoves, Arrive, FarEndCloses, wrapper, Kept, sockvars
  <2>3. CASE Arrive(f)
    <3>1. ended \subseteq Files /\ data \in [Files -> 0 .. MaxData]  BY <1>0 DEF TypeOK
    <3> QED BY <2>2, <2>3, <3>1 DEF Arrive, Quiet
  <2>4. CASE FarEndCloses(f)  BY <2>2, <2>4 DEF FarEndCloses, Quiet
  <2> QED BY <2>1, <2>3, <2>4
<1>3. CASE \E f \in Files : ConnectionComes(f) \/ ConnectionGoes(f)
  BY <1>3, <1>b, <1>k DEF ConnectionComes, ConnectionGoes, vars, wrapper, kernel
<1>4. CASE AcceptFails  BY <1>4, <1>t DEF AcceptFails
<1>5. ASSUME NEW h \in Handles, SocketCall(h), building = Null
      PROVE  Quiet \/ Reading \/ Shared \/ Released \/ Made \/ Closing
  <2>1. ASSUME NEW w \in Wrappers, NEW f \in Files, OpenSocket(h, w, f)  PROVE Made
    <3>1. Required(h) \in Sorts  BY <2>1 DEF OpenSocket, Required, Sorts
    <3> QED BY <1>5, <2>1, <3>1 DEF OpenSocket, Open, Made
  <2>2. CASE \E w \in Wrappers, f \in Files, s \in Sorts : OpenPlain(h, w, f, s)
    BY <1>5, <2>2 DEF OpenPlain, Open, Made, Plain
  <2>t. CASE \E w \in Wrappers, f \in Files : OpenTun(h, w, f)
    <3>1. NotASocket \in Sorts  BY DEF Sorts
    <3> QED BY <1>5, <2>t, <3>1 DEF OpenTun, Open, Made, Plain
  <2>3. ASSUME NEW d \in Plain, Adopt(d, h)  PROVE Released
    <3>1. d \in Handles /\ d # h /\ building' = h
      BY <2>3 DEF Plain, Adopt, Move
    <3>2. Release([internal_fd EXCEPT ![h] = internal_fd[d], ![d] = Null])
      BY <2>3 DEF Adopt, Move
    <3> QED BY <1>0, <1>5, <3>1, <3>2, FewerReferenced, PointersFit DEF Released
  <2>4. CASE Configure(h) \/ Connect(h) \/ Refused(h) \/ Listen(h) \/ AcceptCalled(h)
    BY <1>5, <1>b, <1>k, <1>t, <2>4
    DEF Configure, Connect, Refused, Listen, AcceptCalled, wrapper, kernel, sockvars
  <2>5. ASSUME NEW how \in {"SHUT_RD", "SHUT_WR", "SHUT_RDWR"}, Shutdown(h, how)
        PROVE  Quiet
    <3>1. Kept /\ UNCHANGED <<eof, data>>  BY <1>5, <1>b, <2>5 DEF Shutdown, Kept
    <3>2. ended \subseteq ended'  BY <2>5 DEF Shutdown
    <3> QED BY <3>1, <3>2 DEF Quiet
  <2>6. CASE Inherited(h)
    <3>0. UNCHANGED building /\ Checked  BY <1>b, <2>6 DEF Inherited, sockvars
    <3>1. ASSUME NEW g \in Plain, Duplicate(h, g)  PROVE Shared
      BY <3>0, <3>1 DEF Shared
    <3>2. ASSUME NEW g \in Handles, Move(h, g),
                 g \in Plain \/ ({h, g} \subseteq Sockets /\ Required(g) = Required(h))
          PROVE  Released
      BY <1>0, <1>5, <3>2, FewerReferenced, PointersFit DEF Move, Released
    <3>3. CASE Manage(h)
      <4>1. CASE Destroy(h)
        BY <1>0, <1>5, <4>1, FewerReferenced, FewerFit DEF Destroy, Released
      <4>2. CASE CloseSucceeds(h) \/ CloseFails(h)  BY <3>0, <4>2 DEF Closing
      <4>3. CASE BadNumber(h)  BY <1>t, <3>0, <4>3 DEF BadNumber
      <4>4. CASE \E b \in BOOLEAN : SetBlocking(h, b)
        BY <1>k, <3>0, <4>4 DEF SetBlocking, wrapper
      <4> QED BY <3>3, <4>1, <4>2, <4>3, <4>4 DEF Manage
    <3>4. CASE Transfer(h)
      <4>1. ASSUME NEW limit \in Limits, Read(h, limit)  PROVE Reading
        <5>1. Kept  BY <3>0, <4>1 DEF Read, Kept
        <5> QED BY <4>1, <5>1 DEF Reading
      <4>2. ASSUME NEW limit \in Limits, ReadFails(h, limit)  PROVE Quiet
        BY <1>t, <3>0, <4>2 DEF ReadFails
      <4>3. ASSUME NEW turns \in 0 .. MaxTurns, Write(h, turns)  PROVE Quiet
        BY <1>k, <3>0, <4>3 DEF Write, kernel
      <4> QED BY <3>4, <4>1, <4>2, <4>3 DEF Transfer
    <3> QED BY <2>6, <3>1, <3>2, <3>3, <3>4 DEF Inherited
  <2> QED BY <1>5, <2>1, <2>2, <2>t, <2>3, <2>4, <2>5, <2>6 DEF SocketCall
<1>6. ASSUME NEW g \in TCPSockets, NEW w \in Wrappers, NEW f \in Files, AcceptAnswers(g, w, f)
      PROVE  Made
  <2> DEFINE l == FileOf(accepting)
  <2>1. g \in Handles  BY SocketAssumption DEF Sockets
  <2>2. accepting \in Handles /\ Valid(accepting) /\ l # Free /\ building = Null
    BY <1>6, SocketAssumption DEF SocketTypeOK, Sockets, AcceptAnswers
  <2>3. sort[l] \in Sorts  BY <1>0, <2>2 DEF TypeOK, FileOf, Valid
  <2>4. Construct(g, w, f, sort[l]) /\ building' = g  BY <1>6 DEF AcceptAnswers, Open
  <2> QED BY <2>1, <2>2, <2>3, <2>4 DEF Made
<1>7. CASE SocketBuilt \/ TunBuilt
  <2>1. UNCHANGED <<internal_fd, fd, closed, table, file, clean, sort, eof, data, ended>>
    BY <1>7 DEF SocketBuilt, TunBuilt, wrapper, kernel
  <2>2. CASE SocketBuilt
    <3> DEFINE f == FileOf(building)
    <3>1. building \in Sockets /\ building \in Handles /\ Valid(building) /\ Verified(f, building)
      BY <2>2, SocketAssumption DEF SocketBuilt, SocketTypeOK
    <3>2. f \in Files  BY <1>0, <3>1 DEF Verified, TypeOK, FileOf, Valid
    <3>3. sort[f] \in Sorts  BY <1>0, <3>2 DEF TypeOK
    <3>4. Required(building) \in Sorts  BY <3>1 DEF Required, Sorts, Sockets
    <3>5. sort[f] = Required(building)  BY <3>1, <3>3, <3>4 DEF Verified, Sorts, NotASocket
    <3> QED BY <1>k, <2>1, <3>5 DEF Checked
  <2>3. CASE TunBuilt  BY <1>k, <2>1, <2>3 DEF TunBuilt, Plain, Checked
  <2> QED BY <1>7, <2>2, <2>3
<1>8. CASE BodyThrows
  <2>1. building \in Handles /\ Release([internal_fd EXCEPT ![building] = Null])
    BY <1>8 DEF BodyThrows, SocketTypeOK
  <2> QED BY <1>0, <2>1, FewerReferenced, FewerFit DEF Released
<1> QED BY <1>1, <1>2, <1>3, <1>4, <1>5, <1>6, <1>7, <1>8 DEF SocketNext

\* One step per way in which ownership can change.
LEMMA OwnedInductive ==
  ASSUME SocketTypeOK, Owned, NoLeak, [SocketNext]_allvars
  PROVE  Owned' /\ NoLeak'
<1> USE FileDescriptorAssumption
<1>0. TypeOK  BY DEF SocketTypeOK
<1>1. CASE Kept
  <2>1. Holding' = Holding  BY <1>1 DEF Kept, Holding, Alive
  <2> QED BY <1>1, <2>1 DEF Kept, Owned, NoLeak
<1>2. CASE Shared
  <2>1. PICK h \in Handles, g \in Handles :
          /\ Valid(h) /\ ~Valid(g) /\ internal_fd' = [internal_fd EXCEPT ![g] = internal_fd[h]]
          /\ UNCHANGED <<fd, closed, table, file, clean>>
    BY <1>2 DEF Shared, Duplicate, Plain, wrapper, kernel
  <2>2. Alive' = Alive
    BY <1>0, <2>1 DEF Alive, Referenced, Valid, TypeOK
  <2>3. Holding' = Holding  BY <2>1, <2>2 DEF Holding
  <2> QED BY <2>1, <2>3 DEF Owned, NoLeak
<1>3. CASE Released
  <2>1. PICK g \in [Handles -> Wrappers \cup {Null}] : Referenced(g) \subseteq Alive /\ Release(g)
    BY <1>3 DEF Released
  <2> DEFINE dead == Alive \ Referenced(g)
  <2>2. /\ Alive' = Referenced(g) /\ closed' = closed \ dead
        /\ UNCHANGED <<fd, file, clean>>
    BY <2>1 DEF Release, Alive
  <2>3. Holding' = Holding \ dead  BY <2>1, <2>2 DEF Holding
  <2>4. \A n \in Fds : table'[n] = IF \E w \in dead \ closed : fd[w] = n THEN Free ELSE table[n]
    BY <2>1 DEF Release, DestructorCloses
  <2>5. dead \ closed \subseteq Holding  BY DEF Holding
  <2>6. \A w \in Wrappers : fd[w] \in Fds  BY <1>0 DEF TypeOK
  <2>7. Holding \subseteq Wrappers  BY DEF Holding, Alive, Referenced
  <2> HIDE DEF dead
  <2>8. clean => \A w \in Holding' : table'[fd[w]] = table[fd[w]]
    BY <2>3, <2>4, <2>5, <2>6, <2>7 DEF Owned
  <2>9. Owned'  BY <2>2, <2>3, <2>8 DEF Owned
  <2>10. NoLeak'
    <3>1. ASSUME clean, NEW n \in Fds, table'[n] # Free
          PROVE  \E w \in Holding' : fd[w] = n
      <4>1. table[n] # Free /\ ~ \E w \in dead \ closed : fd[w] = n  BY <2>4, <3>1
      <4>2. PICK w \in Holding : fd[w] = n  BY <3>1, <4>1 DEF NoLeak
      <4>3. w \notin closed  BY DEF Holding
      <4> QED BY <2>3, <4>1, <4>2, <4>3
    <3> QED BY <2>2, <3>1 DEF NoLeak
  <2> QED BY <2>9, <2>10
<1>4. CASE Made
  <2>1. PICK h \in Handles, w \in Wrappers, f \in Files, s \in Sorts : Construct(h, w, f, s)
    BY <1>4 DEF Made
  <2>2. PICK n \in Fds : Construct(h, w, f, s)!(n)  BY <2>1 DEF Construct
  <2>3. Alive' = Alive \cup {w} /\ w \notin Alive
    BY <1>0, <2>2 DEF TypeOK, Alive, Referenced, Valid
  <2>4. Holding' = Holding \cup {w}  BY <2>2, <2>3 DEF Holding
  <2>5. w \notin Holding /\ Holding \subseteq Wrappers
    BY <2>3 DEF Holding, Alive, Referenced
  <2>6. /\ fd'[w] = n /\ file'[w] = f /\ table'[n] = f
        /\ \A v \in Holding : fd'[v] = fd[v] /\ file'[v] = file[v]
        /\ \A i \in Fds \ {n} : table'[i] = table[i]
    BY <1>0, <2>2, <2>5 DEF TypeOK
  <2>7. clean => \A v \in Holding : fd[v] \in Fds \ {n}
    BY <1>0, <2>2, <2>5 DEF Owned, TypeOK
  <2>8. clean' = clean  BY <2>2
  <2>9. Owned'  BY <2>4, <2>5, <2>6, <2>7, <2>8 DEF Owned
  <2>10. NoLeak'  BY <2>4, <2>6, <2>7, <2>8 DEF NoLeak
  <2> QED BY <2>9, <2>10
<1>5. CASE Closing
  <2>1. PICK h \in Handles : CloseSucceeds(h) \/ CloseFails(h)  BY <1>5 DEF Closing
  <2>2. CASE CloseFails(h)
    <3>1. ~clean'  BY <2>2, Zenon DEF CloseFails
    <3> QED BY <3>1, Zenon DEF Owned, NoLeak
  <2>3. CASE CloseSucceeds(h)
    <3> DEFINE w == internal_fd[h]
    <3>1. clean' => clean /\ w \notin closed  BY <2>3, Zenon DEF CloseSucceeds
    <3>2. /\ closed' = closed \cup {w} /\ table' = [table EXCEPT ![fd[w]] = Free]
          /\ Valid(h) /\ UNCHANGED <<internal_fd, fd, file>>
      BY <2>3 DEF CloseSucceeds, FlagClosed
    <3>3. w \in Alive /\ w \in Wrappers  BY <1>0, <3>2 DEF TypeOK, Valid, Alive, Referenced
    <3>4. Holding' = Holding \ {w}  BY <3>2 DEF Holding, Alive
    <3>5. Holding \subseteq Wrappers  BY DEF Holding, Alive, Referenced
    <3>6. clean' => w \in Holding  BY <3>1, <3>3 DEF Holding
    <3> HIDE DEF w
    <3>7. /\ table'[fd[w]] = Free
          /\ \A i \in Fds : i # fd[w] => table'[i] = table[i]
      BY <1>0, <3>2, <3>3 DEF TypeOK
    <3>8. clean' => \A v \in Holding' : fd[v] # fd[w] /\ fd[v] \in Fds
      BY <1>0, <3>1, <3>4, <3>5, <3>6 DEF Owned, TypeOK
    <3>9. Owned'  BY <3>1, <3>2, <3>4, <3>7, <3>8 DEF Owned
    <3>10. NoLeak'  BY <3>1, <3>2, <3>4, <3>7 DEF NoLeak
    <3> QED BY <3>9, <3>10
  <2> QED BY <2>1, <2>2, <2>3
<1> QED BY <1>1, <1>2, <1>3, <1>4, <1>5, Steps DEF Quiet, Reading

\* The two halves of ownership, together, as an invariant.
LEMMA OwnedInvariant == SocketSpec => [](Owned /\ NoLeak)
<1>1. SocketInit => Owned /\ NoLeak
  <2>1. SocketInit => Alive = {} /\ \A n \in Fds : table[n] = Free
    BY FileDescriptorAssumption DEF SocketInit, Init, Alive, Referenced
  <2> QED BY <2>1 DEF Owned, NoLeak, Holding
<1> QED BY <1>1, TypeCorrect, OwnedInductive, PTL DEF SocketSpec

\* For any number of objects, files and numbers: as long as no close(2) fails
\* and nobody closes a reused number, the number of every wrapper that is not
\* closed is that of the file it was made for.
THEOREM OwnsItsFileCorrect == SocketSpec => []OwnsItsFile
<1>1. Owned => OwnsItsFile  BY DEF Owned, OwnsItsFile
<1> QED BY <1>1, OwnedInvariant, PTL

\* Under the same conditions no open number is without a wrapper that will
\* close it, whichever constructor, accept() or move threw on the way.
THEOREM NoLeakCorrect == SocketSpec => []NoLeak
BY OwnedInvariant, PTL

-----------------------------------------------------------------------------
(* The end of a file, and the class of its owner. *)

\* No step sets eof() of a stream that may still be read.
LEMMA EofInductive ==
  ASSUME SocketTypeOK, Owned, StreamEofIsReal, [SocketNext]_allvars
  PROVE  StreamEofIsReal'
<1> USE FileDescriptorAssumption
<1>0. TypeOK  BY DEF SocketTypeOK
<1>h. eof \ closed \subseteq Holding /\ Holding \subseteq Wrappers
  BY <1>0 DEF TypeOK, Holding, Alive, Referenced
<1>1. CASE Quiet  BY <1>1 DEF Quiet, Kept, StreamEofIsReal, TakesDatagrams
<1>2. CASE Reading
  <2>1. PICK h \in Handles, limit \in Limits : Read(h, limit)  BY <1>2 DEF Reading
  <2> DEFINE w == internal_fd[h]
             f == table[fd[w]]
             size_to_read == Smaller(BUFFER_SIZE, limit)
  <2>2. UNCHANGED <<closed, file, clean, ended, sort>> /\ Valid(h) /\ f # Free
    BY <2>1 DEF Read
  <2>3. w \in Alive /\ w \in Wrappers /\ f \in Files
    BY <1>0, <2>2 DEF TypeOK, Valid, Alive, Referenced
  <2>4. data[f] \in Nat /\ (limit > 0 => size_to_read > 0)
    BY <1>0, <2>3 DEF TypeOK, Smaller
  <2>5. PICK bytes_read \in 0 .. size_to_read, taken \in 0 .. data[f] :
          /\ Answers(f, size_to_read, bytes_read, taken)
          /\ data' = [data EXCEPT ![f] = @ - taken]
          /\ eof' = IF AtEnd(limit, bytes_read) THEN eof \cup {w} ELSE eof
    BY <2>1 DEF Read
  <2>6. size_to_read = 0 \/ data[f] > 0 \/ f \in ended  BY <2>1 DEF Read
  <2>7. \A e \in Files : data[e] = 0 => data'[e] = 0
    BY <1>0, <2>3, <2>4, <2>5 DEF TypeOK
  <2>8. clean /\ w \notin closed => f = file[w]
    BY <2>3 DEF Owned, Holding
  <2>9. AtEnd(limit, bytes_read) /\ ~TakesDatagrams(f) => data[f] = 0 /\ f \in ended
    BY <2>4, <2>5, <2>6 DEF AtEnd, Answers
  <2>10. clean => \A v \in eof \ closed : file[v] \in Files  BY <1>h DEF Owned
  <2> HIDE DEF w, f
  <2>11. ASSUME clean, NEW v \in eof' \ closed, ~TakesDatagrams(file[v])
         PROVE  file[v] \in ended /\ data'[file[v]] = 0
    <3>1. CASE v \in eof  BY <2>7, <2>10, <2>11, <3>1 DEF StreamEofIsReal
    <3>2. CASE v \notin eof  BY <2>3, <2>5, <2>7, <2>8, <2>9, <2>11, <3>2
    <3> QED BY <3>1, <3>2
  <2> QED BY <2>2, <2>11 DEF StreamEofIsReal, TakesDatagrams
<1>3. CASE Shared
  BY <1>3 DEF Shared, Duplicate, wrapper, kernel, StreamEofIsReal, TakesDatagrams
<1>4. CASE Released  BY <1>4 DEF Released, Release, StreamEofIsReal, TakesDatagrams
<1>5. CASE Made
  <2>1. PICK h \in Handles, w \in Wrappers, f \in Files, s \in Sorts : Construct(h, w, f, s)
    BY <1>5 DEF Made
  <2>2. PICK n \in Fds : Construct(h, w, f, s)!(n)  BY <2>1 DEF Construct
  <2>3. eof' \ closed' \subseteq (eof \ closed) \ {w}  BY <2>2
  <2>4. clean => \A v \in (eof \ closed) \ {w} : file'[v] = file[v] /\ file[v] \in Files /\ file[v] # f
    BY <1>0, <1>h, <2>2 DEF Owned, Holding, TypeOK
  <2>5. \A e \in Files \ {f} : /\ data'[e] = data[e] /\ (e \in ended => e \in ended')
                               /\ sort'[e] = sort[e]
    BY <1>0, <2>2 DEF TypeOK
  <2>6. clean' = clean  BY <2>2
  <2>7. ASSUME clean, NEW v \in eof' \ closed', ~(sort'[file'[v]][2] = "SOCK_DGRAM")
        PROVE  file'[v] \in ended' /\ data'[file'[v]] = 0
    <3>1. v \in eof \ closed /\ file'[v] = file[v] /\ file[v] \in Files \ {f}
      BY <2>3, <2>4, <2>7
    <3>2. ~TakesDatagrams(file[v])  BY <2>5, <2>7, <3>1 DEF TakesDatagrams
    <3> QED BY <2>5, <2>7, <3>1, <3>2 DEF StreamEofIsReal
  <2> QED BY <2>6, <2>7 DEF StreamEofIsReal, TakesDatagrams
<1>6. CASE Closing
  <2>1. PICK h \in Handles : CloseSucceeds(h) \/ CloseFails(h)  BY <1>6 DEF Closing
  <2>2. clean' => clean /\ CloseSucceeds(h)  BY <2>1, Zenon DEF CloseSucceeds, CloseFails
  <2>3. CloseSucceeds(h) => /\ eof' \ closed' \subseteq eof \ closed
                            /\ UNCHANGED <<file, data, ended, sort>>
    BY DEF CloseSucceeds, FlagClosed
  <2> QED BY <2>2, <2>3 DEF StreamEofIsReal, TakesDatagrams
<1> QED BY <1>1, <1>2, <1>3, <1>4, <1>5, <1>6, Steps

\* On everything but a datagram socket read() never sets _eof early: the file
\* has ended and is drained, also when several objects read, shut down and
\* close it.
THEOREM StreamEofIsRealCorrect == SocketSpec => []StreamEofIsReal
<1>1. SocketInit => StreamEofIsReal  BY DEF SocketInit, Init, StreamEofIsReal
<1> QED BY <1>1, TypeCorrect, OwnedInvariant, EofInductive, PTL DEF SocketSpec

\* No step puts a file of the wrong kind behind a socket class.
LEMMA ClassInductive ==
  ASSUME SocketTypeOK, Owned, Owned', ClassMatchesFile, [SocketNext]_allvars
  PROVE  ClassMatchesFile'
<1> USE FileDescriptorAssumption
<1>0. TypeOK  BY DEF SocketTypeOK
<1>s. Sockets \subseteq Handles /\ Null \notin Sockets  BY SocketAssumption
<1>h. Holding \subseteq Wrappers  BY DEF Holding, Alive, Referenced
<1>1. CASE Kept
  <2>1. Holding' = Holding  BY <1>1 DEF Kept, Holding, Alive
  <2> QED BY <1>1, <2>1 DEF Kept, Checked, ClassMatchesFile, Valid, FileOf
<1>2. CASE Shared
  <2>1. PICK h \in Handles, g \in Plain :
          /\ Valid(h) /\ ~Valid(g) /\ internal_fd' = [internal_fd EXCEPT ![g] = internal_fd[h]]
          /\ UNCHANGED <<fd, closed, table, file, clean, sort, building>>
    BY <1>2 DEF Shared, Duplicate, wrapper, kernel
  <2>2. Holding' = Holding
    BY <1>0, <2>1 DEF Holding, Alive, Referenced, Valid, TypeOK, Plain
  <2>3. \A k \in Sockets : internal_fd'[k] = internal_fd[k]
    BY <1>0, <1>s, <2>1 DEF TypeOK, Plain
  <2> QED BY <2>1, <2>2, <2>3 DEF ClassMatchesFile, Valid, FileOf
<1>3. CASE Released
  <2>1. PICK p \in [Handles -> Wrappers \cup {Null}] :
          Referenced(p) \subseteq Alive /\ Fits(p) /\ Release(p)
    BY <1>3 DEF Released
  <2>2. internal_fd' = p /\ UNCHANGED <<fd, file, clean, sort>>  BY <2>1 DEF Release
  <2>3. Holding' \subseteq Holding  BY <2>1 DEF Release, Holding, Alive
  <2>4. clean => \A w \in Holding' : table'[fd[w]] = table[fd[w]]
    BY <2>2, <2>3 DEF Owned
  <2>5. ASSUME clean, NEW h \in Sockets, h # building', p[h] # Null, p[h] \in Holding'
        PROVE  sort[table'[fd[p[h]]]] = Required(h)
    <3>1. table'[fd[p[h]]] = table[fd[p[h]]] /\ p[h] \in Holding  BY <2>3, <2>4, <2>5
    <3>2. PICK k \in Sockets : k # building /\ Required(k) = Required(h) /\ internal_fd[k] = p[h]
      BY <2>1, <2>5 DEF Fits
    <3> QED BY <2>5, <3>1, <3>2 DEF ClassMatchesFile, Valid, FileOf
  <2> QED BY <2>2, <2>5 DEF ClassMatchesFile, Valid, FileOf
<1>4. CASE Made
  <2>1. PICK h \in Handles, w \in Wrappers, f \in Files, s \in Sorts :
          /\ Construct(h, w, f, s) /\ building = Null
          /\ h \in Sockets /\ h # building' => s = Required(h)
    BY <1>4 DEF Made
  <2>2. PICK n \in Fds : Construct(h, w, f, s)!(n)  BY <2>1 DEF Construct
  <2>3. w \notin Alive /\ clean' = clean  BY <2>2
  <2>4. internal_fd'[h] = w /\ fd'[w] = n /\ table'[n] = f /\ sort'[f] = s
    BY <1>0, <2>1, <2>2 DEF TypeOK
  <2>5. ASSUME clean, NEW k \in Sockets, k # h, internal_fd'[k] # Null,
               internal_fd'[k] \in Holding'
        PROVE  sort'[table'[fd'[internal_fd'[k]]]] = Required(k)
    <3> DEFINE v == internal_fd[k]
    <3>1. internal_fd'[k] = v  BY <1>0, <1>s, <2>2, <2>5 DEF TypeOK
    <3>2. v \in Alive /\ v \in Wrappers /\ v # w
      BY <1>0, <1>s, <2>3, <2>5, <3>1 DEF TypeOK, Alive, Referenced
    <3>3. v \in Holding  BY <2>2, <2>5, <3>1, <3>2 DEF Holding
    <3>4. fd'[v] = fd[v] /\ file'[v] = file[v]  BY <1>0, <2>2, <3>2 DEF TypeOK
    <3>5. table'[fd'[v]] = file[v]  BY <2>3, <2>5, <3>1, <3>4 DEF Owned
    <3>6. table[fd[v]] = file[v] /\ file[v] \in Files  BY <2>5, <3>3 DEF Owned
    <3>7. file[v] # f  BY <2>2, <3>2
    <3>8. sort'[file[v]] = sort[file[v]]  BY <1>0, <2>2, <3>6, <3>7 DEF TypeOK
    <3>9. k # building  BY <1>s, <2>1
    <3>10. sort[table[fd[v]]] = Required(k)
      BY <2>5, <3>1, <3>3, <3>9 DEF ClassMatchesFile, Valid, FileOf
    <3> QED BY <3>1, <3>5, <3>6, <3>8, <3>10
  <2>6. ASSUME NEW k \in Sockets, k = h, k # building'
        PROVE  sort'[table'[fd'[internal_fd'[k]]]] = Required(k)
    BY <2>1, <2>4, <2>6
  <2> QED BY <2>3, <2>5, <2>6 DEF ClassMatchesFile, Valid, FileOf
<1>5. CASE Closing
  <2>1. PICK h \in Handles : (CloseSucceeds(h) \/ CloseFails(h)) /\ UNCHANGED building
    BY <1>5 DEF Closing
  <2>2. clean' => clean /\ CloseSucceeds(h)  BY <2>1, Zenon DEF CloseSucceeds, CloseFails
  <2>3. CloseSucceeds(h) => Holding' \subseteq Holding /\ UNCHANGED <<internal_fd, fd, file, sort>>
    BY DEF CloseSucceeds, FlagClosed, Holding, Alive
  <2>4. clean' => \A w \in Holding' : table'[fd[w]] = table[fd[w]]
    BY <2>2, <2>3 DEF Owned
  <2> QED BY <2>1, <2>2, <2>3, <2>4 DEF ClassMatchesFile, Valid, FileOf
<1> QED BY <1>1, <1>2, <1>3, <1>4, <1>5, Steps DEF Quiet, Reading

\* No sequence of opening, slicing, adopting, accepting and moving makes an
\* object of one socket class, once built, own a file of another kind.
THEOREM ClassMatchesFileCorrect == SocketSpec => []ClassMatchesFile
<1>1. SocketInit => ClassMatchesFile
  BY SocketAssumption DEF SocketInit, Init, ClassMatchesFile, Valid
<1> QED BY <1>1, TypeCorrect, OwnedInvariant, ClassInductive, PTL DEF SocketSpec
=============================================================================
