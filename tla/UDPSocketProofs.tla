-------------------------- MODULE UDPSocketProofs --------------------------
(* Theorems about UDPSocket, for any addresses, lengths, mtus and queues. *)
EXTENDS UDPSocket, TLAPS

\* Adding one to a counter that wraps stays in its range and always moves it.
LEMMA CountMoves ==
  ASSUME NEW c \in 0 .. CountMod - 1
  PROVE  (c + 1) % CountMod \in 0 .. CountMod - 1 /\ (c + 1) % CountMod # c
<1>1. CountMod \in Nat /\ CountMod >= 2  BY UDPSocketAssumption
<1>2. CASE c + 1 = CountMod
  <2>1. (c + 1) % CountMod = 0  BY <1>1, <1>2
  <2> QED BY <1>1, <1>2, <2>1
<1>3. CASE c + 1 # CountMod
  <2>1. c + 1 \in 0 .. CountMod - 1  BY <1>1, <1>3
  <2>2. (c + 1) % CountMod = c + 1  BY <1>1, <2>1
  <2> QED BY <1>1, <2>1, <2>2
<1> QED BY <1>2, <1>3

-----------------------------------------------------------------------------
(* Types. *)

\* Type correctness is inductive.
LEMMA TypeInductive ==
  ASSUME TypeOK, [Next]_vars
  PROVE  TypeOK'
<1> USE UDPSocketAssumption
<1>h. ASSUME queue # <<>>
      PROVE  /\ Tail(queue) \in Seq(Datagrams) /\ Len(Tail(queue)) <= MaxQueue
             /\ Head(queue).from \in Peers /\ Head(queue).len \in Nat
  <2>1. queue \in Seq(Datagrams) /\ Len(queue) <= MaxQueue  BY DEF TypeOK
  <2>2. Head(queue) \in Datagrams  BY <1>h, <2>1
  <2>3. Tail(queue) \in Seq(Datagrams) /\ Len(Tail(queue)) = Len(queue) - 1
    BY <1>h, <2>1
  <2>4. Len(queue) \in Nat  BY <2>1
  <2> QED BY <2>1, <2>2, <2>3, <2>4 DEF Datagrams
<1>c. /\ (read_count + 1) % CountMod \in 0 .. CountMod - 1
      /\ (write_count + 1) % CountMod \in 0 .. CountMod - 1
  BY CountMoves DEF TypeOK
<1>1. CASE UNCHANGED vars  BY <1>1 DEF TypeOK, vars, wrapper
<1>2. ASSUME NEW d \in Datagrams, Arrives(d)  PROVE TypeOK'
  <2>1. Append(queue, d) \in Seq(Datagrams) /\ Append(arrived, d) \in Seq(Datagrams)
        /\ Len(Append(queue, d)) = Len(queue) + 1
    BY DEF TypeOK
  <2>2. Len(queue) + 1 <= MaxQueue  BY <1>2 DEF Arrives, TypeOK
  <2> QED BY <1>2, <2>1, <2>2 DEF Arrives, TypeOK, wrapper
<1>3. ASSUME NEW mtu \in Mtus, RecvReturns(mtu)  PROVE TypeOK'
  <2>1. queue # <<>> /\ queue' = Tail(queue)  BY <1>3 DEF RecvReturns, Readable, Takes
  <2>2. datagram' \in [from : Peers \cup {NoAddress}, size : Nat]
    BY <1>3, <1>h, <2>1 DEF RecvReturns, RecvLen
  <2>3. accused' \in BOOLEAN  BY <1>3, Zenon DEF RecvReturns, BusyWait
  <2> QED BY <1>3, <1>h, <1>c, <2>1, <2>2, <2>3 DEF RecvReturns, Register, Takes, TypeOK
<1>4. ASSUME NEW mtu \in Mtus, NEW byref \in BOOLEAN, RecvOversized(mtu, byref)  PROVE TypeOK'
  <2>1. queue # <<>> /\ queue' = Tail(queue)
    BY <1>4 DEF RecvOversized, OversizedTaken, Readable, Takes
  <2>2. datagram' \in [from : Peers \cup {NoAddress}, size : Nat]
    BY <1>4 DEF RecvOversized, Overwritten, TypeOK
  <2>3. accused' \in BOOLEAN  BY <1>4, Zenon DEF RecvOversized, BusyWait
  <2> QED BY <1>4, <1>h, <2>1, <2>2, <2>3 DEF RecvOversized, OversizedTaken, Takes, TypeOK, wrapper
<1>5. ASSUME NEW mtu \in Mtus, NEW byref \in BOOLEAN, RecvFails(mtu, byref)  PROVE TypeOK'
  <2>2. datagram' \in [from : Peers \cup {NoAddress}, size : Nat]
    BY <1>5 DEF RecvFails, Overwritten, TypeOK
  <2>3. accused' \in BOOLEAN  BY <1>5, Zenon DEF RecvFails, BusyWait
  <2> QED BY <1>5, <2>2, <2>3 DEF RecvFails, TypeOK, wrapper
<1>6. ASSUME NEW limit \in Limits, Read(limit)  PROVE TypeOK'
  <2>1. queue # <<>> /\ queue' = Tail(queue)  BY <1>6 DEF Read, Readable, Takes
  <2>2. eof' \in BOOLEAN  BY <1>6, Zenon DEF Read, AtEnd
  <2>3. accused' \in BOOLEAN  BY <1>6, Zenon DEF Read, BusyWait
  <2> QED BY <1>6, <1>h, <1>c, <2>1, <2>2, <2>3 DEF Read, Takes, TypeOK
<1>7. ASSUME NEW limit \in Limits, ReadNothing(limit)  PROVE TypeOK'
  <2>3. accused' \in BOOLEAN  BY <1>7, Zenon DEF ReadNothing, BusyWait
  <2> QED BY <1>7, <1>c, <2>3 DEF ReadNothing, TypeOK
<1>8. ASSUME NEW a \in Peers, Connect(a)  PROVE TypeOK'
  BY <1>8 DEF Connect, TypeOK, wrapper
<1>9. ASSUME NEW to \in Peers \cup {NoAddress}, SendReturns(to) \/ SendThrows(to)  PROVE TypeOK'
  <2>3. accused' \in BOOLEAN  BY <1>9, Zenon DEF SendReturns, SendThrows, BusyWait
  <2> QED BY <1>9, <1>c, <2>3 DEF SendReturns, SendThrows, TypeOK, wrapper
<1> QED BY <1>1, <1>2, <1>3, <1>4, <1>5, <1>6, <1>7, <1>8, <1>9 DEF Next, Taking

\* Members keep their types, the counters their range and the queue its bound,
\* whatever is sent, received, refused or failed.
LEMMA TypeCorrect == Spec => []TypeOK
<1>1. ASSUME Init  PROVE TypeOK
  <2>1. /\ queue = <<>> /\ arrived = <<>> /\ peer = NoAddress /\ read_count = 0
        /\ write_count = 0 /\ eof = FALSE /\ accused = FALSE /\ result = "returned"
        /\ datagram = [from |-> NoAddress, size |-> 0]
    BY <1>1 DEF Init
  <2>2. queue \in Seq(Datagrams) /\ arrived \in Seq(Datagrams) /\ Len(queue) <= MaxQueue
    BY <2>1, UDPSocketAssumption
  <2>3. 0 \in 0 .. CountMod - 1  BY UDPSocketAssumption
  <2>4. datagram \in [from : Peers \cup {NoAddress}, size : Nat]  BY <2>1
  <2> QED BY <2>1, <2>2, <2>3, <2>4 DEF TypeOK
<1> QED BY <1>1, TypeInductive, PTL DEF Spec

-----------------------------------------------------------------------------
(* The busy-wait test and _eof. *)

\* A call that returns has moved its count, so the busy-wait test of the event
\* loop accuses only calls that threw, for every width of the counters.
THEOREM AccusedCorrect == Spec => []AccusedOnlyIfThrown
<1>1. Init => AccusedOnlyIfThrown  BY DEF Init, AccusedOnlyIfThrown
<1>2. ASSUME TypeOK, AccusedOnlyIfThrown, [Next]_vars  PROVE AccusedOnlyIfThrown'
  <2>c. (read_count + 1) % CountMod # read_count /\ (write_count + 1) % CountMod # write_count
    BY <1>2, CountMoves DEF TypeOK
  <2>1. CASE UNCHANGED <<accused, result>>  BY <1>2, <2>1 DEF AccusedOnlyIfThrown
  <2>2. CASE result' = "threw"  BY <2>2 DEF AccusedOnlyIfThrown
  <2>3. CASE read_count' = (read_count + 1) % CountMod /\ BusyWait(read_count, read_count')
    BY <2>c, <2>3 DEF BusyWait, AccusedOnlyIfThrown
  <2>4. CASE write_count' = (write_count + 1) % CountMod /\ BusyWait(write_count, write_count')
    BY <2>c, <2>4 DEF BusyWait, AccusedOnlyIfThrown
  <2> QED BY <1>2, <2>1, <2>2, <2>3, <2>4
          DEF Next, vars, Taking, Arrives, RecvReturns, Register, RecvOversized, RecvFails,
              Read, ReadNothing, Connect, SendReturns, SendThrows
<1> QED BY <1>1, <1>2, TypeCorrect, PTL DEF Spec

\* _eof of a datagram socket is set by read() meeting an empty datagram and by
\* nothing else, for all lengths, limits and buffer sizes.
THEOREM EofCorrect == Spec => []EofOnlyByEmptyRead
<1>1. Init => EofOnlyByEmptyRead  BY DEF Init, EofOnlyByEmptyRead
<1>2. ASSUME TypeOK, EofOnlyByEmptyRead, [Next]_vars  PROVE EofOnlyByEmptyRead'
  <2>1. CASE UNCHANGED <<eof, last>>  BY <1>2, <2>1 DEF EofOnlyByEmptyRead
  <2>2. CASE ~eof /\ UNCHANGED eof  BY <2>2 DEF EofOnlyByEmptyRead
  <2>3. ASSUME NEW limit \in Limits, Read(limit)  PROVE EofOnlyByEmptyRead'
    <3> DEFINE size_to_read == Smaller(BUFFER_SIZE, limit)
               bytes_read == Smaller(size_to_read, Head(queue).len)
    <3>1. /\ queue # <<>> /\ size_to_read > 0
          /\ eof' = AtEnd(limit, size_to_read, bytes_read)
      BY <2>3 DEF Read, Readable
    <3>2. last'.how = "read" /\ last'.sent = Head(queue)  BY <2>3 DEF Read, Takes
    <3>3. Head(queue) \in Datagrams  BY <1>2, <3>1 DEF TypeOK
    <3>4. Head(queue).len \in Nat /\ size_to_read \in Nat
      BY <3>3, UDPSocketAssumption DEF Datagrams, Smaller
    <3>5. eof' => bytes_read = 0  BY <3>1 DEF AtEnd
    <3>6. eof' => Head(queue).len = 0  BY <3>1, <3>4, <3>5 DEF Smaller
    <3> QED BY <3>2, <3>6 DEF EofOnlyByEmptyRead
  <2> QED BY <1>2, <2>1, <2>2, <2>3
          DEF Next, vars, wrapper, Taking, Readable, Arrives, RecvReturns, RecvOversized,
              RecvFails, ReadNothing, Connect, SendReturns, SendThrows
<1> QED BY <1>1, <1>2, TypeCorrect, PTL DEF Spec

-----------------------------------------------------------------------------
(* The queue. *)

\* OnceWholeInOrder with the queue given element by element.
QueueIsRest ==
    /\ taken \in Nat /\ Len(queue) = Len(arrived) - taken
    /\ \A i \in 1 .. Len(queue) : queue[i] = arrived[taken + i]
    /\ taken > 0 => last.sent = arrived[taken]
    /\ last.how = "returned" =>
          last.got = [from |-> last.sent.from, size |-> last.sent.len]
    /\ last.how = "oversized" => last.sent.len > last.mtu

\* The kernel's queue stays the unread end of what arrived.
LEMMA QueueInductive ==
  ASSUME TypeOK, QueueIsRest, [Next]_vars
  PROVE  QueueIsRest'
<1>0. /\ queue \in Seq(Datagrams) /\ arrived \in Seq(Datagrams)
      /\ Len(queue) \in Nat /\ Len(arrived) \in Nat
  BY DEF TypeOK
<1>1. CASE UNCHANGED <<queue, arrived, taken, last>>
  BY <1>1 DEF QueueIsRest
<1>2. ASSUME NEW d \in Datagrams, Arrives(d)  PROVE QueueIsRest'
  <2>1. queue' = Append(queue, d) /\ arrived' = Append(arrived, d) /\ UNCHANGED <<taken, last>>
    BY <1>2 DEF Arrives
  <2>2. /\ Len(queue') = Len(queue) + 1 /\ queue'[Len(queue) + 1] = d
        /\ \A i \in 1 .. Len(queue) : queue'[i] = queue[i]
    BY <1>0, <2>1
  <2>3. /\ Len(arrived') = Len(arrived) + 1 /\ arrived'[Len(arrived) + 1] = d
        /\ \A i \in 1 .. Len(arrived) : arrived'[i] = arrived[i]
    BY <1>0, <2>1
  <2>4. Len(queue') = Len(arrived') - taken'
    BY <1>0, <2>1, <2>2, <2>3 DEF QueueIsRest
  <2>5. ASSUME NEW i \in 1 .. Len(queue')  PROVE queue'[i] = arrived'[taken' + i]
    <3>1. CASE i = Len(queue) + 1
      <4>1. taken + i = Len(arrived) + 1  BY <1>0, <3>1 DEF QueueIsRest
      <4> QED BY <2>1, <2>2, <2>3, <3>1, <4>1
    <3>2. CASE i # Len(queue) + 1
      <4>1. i \in 1 .. Len(queue)  BY <1>0, <2>2, <3>2
      <4>2. taken + i \in 1 .. Len(arrived)  BY <1>0, <4>1 DEF QueueIsRest
      <4>3. queue[i] = arrived[taken + i]  BY <4>1 DEF QueueIsRest
      <4> QED BY <2>1, <2>2, <2>3, <4>1, <4>2, <4>3
    <3> QED BY <3>1, <3>2
  <2>6. taken > 0 => taken \in 1 .. Len(arrived)  BY <1>0 DEF QueueIsRest
  <2> QED BY <2>1, <2>3, <2>4, <2>5, <2>6 DEF QueueIsRest
<1>3. ASSUME NEW how, NEW mtu, queue # <<>>, Takes(how, mtu),
             how = "returned" => datagram' = [from |-> Head(queue).from, size |-> Head(queue).len],
             how = "oversized" => Head(queue).len > mtu
      PROVE  QueueIsRest'
  <2>1. /\ queue' = Tail(queue) /\ taken' = taken + 1 /\ arrived' = arrived
        /\ last' = [how |-> how, sent |-> Head(queue), mtu |-> mtu, got |-> datagram']
    BY <1>3 DEF Takes
  <2>2. /\ Len(queue') = Len(queue) - 1 /\ Len(queue) >= 1 /\ Head(queue) = queue[1]
        /\ \A i \in 1 .. Len(queue) - 1 : queue'[i] = queue[i + 1]
    BY <1>0, <1>3, <2>1
  <2>3. Head(queue) = arrived[taken + 1]  BY <1>0, <2>2 DEF QueueIsRest
  <2>4. taken' \in Nat /\ Len(queue') = Len(arrived') - taken'
    BY <1>0, <2>1, <2>2 DEF QueueIsRest
  <2>5. ASSUME NEW i \in 1 .. Len(queue')  PROVE queue'[i] = arrived'[taken' + i]
    <3>1. i \in 1 .. Len(queue) - 1 /\ i + 1 \in 1 .. Len(queue)  BY <1>0, <2>2
    <3>2. queue[i + 1] = arrived[taken + (i + 1)]  BY <3>1 DEF QueueIsRest
    <3>3. taken + (i + 1) = taken' + i  BY <2>1, <3>1 DEF QueueIsRest
    <3> QED BY <2>1, <2>2, <3>1, <3>2, <3>3
  <2>6. /\ last'.how = how /\ last'.sent = Head(queue) /\ last'.mtu = mtu
        /\ last'.got = datagram'
    BY <2>1
  <2> QED BY <1>3, <2>1, <2>3, <2>4, <2>5, <2>6 DEF QueueIsRest
<1>4. ASSUME NEW mtu \in Mtus, RecvReturns(mtu)  PROVE QueueIsRest'
  BY <1>3, <1>4 DEF RecvReturns, RecvLen, Readable
<1>5. ASSUME NEW mtu \in Mtus, NEW byref \in BOOLEAN, RecvOversized(mtu, byref)
      PROVE  QueueIsRest'
  BY <1>3, <1>5 DEF RecvOversized, OversizedTaken, RecvLen, Readable
<1>6. ASSUME NEW limit \in Limits, Read(limit)  PROVE QueueIsRest'
  BY <1>3, <1>6 DEF Read, Readable
<1>7. CASE UNCHANGED vars  BY <1>1, <1>7 DEF vars
<1> QED BY <1>1, <1>2, <1>4, <1>5, <1>6, <1>7
        DEF Next, Taking, RecvFails, ReadNothing, Connect, SendReturns, SendThrows

\* Every datagram is dealt with once and in order, and recv() passes on whole
\* datagrams only, for every mixture of mtus, lengths and failures.
THEOREM OnceWholeInOrderCorrect == Spec => []OnceWholeInOrder
<1>1. Init => QueueIsRest  BY DEF Init, QueueIsRest
<1>2. ASSUME TypeOK, QueueIsRest  PROVE OnceWholeInOrder
  <2> DEFINE rest == SubSeq(arrived, taken + 1, Len(arrived))
  <2>1. /\ queue \in Seq(Datagrams) /\ arrived \in Seq(Datagrams)
        /\ Len(queue) \in Nat /\ Len(arrived) \in Nat /\ taken \in Nat
        /\ Len(queue) = Len(arrived) - taken
    BY <1>2 DEF TypeOK, QueueIsRest
  <2>2. /\ rest \in Seq(Datagrams) /\ Len(rest) = Len(queue)
        /\ \A i \in 1 .. Len(queue) : rest[i] = arrived[taken + i]
    BY <2>1
  <2>3. \A i \in 1 .. Len(queue) : queue[i] = rest[i]  BY <1>2, <2>2 DEF QueueIsRest
  <2> HIDE DEF rest
  <2>4. queue = rest  BY <2>1, <2>2, <2>3
  <2> QED BY <1>2, <2>4 DEF QueueIsRest, OnceWholeInOrder, rest
<1> QED BY <1>1, <1>2, TypeCorrect, QueueInductive, PTL DEF Spec
=============================================================================
