-------------------------- MODULE ByteStreamProofs --------------------------
(* Theorems about ByteStream, for every capacity, integer width and input. *)
EXTENDS ByteStream, Foundations, TLAPS

-----------------------------------------------------------------------------
(* What the conversions return. *)

\* The modulus of int is even.
LEMMA IntModHalves ==
    IntMod \div 2 \in Nat \ {0} /\ IntMod = 2 * (IntMod \div 2)
BY ByteStreamAssumption

\* A conversion to int gives an int.
LEMMA ToIntType == ASSUME NEW x \in Int PROVE ToInt(x) \in IntRange
BY ByteStreamAssumption, IntModHalves DEF ToInt, IntRange

\* An int that is narrowed, added to and narrowed again is the narrowed sum.
LEMMA ToIntAdd == ASSUME NEW x \in Int, NEW n \in Int
                  PROVE  ToInt(ToInt(x) + n) = ToInt(x + n)
<1> DEFINE y == x % IntMod
<1>1. IntMod \in Nat \ {0} /\ y \in Int  BY ByteStreamAssumption
<1>2. (y + n) % IntMod = (x + n) % IntMod  BY <1>1, ModAdd
<1>3. (y - IntMod + n) % IntMod = (y + n) % IntMod
  <2> DEFINE k == -1
             z == y + n
  <2>1. k \in Int /\ z \in Int /\ y - IntMod + n = k * IntMod + z  BY <1>1
  <2> HIDE DEF k, y, z
  <2>2. (k * IntMod + z) % IntMod = z % IntMod  BY <1>1, <2>1, ModMultiple
  <2> QED BY <2>1, <2>2 DEF z
<1> HIDE DEF y
<1>4. ToInt(x) = y \/ ToInt(x) = y - IntMod  BY DEF ToInt, y
<1>5. (ToInt(x) + n) % IntMod = (x + n) % IntMod  BY <1>2, <1>3, <1>4
<1> QED BY <1>5 DEF ToInt

\* A conversion of a nonnegative number to size_t never makes it larger.
LEMMA ToSizeBounds == ASSUME NEW x \in Nat PROVE ToSize(x) \in 0 .. x
BY ByteStreamAssumption DEF ToSize

\* What the constructor's arguments leave room for: at least an empty ring.
LEMMA BufSizeType ==
    ASSUME NEW c \in Capacities
    PROVE  BufSize(c) \in IntRange /\ BufSize(c) > 0 /\ BufSize(c) \in Nat \ {0}
<1>1. c \in Nat /\ BufSize(c) > 0  BY ByteStreamAssumption
<1>2. ToSize(c + 1) \in Int  BY <1>1, ToSizeBounds
<1>3. BufSize(c) \in IntRange  BY <1>2, ToIntType DEF BufSize
<1> QED BY <1>1, <1>3, IntModHalves DEF IntRange

\* write() never takes as many bytes as the ring has slots.
LEMMA TakenBound ==
    ASSUME TypeOK, NEW data \in Strings
    PROVE  LET n == Min2(Len(data), remaining_capacity)
           IN  n \in Nat /\ n < m_buf_size /\ n <= Len(data)
<1>1. m_buf_size \in Nat /\ m_buf_size > 0  BY BufSizeType DEF TypeOK
<1>2. remaining_capacity \in 0 .. m_buf_size - 1
  BY <1>1, ToSizeBounds DEF remaining_capacity, buffer_size
<1>3. Len(data) \in Nat  BY ByteStreamAssumption
<1> QED BY <1>1, <1>2, <1>3 DEF Min2

\* Moving an index by less than one turn keeps it inside the ring.
LEMMA ForwardType ==
    ASSUME TypeOK, NEW i \in 0 .. m_buf_size - 1, NEW n \in Nat, n < m_buf_size
    PROVE  Forward(i, n) \in 0 .. m_buf_size - 1
BY BufSizeType DEF TypeOK, Forward

-----------------------------------------------------------------------------
(* The theorems. *)

\* The indices of the ring stay inside the array through every sequence of
\* calls, and every member keeps its type: ByteStream::write stores in bounds.
THEOREM TypeCorrect == Spec => []TypeOK
<1>1. Init => TypeOK
  <2> SUFFICES ASSUME Init PROVE TypeOK  OBVIOUS
  <2>1. capacity \in Capacities /\ m_buf_size = BufSize(capacity)  BY DEF Init
  <2>2. m_buf_size \in IntRange /\ m_buf_size \in Nat \ {0}  BY <2>1, BufSizeType
  <2>3. m_num_of_r \in IntRange /\ m_num_of_w \in IntRange
    BY ByteStreamAssumption DEF Init
  <2>4. m_buf \in [0 .. m_buf_size - 1 -> Byte \cup {Uninit}]  BY DEF Init
  <2>5. out \in Seq(Byte \cup {Uninit}) /\ accepted \in Seq(Byte)  BY DEF Init
  <2>6. garbage \in [r : IntRange, w : IntRange]  BY <2>3 DEF Init
  <2>7. m_closed \in BOOLEAN /\ error \in BOOLEAN  BY DEF Init
  <2>8. /\ m_head \in 0 .. m_buf_size - 1 /\ m_tail \in 0 .. m_buf_size - 1
        /\ removed \in Nat
    BY <2>2 DEF Init
  <2> QED BY <2>1, <2>2, <2>3, <2>4, <2>5, <2>6, <2>7, <2>8 DEF TypeOK
<1>2. TypeOK /\ [Next]_vars => TypeOK'
  <2> SUFFICES ASSUME TypeOK, [Next]_vars PROVE TypeOK'  OBVIOUS
  <2>0. m_buf_size \in Nat \ {0}  BY BufSizeType DEF TypeOK
  <2>1. CASE WriteRefused  BY <2>1 DEF WriteRefused, Refuses, TypeOK, ring
  <2>2. ASSUME NEW data \in Strings, WriteAccepted(data) PROVE TypeOK'
    <3> DEFINE n == Min2(Len(data), remaining_capacity)
    <3>1. n \in Nat /\ n < m_buf_size /\ n <= Len(data)  BY TakenBound
    <3>2. data \in Seq(Byte)  BY ByteStreamAssumption
    <3> HIDE DEF n
    <3>3. m_head' \in 0 .. m_buf_size - 1
      BY <2>2, <3>1, ForwardType DEF WriteAccepted, Refuses, TypeOK, n
    <3>4. m_buf' \in [0 .. m_buf_size - 1 -> Byte \cup {Uninit}]
      <4> SUFFICES ASSUME NEW j \in 0 .. m_buf_size - 1
                   PROVE  (IF AheadOfHead(j) < n THEN data[AheadOfHead(j) + 1]
                           ELSE m_buf[j]) \in Byte \cup {Uninit}
        BY <2>2 DEF WriteAccepted, Refuses, n
      <4>1. AheadOfHead(j) \in Nat  BY <2>0 DEF AheadOfHead, TypeOK
      <4> QED BY <3>1, <3>2, <4>1 DEF TypeOK
    <3>5. m_num_of_w' \in IntRange
      <4>1. m_num_of_w + n \in Int  BY <3>1 DEF TypeOK, IntRange
      <4> QED BY <2>2, <4>1, ToIntType DEF WriteAccepted, Refuses, n
    <3>6. accepted' \in Seq(Byte)
      <4>1. SubSeq(data, 1, n) \in Seq(Byte)  BY <3>1, <3>2
      <4> QED BY <2>2, <4>1 DEF WriteAccepted, Refuses, TypeOK, n
    <3> QED BY <2>2, <3>3, <3>4, <3>5, <3>6 DEF WriteAccepted, Refuses, TypeOK, flags
  <2>3. CASE EndInput  BY <2>3 DEF EndInput, TypeOK, ring
  <2>4. CASE SetError  BY <2>4 DEF SetError, TypeOK, ring
  <2>5. ASSUME NEW len \in Lens, Pop(len), out' \in Seq(Byte \cup {Uninit})
        PROVE  TypeOK'
    <3> DEFINE n == IF error THEN 0 ELSE Min2(len, buffer_size)
    <3>1. n = 0  BY ByteStreamAssumption DEF Min2, buffer_size
    <3>2. m_tail' = m_tail  BY <2>0, <2>5, <3>1 DEF Pop, Forward, TypeOK
    <3>3. m_num_of_r' \in IntRange
      <4>1. m_num_of_r + n \in Int  BY <3>1 DEF TypeOK, IntRange
      <4> QED BY <2>5, <4>1, ToIntType DEF Pop
    <3>4. removed' \in Nat  BY <2>5, <3>1 DEF Pop, TypeOK
    <3> QED BY <2>5, <3>2, <3>3, <3>4 DEF Pop, TypeOK, flags
  <2>6. \A len \in Lens : peek_output(len) \in Seq(Byte \cup {Uninit})
    <3>1. \A len \in Lens : peek_output(len) = <<>>  BY DEF peek_output
    <3>2. <<>> \in Seq(Byte \cup {Uninit})  OBVIOUS
    <3> QED BY <3>1, <3>2, Zenon
  <2>7. ASSUME NEW len \in Lens, PopOutput(len) PROVE TypeOK'
    BY <2>5, <2>7 DEF PopOutput, TypeOK
  <2>8. ASSUME NEW len \in Lens, PeekOutput(len) PROVE TypeOK'
    BY <2>6, <2>8 DEF PeekOutput, TypeOK, ring, flags
  <2>9. ASSUME NEW len \in Lens, Read(len) PROVE TypeOK'
    BY <2>5, <2>6, <2>9 DEF Read
  <2>10. CASE UNCHANGED vars  BY <2>10 DEF vars, TypeOK, ring, flags
  <2> QED BY <2>1, <2>2, <2>3, <2>4, <2>7, <2>8, <2>9, <2>10 DEF Next, Write
<1> QED BY <1>1, <1>2, PTL DEF Spec

\* A write of n bytes puts the head at Forward(m_head, n).  Seen from there,
\* the n slots behind the head are the ones just stored to, last byte first,
\* and the slots further back are the old ones, untouched.
LEMMA SlotsAfterWrite ==
    ASSUME TypeOK, NEW data \in Strings, WriteAccepted(data),
           NEW k \in Nat \ {0}, k <= m_buf_size
    PROVE  LET n == Min2(Len(data), remaining_capacity)
           IN  /\ k <= n => m_buf'[BehindHead(k)'] = data[n + 1 - k]
               /\ k > n => m_buf'[BehindHead(k)'] = m_buf[BehindHead(k - n)]
<1> DEFINE n == Min2(Len(data), remaining_capacity)
           j == BehindHead(k)'
<1>1. n \in Nat /\ n < m_buf_size  BY TakenBound
<1>2. m_buf_size \in Nat \ {0} /\ m_head \in 0 .. m_buf_size - 1
  BY BufSizeType DEF TypeOK
<1>3. m_buf_size' = m_buf_size /\ m_head' = Forward(m_head, n)
  BY DEF WriteAccepted, Refuses
<1> HIDE DEF n
<1>4. j \in 0 .. m_buf_size - 1
  BY <1>1, <1>2, <1>3 DEF BehindHead, Forward
<1>5. m_buf'[j] = IF AheadOfHead(j) < n THEN data[AheadOfHead(j) + 1] ELSE m_buf[j]
  <2> HIDE DEF j
  <2> QED BY <1>4 DEF WriteAccepted, Refuses, n
<1>6. CASE k <= n
  <2>1. AheadOfHead(j) = n - k
    BY <1>1, <1>2, <1>3, <1>6 DEF BehindHead, Forward, AheadOfHead
  <2>2. n - k < n /\ n - k + 1 = n + 1 - k  BY <1>1, <1>6
  <2> QED BY <1>1, <1>5, <1>6, <2>1, <2>2 DEF n
<1>7. CASE k > n
  <2>1. AheadOfHead(j) = m_buf_size - (k - n) /\ j = BehindHead(k - n)
    BY <1>1, <1>2, <1>3, <1>7 DEF BehindHead, Forward, AheadOfHead
  <2>2. ~(AheadOfHead(j) < n)  BY <1>1, <1>2, <1>7, <2>1
  <2> QED BY <1>1, <1>5, <1>7, <2>1, <2>2 DEF n
<1> QED BY <1>1, <1>6, <1>7 DEF n

\* The ring always holds the latest accepted bytes in order, whatever the
\* sizes of the writes that ByteStream::write stored, and wherever it wrapped.
THEOREM RingCorrect == Spec => []RingHoldsAccepted
<1>1. Init => RingHoldsAccepted  BY DEF Init, RingHoldsAccepted
<1>2. TypeOK /\ RingHoldsAccepted /\ [Next]_vars => RingHoldsAccepted'
  <2> SUFFICES ASSUME TypeOK, RingHoldsAccepted, [Next]_vars
               PROVE  RingHoldsAccepted'
    OBVIOUS
  <2>1. ASSUME UNCHANGED <<m_head, m_buf, m_buf_size, accepted>>
        PROVE  RingHoldsAccepted'
    BY <2>1 DEF RingHoldsAccepted, BehindHead
  <2>2. ASSUME NEW data \in Strings, WriteAccepted(data)
        PROVE  RingHoldsAccepted'
    <3> DEFINE n == Min2(Len(data), remaining_capacity)
               new == SubSeq(data, 1, n)
    <3>1. n \in Nat /\ n < m_buf_size /\ n <= Len(data)  BY TakenBound
    <3>2. data \in Seq(Byte) /\ accepted \in Seq(Byte)
      BY ByteStreamAssumption DEF TypeOK
    <3>3. accepted' = accepted \o new /\ m_buf_size' = m_buf_size
      BY <2>2 DEF WriteAccepted, Refuses
    <3> HIDE DEF n
    <3>4. new \in Seq(Byte) /\ Len(new) = n
          /\ \A i \in 1 .. n : new[i] = data[i]
      BY <3>1, <3>2
    <3> HIDE DEF new
    <3>5. Len(accepted') = Len(accepted) + n  BY <3>2, <3>3, <3>4
    <3> SUFFICES ASSUME NEW k \in 1 .. Len(accepted) + n, k <= m_buf_size
                 PROVE  m_buf'[BehindHead(k)'] = accepted'[Len(accepted) + n + 1 - k]
      BY <3>3, <3>5 DEF RingHoldsAccepted
    <3>6. CASE k <= n
      <4>1. m_buf'[BehindHead(k)'] = data[n + 1 - k]
        BY <2>2, <3>1, <3>6, SlotsAfterWrite DEF n
      <4>2. accepted'[Len(accepted) + n + 1 - k] = new[n + 1 - k]
        BY <3>1, <3>2, <3>3, <3>4, <3>6
      <4> QED BY <3>1, <3>4, <3>6, <4>1, <4>2
    <3>7. CASE k > n
      <4>1. m_buf'[BehindHead(k)'] = m_buf[BehindHead(k - n)]
        BY <2>2, <3>1, <3>7, SlotsAfterWrite DEF n
      <4>2. accepted'[Len(accepted) + n + 1 - k] = accepted[Len(accepted) + 1 - (k - n)]
        BY <3>1, <3>2, <3>3, <3>4, <3>7
      <4>3. m_buf_size \in Nat /\ Len(accepted) \in Nat
        BY <3>2, BufSizeType DEF TypeOK
      <4>4. k - n \in 1 .. Len(accepted) /\ k - n <= m_buf_size
        BY <3>1, <3>7, <4>3
      <4> QED BY <4>1, <4>2, <4>4 DEF RingHoldsAccepted
    <3> QED BY <3>1, <3>6, <3>7
  <2>3. CASE WriteRefused  BY <2>1, <2>3 DEF WriteRefused, Refuses, ring
  <2>4. CASE EndInput  BY <2>1, <2>4 DEF EndInput, ring
  <2>5. CASE SetError  BY <2>1, <2>5 DEF SetError, ring
  <2>6. ASSUME NEW len \in Lens, PopOutput(len) \/ PeekOutput(len) \/ Read(len)
        PROVE  RingHoldsAccepted'
    BY <2>1, <2>6 DEF PopOutput, PeekOutput, Read, Pop, ring
  <2>7. CASE UNCHANGED vars  BY <2>1, <2>7 DEF vars, ring
  <2> QED BY <2>2, <2>3, <2>4, <2>5, <2>6, <2>7 DEF Next, Write
<1> QED BY <1>1, <1>2, TypeCorrect, PTL DEF Spec

\* The two counters advance by exactly what write() and pop_output() report,
\* in the arithmetic of an int, from their uninitialized start.
THEOREM CountersCorrect == Spec => []CountersTrackTotals
<1>1. Init => CountersTrackTotals
  <2> SUFFICES ASSUME Init PROVE CountersTrackTotals  OBVIOUS
  <2>1. m_num_of_w \in IntRange /\ m_num_of_r \in IntRange
    BY ByteStreamAssumption DEF Init
  <2>2. \A x \in IntRange : ToInt(x) = x
    BY ByteStreamAssumption, IntModHalves DEF ToInt, IntRange
  <2>3. garbage.w + Len(accepted) = m_num_of_w /\ garbage.r + removed = m_num_of_r
    BY <2>1 DEF Init, IntRange
  <2> QED BY <2>1, <2>2, <2>3 DEF CountersTrackTotals
<1>2. TypeOK /\ CountersTrackTotals /\ [Next]_vars => CountersTrackTotals'
  <2> SUFFICES ASSUME TypeOK, CountersTrackTotals, [Next]_vars
               PROVE  CountersTrackTotals'
    OBVIOUS
  <2>0. /\ garbage.w \in Int /\ garbage.r \in Int
        /\ Len(accepted) \in Nat /\ removed \in Nat
    BY DEF TypeOK, IntRange
  <2>1. ASSUME UNCHANGED <<m_num_of_r, m_num_of_w, accepted, removed, garbage>>
        PROVE  CountersTrackTotals'
    BY <2>1 DEF CountersTrackTotals
  <2>2. ASSUME NEW data \in Strings, WriteAccepted(data)
        PROVE  CountersTrackTotals'
    <3> DEFINE n == Min2(Len(data), remaining_capacity)
               t == garbage.w + Len(accepted)
    <3>1. n \in Nat /\ n < m_buf_size /\ n <= Len(data)  BY TakenBound
    <3>2. data \in Seq(Byte) /\ accepted \in Seq(Byte)
      BY ByteStreamAssumption DEF TypeOK
    <3> HIDE DEF n
    <3>3. SubSeq(data, 1, n) \in Seq(Byte) /\ Len(SubSeq(data, 1, n)) = n
      BY <3>1, <3>2
    <3>4. Len(accepted') = Len(accepted) + n
      BY <2>2, <3>2, <3>3 DEF WriteAccepted, Refuses, n
    <3>5. t \in Int /\ garbage.w + (Len(accepted) + n) = t + n  BY <2>0, <3>1
    <3> HIDE DEF t
    <3>6. ToInt(ToInt(t) + n) = ToInt(t + n)  BY <3>1, <3>5, ToIntAdd
    <3>7. m_num_of_w' = ToInt(ToInt(t) + n)
      BY <2>2 DEF WriteAccepted, Refuses, CountersTrackTotals, n, t
    <3> QED BY <2>2, <3>4, <3>5, <3>6, <3>7 DEF WriteAccepted, Refuses, CountersTrackTotals
  <2>3. CASE WriteRefused  BY <2>1, <2>3 DEF WriteRefused, Refuses
  <2>4. CASE EndInput  BY <2>1, <2>4 DEF EndInput
  <2>5. CASE SetError  BY <2>1, <2>5 DEF SetError
  <2>6. ASSUME NEW len \in Lens, Pop(len) PROVE CountersTrackTotals'
    <3> DEFINE n == IF error THEN 0 ELSE Min2(len, buffer_size)
               t == garbage.r + removed
    <3>1. n \in Nat  BY ByteStreamAssumption DEF Min2, buffer_size
    <3>2. m_num_of_r' = ToInt(m_num_of_r + n) /\ removed' = removed + n
      BY <2>6 DEF Pop
    <3> HIDE DEF n
    <3>3. t \in Int /\ garbage.r + (removed + n) = t + n  BY <2>0, <3>1
    <3>4. m_num_of_r = ToInt(t)  BY DEF CountersTrackTotals
    <3> HIDE DEF t
    <3>5. ToInt(ToInt(t) + n) = ToInt(t + n)  BY <3>1, <3>3, ToIntAdd
    <3> QED BY <2>6, <3>2, <3>3, <3>4, <3>5 DEF Pop, CountersTrackTotals
  <2>7. ASSUME NEW len \in Lens, PopOutput(len) \/ PeekOutput(len) \/ Read(len)
        PROVE  CountersTrackTotals'
    BY <2>1, <2>6, <2>7 DEF PopOutput, PeekOutput, Read
  <2>8. CASE UNCHANGED vars  BY <2>1, <2>8 DEF vars
  <2> QED BY <2>2, <2>3, <2>4, <2>5, <2>7, <2>8 DEF Next, Write
<1> QED BY <1>1, <1>2, TypeCorrect, PTL DEF Spec

\* After end_input() or an error, no call touches the input side again.
THEOREM InputFreezes == Spec => InputSideFrozen
<1> DEFINE Step == m_closed \/ error =>
                      /\ UNCHANGED <<m_head, m_buf, m_num_of_w, accepted>>
                      /\ m_closed => m_closed'
                      /\ error => error'
<1>1. [Next]_vars => [Step]_vars
  <2> SUFFICES ASSUME [Next]_vars, m_closed \/ error PROVE Step \/ UNCHANGED vars
    OBVIOUS
  <2>1. CASE WriteRefused  BY <2>1 DEF WriteRefused, Refuses, ring
  <2>2. ASSUME NEW data \in Strings, WriteAccepted(data) PROVE FALSE
    BY <2>2 DEF WriteAccepted, Refuses
  <2>3. CASE EndInput  BY <2>3 DEF EndInput, ring
  <2>4. CASE SetError  BY <2>4 DEF SetError, ring
  <2>5. ASSUME NEW len \in Lens, PopOutput(len) \/ PeekOutput(len) \/ Read(len)
        PROVE  Step
    BY <2>5 DEF PopOutput, PeekOutput, Read, Pop, ring, flags
  <2> QED BY <2>1, <2>2, <2>3, <2>4, <2>5 DEF Next, Write
<1> QED BY <1>1, PTL DEF Spec, InputSideFrozen
=============================================================================
