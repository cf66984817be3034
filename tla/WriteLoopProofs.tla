--------------------------- MODULE WriteLoopProofs --------------------------
(* BufferList::remove_prefix() and FileDescriptor::write(), for strings of   *)
(* any length cut into any number of Buffers.                                *)
EXTENDS WriteLoop, Foundations

(***************************************************************************)
(* The inductive invariant.  A Buffer or view shows at least one byte,     *)
(* unless it has no storage or an empty one: so it never starts beyond the *)
(* end of its string, and TrimBuffer and TrimView are the same where they  *)
(* are used.  While remove_prefix() runs, the bytes it has counted off are *)
(* bytes that there were.  While write() runs, the bytes still to be       *)
(* removed are in the views, what was sent and what then remains is the    *)
(* payload, and total_bytes_written lags behind `sent' by the turn that is *)
(* not finished.                                                           *)
(***************************************************************************)
SoundBuffer ==
    {b \in BufferType : b.storage # Null =>
        \/ b.offset < Len(Text[b.storage])
        \/ b.offset = 0 /\ Text[b.storage] = <<>>}

ListInv ==
    /\ list \in [Lists -> Seq(SoundBuffer)] /\ buffer \in SoundBuffer
    /\ target \in Lists \cup {Null} /\ n \in Nat /\ asked \in Nat
    /\ result \in {"returned", "runtime_error", "out_of_range"}
    /\ before \in Seq(Byte)
    /\ target # Null =>
          /\ n <= asked /\ asked - n <= Len(before)
          /\ Contents(list[target]) = SubSeq(before, asked - n + 1, Len(before))

\* What the views show beyond the bytes that are being removed.
Remaining == SubSeq(Contents(views), m + 1, Len(Contents(views)))

WriteType ==
    /\ pc \in {"idle", "writev", "remove", "returned", "threw"}
    /\ views \in Seq(SoundBuffer) /\ write_all \in BOOLEAN
    /\ bytes_written \in Nat /\ m \in Nat /\ total_bytes_written \in Nat
    /\ registered \in BOOLEAN
    /\ payload \in Seq(Byte) /\ sent \in Seq(Byte)

WriteInv ==
    /\ IsPrefix(sent, payload)
    /\ pc \in {"writev", "remove", "returned"} =>
          /\ m <= Len(Contents(views)) /\ payload = sent \o Remaining
          /\ sent # <<>> => registered
    /\ pc \in {"writev", "returned"} => m = 0 /\ total_bytes_written = Len(sent)
    /\ pc = "remove" => total_bytes_written + bytes_written = Len(sent)
    /\ pc = "returned" /\ write_all => Size(views) = 0
    /\ pc = "idle" =>
          /\ m = 0 /\ total_bytes_written = 0 /\ ~registered
          /\ payload = <<>> /\ sent = <<>>
    /\ sent # <<>> /\ bytes_written <= Len(payload) => registered

Inv == ListInv /\ WriteType /\ WriteInv

-----------------------------------------------------------------------------
(* Sequences *)

\* A sequence without its first i bytes, and then without k more.
LEMMA DropDrop ==
    ASSUME NEW B, NEW s \in Seq(B), NEW i \in 0 .. Len(s), NEW k \in 0 .. Len(s) - i,
           NEW t, t = SubSeq(s, i + 1, Len(s))
    PROVE  /\ t \in Seq(B) /\ Len(t) = Len(s) - i
           /\ SubSeq(t, k + 1, Len(t)) = SubSeq(s, i + k + 1, Len(s))
  OBVIOUS

\* Dropping k bytes of a concatenation, from its first part only.
LEMMA DropFirst ==
    ASSUME NEW B, NEW s \in Seq(B), NEW t \in Seq(B), NEW k \in 0 .. Len(s)
    PROVE  SubSeq(s \o t, k + 1, Len(s \o t)) = SubSeq(s, k + 1, Len(s)) \o t
<1> DEFINE c == s \o t
           d == SubSeq(s, k + 1, Len(s))
           u == SubSeq(c, k + 1, Len(c))
           v == d \o t
<1>1. c \in Seq(B) /\ Len(c) = Len(s) + Len(t)
      /\ \A i \in 1 .. Len(c) : c[i] = IF i <= Len(s) THEN s[i] ELSE t[i - Len(s)]
  OBVIOUS
<1>2. d \in Seq(B) /\ Len(d) = Len(s) - k /\ \A i \in 1 .. Len(d) : d[i] = s[k + i]
  OBVIOUS
<1> HIDE DEF c, d
<1>3. u \in Seq(B) /\ Len(u) = Len(c) - k /\ \A i \in 1 .. Len(u) : u[i] = c[k + i]
  BY <1>1
<1>4. v \in Seq(B) /\ Len(v) = Len(d) + Len(t)
      /\ \A i \in 1 .. Len(v) : v[i] = IF i <= Len(d) THEN d[i] ELSE t[i - Len(d)]
  <2>1. d \in Seq(B)
    BY <1>2
  <2> QED BY <2>1, ConcatProperties
<1> HIDE DEF u, v
<1>5. Len(u) = Len(v)
  BY <1>1, <1>2, <1>3, <1>4
<1>6. \A i \in 1 .. Len(u) : u[i] = v[i]
  <2> TAKE i \in 1 .. Len(u)
  <2>1. k + i \in 1 .. Len(c) /\ u[i] = c[k + i] /\ i \in 1 .. Len(v)
    BY <1>1, <1>3, <1>5
  <2>2. CASE k + i <= Len(s)
    <3>1. i \in 1 .. Len(d) /\ i <= Len(d)
      BY <1>1, <1>2, <1>3, <2>2
    <3> QED BY <1>1, <1>2, <1>4, <2>1, <2>2, <3>1
  <2>3. CASE ~(k + i <= Len(s))
    <3>1. ~(i <= Len(d)) /\ (k + i) - Len(s) = i - Len(d)
      BY <1>1, <1>2, <1>3, <2>3
    <3>2. c[k + i] = t[(k + i) - Len(s)]
      BY <1>1, <2>1, <2>3
    <3>3. v[i] = t[i - Len(d)]
      BY <1>4, <2>1, <3>1
    <3> QED BY <2>1, <3>1, <3>2, <3>3
  <2> QED BY <2>2, <2>3
<1>7. u = v
  BY <1>3, <1>4, <1>5, <1>6, SeqEqual
<1> QED BY <1>7 DEF u, v, c, d

\* What is taken from the front and what is left make up the whole.
LEMMA TakeDrop ==
    ASSUME NEW B, NEW s \in Seq(B), NEW k \in 0 .. Len(s)
    PROVE  /\ SubSeq(s, 1, k) \in Seq(B) /\ Len(SubSeq(s, 1, k)) = k
           /\ SubSeq(s, k + 1, Len(s)) \in Seq(B)
           /\ SubSeq(s, 1, k) \o SubSeq(s, k + 1, Len(s)) = s
<1> DEFINE t == SubSeq(s, 1, k)
           d == SubSeq(s, k + 1, Len(s))
           v == t \o d
<1>1. t \in Seq(B) /\ Len(t) = k /\ \A i \in 1 .. Len(t) : t[i] = s[i]
  OBVIOUS
<1>2. d \in Seq(B) /\ Len(d) = Len(s) - k /\ \A i \in 1 .. Len(d) : d[i] = s[k + i]
  OBVIOUS
<1> HIDE DEF t, d
<1>3. v \in Seq(B) /\ Len(v) = Len(t) + Len(d)
      /\ \A i \in 1 .. Len(v) : v[i] = IF i <= Len(t) THEN t[i] ELSE d[i - Len(t)]
  BY <1>1, <1>2
<1> HIDE DEF v
<1>4. Len(v) = Len(s)
  BY <1>1, <1>2, <1>3
<1>5. \A i \in 1 .. Len(v) : v[i] = s[i]
  BY <1>1, <1>2, <1>3, <1>4
<1>6. v = s
  BY <1>3, <1>4, <1>5, SeqEqual
<1> QED BY <1>1, <1>2, <1>6 DEF t, d, v

\* A beginning that reaches into the second part.
LEMMA TakeSecond ==
    ASSUME NEW B, NEW u \in Seq(B), NEW v \in Seq(B), NEW k \in 0 .. Len(v)
    PROVE  u \o SubSeq(v, 1, k) = SubSeq(u \o v, 1, Len(u) + k)
  OBVIOUS

\* A sequence is a prefix of what it is extended to.
LEMMA PrefixOfConcat ==
    ASSUME NEW B, NEW s \in Seq(B), NEW t \in Seq(B)
    PROVE  IsPrefix(s, s \o t)
  BY DEF IsPrefix

\* Concatenation is associative.
LEMMA Associative ==
    ASSUME NEW B, NEW s \in Seq(B), NEW t \in Seq(B), NEW u \in Seq(B)
    PROVE  (s \o t) \o u = s \o (t \o u)
  OBVIOUS

\* The smaller of two numbers.
LEMMA MinPair ==
    ASSUME NEW a \in Nat, NEW b \in Nat
    PROVE  Min({a, b}) = IF a <= b THEN a ELSE b
  BY DEF Min

-----------------------------------------------------------------------------
(* Buffers and views *)

\* The bytes a Buffer stands for.
LEMMA StrFacts ==
    ASSUME NEW b \in SoundBuffer
    PROVE  /\ Str(b) \in Seq(Byte)
           /\ Len(Str(b)) = IF b.storage = Null THEN 0 ELSE Len(Text[b.storage]) - b.offset
           /\ b.storage # Null => Str(b) # <<>> \/ Text[b.storage] = <<>>
<1>1. CASE b.storage = Null
  BY <1>1 DEF Str
<1>2. CASE b.storage # Null
  <2>1. Text[b.storage] \in Seq(Byte) /\ b.offset \in Nat /\ b.offset <= Len(Text[b.storage])
    BY <1>2, BufferListAssumption DEF SoundBuffer, BufferType
  <2>2. \/ b.offset < Len(Text[b.storage])
        \/ b.offset = 0 /\ Text[b.storage] = <<>>
    BY <1>2 DEF SoundBuffer
  <2>3. Str(b) = SubSeq(Text[b.storage], b.offset + 1, Len(Text[b.storage]))
    BY <1>2 DEF Str
  <2>4. Str(b) \in Seq(Byte) /\ Len(Str(b)) = Len(Text[b.storage]) - b.offset
    BY <2>1, <2>3
  <2> QED BY <1>2, <2>1, <2>2, <2>4
<1> QED BY <1>1, <1>2

\* Less than what it shows may be trimmed from a view.
LEMMA TrimFacts ==
    ASSUME NEW b \in SoundBuffer, NEW k \in Nat, k < Len(Str(b))
    PROVE  /\ TrimView(b, k) \in SoundBuffer
           /\ TrimBuffer(b, k) = TrimView(b, k)
           /\ Str(TrimView(b, k)) = SubSeq(Str(b), k + 1, Len(Str(b)))
<1> DEFINE c == TrimView(b, k)
<1>1. b.storage # Null /\ b.storage \in Storages /\ b.offset \in Nat
      /\ b = [storage |-> b.storage, offset |-> b.offset]
  BY StrFacts DEF SoundBuffer, BufferType
<1>2. Text[b.storage] \in Seq(Byte) /\ b.offset + k < Len(Text[b.storage])
  BY <1>1, StrFacts, BufferListAssumption
<1>3. c.storage = b.storage /\ c.offset = b.offset + k /\ c \in BufferType
  BY <1>1 DEF TrimView, BufferType
<1>4. c \in SoundBuffer
  BY <1>2, <1>3 DEF SoundBuffer
<1>5. TrimBuffer(b, k) = c
  BY <1>1, <1>2 DEF TrimBuffer, TrimView
<1>6. Str(c) = SubSeq(Str(b), k + 1, Len(Str(b)))
  <2> DEFINE t == Text[b.storage]
  <2>1. Str(c) = SubSeq(t, b.offset + k + 1, Len(t))
    BY <1>1, <1>3 DEF Str
  <2>2. Str(b) = SubSeq(t, b.offset + 1, Len(t))
    BY <1>1 DEF Str
  <2>3. b.offset \in 0 .. Len(t) /\ k \in 0 .. Len(t) - b.offset /\ t \in Seq(Byte)
    BY <1>1, <1>2
  <2> HIDE DEF t
  <2>4. SubSeq(Str(b), k + 1, Len(Str(b))) = SubSeq(t, b.offset + k + 1, Len(t))
    <3>1. \A s \in Seq(Byte) : \A i \in 0 .. Len(s) : \A j \in 0 .. Len(s) - i :
            SubSeq(SubSeq(s, i + 1, Len(s)), j + 1, Len(SubSeq(s, i + 1, Len(s))))
              = SubSeq(s, i + j + 1, Len(s))
      BY DropDrop
    <3> QED BY <2>2, <2>3, <3>1
  <2> QED BY <2>1, <2>4
<1> QED BY <1>4, <1>5, <1>6

-----------------------------------------------------------------------------
(* Sequences of them *)

\* The strings of a list of Buffers.
LEMMA StrsType ==
    ASSUME NEW q \in Seq(SoundBuffer)
    PROVE  /\ [i \in DOMAIN q |-> Str(q[i])] \in Seq(Seq(Byte))
           /\ Len([i \in DOMAIN q |-> Str(q[i])]) = Len(q)
<1>1. DOMAIN q = 1 .. Len(q) /\ Len(q) \in Nat /\ \A i \in 1 .. Len(q) : q[i] \in SoundBuffer
  OBVIOUS
<1>2. \A i \in 1 .. Len(q) : Str(q[i]) \in Seq(Byte)
  BY <1>1, StrFacts
<1> QED BY <1>1, <1>2

\* concatenate() gives a string, and size() its length.
LEMMA ContentsFacts ==
    ASSUME NEW q \in Seq(SoundBuffer)
    PROVE  /\ Contents(q) \in Seq(Byte)
           /\ Size(q) = Len(Contents(q))
<1> DEFINE ss == [i \in DOMAIN q |-> Str(q[i])]
<1>1. ss \in Seq(Seq(Byte)) /\ Len(ss) = Len(q)
  BY StrsType
<1>2. DOMAIN ss = DOMAIN q
  OBVIOUS
<1>3. [i \in DOMAIN ss |-> Len(ss[i])] = [i \in DOMAIN q |-> Len(Str(q[i]))]
  OBVIOUS
<1>4. Contents(q) = FlattenSeq(ss) /\ Size(q) = Total([i \in DOMAIN ss |-> Len(ss[i])])
  BY <1>3 DEF Contents, Size
<1> HIDE DEF ss
<1> QED BY <1>1, <1>4, FlattenType, FlattenLen

\* An empty list has no bytes.
LEMMA ContentsEmpty == Contents(<<>>) = <<>>
<1>1. [i \in DOMAIN <<>> |-> Str(<<>>[i])] = <<>>
  OBVIOUS
<1> QED BY <1>1, FlattenEmpty DEF Contents

\* The bytes of a list with a Buffer put before it.
LEMMA ContentsCons ==
    ASSUME NEW b \in SoundBuffer, NEW q \in Seq(SoundBuffer)
    PROVE  Contents(<<b>> \o q) = Str(b) \o Contents(q)
<1> DEFINE p == <<b>> \o q
           ss == [i \in DOMAIN q |-> Str(q[i])]
           tt == [i \in DOMAIN p |-> Str(p[i])]
<1>1. p \in Seq(SoundBuffer) /\ Len(p) = Len(q) + 1 /\ p[1] = b
      /\ \A i \in 2 .. Len(q) + 1 : p[i] = q[i - 1]
  OBVIOUS
<1> HIDE DEF p
<1>2. ss \in Seq(Seq(Byte)) /\ Len(ss) = Len(q) /\ \A i \in 1 .. Len(q) : ss[i] = Str(q[i])
  <2>1. DOMAIN q = 1 .. Len(q)
    OBVIOUS
  <2> QED BY <2>1, StrsType
<1>3. tt \in Seq(Seq(Byte)) /\ Len(tt) = Len(p) /\ \A i \in 1 .. Len(p) : tt[i] = Str(p[i])
  <2>1. DOMAIN p = 1 .. Len(p)
    BY <1>1
  <2> QED BY <1>1, <2>1, StrsType
<1> HIDE DEF ss, tt
<1>4. Str(b) \in Seq(Byte)
  BY StrFacts
<1>5. tt = <<Str(b)>> \o ss
  <2> DEFINE uu == <<Str(b)>> \o ss
  <2>1. uu \in Seq(Seq(Byte)) /\ Len(uu) = Len(ss) + 1 /\ uu[1] = Str(b)
        /\ \A i \in 2 .. Len(ss) + 1 : uu[i] = ss[i - 1]
    BY <1>2, <1>4
  <2> HIDE DEF uu
  <2>2. Len(tt) = Len(uu)
    BY <1>1, <1>2, <1>3, <2>1
  <2>3. \A i \in 1 .. Len(tt) : tt[i] = uu[i]
    <3> TAKE i \in 1 .. Len(tt)
    <3>1. CASE i = 1
      BY <1>1, <1>3, <2>1, <3>1
    <3>2. CASE i # 1
      <4>1. i \in 2 .. Len(q) + 1 /\ i - 1 \in 1 .. Len(q) /\ i \in 1 .. Len(p)
        BY <1>1, <1>3, <3>2
      <4> QED BY <1>1, <1>2, <1>3, <2>1, <4>1
    <3> QED BY <3>1, <3>2
  <2>4. tt = uu
    BY <1>3, <2>1, <2>2, <2>3, SeqEqual
  <2> QED BY <2>4 DEF uu
<1>6. Contents(p) = FlattenSeq(tt) /\ Contents(q) = FlattenSeq(ss)
  BY DEF Contents, ss, tt
<1>7. FlattenSeq(<<Str(b)>> \o ss) = Str(b) \o FlattenSeq(ss)
  BY <1>2, <1>4, FlattenCons
<1> QED BY <1>5, <1>6, <1>7 DEF p

\* The bytes of a list are those of its first Buffer and then the others'.
LEMMA ContentsHead ==
    ASSUME NEW q \in Seq(SoundBuffer), q # <<>>
    PROVE  Contents(q) = Str(Head(q)) \o Contents(Tail(q))
<1>1. Head(q) \in SoundBuffer /\ Tail(q) \in Seq(SoundBuffer) /\ q = <<Head(q)>> \o Tail(q)
  OBVIOUS
<1> QED BY <1>1, ContentsCons

\* One turn of the loop of remove_prefix(), of a BufferList or a
\* BufferViewList: the bytes that it counts off are there, and are gone.
LEMMA TurnFacts ==
    ASSUME NEW q \in Seq(SoundBuffer), q # <<>>, NEW k \in Nat \ {0},
           NEW t, t = Turn(q, k, TrimView(Head(q), k))
    PROVE  /\ t.rest \in Seq(SoundBuffer)
           /\ t.n \in Nat /\ t.n <= k /\ k - t.n <= Len(Contents(q))
           /\ Contents(t.rest) = SubSeq(Contents(q), k - t.n + 1, Len(Contents(q)))
<1> DEFINE h == Str(Head(q))
           r == Contents(Tail(q))
<1>1. Head(q) \in SoundBuffer /\ Tail(q) \in Seq(SoundBuffer)
  OBVIOUS
<1>2. h \in Seq(Byte) /\ r \in Seq(Byte) /\ Contents(q) = h \o r
  BY <1>1, StrFacts, ContentsFacts, ContentsHead
<1>3. Len(h) \in Nat /\ Len(r) \in Nat /\ Len(Contents(q)) = Len(h) + Len(r)
  <2> HIDE DEF h, r
  <2> QED BY <1>2
<1>4. CASE k < Len(h)
  <2>1. t.rest = <<TrimView(Head(q), k)>> \o Tail(q) /\ t.n = 0
    BY <1>4 DEF Turn
  <2>2. TrimView(Head(q), k) \in SoundBuffer
        /\ Str(TrimView(Head(q), k)) = SubSeq(h, k + 1, Len(h))
    BY <1>1, <1>4, TrimFacts
  <2>3. t.rest \in Seq(SoundBuffer)
    <3>1. \A v \in SoundBuffer, p \in Seq(SoundBuffer) : <<v>> \o p \in Seq(SoundBuffer)
      OBVIOUS
    <3> QED BY <1>1, <2>1, <2>2, <3>1
  <2>4. Contents(t.rest) = SubSeq(h, k + 1, Len(h)) \o r
    BY <1>1, <2>1, <2>2, ContentsCons
  <2> HIDE DEF h, r
  <2>5. k \in 0 .. Len(h)
    BY <1>3, <1>4
  <2>6. SubSeq(h \o r, k + 1, Len(h \o r)) = SubSeq(h, k + 1, Len(h)) \o r
    BY <1>2, <2>5, DropFirst
  <2> QED BY <1>2, <1>3, <1>4, <2>1, <2>3, <2>4, <2>6, SMTT(30)
<1>5. CASE ~(k < Len(h))
  <2>1. t.rest = Tail(q) /\ t.n = k - Len(h)
    BY <1>5 DEF Turn
  <2> HIDE DEF h
  <2>2. t.n \in Nat /\ t.n <= k /\ k - t.n = Len(h)
    BY <1>3, <1>5, <2>1
  <2>3. Contents(t.rest) = r
    BY <2>1
  <2> HIDE DEF r
  <2>4. SubSeq(h \o r, Len(h) + 1, Len(h \o r)) = r
    BY <1>2
  <2>5. t.rest \in Seq(SoundBuffer)
    BY <1>1, <2>1
  <2>6. k - t.n <= Len(Contents(q))
    BY <1>3, <2>2
  <2>7. Contents(t.rest) = SubSeq(Contents(q), k - t.n + 1, Len(Contents(q)))
    BY <1>2, <2>2, <2>3, <2>4
  <2> QED BY <2>2, <2>5, <2>6, <2>7
<1> QED BY <1>4, <1>5

-----------------------------------------------------------------------------
(* BufferList keeps its part of the invariant. *)

\* Removing a prefix of any length leaves a sound Buffer.
LEMMA TrimBufferSound ==
    ASSUME NEW b \in SoundBuffer, NEW k \in Nat
    PROVE  TrimBuffer(b, k) \in SoundBuffer /\ EmptyBuffer \in SoundBuffer
<1>1. EmptyBuffer \in SoundBuffer
  BY DEF EmptyBuffer, SoundBuffer, BufferType
<1>2. CASE b.storage # Null /\ b.offset + k < Len(Text[b.storage])
  <2>1. k < Len(Str(b))
    <3>1. b.offset \in Nat /\ Len(Text[b.storage]) \in Nat
      BY <1>2, BufferListAssumption DEF SoundBuffer, BufferType
    <3> QED BY <1>2, <3>1, StrFacts
  <2> QED BY <1>1, <2>1, TrimFacts
<1>3. CASE ~(b.storage # Null /\ b.offset + k < Len(Text[b.storage]))
  BY <1>1, <1>3 DEF TrimBuffer
<1> QED BY <1>2, <1>3

\* An operation that gives list x the Buffers q.
LEMMA BecomesKeeps ==
    ASSUME ListInv, target = Null, NEW x \in Lists, NEW q \in Seq(SoundBuffer),
           Becomes(x, q)
    PROVE  ListInv'
  BY DEF ListInv, Becomes

\* A turn of the loop of BufferList::remove_prefix() keeps ListInv.
LEMMA RemoveTurnKeeps ==
    ASSUME ListInv, RemoveTurn
    PROVE  ListInv'
<1> DEFINE q == list[target]
           t == Turn(q, n, TrimBuffer(Head(q), n))
<1>1. target \in Lists /\ n \in Nat \ {0} /\ q \in Seq(SoundBuffer) /\ q # <<>>
      /\ asked \in Nat /\ before \in Seq(Byte)
  BY DEF ListInv, RemoveTurn
<1>2. n <= asked /\ asked - n <= Len(before)
      /\ Contents(q) = SubSeq(before, asked - n + 1, Len(before))
  BY <1>1, BufferListAssumption DEF ListInv
<1>3. list' = [list EXCEPT ![target] = t.rest] /\ n' = t.n
      /\ UNCHANGED <<buffer, target, result, before, asked>>
  BY DEF RemoveTurn
<1>4. t = Turn(q, n, TrimView(Head(q), n))
  <2>1. Head(q) \in SoundBuffer
    BY <1>1
  <2>2. n < Len(Str(Head(q))) => TrimBuffer(Head(q), n) = TrimView(Head(q), n)
    BY <1>1, <2>1, TrimFacts
  <2> QED BY <2>2 DEF Turn
<1> HIDE DEF q, t
<1>5. /\ t.rest \in Seq(SoundBuffer)
      /\ t.n \in Nat /\ t.n <= n /\ n - t.n <= Len(Contents(q))
      /\ Contents(t.rest) = SubSeq(Contents(q), n - t.n + 1, Len(Contents(q)))
  BY <1>1, <1>4, TurnFacts
<1>6. asked - t.n <= Len(before)
      /\ Contents(t.rest) = SubSeq(before, asked - t.n + 1, Len(before))
  <2>0. Len(before) \in Nat /\ Len(Contents(q)) = Len(before) - (asked - n)
    BY <1>1, <1>2
  <2>1. PICK i \in 0 .. Len(before) : i = asked - n
    BY <1>1, <1>2, <2>0
  <2>4. PICK k \in 0 .. Len(before) - i : k = n - t.n
    BY <1>1, <1>2, <1>5, <2>0, <2>1
  <2>2. SubSeq(Contents(q), k + 1, Len(Contents(q))) = SubSeq(before, i + k + 1, Len(before))
    <3>1. Contents(q) = SubSeq(before, i + 1, Len(before))
      BY <1>2, <2>1
    <3> QED BY <1>1, <3>1, DropDrop
  <2>3. i + k = asked - t.n /\ Len(before) \in Nat
    BY <1>1, <1>5, <2>0, <2>1, <2>4
  <2>5. asked - t.n <= Len(before)
    BY <2>0, <2>1, <2>3, <2>4
  <2> QED BY <1>5, <2>2, <2>3, <2>4, <2>5
<1>7. list' \in [Lists -> Seq(SoundBuffer)] /\ list'[target'] = t.rest
  BY <1>1, <1>3, <1>5 DEF ListInv
<1>8. n' \in Nat /\ n' <= asked' /\ asked' - n' <= Len(before')
      /\ Contents(list'[target']) = SubSeq(before', asked' - n' + 1, Len(before'))
  <2>1. t.n <= asked
    BY <1>1, <1>2, <1>5
  <2> QED BY <1>3, <1>5, <1>6, <1>7, <2>1
<1>9. buffer' \in SoundBuffer /\ target' \in Lists \cup {Null} /\ asked' \in Nat
      /\ result' \in {"returned", "runtime_error", "out_of_range"} /\ before' \in Seq(Byte)
  BY <1>3 DEF ListInv
<1> QED BY <1>7, <1>8, <1>9 DEF ListInv

\* Every operation of BufferList and Buffer keeps it.
LEMMA ListStep ==
    ASSUME ListInv, ListNext
    PROVE  ListInv'
<1>0. list \in [Lists -> Seq(SoundBuffer)] /\ buffer \in SoundBuffer
  BY DEF ListInv
<1>1. CASE ListCall
  <2>0. target = Null
    BY <1>1 DEF ListCall
  <2>1. ASSUME NEW x \in Lists, NEW s \in Storages, FromString(x, s) PROVE ListInv'
    <3>1. [storage |-> s, offset |-> 0] \in SoundBuffer
      <4>1. Text[s] \in Seq(Byte)
        BY BufferListAssumption
      <4>2. Text[s] = <<>> \/ 0 < Len(Text[s])
        BY <4>1
      <4> QED BY <4>2 DEF SoundBuffer, BufferType
    <3>2. <<[storage |-> s, offset |-> 0]>> \in Seq(SoundBuffer)
      BY <3>1
    <3> QED BY <2>0, <2>1, <3>2, BecomesKeeps DEF FromString
  <2>2. ASSUME NEW x \in Lists, FromBuffer(x) PROVE ListInv'
    <3>1. <<buffer>> \in Seq(SoundBuffer)
      BY <1>0
    <3> QED BY <2>0, <2>2, <3>1, BecomesKeeps DEF FromBuffer
  <2>3. ASSUME NEW x \in Lists, NEW y \in Lists, CopyFrom(x, y) \/ append(x, y)
        PROVE  ListInv'
    <3>1. list[x] \in Seq(SoundBuffer) /\ list[y] \in Seq(SoundBuffer)
      BY <1>0
    <3>2. list[x] \o list[y] \in Seq(SoundBuffer)
      BY <3>1, ConcatProperties
    <3> QED BY <2>0, <2>3, <3>1, <3>2, BecomesKeeps DEF CopyFrom, append
  <2>4. ASSUME NEW x \in Lists, ToBuffer(x) PROVE ListInv'
    <3>1. buffer' \in SoundBuffer
      <4>1. EmptyBuffer \in SoundBuffer
        BY <1>0, TrimBufferSound
      <4>2. Len(list[x]) = 1 => list[x][1] \in SoundBuffer
        <5>1. list[x] \in Seq(SoundBuffer)
          BY <1>0
        <5> QED BY <5>1
      <4> QED BY <1>0, <2>4, <4>1, <4>2 DEF ToBuffer
    <3>2. result' \in {"returned", "runtime_error", "out_of_range"}
          /\ UNCHANGED <<list, target, n, before, asked>>
      BY <2>4 DEF ToBuffer
    <3> QED BY <2>0, <3>1, <3>2 DEF ListInv
  <2>5. ASSUME NEW k \in 0 .. MaxPrefix, BufferRemovePrefix(k) PROVE ListInv'
    <3>1. buffer' \in SoundBuffer
      <4>1. k \in Nat
        BY BufferListAssumption
      <4> QED BY <1>0, <2>5, <4>1, TrimBufferSound DEF BufferRemovePrefix
    <3>2. result' \in {"returned", "runtime_error", "out_of_range"}
          /\ UNCHANGED <<list, target, n, before, asked>>
      BY <2>5 DEF BufferRemovePrefix
    <3> QED BY <2>0, <3>1, <3>2 DEF ListInv
  <2>6. ASSUME NEW x \in Lists, NEW k \in 0 .. MaxPrefix, RemovePrefix(x, k)
        PROVE  ListInv'
    <3>1. k \in Nat /\ list[x] \in Seq(SoundBuffer)
      BY <1>0, BufferListAssumption
    <3>2. Contents(list[x]) \in Seq(Byte)
      BY <3>1, ContentsFacts
    <3>3. target' = x /\ n' = k /\ asked' = k /\ before' = Contents(list[x])
          /\ UNCHANGED <<list, buffer, result>>
      BY <2>6 DEF RemovePrefix
    <3>4. before' = SubSeq(before', asked' - n' + 1, Len(before'))
          /\ asked' - n' = 0 /\ Len(before') \in Nat
      BY <3>1, <3>2, <3>3
    <3> QED BY <1>0, <3>1, <3>2, <3>3, <3>4 DEF ListInv
  <2> QED BY <1>1, <2>1, <2>2, <2>3, <2>4, <2>5, <2>6 DEF ListCall
<1>2. CASE RemoveTurn
  BY <1>2, RemoveTurnKeeps
<1>3. CASE RemoveEnds
  <2>1. target' = Null /\ n' = 0 /\ before' = <<>> /\ asked' = 0 /\ UNCHANGED <<list, buffer>>
        /\ result' \in {"returned", "runtime_error", "out_of_range"}
    BY <1>3 DEF RemoveEnds
  <2> QED BY <1>0, <2>1 DEF ListInv
<1> QED BY <1>1, <1>2, <1>3 DEF ListNext

-----------------------------------------------------------------------------
(* write() keeps its part of the invariant. *)

\* Calling write() keeps Inv.
LEMMA CallKeeps ==
    ASSUME Inv, NEW x \in Lists, NEW all \in BOOLEAN, Call(x, all)
    PROVE  Inv'
<1> DEFINE C == Contents(list[x])
<1>1. list[x] \in Seq(SoundBuffer)
  BY DEF Inv, ListInv
<1>2. C \in Seq(Byte)
  BY <1>1, ContentsFacts
<1>3. pc = "idle" /\ pc' = "writev" /\ write_all' = all /\ views' = list[x] /\ payload' = C
      /\ UNCHANGED <<bytes_written, m, total_bytes_written, registered, sent>>
  BY DEF Call
<1>4. m = 0 /\ total_bytes_written = 0 /\ sent = <<>>
  BY <1>3 DEF Inv, WriteInv
<1>5. ListInv'
  <2>1. result' = "returned" /\ UNCHANGED <<list, buffer, target, n, before, asked>>
    BY DEF Call
  <2> QED BY <2>1 DEF Inv, ListInv
<1>6. WriteType'
  BY <1>1, <1>2, <1>3, <1>4 DEF Inv, WriteType
<1> HIDE DEF C
<1>7. Contents(views') = C
  BY <1>3 DEF C
<1>8. <<>> \o C = C /\ SubSeq(C, 0 + 1, Len(C)) = C /\ Len(C) \in Nat /\ <<>> \in Seq(Byte)
  BY <1>2
<1>9. payload' = sent' \o Remaining'
  BY <1>3, <1>4, <1>7, <1>8 DEF Remaining
<1>10. IsPrefix(sent', payload')
  <2>1. IsPrefix(<<>>, <<>> \o C)
    BY <1>2, <1>8, PrefixOfConcat
  <2> QED BY <1>3, <1>4, <1>8, <2>1
<1>11. WriteInv'
  BY <1>3, <1>4, <1>7, <1>8, <1>9, <1>10 DEF WriteInv
<1> QED BY <1>5, <1>6, <1>11 DEF Inv

\* Whatever writev(2) answers, the invariant of write() is kept.
LEMMA WritevAnswersKeeps ==
    ASSUME WriteType, WriteInv, NEW k \in 0 .. Size(views) + 1, WritevAnswers(k)
    PROVE  WriteType' /\ WriteInv'
<1> DEFINE C == Contents(views)
           j == IF k <= Len(C) THEN k ELSE Len(C)
           T == SubSeq(C, 1, j)
           R == SubSeq(C, j + 1, Len(C))
<1>1. C \in Seq(Byte) /\ Size(views) = Len(C) /\ Len(C) \in Nat
  BY ContentsFacts DEF WriteType
<1>2. pc = "writev" /\ bytes_written' = k /\ sent' = sent \o Taken(k)
      /\ UNCHANGED <<views, write_all, total_bytes_written, payload>>
      /\ \/ ~Accepts(k) /\ pc' = "threw" /\ UNCHANGED <<m, registered>>
         \/ Accepts(k) /\ registered' = TRUE /\ pc' = "remove" /\ m' = k
  BY DEF WritevAnswers, register_write
<1>3. m = 0 /\ payload = sent \o C /\ total_bytes_written = Len(sent)
      /\ (sent # <<>> => registered) /\ sent \in Seq(Byte) /\ Len(sent) \in Nat
  <2>1. SubSeq(C, 0 + 1, Len(C)) = C
    BY <1>1
  <2>2. m = 0 /\ payload = sent \o Remaining /\ total_bytes_written = Len(sent)
        /\ (sent # <<>> => registered) /\ sent \in Seq(Byte)
    BY <1>2 DEF WriteInv, WriteType
  <2> QED BY <2>1, <2>2 DEF Remaining
<1>4. k \in Nat /\ k <= Len(C) + 1 /\ j \in 0 .. Len(C)
  BY <1>1
<1>5. Taken(k) = T
  <2>1. Min({k, Len(C)}) = j
    BY <1>1, <1>4, MinPair
  <2> QED BY <2>1 DEF Taken
<1>6. Accepts(k) <=> ~(k = 0 /\ Len(C) # 0) /\ k <= Len(C)
  BY <1>1, <1>4 DEF Accepts
<1>c. Contents(views) = C /\ Contents(views') = C
  BY <1>2
<1> HIDE DEF C
<1>7. T \in Seq(Byte) /\ Len(T) = j /\ R \in Seq(Byte) /\ T \o R = C
  <2> HIDE DEF j
  <2> QED BY <1>1, <1>4, TakeDrop
<1>8. sent' \in Seq(Byte) /\ Len(sent') = Len(sent) + j
  <2> HIDE DEF T, j
  <2> QED BY <1>2, <1>3, <1>5, <1>7, ConcatProperties
<1>9. payload' = sent' \o R
  <2> HIDE DEF T, R
  <2>1. (sent \o T) \o R = sent \o (T \o R)
    <3>1. PICK u \in Seq(Byte), v \in Seq(Byte), w \in Seq(Byte) : u = sent /\ v = T /\ w = R
      BY <1>3, <1>7
    <3>2. (u \o v) \o w = u \o (v \o w)
      BY Associative
    <3> QED BY <3>1, <3>2
  <2> QED BY <1>2, <1>3, <1>5, <1>7, <2>1
<1>10. IsPrefix(sent', payload')
  <2> HIDE DEF R
  <2> QED BY <1>7, <1>8, <1>9, PrefixOfConcat
<1>11. CASE Accepts(k)
  <2>1. registered' = TRUE /\ pc' = "remove" /\ m' = k /\ j = k
    BY <1>2, <1>6, <1>11
  <2>2. WriteType'
    BY <1>2, <1>4, <1>8, <2>1 DEF WriteType
  <2>3. Remaining' = R /\ m' <= Len(Contents(views'))
    BY <1>6, <1>11, <1>c, <2>1 DEF Remaining
  <2>4. total_bytes_written' + bytes_written' = Len(sent')
    BY <1>2, <1>3, <1>8, <2>1
  <2> HIDE DEF R, T, j
  <2> QED BY <1>9, <1>10, <2>1, <2>2, <2>3, <2>4 DEF WriteInv
<1>12. CASE ~Accepts(k)
  <2>1. registered' = registered /\ m' = m /\ pc' = "threw"
    BY <1>2, <1>12
  <2>2. WriteType'
    BY <1>2, <1>4, <1>8, <2>1 DEF WriteType
  <2>3. ASSUME sent' # <<>>, bytes_written' <= Len(payload'), ~registered PROVE FALSE
    <3>1. sent = <<>> /\ payload = C
      <4>1. sent = <<>>
        BY <1>3, <2>3
      <4>2. <<>> \o C = C
        BY <1>1
      <4> QED BY <1>3, <4>1, <4>2
    <3>2. k <= Len(C)
      BY <1>2, <2>3, <3>1
    <3>3. k = 0 /\ j = 0
      BY <1>6, <1>12, <3>2
    <3>4. Len(sent') = 0
      BY <1>8, <3>1, <3>3
    <3> QED BY <1>8, <2>3, <3>4
  <2>4. sent' # <<>> /\ bytes_written' <= Len(payload') => registered'
    BY <2>1, <2>3 DEF WriteType
  <2> QED BY <1>10, <2>1, <2>2, <2>4 DEF WriteInv
<1> QED BY <1>11, <1>12

\* A turn of the loop of BufferViewList::remove_prefix() keeps it too.
LEMMA RemoveViewsKeeps ==
    ASSUME WriteType, WriteInv, RemoveViews
    PROVE  WriteType' /\ WriteInv'
<1> DEFINE C == Contents(views)
           t == Turn(views, m, TrimView(Head(views), m))
           D == Contents(t.rest)
<1>1. pc = "remove" /\ m \in Nat \ {0} /\ views \in Seq(SoundBuffer)
  BY DEF RemoveViews, WriteType
<1>2. C \in Seq(Byte) /\ m <= Len(C) /\ payload = sent \o Remaining
      /\ (sent # <<>> => registered)
  BY <1>1, ContentsFacts DEF WriteInv
<1>3. views # <<>>
  <2>1. Len(<<>>) = 0
    OBVIOUS
  <2> QED BY <1>1, <1>2, <2>1, ContentsEmpty
<1>4. views' = t.rest /\ m' = t.n /\ pc' = "remove"
      /\ UNCHANGED <<write_all, bytes_written, total_bytes_written, registered, payload, sent>>
  BY <1>3 DEF RemoveViews
<1>5. /\ t.rest \in Seq(SoundBuffer)
      /\ t.n \in Nat /\ t.n <= m /\ m - t.n <= Len(C)
      /\ D = SubSeq(C, m - t.n + 1, Len(C))
  <2> HIDE DEF t
  <2>1. t = Turn(views, m, TrimView(Head(views), m))
    BY DEF t
  <2> QED BY <1>1, <1>3, <2>1, TurnFacts
<1>6. t.n <= Len(D) /\ SubSeq(D, t.n + 1, Len(D)) = SubSeq(C, m + 1, Len(C))
  <2> HIDE DEF C, D, t
  <2>0. Len(C) \in Nat
    BY <1>2
  <2>1. PICK i \in 0 .. Len(C) : i = m - t.n
    BY <1>1, <1>5, <2>0
  <2>2. PICK k \in 0 .. Len(C) - i : k = t.n
    BY <1>1, <1>2, <1>5, <2>0, <2>1
  <2>3. D = SubSeq(C, i + 1, Len(C))
    BY <1>5, <2>1
  <2>4. Len(D) = Len(C) - i /\ SubSeq(D, k + 1, Len(D)) = SubSeq(C, i + k + 1, Len(C))
    BY <1>2, <2>3, DropDrop
  <2>5. i + k = m
    BY <1>1, <1>5, <2>1, <2>2
  <2>6. k <= Len(D)
    BY <2>0, <2>4
  <2> QED BY <2>2, <2>4, <2>5, <2>6
<1>7. Remaining' = Remaining /\ m' <= Len(Contents(views'))
  BY <1>4, <1>6 DEF Remaining
<1>8. WriteType'
  BY <1>4, <1>5 DEF WriteType
<1>9. WriteInv'
  <2> HIDE DEF C, D, t
  <2> QED BY <1>1, <1>2, <1>4, <1>7 DEF WriteInv
<1> QED BY <1>8, <1>9

\* Every step of write() keeps it.
LEMMA WriteStep ==
    ASSUME WriteType, WriteInv, write
    PROVE  WriteType' /\ WriteInv'
<1>1. CASE WritevFails
  <2>1. pc = "writev" /\ pc' = "threw"
        /\ UNCHANGED <<views, write_all, bytes_written, m, total_bytes_written,
                       registered, payload, sent>>
    BY <1>1 DEF WritevFails
  <2> QED BY <2>1 DEF WriteType, WriteInv
<1>2. ASSUME NEW k \in 0 .. Size(views) + 1, WritevAnswers(k)
      PROVE  WriteType' /\ WriteInv'
  BY <1>2, WritevAnswersKeeps
<1>3. CASE RemoveViews
  BY <1>3, RemoveViewsKeeps
<1>4. CASE TurnEnds
  <2>1. pc = "remove" /\ m = 0 /\ total_bytes_written' = total_bytes_written + bytes_written
        /\ UNCHANGED <<views, write_all, bytes_written, m, registered, payload, sent>>
        /\ pc' = IF MoreToWrite THEN "writev" ELSE "returned"
    BY <1>4 DEF TurnEnds
  <2>2. total_bytes_written' = Len(sent) /\ total_bytes_written' \in Nat
    BY <2>1 DEF WriteType, WriteInv
  <2>3. Remaining' = Remaining /\ Contents(views') = Contents(views) /\ Size(views') = Size(views)
    BY <2>1 DEF Remaining
  <2>4. pc' = "returned" /\ write_all => Size(views) = 0
    BY <2>1 DEF MoreToWrite
  <2>5. pc' \in {"writev", "returned"}
    BY <2>1
  <2>6. WriteType'
    BY <2>1, <2>2, <2>5 DEF WriteType
  <2> QED BY <2>1, <2>2, <2>3, <2>4, <2>5, <2>6 DEF WriteInv
<1>5. CASE Leave
  <2>1. pc' = "idle" /\ views' = <<>> /\ write_all' = FALSE /\ bytes_written' = 0 /\ m' = 0
        /\ total_bytes_written' = 0 /\ registered' = FALSE /\ payload' = <<>> /\ sent' = <<>>
    BY <1>5 DEF Leave
  <2>2. IsPrefix(<<>>, <<>>)
    BY DEF IsPrefix
  <2>3. WriteType'
    <3>1. <<>> \in Seq(SoundBuffer) /\ <<>> \in Seq(Byte)
      OBVIOUS
    <3>2. write_all' \in BOOLEAN /\ registered' \in BOOLEAN
      BY <2>1, Zenon
    <3> QED BY <2>1, <3>1, <3>2 DEF WriteType
  <2>4. WriteInv'
    <3>1. sent' = <<>> /\ pc' = "idle" /\ IsPrefix(sent', payload')
      BY <2>1, <2>2
    <3>2. ~registered' /\ m' = 0 /\ total_bytes_written' = 0 /\ payload' = <<>>
      BY <2>1
    <3> QED BY <3>1, <3>2 DEF WriteInv
  <2> QED BY <2>3, <2>4
<1> QED BY <1>1, <1>2, <1>3, <1>4, <1>5 DEF write

-----------------------------------------------------------------------------

\* The invariant holds of the BufferLists and of write() together.
LEMMA Invariance == Spec => []Inv
<1>1. Init => Inv
  <2>1. SUFFICES ASSUME Init PROVE Inv
    OBVIOUS
  <2>2. EmptyBuffer \in SoundBuffer
    BY DEF EmptyBuffer, SoundBuffer, BufferType
  <2>3. <<>> \in Seq(SoundBuffer) /\ <<>> \in Seq(Byte)
    OBVIOUS
  <2>4. ListInv
    BY <2>1, <2>2, <2>3 DEF Init, ListInit, ListInv
  <2>5. WriteType
    <3>1. write_all \in BOOLEAN /\ registered \in BOOLEAN
      BY <2>1, Zenon DEF Init
    <3> QED BY <2>1, <2>3, <3>1 DEF Init, WriteType
  <2>6. WriteInv
    <3>1. IsPrefix(<<>>, <<>>)
      BY DEF IsPrefix
    <3> QED BY <2>1, <3>1 DEF Init, WriteInv
  <2> QED BY <2>4, <2>5, <2>6 DEF Inv
<1>2. Inv /\ [Next]_vars => Inv'
  <2>1. SUFFICES ASSUME Inv, [Next]_vars PROVE Inv'
    OBVIOUS
  <2>2. ASSUME ListNext, UNCHANGED writevars PROVE Inv'
    <3>1. ListInv'
      BY <2>1, <2>2, ListStep DEF Inv
    <3>2. WriteType' /\ WriteInv'
      BY <2>1, <2>2 DEF Inv, writevars, WriteType, WriteInv, Remaining
    <3> QED BY <3>1, <3>2 DEF Inv
  <2>3. ASSUME NEW x \in Lists, NEW all \in BOOLEAN, Call(x, all) PROVE Inv'
    BY <2>1, <2>3, CallKeeps
  <2>4. ASSUME write, UNCHANGED listvars PROVE Inv'
    <3>1. ListInv'
      BY <2>1, <2>4 DEF Inv, listvars, ListInv
    <3>2. WriteType' /\ WriteInv'
      BY <2>1, <2>4, WriteStep DEF Inv
    <3> QED BY <3>1, <3>2 DEF Inv
  <2>5. ASSUME UNCHANGED vars PROVE Inv'
    BY <2>1, <2>5 DEF Inv, vars, listvars, writevars, ListInv, WriteType, WriteInv, Remaining
  <2> QED BY <2>1, <2>2, <2>3, <2>4, <2>5 DEF Next
<1> QED BY <1>1, <1>2, PTL DEF Spec

\* Types, and with them: whatever writev(2) answers, write() does not make
\* BufferViewList::remove_prefix() throw.
THEOREM TypeCorrect == Spec => []TypeOK
<1>1. Inv => TypeOK
  <2>1. SoundBuffer \subseteq BufferType
    BY DEF SoundBuffer
  <2>2. \A q \in Seq(SoundBuffer) : q \in Seq(BufferType)
    BY <2>1, SeqMonotonic
  <2> QED BY <2>1, <2>2 DEF Inv, ListInv, WriteType, TypeOK
<1> QED BY <1>1, Invariance, PTL

\* BufferList::remove_prefix(): after every turn of its loop exactly the bytes
\* counted off are gone, for any list of Buffers and any argument.
THEOREM PrefixIsGone == Spec => []PrefixGone
<1>1. Inv => PrefixGone
  BY DEF Inv, ListInv, PrefixGone
<1> QED BY <1>1, Invariance, PTL

\* Buffer::remove_prefix() lets go of a string whose last byte it has taken.
THEOREM DrainedReleased == Spec => []DrainedIsReleased
<1>1. Inv => DrainedIsReleased
  <2>1. SUFFICES ASSUME Inv, NEW b \in {buffer} \cup UNION {BuffersOf(x) : x \in Lists}
                 PROVE  b.storage # Null => Str(b) # <<>> \/ Text[b.storage] = <<>>
    BY DEF DrainedIsReleased
  <2>2. b \in SoundBuffer
    <3>1. CASE b = buffer
      BY <2>1, <3>1 DEF Inv, ListInv
    <3>2. CASE \E x \in Lists : b \in BuffersOf(x)
      <4>1. PICK x \in Lists : b \in BuffersOf(x)
        BY <3>2
      <4>2. PICK i \in DOMAIN list[x] : b = list[x][i]
        BY <4>1 DEF BuffersOf
      <4>3. list[x] \in Seq(SoundBuffer)
        BY <2>1 DEF Inv, ListInv
      <4> QED BY <4>2, <4>3
    <3> QED BY <3>1, <3>2
  <2> QED BY <2>2, StrFacts
<1> QED BY <1>1, Invariance, PTL

\* The loop of write() sends the payload in order, without gap or repetition,
\* however writev(2) and the views cut it.
THEOREM SendsInOrder == Spec => []SentThenRest
<1>1. Inv => SentThenRest
  BY DEF Inv, WriteInv, Remaining, SentThenRest
<1> QED BY <1>1, Invariance, PTL

\* write() returns the number of bytes it sent, and with write_all only when
\* that is the payload.
THEOREM ReturnIsExact == Spec => []ReturnsWhatWasSent
<1>1. Inv => ReturnsWhatWasSent
  <2>1. SUFFICES ASSUME Inv, pc = "returned"
                 PROVE  total_bytes_written = Len(sent) /\ (write_all => sent = payload)
    BY DEF ReturnsWhatWasSent
  <2>2. total_bytes_written = Len(sent) /\ m = 0 /\ payload = sent \o Remaining
        /\ sent \in Seq(Byte) /\ views \in Seq(SoundBuffer)
    BY <2>1 DEF Inv, WriteInv, WriteType
  <2>3. ASSUME write_all PROVE sent = payload
    <3>1. Len(Contents(views)) = 0 /\ Contents(views) \in Seq(Byte)
      BY <2>1, <2>2, <2>3, ContentsFacts DEF Inv, WriteInv
    <3>2. Remaining = <<>>
      BY <2>2, <3>1 DEF Remaining
    <3> QED BY <2>2, <3>2, ConcatEmptySeq
  <2> QED BY <2>2, <2>3
<1> QED BY <1>1, Invariance, PTL

\* write() registers what it got out, also when a later turn throws.
THEOREM SentCounted == Spec => []SentIsCounted
<1>1. Inv => SentIsCounted
  BY DEF Inv, WriteInv, SentIsCounted
<1> QED BY <1>1, Invariance, PTL

-----------------------------------------------------------------------------
(* write() implements Transmission. *)

\* Besides Inv, the refinement needs to know when the loop goes on: the count
\* has moved once writev(2) has been answered, and it is asked again only to
\* write all of a payload of which something is left.
TurnsInv ==
    /\ pc \in {"remove", "returned"} => registered
    /\ pc = "writev" /\ registered => write_all /\ Size(views) # 0

\* Every step keeps TurnsInv.
LEMMA TurnsStep == Inv /\ TurnsInv /\ [Next]_vars => TurnsInv'
<1> SUFFICES ASSUME Inv, TurnsInv, [Next]_vars PROVE TurnsInv'
  OBVIOUS
<1>1. ASSUME UNCHANGED writevars PROVE TurnsInv'
  BY <1>1 DEF writevars, TurnsInv
<1>2. ASSUME NEW x \in Lists, NEW all \in BOOLEAN, Call(x, all) PROVE TurnsInv'
  <2>1. pc = "idle" /\ pc' = "writev" /\ registered' = registered
    BY <1>2 DEF Call
  <2>2. ~registered
    BY <2>1 DEF Inv, WriteInv
  <2> QED BY <2>1, <2>2 DEF TurnsInv
<1>3. CASE WritevFails
  BY <1>3 DEF WritevFails, TurnsInv
<1>4. ASSUME NEW k, WritevAnswers(k) PROVE TurnsInv'
  BY <1>4 DEF WritevAnswers, register_write, TurnsInv
<1>5. CASE RemoveViews
  <2>1. pc = "remove" /\ pc' \in {"remove", "out_of_range"} /\ registered' = registered
    BY <1>5 DEF RemoveViews
  <2> QED BY <2>1 DEF TurnsInv
<1>6. CASE TurnEnds
  BY <1>6 DEF TurnEnds, MoreToWrite, TurnsInv
<1>7. CASE Leave
  BY <1>7 DEF Leave, TurnsInv
<1> QED BY <1>1, <1>2, <1>3, <1>4, <1>5, <1>6, <1>7 DEF Next, write, vars

\* While writev(2) is being asked, the views show what is left of the payload.
LEMMA LeftToSend ==
    ASSUME Inv, pc = "writev"
    PROVE  LET C == Contents(views)
           IN  /\ C \in Seq(Byte) /\ Size(views) = Len(C) /\ Len(C) \in Nat
               /\ sent \in Seq(Byte) /\ Len(sent) \in Nat
               /\ payload \in Seq(Byte)
               /\ payload = sent \o C /\ Len(payload) = Len(sent) + Len(C)
<1> DEFINE C == Contents(views)
<1>1. C \in Seq(Byte) /\ Size(views) = Len(C) /\ Len(C) \in Nat
  BY ContentsFacts DEF Inv, WriteType
<1>2. m = 0 /\ payload = sent \o Remaining /\ sent \in Seq(Byte) /\ payload \in Seq(Byte)
  BY DEF Inv, WriteInv, WriteType
<1>3. Remaining = C
  BY <1>1, <1>2 DEF Remaining
<1> HIDE DEF C
<1>4. payload = sent \o C
  BY <1>2, <1>3
<1>5. Len(sent \o C) = Len(sent) + Len(C) /\ Len(sent) \in Nat
  BY <1>1, <1>2, ConcatProperties
<1> QED BY <1>1, <1>2, <1>4, <1>5 DEF C

\* It is asked only when Transmission says so.
LEMMA AskedInTime ==
    ASSUME Inv, TurnsInv, pc = "writev"
    PROVE  Promise!Asking
<1>1. CASE ~registered
  BY <1>1 DEF Promise!Asking
<1>2. CASE registered
  <2>1. write_all /\ Size(views) # 0
    BY <1>2 DEF TurnsInv
  <2>2. Len(payload) # Len(sent)
    BY <2>1, LeftToSend
  <2> QED BY <2>1, <2>2 DEF Promise!Asking
<1> QED BY <1>1, <1>2

\* What writev(2) takes is a piece of the payload; if the answer is refused,
\* nothing or everything has gone.
LEMMA AnswerIsPiece ==
    ASSUME Inv, Inv', TurnsInv, NEW k \in 0 .. Size(views) + 1, WritevAnswers(k)
    PROVE  Promise!Piece \/ Promise!Throw
<1> DEFINE C == Contents(views)
<1>0. /\ pc = "writev" /\ sent' = sent \o Taken(k)
      /\ UNCHANGED <<write_all, total_bytes_written, payload>>
      /\ \/ ~Accepts(k) /\ pc' = "threw" /\ registered' = registered
         \/ Accepts(k) /\ registered' = TRUE /\ pc' = "remove"
  BY DEF WritevAnswers, register_write
<1>1. Promise!Asking
  BY <1>0, AskedInTime
<1>2. /\ C \in Seq(Byte) /\ Size(views) = Len(C) /\ Len(C) \in Nat
      /\ sent \in Seq(Byte) /\ Len(sent) \in Nat /\ payload \in Seq(Byte)
      /\ payload = sent \o C /\ Len(payload) = Len(sent) + Len(C)
  BY <1>0, LeftToSend
<1>3. k \in Nat /\ k <= Len(C) + 1
  BY <1>2
<1>4. Taken(k) = SubSeq(C, 1, IF k <= Len(C) THEN k ELSE Len(C))
  BY <1>2, <1>3, MinPair DEF Taken
<1>5. Accepts(k) <=> ~(k = 0 /\ Len(C) # 0) /\ k <= Len(C)
  BY <1>2, <1>3 DEF Accepts
<1> HIDE DEF C
<1>6. CASE Accepts(k)
  <2>1. k <= Len(C) /\ Taken(k) = SubSeq(C, 1, k) /\ (k = 0 => Len(C) = 0)
    BY <1>4, <1>5, <1>6
  <2>2. /\ sent \o SubSeq(C, 1, k) = SubSeq(sent \o C, 1, Len(sent) + k)
    <3>1. PICK u \in Seq(Byte), v \in Seq(Byte) : u = sent /\ v = C
      BY <1>2
    <3>2. k \in 0 .. Len(v)
      BY <1>3, <2>1, <3>1
    <3>3. u \o SubSeq(v, 1, k) = SubSeq(u \o v, 1, Len(u) + k)
      BY <3>2, TakeSecond
    <3> QED BY <3>1, <3>3
  <2>3. sent' = SubSeq(payload, 1, Len(sent) + k)
    BY <1>0, <1>2, <2>1, <2>2
  <2>4. Len(sent) + k \in Len(sent) .. Len(payload)
    BY <1>2, <1>3, <2>1
  <2>5. Len(sent) + k = Len(sent) => sent = payload
    <3>1. SUFFICES ASSUME k = 0 PROVE sent = payload
      BY <1>2, <1>3
    <3>2. C = <<>>
      BY <1>2, <2>1, <3>1
    <3> QED BY <1>2, <3>2, ConcatEmptySeq
  <2>6. registered' = TRUE /\ pc' = "remove"
    BY <1>0, <1>6
  <2> QED BY <1>0, <1>1, <2>3, <2>4, <2>5, <2>6 DEF Promise!Piece
<1>7. CASE ~Accepts(k)
  <2>1. pc' = "threw" /\ registered' = registered
    BY <1>0, <1>7
  <2>2. CASE k = 0
    <3>1. Taken(k) = <<>>
      BY <1>2, <1>4, <2>2
    <3>2. sent' = sent
      BY <1>0, <1>2, <3>1, ConcatEmptySeq
    <3> QED BY <1>0, <1>1, <2>1, <3>2 DEF Promise!Throw
  <2>3. CASE k # 0
    <3>1. k > Len(C)
      BY <1>2, <1>3, <1>5, <1>7, <2>3
    <3>2. Taken(k) = SubSeq(C, 1, Len(C)) /\ SubSeq(C, 1, Len(C)) = C
      BY <1>2, <1>3, <1>4, <3>1
    <3>3. sent' = payload
      BY <1>0, <1>2, <3>2
    <3> QED BY <1>0, <1>1, <2>1, <3>3 DEF Promise!Throw
  <2> QED BY <2>2, <2>3
<1> QED BY <1>6, <1>7

\* Every step of the BufferLists and of write() is a step of Transmission, or
\* one that it does not see.
LEMMA StepIsPromised ==
    Inv /\ Inv' /\ TurnsInv /\ [Next]_vars => [Promise!Next]_(Promise!vars)
<1> SUFFICES ASSUME Inv, Inv', TurnsInv, [Next]_vars
             PROVE  [Promise!Next]_(Promise!vars)
  OBVIOUS
<1>1. ASSUME UNCHANGED writevars PROVE UNCHANGED Promise!vars
  BY <1>1 DEF writevars, Promise!vars
<1>2. ASSUME NEW x \in Lists, NEW a \in BOOLEAN, Call(x, a) PROVE Promise!Call
  <2>1. /\ pc = "idle" /\ pc' = "writev" /\ write_all' \in BOOLEAN
        /\ UNCHANGED <<sent, registered>>
    BY <1>2 DEF Call
  <2>2. payload' \in Seq(Byte)
    BY DEF Inv, WriteType
  <2> QED BY <2>1, <2>2 DEF Promise!Call
<1>3. CASE WritevFails
  <2>1. /\ pc = "writev" /\ pc' = "threw"
        /\ UNCHANGED <<write_all, payload, registered, sent>>
    BY <1>3 DEF WritevFails
  <2>2. Promise!Asking
    BY <2>1, AskedInTime
  <2>3. Promise!Throw
    BY <2>1, <2>2 DEF Promise!Throw
  <2> QED BY <2>3 DEF Promise!Next
<1>4. ASSUME NEW k \in 0 .. Size(views) + 1, WritevAnswers(k) PROVE Promise!Next
  BY <1>4, AnswerIsPiece DEF Promise!Next
<1>5. CASE RemoveViews
  <2>1. /\ pc = "remove" /\ pc' \in {"remove", "out_of_range"}
        /\ UNCHANGED <<write_all, registered, payload, sent>>
    BY <1>5 DEF RemoveViews
  <2>2. pc' = "remove"
    BY <2>1 DEF Inv, WriteType
  <2> QED BY <2>1, <2>2 DEF Promise!vars
<1>6. CASE TurnEnds
  <2>1. /\ pc = "remove" /\ m = 0
        /\ UNCHANGED <<views, write_all, registered, payload, sent>>
        /\ pc' = IF MoreToWrite THEN "writev" ELSE "returned"
    BY <1>6 DEF TurnEnds
  <2>2. CASE MoreToWrite
    BY <2>1, <2>2 DEF Promise!vars
  <2>3. CASE ~MoreToWrite
    <3>1. pc' = "returned" /\ registered
      BY <2>1, <2>3 DEF TurnsInv
    <3>2. total_bytes_written' = Len(sent)
      BY <2>1, <3>1 DEF Inv, WriteInv
    <3>3. ASSUME write_all PROVE sent = payload
      <4>1. Size(views) = 0 /\ views \in Seq(SoundBuffer)
        BY <2>3, <3>3 DEF MoreToWrite, Inv, WriteType
      <4>2. Len(Contents(views)) = 0 /\ Contents(views) \in Seq(Byte)
        BY <4>1, ContentsFacts
      <4>3. Remaining = <<>>
        BY <2>1, <4>2 DEF Remaining
      <4> QED BY <2>1, <4>3, ConcatEmptySeq DEF Inv, WriteInv, WriteType
    <3>4. ~Promise!Asking
      BY <3>1, <3>3 DEF Promise!Asking
    <3>5. Promise!Return
      BY <2>1, <3>1, <3>2, <3>4 DEF Promise!Return
    <3> QED BY <3>5 DEF Promise!Next
  <2> QED BY <2>2, <2>3
<1>7. CASE Leave
  <2>1. /\ pc \in {"returned", "threw"} /\ pc' = "idle" /\ write_all' = FALSE
        /\ registered' = FALSE /\ payload' = <<>> /\ sent' = <<>>
    BY <1>7 DEF Leave, Inv, WriteType
  <2>2. Promise!Leave
    BY <2>1 DEF Promise!Leave, Promise!Init
  <2> QED BY <2>2 DEF Promise!Next
<1> QED BY <1>1, <1>2, <1>3, <1>4, <1>5, <1>6, <1>7
        DEF Next, write, vars, Promise!Next

\* write(), whatever the views and whatever writev(2) answers, implements
\* Transmission; BufferViewList::remove_prefix() is invisible in it.
THEOREM WriteIsTransmission == Spec => IsTransmission
<1>1. Init => TurnsInv
  BY DEF Init, TurnsInv
<1>2. Init => Promise!Init
  BY DEF Init, Promise!Init
<1> QED BY <1>1, <1>2, Invariance, TurnsStep, StepIsPromised, PTL
        DEF Spec, IsTransmission, Promise!Spec
=============================================================================
