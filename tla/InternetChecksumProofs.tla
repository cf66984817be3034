----------------------- MODULE InternetChecksumProofs -----------------------
(* What InternetChecksum computes, for bytes of any width and data of any    *)
(* length: what the folding in value() makes of a sum, and which sum any     *)
(* series of calls of add() leaves.                                          *)
EXTENDS InternetChecksum, Foundations, TLAPS

\* A sum holds two words.
LEMMA WordModType == WordMod \in Nat /\ WordMod >= 4 /\ SumMod = WordMod * WordMod
<1>1. ByteMod \in Nat /\ ByteMod >= 2  BY ByteModAssumption
<1>2. ByteMod * ByteMod >= 2 * ByteMod
  <2>1. ByteMod * ByteMod = 2 * ByteMod + (ByteMod - 2) * ByteMod  BY <1>1
  <2>2. (ByteMod - 2) * ByteMod >= 0  BY <1>1
  <2> QED BY <1>1, <2>1, <2>2
<1> QED BY <1>1, <1>2 DEF WordMod, SumMod

\* A sum is its high word times WordMod plus its low word, each a word.
LEMMA HighAndLow ==
  ASSUME NEW t \in 0 .. SumMod - 1
  PROVE  \E a, b \in 0 .. WordMod - 1 :
            t = a * WordMod + b /\ a = t \div WordMod /\ b = t % WordMod
<1> DEFINE M == WordMod
           a == t \div M
           b == t % M
<1>0. M \in Nat /\ M >= 4 /\ t \in Nat /\ t < M * M  BY WordModType
<1> HIDE DEF M
<1>1. a \in Int /\ b \in 0 .. M - 1 /\ t = a * M + b  BY <1>0
<1> HIDE DEF a, b
<1>2. a >= 0
  <2>1. SUFFICES ASSUME a <= -1 PROVE FALSE  BY <1>1
  <2>2. (a + 1) * M <= 0  BY <1>0, <1>1, <2>1
  <2>3. a * M = (a + 1) * M - M  BY <1>0, <1>1
  <2> QED BY <1>0, <1>1, <2>2, <2>3
<1>3. a <= M - 1
  <2>1. SUFFICES ASSUME a >= M PROVE FALSE  BY <1>0, <1>1
  <2>2. (a - M) * M >= 0  BY <1>0, <1>1, <2>1
  <2>3. a * M = (a - M) * M + M * M  BY <1>0, <1>1
  <2> QED BY <1>0, <1>1, <2>2, <2>3
<1> QED BY <1>0, <1>1, <1>2, <1>3 DEF M, a, b

\* The loop of value() has ended after two turns, whatever _sum is, and what
\* it leaves is the ones' complement sum of RFC 1071: no carry is lost and
\* none is added twice.  (With _sum = total this is ChecksumExact.)
THEOREM FoldsToOnesComplement ==
  ASSUME NEW t \in 0 .. SumMod - 1
  PROVE  /\ Folded(Folded(t)) < WordMod
         /\ Folded(Folded(t)) = OnesComplement(t)
<1> DEFINE M == WordMod
<1>0. M \in Nat /\ M >= 4 /\ t \in Nat  BY WordModType
<1>1. PICK a \in 0 .. M - 1, b \in 0 .. M - 1 :
        t = a * M + b /\ a = t \div M /\ b = t % M
  BY HighAndLow
<1>d. \A x : Folded(x) = IF x >= M THEN (x \div M) + (x % M) ELSE x  BY DEF Folded
<1>e. OnesComplement(t) = IF t = 0 THEN 0 ELSE ((t - 1) % (M - 1)) + 1
  BY DEF OnesComplement
<1> HIDE DEF M
<1>2. a \in Int /\ b \in Int /\ a + b \in Nat /\ a + b <= 2 * M - 2  BY <1>0, <1>1
<1>3. Folded(t) = a + b
  <2>1. CASE t >= M  BY <1>1, <1>d, <2>1
  <2>2. CASE t < M
    <3>1. a = 0
      <4>1. SUFFICES ASSUME a >= 1 PROVE FALSE  BY <1>0, <1>1
      <4>2. (a - 1) * M >= 0  BY <1>0, <1>1, <4>1
      <4>3. a * M = (a - 1) * M + M  BY <1>0, <1>2
      <4> QED BY <1>0, <1>1, <2>2, <4>2, <4>3
    <3>2. a * M = 0  BY <1>0, <3>1
    <3> QED BY <1>0, <1>1, <1>d, <2>2, <3>1, <3>2
  <2> QED BY <1>0, <2>1, <2>2
<1>4. t = 0 <=> a + b = 0
  <2>1. a = 0 => a * M = 0  BY <1>0
  <2>2. a >= 1 => a * M >= 1
    <3>1. a * M = (a - 1) * M + M  BY <1>0, <1>2
    <3>2. a >= 1 => (a - 1) * M >= 0  BY <1>0, <1>2
    <3> QED BY <1>0, <1>2, <3>1, <3>2
  <2> QED BY <1>0, <1>1, <2>1, <2>2
<1>5. (t - 1) % (M - 1) = (a + b - 1) % (M - 1)
  <2>1. t - 1 = a * (M - 1) + (a + b - 1)
    <3>1. a * M = a * (M - 1) + a  BY <1>0, <1>2
    <3> QED BY <1>0, <1>1, <1>2, <3>1
  <2>2. M - 1 \in Nat \ {0} /\ a + b - 1 \in Int  BY <1>0, <1>2
  <2> QED BY <1>2, <2>1, <2>2, ModMultiple
<1>6. CASE a + b < M
  <2>1. Folded(a + b) = a + b  BY <1>0, <1>2, <1>6, <1>d
  <2>2. a + b > 0 => (a + b - 1) % (M - 1) = a + b - 1
    <3>1. a + b > 0 => a + b - 1 \in 0 .. (M - 1) - 1  BY <1>0, <1>2, <1>6
    <3>2. M - 1 \in Nat \ {0}  BY <1>0
    <3> QED BY <3>1, <3>2
  <2> QED BY <1>0, <1>2, <1>3, <1>4, <1>5, <1>6, <1>e, <2>1, <2>2 DEF M
<1>7. CASE a + b >= M
  <2> DEFINE r == a + b - M
  <2>0. r \in 0 .. M - 2 /\ a + b = 1 * M + r  BY <1>0, <1>2, <1>7
  <2>1. (a + b) % M = r
    <3>1. (1 * M + r) % M = r % M
      <4>1. M \in Nat \ {0} /\ r \in Int  BY <1>0, <2>0
      <4> HIDE DEF r
      <4>2. \A q \in Int : (q * M + r) % M = r % M  BY <4>1, ModMultiple
      <4>3. 1 \in Int  OBVIOUS
      <4> QED BY <4>2, <4>3, Zenon
    <3>2. r % M = r  BY <1>0, <2>0
    <3> QED BY <2>0, <3>1, <3>2
  <2>2. (a + b) \div M = 1
    <3> DEFINE q == (a + b) \div M
    <3>1. q \in Int /\ a + b = q * M + ((a + b) % M)  BY <1>0, <1>2
    <3> HIDE DEF q
    <3>2. (q - 1) * M = 0
      <4>1. (q - 1) * M = q * M - M  BY <1>0, <3>1
      <4> QED BY <1>0, <1>2, <2>0, <2>1, <3>1, <4>1
    <3>3. q - 1 = 0
      <4>1. q - 1 \in Int /\ M \in Nat \ {0} /\ (q - 1) * M < M /\ (q - 1) * M > -M
        BY <1>0, <3>1, <3>2
      <4> QED BY <4>1, SmallMultiple
    <3> QED BY <3>1, <3>3 DEF q
  <2>3. Folded(a + b) = r + 1  BY <1>0, <1>7, <1>d, <2>0, <2>1, <2>2
  <2>4. (a + b - 1) % (M - 1) = r
    <3>1. a + b - 1 = 1 * (M - 1) + r  BY <1>0, <1>2
    <3>2. M - 1 \in Nat \ {0} /\ r \in Int  BY <1>0, <2>0
    <3>3. (1 * (M - 1) + r) % (M - 1) = r % (M - 1)
      <4> HIDE DEF r
      <4>1. \A q \in Int : (q * (M - 1) + r) % (M - 1) = r % (M - 1)
        BY <3>2, ModMultiple
      <4>2. 1 \in Int  OBVIOUS
      <4> QED BY <4>1, <4>2, Zenon
    <3>4. r % (M - 1) = r  BY <1>0, <2>0, <3>2
    <3> QED BY <3>1, <3>3, <3>4
  <2> QED BY <1>0, <1>2, <1>3, <1>4, <1>5, <1>7, <1>e, <2>0, <2>3, <2>4 DEF M
<1> QED BY <1>0, <1>2, <1>6, <1>7

-----------------------------------------------------------------------------
(* What add() adds *)

\* The powers of ByteMod that there are.
LEMMA PlaceFacts ==
    /\ Place[0] = 1 /\ Place[1] = ByteMod /\ Place[2] = WordMod
    /\ Place[3] = WordMod * ByteMod /\ Place[4] = SumMod
<1> DEFINE F(g) == [k \in 0 .. 4 |-> IF k = 0 THEN 1 ELSE g[k - 1] * ByteMod]
<1>0. ByteMod \in Nat
  BY ByteModAssumption
<1>1. \E g : g = F(g)
  <2> DEFINE B == ByteMod
             f == [k \in 0 .. 4 |-> CASE k = 0 -> 1 [] k = 1 -> 1 * B [] k = 2 -> (1 * B) * B
                     [] k = 3 -> ((1 * B) * B) * B [] k = 4 -> (((1 * B) * B) * B) * B]
  <2>1. \A k \in 0 .. 4 : f[k] = IF k = 0 THEN 1 ELSE f[k - 1] * ByteMod
    <3> TAKE k \in 0 .. 4
    <3>1. k = 0 \/ k = 1 \/ k = 2 \/ k = 3 \/ k = 4
      OBVIOUS
    <3> QED BY <3>1
  <2>2. f = F(f)
    BY <2>1
  <2> QED BY <2>2
<1>2. Place = F(Place)
  <2>1. Place = CHOOSE g : g = F(g)
    BY Zenon DEF Place
  <2> HIDE DEF F
  <2> QED BY <1>1, <2>1, Zenon
<1>3. /\ Place[0] = 1 /\ Place[1] = Place[0] * ByteMod /\ Place[2] = Place[1] * ByteMod
      /\ Place[3] = Place[2] * ByteMod /\ Place[4] = Place[3] * ByteMod
  BY <1>2
<1>4. Place[1] = ByteMod
  BY <1>0, <1>3
<1>5. Place[2] = WordMod /\ Place[3] = WordMod * ByteMod /\ WordMod \in Nat
  BY <1>0, <1>3, <1>4 DEF WordMod
<1>6. (WordMod * ByteMod) * ByteMod = WordMod * (ByteMod * ByteMod)
  BY <1>0, <1>5
<1> QED BY <1>3, <1>4, <1>5, <1>6 DEF SumMod, WordMod

\* A byte is added for what its place in the whole makes it count, if the
\* parity is that of the number of bytes before: add() may be given the data
\* in chunks of any length.
LEMMA WordsArePlaced ==
    ASSUME NEW data \in Seq(Bytes), count \in Nat
    PROVE  Words(data, count % 2 = 1) = Placed(data)
<1>0. DOMAIN data = 1 .. Len(data) /\ Len(data) \in Nat
      /\ \A i \in 1 .. Len(data) : data[i] \in Bytes
  OBVIOUS
<1>1. ASSUME NEW i \in 1 .. Len(data)
      PROVE  Val(data[i], (count % 2 = 1) # (i % 2 = 0)) = data[i] * Place[(count + i) % 2]
  <2>1. data[i] \in Nat /\ i \in Nat
    BY <1>0, ByteModAssumption DEF Bytes
  <2>2. ((count % 2 = 1) # (i % 2 = 0)) <=> (count + i) % 2 = 0
    BY <2>1
  <2>3. (count + i) % 2 \in {0, 1}
    BY <2>1
  <2>4. CASE (count + i) % 2 = 0
    <3>1. Val(data[i], (count % 2 = 1) # (i % 2 = 0)) = data[i]
      BY <2>2, <2>4 DEF Val
    <3>2. data[i] * Place[(count + i) % 2] = data[i]
      BY <2>1, <2>4, PlaceFacts
    <3> QED BY <3>1, <3>2
  <2>5. CASE (count + i) % 2 = 1
    <3>1. Val(data[i], (count % 2 = 1) # (i % 2 = 0)) = data[i] * ByteMod
      BY <2>2, <2>5 DEF Val
    <3>2. data[i] * Place[(count + i) % 2] = data[i] * ByteMod
      BY <2>5, PlaceFacts
    <3> QED BY <3>1, <3>2
  <2> QED BY <2>3, <2>4, <2>5
<1>2. [i \in DOMAIN data |-> Val(data[i], (count % 2 = 1) # (i % 2 = 0))]
        = [i \in DOMAIN data |-> data[i] * Place[(count + i) % 2]]
  BY <1>0, <1>1
<1> QED BY <1>2 DEF Words, Placed

\* Twice what c bytes add is at most c * (WordMod - 1), and this much more
\* when the last word has only its high byte.
Slack(c) == IF c % 2 = 1 THEN WordMod - 2 * ByteMod + 1 ELSE 0

\* What a chunk adds, as a step of that bound.
LEMMA PlacedFacts ==
    ASSUME NEW data \in Seq(Bytes), count \in Nat
    PROVE  /\ Placed(data) \in Nat
           /\ 2 * Placed(data) + Slack(count)
                <= Len(data) * (WordMod - 1) + Slack(count + Len(data))
<1> DEFINE s == [i \in DOMAIN data |-> data[i] * Place[(count + i) % 2]]
           N == Len(data)
           M == WordMod
           B == ByteMod
<1>0. DOMAIN data = 1 .. N /\ N \in Nat /\ \A i \in 1 .. N : data[i] \in Bytes
  OBVIOUS
<1>1. B \in Nat /\ B >= 2 /\ M \in Nat /\ M = B * B
  BY ByteModAssumption, WordModType DEF WordMod
<1>2. \A i \in 1 .. N : s[i] = IF (count + i) % 2 = 1 THEN data[i] * B ELSE data[i]
  <2> TAKE i \in 1 .. N
  <2>1. data[i] \in Nat /\ (count + i) % 2 \in {0, 1}
    BY <1>0, <1>1 DEF Bytes
  <2>2. s[i] = data[i] * Place[(count + i) % 2]
    BY <1>0
  <2>3. (count + i) % 2 = 1 => s[i] = data[i] * B
    BY <2>2, PlaceFacts
  <2>4. (count + i) % 2 = 0 => s[i] = data[i]
    BY <2>1, <2>2, PlaceFacts
  <2> QED BY <2>1, <2>3, <2>4
<1>3. s \in Seq(Nat) /\ Len(s) = N
  <2>1. \A i \in 1 .. N : s[i] \in Nat
    <3> TAKE i \in 1 .. N
    <3>1. data[i] \in Nat /\ data[i] * B \in Nat
      BY <1>0, <1>1 DEF Bytes
    <3> QED BY <1>2, <3>1
  <2>2. s \in [1 .. N -> Nat]
    BY <1>0, <2>1
  <2> QED BY <1>0, <2>2
<1>4. Placed(data) = Total(s)
  BY DEF Placed
<1>5. \A c \in Nat : Slack(c) = IF c % 2 = 1 THEN M - 2 * B + 1 ELSE 0
  BY DEF Slack
<1> HIDE DEF s, N, M, B
<1>6. PICK f : /\ f[0] = 0
               /\ \A i \in 1 .. N : f[i] = f[i - 1] + s[i]
               /\ \A i \in 0 .. N : f[i] \in Nat
               /\ Total(s) = f[N]
  BY <1>3, TotalLoop
<1> DEFINE S == {i \in 0 .. N : 2 * f[i] + Slack(count) <= i * (M - 1) + Slack(count + i)}
<1>7. 0 \in S
  <2>1. Slack(count) \in Int /\ count + 0 = count
    BY <1>1, <1>5
  <2>2. 0 * (M - 1) = 0
    BY <1>1
  <2> QED BY <1>0, <1>6, <2>1, <2>2
<1>8. ASSUME NEW i \in 1 .. N, i - 1 \in S PROVE i \in S
  <2>0. i \in 0 .. N /\ i - 1 \in 0 .. N /\ count + i \in Nat /\ count + (i - 1) \in Nat
    BY <1>0
  <2>1. f[i] = f[i - 1] + s[i] /\ f[i - 1] \in Nat /\ f[i] \in Nat
    BY <1>6, <2>0
  <2>2. 2 * f[i - 1] + Slack(count) <= (i - 1) * (M - 1) + Slack(count + (i - 1))
    BY <1>8
  <2>3. i * (M - 1) = (i - 1) * (M - 1) + (M - 1) /\ (i - 1) * (M - 1) \in Int
    BY <1>1, <2>0
  <2>4. 2 * s[i] + Slack(count + (i - 1)) <= (M - 1) + Slack(count + i)
    <3>0. data[i] \in Nat /\ data[i] <= B - 1
      BY <1>0, <1>1 DEF Bytes, B
    <3>1. CASE (count + i) % 2 = 1
      <4>1. (count + (i - 1)) % 2 = 0
        BY <2>0, <3>1
      <4>2. Slack(count + (i - 1)) = 0 /\ Slack(count + i) = M - 2 * B + 1
        BY <1>5, <2>0, <3>1, <4>1
      <4>3. s[i] = data[i] * B
        BY <1>2, <3>1
      <4>4. data[i] * B <= (B - 1) * B
        <5>1. (B - 1 - data[i]) * B >= 0
          BY <1>1, <3>0
        <5>2. (B - 1 - data[i]) * B = (B - 1) * B - data[i] * B
          BY <1>1, <3>0
        <5> QED BY <1>1, <3>0, <5>1, <5>2
      <4>5. (B - 1) * B = M - B /\ data[i] * B \in Nat
        BY <1>1, <3>0
      <4> QED BY <1>1, <4>2, <4>3, <4>4, <4>5
    <3>2. CASE (count + i) % 2 # 1
      <4>1. (count + (i - 1)) % 2 = 1
        BY <2>0, <3>2
      <4>2. Slack(count + (i - 1)) = M - 2 * B + 1 /\ Slack(count + i) = 0
        BY <1>5, <2>0, <3>2, <4>1
      <4>3. s[i] = data[i]
        BY <1>2, <3>2
      <4> QED BY <1>1, <3>0, <4>2, <4>3
    <3> QED BY <3>1, <3>2
  <2>5. Slack(count) \in Int /\ Slack(count + i) \in Int /\ Slack(count + (i - 1)) \in Int
    BY <1>1, <1>5, <2>0
  <2>6. s[i] \in Nat
    BY <1>3
  <2>7. 2 * f[i] + Slack(count) <= i * (M - 1) + Slack(count + i)
    <3>1. PICK p \in Int, u \in Int, v \in Int, w \in Int :
            p = (i - 1) * (M - 1) /\ u = Slack(count) /\ v = Slack(count + (i - 1))
            /\ w = Slack(count + i)
      BY <2>3, <2>5, Zenon
    <3>2. 2 * f[i - 1] + u <= p + v
      BY <2>2, <3>1
    <3>5. i * (M - 1) = p + (M - 1)
      BY <2>3, <3>1
    <3>6. PICK m \in Nat : m = M
      BY <1>1
    <3>3. 2 * s[i] + v <= (M - 1) + w
      BY <2>4, <3>1
    <3>7. PICK x \in Nat, y \in Nat : x = f[i - 1] /\ y = s[i]
      BY <2>1, <2>6
    <3>8. 2 * x + u <= p + v /\ 2 * y + v <= (m - 1) + w
      BY <3>2, <3>3, <3>6, <3>7
    <3>9. 2 * (x + y) + u <= (p + (m - 1)) + w
      BY <3>8
    <3>4. 2 * f[i] + u <= (p + (M - 1)) + w
      BY <2>1, <3>6, <3>7, <3>9
    <3> HIDE DEF S
    <3> QED BY <3>1, <3>4, <3>5, Zenon
  <2> QED BY <2>0, <2>7
<1>9. N \in S
  <2>1. 0 .. N \subseteq S
    <3> HIDE DEF S
    <3> QED BY <1>0, <1>7, <1>8, IntervalInduction
  <2> HIDE DEF S
  <2> QED BY <1>0, <2>1
<1>10. Placed(data) \in Nat
  BY <1>3, <1>4, TotalType
<1>11. 2 * Placed(data) + Slack(count) <= N * (M - 1) + Slack(count + N)
  BY <1>4, <1>6, <1>9
<1> QED BY <1>10, <1>11 DEF N, M

-----------------------------------------------------------------------------
(* Any series of calls of add() *)

\* What add() keeps true: _sum is what was added, modulo its width; _parity is
\* the parity of the number of bytes; and what was added is bounded by that
\* number, so that a carry out of _sum takes many bytes.
SumInv ==
    /\ total \in Nat /\ count \in Nat /\ initial \in 0 .. SumMod - 1
    /\ parity = (count % 2 = 1)
    /\ sum = total % SumMod
    /\ initial <= total
    /\ 2 * (total - initial) <= count * (WordMod - 1) + Slack(count)

\* The width of the sum.
LEMMA SumModType == SumMod \in Nat \ {0} /\ SumMod >= WordMod
<1>1. WordMod * WordMod = (WordMod - 1) * WordMod + WordMod
  BY WordModType
<1>2. (WordMod - 1) * WordMod >= 0
  BY WordModType
<1>3. WordMod * WordMod \in Int
  BY WordModType
<1> QED BY WordModType, <1>1, <1>2, <1>3

\* The slack of an odd count is less than a word.
LEMMA SlackType == \A c \in Nat : Slack(c) \in Nat /\ Slack(c) <= WordMod - 1
<1>1. ByteMod \in Nat /\ ByteMod >= 2 /\ WordMod \in Nat
  BY ByteModAssumption, WordModType
<1>2. (ByteMod - 1) * (ByteMod - 1) = ByteMod * ByteMod - 2 * ByteMod + 1
  BY <1>1
<1>3. (ByteMod - 1) * (ByteMod - 1) >= 0
  BY <1>1
<1>4. WordMod - 2 * ByteMod + 1 \in Nat /\ WordMod - 2 * ByteMod + 1 <= WordMod - 1
  BY <1>1, <1>2, <1>3 DEF WordMod
<1> QED BY <1>1, <1>4, WordModType DEF Slack

\* The constructor establishes SumInv.
LEMMA SumInvInitial ==
    ASSUME NEW initial_sum \in 0 .. SumMod - 1, InitialSum(initial_sum)
    PROVE  SumInv'
<1>1. initial_sum % SumMod = initial_sum
  BY SumModType
<1>2. Slack(0) = 0 /\ 0 * (WordMod - 1) = 0
  BY WordModType DEF Slack
<1>3. 2 * (initial_sum - initial_sum) <= 0 * (WordMod - 1) + Slack(0)
  BY <1>2, SumModType
<1>4. initial_sum \in Nat /\ (FALSE = (0 % 2 = 1))
  BY SumModType
<1>5. /\ total' = initial_sum /\ initial' = initial_sum /\ count' = 0
      /\ sum' = initial_sum /\ parity' = FALSE
  BY DEF InitialSum
<1>6. initial' <= total' /\ 2 * (total' - initial') <= count' * (WordMod - 1) + Slack(count')
  BY <1>3, <1>4, <1>5
<1>7. parity' = (count' % 2 = 1) /\ sum' = total' % SumMod
  BY <1>1, <1>4, <1>5
<1>8. total' \in Nat /\ count' \in Nat /\ initial' \in 0 .. SumMod - 1
  BY <1>4, <1>5
<1> QED BY <1>6, <1>7, <1>8 DEF SumInv, Slack

\* add() keeps SumInv, whatever the parity it starts at.
LEMMA SumInvAdd ==
    ASSUME SumInv, NEW data \in Seq(Bytes), Add(data)
    PROVE  SumInv'
<1>0. Len(data) \in Nat /\ total \in Nat /\ count \in Nat /\ initial \in Nat
      /\ Placed(data) \in Nat
  <2>1. initial \in Nat /\ total \in Nat /\ count \in Nat
    BY SumModType DEF SumInv
  <2> QED BY <2>1, PlacedFacts
<1>1. PICK n \in Nat, t \in Nat, c \in Nat, a \in Nat, p \in Nat :
        n = Len(data) /\ t = total /\ c = count /\ a = initial /\ p = Placed(data)
  BY <1>0, Zenon
<1>2. count' = c + n /\ total' = t + p /\ initial' = a
  BY <1>1 DEF Add
<1>3. parity' = ((c + n) % 2 = 1)
  <2>1. parity' = ((c % 2 = 1) # (n % 2 = 1))
    BY <1>1 DEF Add, SumInv
  <2>2. ((c % 2 = 1) # (n % 2 = 1)) <=> (c + n) % 2 = 1
    OBVIOUS
  <2> QED BY <2>1, <2>2
<1>4. sum' = (t + p) % SumMod
  <2>1. Words(data, parity) = p
    <3>1. Words(data, count % 2 = 1) = Placed(data)
      BY WordsArePlaced DEF SumInv
    <3>2. parity = (count % 2 = 1)
      BY DEF SumInv
    <3> QED BY <1>1, <3>1, <3>2
  <2>2. sum' = ((t % SumMod) + p) % SumMod
    BY <1>1, <2>1 DEF Add, SumInv
  <2>3. t \in Int /\ p \in Int
    OBVIOUS
  <2>4. ((t % SumMod) + p) % SumMod = (t + p) % SumMod
    BY <2>3, SumModType, ModAdd
  <2> QED BY <2>2, <2>4
<1>5. 2 * ((t + p) - a) <= (c + n) * (WordMod - 1) + Slack(c + n)
  <2>1. PICK x \in Int, y \in Int, u \in Nat, v \in Nat :
          x = c * (WordMod - 1) /\ y = n * (WordMod - 1) /\ u = Slack(c) /\ v = Slack(c + n)
    <3>1. c * (WordMod - 1) \in Int /\ n * (WordMod - 1) \in Int
      BY WordModType
    <3>2. Slack(c) \in Nat /\ Slack(c + n) \in Nat
      BY SlackType
    <3> QED BY <3>1, <3>2, Zenon
  <2>2. 2 * (t - a) <= x + u
    BY <1>1, <2>1 DEF SumInv
  <2>3. 2 * p + u <= y + v
    BY <1>1, <2>1, PlacedFacts DEF SumInv
  <2>4. (c + n) * (WordMod - 1) = x + y
    BY <2>1, WordModType
  <2>5. 2 * ((t + p) - a) <= (x + y) + v
    BY <2>2, <2>3
  <2> QED BY <2>1, <2>4, <2>5
<1>6. a <= t + p /\ a \in 0 .. SumMod - 1
  BY <1>1 DEF SumInv
<1>7. SumInv' = /\ total' \in Nat /\ count' \in Nat /\ initial' \in 0 .. SumMod - 1
                /\ parity' = (count' % 2 = 1)
                /\ sum' = total' % SumMod
                /\ initial' <= total'
                /\ 2 * (total' - initial') <= count' * (WordMod - 1) + Slack(count')
  BY DEF SumInv, Slack
<1> QED BY <1>2, <1>3, <1>4, <1>5, <1>6, <1>7

\* In a packet whose length fits 16 bits no carry is lost at the top of _sum.
LEMMA NoCarry ==
    ASSUME SumInv, count < WordMod, 2 * initial <= SumMod
    PROVE  total < SumMod
<1>0. /\ WordMod \in Nat /\ total \in Nat /\ count \in Nat /\ initial \in Nat
      /\ Slack(count) \in Nat
  <2>1. initial \in Nat /\ total \in Nat /\ count \in Nat
    BY SumModType DEF SumInv
  <2> QED BY <2>1, WordModType, SlackType
<1>1. PICK m \in Nat, t \in Nat, c \in Nat, a \in Nat, u \in Nat :
        m = WordMod /\ t = total /\ c = count /\ a = initial /\ u = Slack(count)
  BY <1>0, Zenon
<1>2. m >= 4 /\ c <= m - 1 /\ u <= m - 1 /\ 2 * a <= m * m
  BY <1>1, WordModType, SlackType DEF SumInv
<1>3. 2 * (t - a) <= c * (m - 1) + u
  BY <1>1 DEF SumInv
<1>4. c * (m - 1) <= (m - 1) * (m - 1)
  <2>1. ((m - 1) - c) * (m - 1) >= 0
    BY <1>2
  <2>2. ((m - 1) - c) * (m - 1) = (m - 1) * (m - 1) - c * (m - 1)
    OBVIOUS
  <2>3. PICK x \in Int, y \in Int : x = c * (m - 1) /\ y = (m - 1) * (m - 1)
    OBVIOUS
  <2> QED BY <2>1, <2>2, <2>3
<1>5. (m - 1) * (m - 1) = m * m - 2 * m + 1
  OBVIOUS
<1>6. t < m * m
  <2>1. PICK x \in Int, y \in Int : x = c * (m - 1) /\ y = m * m
    OBVIOUS
  <2>2. x <= y - 2 * m + 1 /\ 2 * (t - a) <= x + u /\ 2 * a <= y
    BY <1>2, <1>3, <1>4, <1>5, <2>1
  <2>3. t < y
    BY <1>2, <2>2
  <2> QED BY <2>1, <2>3
<1> QED BY <1>1, <1>6, WordModType

\* value() is ChecksumExact after any series of calls.
LEMMA SumInvExact == SumInv => ChecksumExact
<1>1. SUFFICES ASSUME SumInv, total < SumMod \/ (count < WordMod /\ 2 * initial <= SumMod)
               PROVE  value = WordMod - 1 - OnesComplement(total)
  BY DEF ChecksumExact
<1>2. total < SumMod
  BY <1>1, NoCarry
<1>3. total \in 0 .. SumMod - 1 /\ sum = total
  BY <1>1, <1>2, SumModType DEF SumInv
<1>4. Folded(Folded(sum)) = OnesComplement(total)
  BY <1>3, FoldsToOnesComplement
<1> QED BY <1>4 DEF value
=============================================================================
