----------------------------- MODULE WireProofs -----------------------------
(***************************************************************************)
(* What NetUnparser, InternetChecksum and NetParser do together, for bytes *)
(* of any width, any fields, packets of any length and any initial sum:    *)
(* ChecksumExact, RoundTrip, DamageCaught and ReadInPlace.                 *)
(***************************************************************************)
EXTENDS Wire, InternetChecksumProofs

Fields == Lengths \X Nat

\* The bytes before field i of f (Offset(i), with the fields as a parameter).
Off(f, i) == Total([j \in 1 .. i - 1 |-> f[j][1]])

\* p is made of the fields f, each in network byte order.
Layout(f, p) ==
    /\ Len(p) = Off(f, Len(f) + 1)
    /\ \A i \in 1 .. Len(f) : \A k \in 1 .. f[i][1] :
          p[Off(f, i) + k] = (f[i][2] \div Place[f[i][1] - k]) % ByteMod

\* What the bytes of p, from its first on, add to a checksum.
Weight(p) == Total([i \in DOMAIN p |-> p[i] * Place[i % 2]])

\* The sums whose complement value() returns 0.
Zeros(n) == n > 0 /\ n % (WordMod - 1) = 0

-----------------------------------------------------------------------------
(* The inductive invariant *)

FieldsInv ==
    /\ phase \in {"build", "sum", "transit", "verify", "parse"}
    /\ fields \in Seq(Fields)
    /\ \A i \in 1 .. Len(fields) : fields[i][2] < Place[fields[i][1]]
    /\ at \in 0 .. Len(fields)
    /\ at # 0 => Off(fields, at) % 2 = 0 /\ fields[at][1] = 2
    /\ at # 0 /\ phase \in {"build", "sum"} => fields[at][2] = 0
    /\ phase # "build" => at # 0

PacketInv ==
    /\ packet \in Seq(Bytes)
    /\ damaged \in BOOLEAN
    /\ phase \in {"build", "sum", "transit"} => ~damaged
    /\ ~damaged => Layout(fields, packet)
    /\ phase \in {"transit", "verify", "parse"} /\ ~damaged /\ NoCarryLost =>
          Zeros(initial + Weight(packet))
    /\ damaged /\ NoCarryLost =>
          \/ Len(packet) < Off(fields, Len(fields) + 1)
          \/ ~Zeros(initial + Weight(packet))

AddedInv ==
    /\ SumInv
    /\ phase \in {"sum", "verify"} =>
          /\ count <= Len(packet)
          /\ total = initial + Weight(SubSeq(packet, 1, count))

ParserInv ==
    /\ error \in ParseResults
    /\ next \in 1 .. Len(fields) + 1
    /\ got \subseteq (1 .. Len(fields)) \X Nat
    /\ \E j \in 0 .. Len(packet) : buffer = SubSeq(packet, j + 1, Len(packet))
    /\ phase \in {"build", "sum", "transit"} => buffer = <<>>
    /\ phase = "verify" => buffer = packet
    /\ phase # "parse" => error = "NoError" /\ next = 1 /\ got = {}

ReadInv ==
    phase = "parse" =>
        /\ error = "NoError" =>
              /\ Off(fields, next) <= Len(packet)
              /\ buffer = SubSeq(packet, Off(fields, next) + 1, Len(packet))
        /\ ~damaged /\ NoCarryLost =>
              error = "NoError" /\ \A g \in got : g[2] = fields[g[1]][2]
        /\ damaged /\ NoCarryLost /\ error = "NoError" =>
              Len(packet) < Off(fields, Len(fields) + 1)

Inv == FieldsInv /\ PacketInv /\ AddedInv /\ ParserInv /\ ReadInv

-----------------------------------------------------------------------------
(* Where the fields are *)

\* The parts of a field.
LEMMA FieldTypes ==
    ASSUME NEW f \in Seq(Fields), NEW i \in 1 .. Len(f)
    PROVE  f[i][1] \in Lengths /\ f[i][1] \in Nat /\ f[i][2] \in Nat
<1>1. f[i] \in Fields
  OBVIOUS
<1> QED BY <1>1 DEF Fields, Lengths

\* A field begins where the one before it ends.
LEMMA OffFacts ==
    ASSUME NEW f \in Seq(Fields)
    PROVE  /\ Off(f, 1) = 0
           /\ \A i \in 1 .. Len(f) : Off(f, i + 1) = Off(f, i) + f[i][1]
           /\ \A i \in 1 .. Len(f) + 1 : Off(f, i) \in Nat
<1> DEFINE s(i) == [j \in 1 .. i - 1 |-> f[j][1]]
<1>0. Len(f) \in Nat
  OBVIOUS
<1>1. \A i \in 1 .. Len(f) + 1 : s(i) \in Seq(Nat) /\ Len(s(i)) = i - 1
  <2> TAKE i \in 1 .. Len(f) + 1
  <2>1. \A j \in 1 .. i - 1 : f[j][1] \in Nat
    <3> TAKE j \in 1 .. i - 1
    <3>1. j \in 1 .. Len(f)
      BY <1>0
    <3> QED BY <3>1, FieldTypes
  <2>2. s(i) \in [1 .. i - 1 -> Nat] /\ i - 1 \in Nat
    BY <2>1
  <2> HIDE DEF s
  <2> QED BY <2>2
<1>2. Off(f, 1) = 0
  <2>1. s(1) = <<>>
    <3>1. 1 \in 1 .. Len(f) + 1
      BY <1>0
    <3>2. s(1) \in Seq(Nat) /\ Len(s(1)) = 0
      <4> HIDE DEF s
      <4> QED BY <1>1, <3>1
    <3> HIDE DEF s
    <3> QED BY <3>2
  <2> QED BY <2>1, TotalEmpty DEF Off
<1>3. \A i \in 1 .. Len(f) + 1 : Off(f, i) \in Nat
  <2> TAKE i \in 1 .. Len(f) + 1
  <2>1. Off(f, i) = Total(s(i))
    BY DEF Off
  <2> HIDE DEF s
  <2> QED BY <1>1, <2>1, TotalType
<1>4. \A i \in 1 .. Len(f) : Off(f, i + 1) = Off(f, i) + f[i][1]
  <2> TAKE i \in 1 .. Len(f)
  <2>1. Off(f, i) = Total(s(i)) /\ Off(f, i + 1) = Total(s(i + 1))
    BY DEF Off
  <2>2. f[i][1] \in Nat
    BY FieldTypes
  <2>3. i \in 1 .. Len(f) + 1 /\ i + 1 \in 1 .. Len(f) + 1 /\ (i + 1) - 1 = i
    BY <1>0
  <2>4. \A j \in 1 .. i - 1 : s(i)[j] = f[j][1]
    OBVIOUS
  <2>5. \A j \in 1 .. i : s(i + 1)[j] = f[j][1]
    BY <2>3
  <2>6. s(i) \in Seq(Nat) /\ Len(s(i)) = i - 1 /\ s(i + 1) \in Seq(Nat) /\ Len(s(i + 1)) = i
    <3> HIDE DEF s
    <3> QED BY <1>1, <2>3
  <2>7. PICK u \in Seq(Nat), v \in Seq(Nat), x \in Nat : u = s(i) /\ v = s(i + 1) /\ x = f[i][1]
    <3> HIDE DEF s
    <3> QED BY <2>2, <2>6, Zenon
  <2> HIDE DEF s
  <2>8. /\ Len(u) = i - 1 /\ Len(v) = i /\ v[i] = x
        /\ \A j \in 1 .. i - 1 : v[j] = u[j]
    <3>1. i \in 1 .. i /\ \A j \in 1 .. i - 1 : j \in 1 .. i
      OBVIOUS
    <3> QED BY <2>4, <2>5, <2>6, <2>7, <3>1
  <2>9. v = u \o <<x>>
    BY <2>8
  <2>10. Total(u \o <<x>>) = Total(u) + x
    <3>1. <<x>> \in Seq(Nat)
      OBVIOUS
    <3> QED BY <3>1, TotalConcat, TotalOne
  <2> QED BY <2>1, <2>7, <2>9, <2>10
<1> QED BY <1>2, <1>3, <1>4

\* Later fields are at larger offsets.
LEMMA OffMonotone ==
    ASSUME NEW f \in Seq(Fields), NEW i \in 1 .. Len(f) + 1, NEW j \in 1 .. Len(f) + 1, i <= j
    PROVE  Off(f, i) <= Off(f, j)
<1> DEFINE N == j - i
           S == {k \in 0 .. N : Off(f, i) <= Off(f, i + k)}
<1>0. N \in Nat /\ Len(f) \in Nat
  OBVIOUS
<1>1. 0 \in S
  <2>1. Off(f, i) \in Nat /\ i + 0 = i
    BY OffFacts
  <2> QED BY <1>0, <2>1
<1>2. ASSUME NEW k \in 1 .. N, k - 1 \in S PROVE k \in S
  <2>1. i + (k - 1) \in 1 .. Len(f) /\ (i + (k - 1)) + 1 = i + k
    BY <1>0
  <2>2. i + (k - 1) \in 1 .. Len(f) + 1
    BY <2>1
  <2>3. Off(f, i + k) = Off(f, i + (k - 1)) + f[i + (k - 1)][1]
    BY <2>1, OffFacts
  <2>4. f[i + (k - 1)][1] \in Nat /\ Off(f, i + (k - 1)) \in Nat /\ Off(f, i) \in Nat
    BY <2>1, <2>2, OffFacts, FieldTypes
  <2>5. Off(f, i) <= Off(f, i + (k - 1))
    BY <1>2
  <2>6. k \in 0 .. N
    BY <1>0
  <2> QED BY <2>3, <2>4, <2>5, <2>6
<1>3. N \in S
  <2>1. 0 .. N \subseteq S
    <3> HIDE DEF S, N
    <3> QED BY <1>0, <1>1, <1>2, IntervalInduction
  <2> HIDE DEF S
  <2> QED BY <1>0, <2>1
<1>4. i + N = j
  OBVIOUS
<1> QED BY <1>3, <1>4

\* Only the lengths of the fields before it say where a field is.
LEMMA OffSame ==
    ASSUME NEW f, NEW g, NEW i \in Nat, \A j \in 1 .. i - 1 : f[j][1] = g[j][1]
    PROVE  Off(f, i) = Off(g, i)
<1>1. [j \in 1 .. i - 1 |-> f[j][1]] = [j \in 1 .. i - 1 |-> g[j][1]]
  OBVIOUS
<1> QED BY <1>1 DEF Off

-----------------------------------------------------------------------------
(* What NetParser makes of the bytes of NetUnparser *)

\* The places are positive.
LEMMA PlaceTypes == \A k \in 0 .. 4 : Place[k] \in Nat \ {0}
<1>1. ByteMod \in Nat \ {0} /\ WordMod \in Nat \ {0} /\ SumMod \in Nat \ {0}
  BY ByteModAssumption, WordModType, SumModType
<1>2. WordMod * ByteMod \in Nat \ {0}
  BY <1>1
<1>3. \A k \in 0 .. 4 : k \in {0, 1, 2, 3, 4}
  OBVIOUS
<1> QED BY <1>1, <1>2, <1>3, PlaceFacts

\* Each place is a byte above the one before.
LEMMA PlaceStep == \A k \in 0 .. 3 : Place[k + 1] = Place[k] * ByteMod
<1>1. ByteMod \in Nat /\ WordMod \in Nat
  BY ByteModAssumption, WordModType
<1>2. SumMod = (WordMod * ByteMod) * ByteMod /\ WordMod = ByteMod * ByteMod /\ ByteMod = 1 * ByteMod
  BY <1>1 DEF SumMod, WordMod
<1>3. \A k \in 0 .. 3 : k \in {0, 1, 2, 3}
  OBVIOUS
<1>4. Place[0 + 1] = Place[0] * ByteMod
  BY <1>2, PlaceFacts
<1>5. Place[1 + 1] = Place[1] * ByteMod
  BY <1>2, PlaceFacts
<1>6. Place[2 + 1] = Place[2] * ByteMod
  BY <1>2, PlaceFacts
<1>7. Place[3 + 1] = Place[3] * ByteMod
  BY <1>2, PlaceFacts
<1> QED BY <1>3, <1>4, <1>5, <1>6, <1>7

\* The loop of _parse_int().
LEMMA BigEndianLoop ==
    ASSUME NEW s \in Seq(Bytes), Len(s) \in 0 .. 4
    PROVE  \E f : /\ f[0] = 0
                  /\ \A i \in 1 .. Len(s) :
                        f[i] = (f[i - 1] * ByteMod + s[i]) % Place[Len(s)]
                  /\ \A i \in 0 .. Len(s) : f[i] \in Nat
                  /\ BigEndian(s) = f[Len(s)]
<1> DEFINE F(g) == [i \in 0 .. Len(s) |->
                      IF i = 0 THEN 0 ELSE (g[i - 1] * ByteMod + s[i]) % Place[Len(s)]]
           h == CHOOSE g : g = F(g)
<1>0. Len(s) \in Nat /\ Len(s) \in 0 .. 4 /\ \A i \in 1 .. Len(s) : s[i] \in Nat
  <2>1. Len(s) \in Nat /\ \A i \in 1 .. Len(s) : s[i] \in Bytes
    BY LenProperties, ElementOfSeq
  <2>2. Bytes \subseteq Nat
    BY ByteModAssumption DEF Bytes
  <2> QED BY <2>1, <2>2
<1>p. PICK m \in Nat \ {0} : m = Place[Len(s)]
  BY <1>0, PlaceTypes
<1>q. PICK b \in Nat : b = ByteMod
  BY ByteModAssumption
<1>r. \A v, x \in Nat : (v * b + x) % m \in Nat
  <2> TAKE v, x \in Nat
  <2>1. v * b + x \in Nat
    OBVIOUS
  <2> QED BY <2>1
<1>1. \E g : g = F(g)
  <2>1. PICK step : step = [i \in 1 .. Len(s) |-> [v \in Nat |-> (v * b + s[i]) % m]]
    OBVIOUS
  <2>2. step \in [1 .. Len(s) -> [Nat -> Nat]]
    <3>1. \A i \in 1 .. Len(s) : [v \in Nat |-> (v * b + s[i]) % m] \in [Nat -> Nat]
      <4> TAKE i \in 1 .. Len(s)
      <4>1. s[i] \in Nat
        BY <1>0
      <4>2. \A v \in Nat : (v * b + s[i]) % m \in Nat
        BY <1>r, <4>1
      <4> QED BY <4>2
    <3> QED BY <2>1, <3>1
  <2>3. PICK f : Iterates(Nat, 0, Len(s), step, f)
    BY <1>0, <2>2, IterationExists
  <2>4. \A i \in 1 .. Len(s) : f[i] = (f[i - 1] * b + s[i]) % m
    <3> TAKE i \in 1 .. Len(s)
    <3>1. f[i] = step[i][f[i - 1]] /\ f[i - 1] \in Nat
      BY <2>3 DEF Iterates
    <3> QED BY <2>1, <3>1
  <2>5. \A i \in 0 .. Len(s) :
           f[i] = IF i = 0 THEN 0 ELSE (f[i - 1] * ByteMod + s[i]) % Place[Len(s)]
    <3> TAKE i \in 0 .. Len(s)
    <3>1. i = 0 => f[i] = 0
      BY <2>3 DEF Iterates
    <3>2. i # 0 => i \in 1 .. Len(s)
      BY <1>0
    <3>3. i # 0 => f[i] = (f[i - 1] * b + s[i]) % m
      BY <2>4, <3>2, Zenon
    <3> QED BY <1>p, <1>q, <3>1, <3>3, Zenon
  <2>6. f \in [0 .. Len(s) -> Nat]
    BY <2>3 DEF Iterates
  <2>7. f = F(f)
    <3>1. f = [i \in 0 .. Len(s) |-> f[i]]
      BY <2>6
    <3> QED BY <2>5, <3>1
  <2> QED BY <2>7
<1>2. h = F(h)
  <2> HIDE DEF F
  <2> QED BY <1>1, Zenon
<1>3. BigEndian(s) = h[Len(s)]
  BY Zenon DEF BigEndian
<1> HIDE DEF h
<1>4. h[0] = 0
  BY <1>0, <1>2
<1>5. \A i \in 1 .. Len(s) : h[i] = (h[i - 1] * ByteMod + s[i]) % Place[Len(s)]
  <2> TAKE i \in 1 .. Len(s)
  <2>1. i \in 0 .. Len(s) /\ i # 0
    BY <1>0
  <2> QED BY <1>2, <2>1
<1>6. \A i \in 0 .. Len(s) : h[i] \in Nat
  <2>1. h[0] \in Nat
    BY <1>4
  <2>2. \A i \in 1 .. Len(s) : h[i - 1] \in Nat => h[i] \in Nat
    <3> TAKE i \in 1 .. Len(s)
    <3>1. s[i] \in Nat
      BY <1>0
    <3>2. h[i] = (h[i - 1] * b + s[i]) % m
      BY <1>5, <1>p, <1>q
    <3> QED BY <1>r, <3>1, <3>2
  <2> QED BY <1>0, <2>1, <2>2, LoopType
<1> QED BY <1>3, <1>4, <1>5, <1>6

\* What the parser assembles is a number.
LEMMA BigEndianType ==
    ASSUME NEW s \in Seq(Bytes), Len(s) \in 0 .. 4
    PROVE  BigEndian(s) \in Nat
<1>1. Len(s) \in 0 .. Len(s)
  OBVIOUS
<1> QED BY <1>1, BigEndianLoop

\* What is written comes back, if it fits.
LEMMA ReadsBack ==
    ASSUME NEW s \in Seq(Bytes), Len(s) \in 0 .. 4, NEW val \in Nat, val < Place[Len(s)],
           \A k \in 1 .. Len(s) : s[k] = (val \div Place[Len(s) - k]) % ByteMod
    PROVE  BigEndian(s) = val
<1>0. PICK n \in 0 .. 4 : n = Len(s)
  BY Zenon
<1>1. PICK b \in Nat \ {0} : b = ByteMod
  BY ByteModAssumption
<1>2. PICK f : /\ f[0] = 0
               /\ \A i \in 1 .. n : f[i] = (f[i - 1] * b + s[i]) % Place[n]
               /\ \A i \in 0 .. n : f[i] \in Nat
               /\ BigEndian(s) = f[n]
  BY <1>0, <1>1, BigEndianLoop
<1>3. PICK m \in Nat \ {0} : m = Place[n]
  BY PlaceTypes
<1>4. val < m /\ \A k \in 1 .. n : s[k] = (val \div Place[n - k]) % b
  BY <1>0, <1>1, <1>3
<1> DEFINE S == {i \in 0 .. n : f[i] = val \div Place[n - i]}
<1>5. 0 \in S
  <2>1. val = 0 * m + val /\ val \in 0 .. m - 1
    BY <1>4
  <2>2. val \div m = 0
    <3>1. \A q \in Int : (q * m + val) \div m = q
      BY <2>1, DivUnique
    <3>2. (0 * m + val) \div m = 0
      BY <3>1
    <3> QED BY <2>1, <3>2
  <2>3. n - 0 = n /\ 0 \in 0 .. n
    OBVIOUS
  <2> QED BY <1>2, <1>3, <2>2, <2>3
<1>6. ASSUME NEW i \in 1 .. n, i - 1 \in S PROVE i \in S
  <2>0. n - i \in 0 .. 3 /\ n - i \in 0 .. 4 /\ (n - i) + 1 = n - (i - 1) /\ i \in 0 .. n
    OBVIOUS
  <2>1. PICK p \in Nat \ {0} : p = Place[n - i]
    BY <2>0, PlaceTypes
  <2>2. Place[n - (i - 1)] = p * b
    BY <1>1, <2>0, <2>1, PlaceStep
  <2>3. PICK q \in Nat : q = val \div p
    BY SMTT(30)
  <2>4. f[i - 1] = q \div b
    <3>1. f[i - 1] = val \div (p * b)
      BY <1>6, <2>2
    <3> QED BY <2>3, <3>1, DivDiv
  <2>5. s[i] = q % b
    BY <1>4, <2>1, <2>3
  <2>6. (q \div b) * b + (q % b) = q
    OBVIOUS
  <2>7. f[i] = q % m
    BY <1>2, <1>3, <2>4, <2>5, <2>6
  <2>8. q <= val
    <3>1. val = q * p + (val % p) /\ val % p >= 0
      BY <2>3
    <3>2. q * (p - 1) >= 0 /\ q * p = q * (p - 1) + q
      OBVIOUS
    <3>3. PICK x \in Int, y \in Int, z \in Int : x = q * p /\ y = q * (p - 1) /\ z = val % p
      OBVIOUS
    <3>4. val = x + z /\ z >= 0 /\ y >= 0 /\ x = y + q
      BY <3>1, <3>2, <3>3
    <3> QED BY <3>4
  <2>9. q % m = q
    BY <1>4, <2>8, SMTT(30)
  <2> QED BY <2>0, <2>1, <2>3, <2>7, <2>9
<1>7. n \in S
  <2>1. 0 .. n \subseteq S
    <3> HIDE DEF S
    <3> QED BY <1>5, <1>6, IntervalInduction
  <2> HIDE DEF S
  <2> QED BY <2>1
<1>8. val \div Place[n - n] = val
  <2>1. n - n = 0 /\ Place[0] = 1
    BY PlaceFacts
  <2>2. val \div 1 = val
    OBVIOUS
  <2> QED BY <2>1, <2>2
<1> QED BY <1>2, <1>7, <1>8

-----------------------------------------------------------------------------
(* What the bytes of a packet weigh *)

Weights(p) == [i \in DOMAIN p |-> p[i] * Place[i % 2]]

\* The terms of the sum of a packet, byte by byte.
LEMMA WeightsFacts ==
    ASSUME NEW p \in Seq(Bytes)
    PROVE  /\ Weights(p) \in Seq(Nat) /\ Len(Weights(p)) = Len(p)
           /\ \A i \in 1 .. Len(p) : Weights(p)[i] = p[i] * Place[i % 2]
           /\ Weight(p) = Total(Weights(p))
           /\ Weight(p) \in Nat
<1>0. DOMAIN p = 1 .. Len(p) /\ Len(p) \in Nat /\ \A i \in 1 .. Len(p) : p[i] \in Bytes
  OBVIOUS
<1>1. \A i \in 1 .. Len(p) : p[i] * Place[i % 2] \in Nat
  <2> TAKE i \in 1 .. Len(p)
  <2>1. p[i] \in Nat
    BY <1>0, ByteModAssumption DEF Bytes
  <2>2. i % 2 \in 0 .. 4
    BY <1>0
  <2>3. Place[i % 2] \in Nat
    BY <2>2, PlaceTypes
  <2>4. \A x, y \in Nat : x * y \in Nat
    OBVIOUS
  <2> QED BY <2>1, <2>3, <2>4
<1>2. Weights(p) \in [1 .. Len(p) -> Nat]
  BY <1>0, <1>1 DEF Weights
<1>3. Weights(p) \in Seq(Nat) /\ Len(Weights(p)) = Len(p)
  BY <1>0, <1>2
<1>4. \A i \in 1 .. Len(p) : Weights(p)[i] = p[i] * Place[i % 2]
  BY <1>0 DEF Weights
<1>5. Weight(p) = Total(Weights(p))
  BY DEF Weight, Weights
<1> QED BY <1>3, <1>4, <1>5, TotalType

\* add() adds the weight of the chunk, which is that of its bytes where they
\* are in the packet.
LEMMA WeightAdd ==
    ASSUME NEW p \in Seq(Bytes), NEW n \in Nat, count \in Nat, count + n <= Len(p)
    PROVE  Weight(SubSeq(p, 1, count + n))
             = Weight(SubSeq(p, 1, count)) + Placed(SubSeq(p, count + 1, count + n))
<1>0. PICK c \in Nat : c = count
  OBVIOUS
<1>1. Len(p) \in Nat /\ c + n <= Len(p)
  BY <1>0
<1>2. PICK a \in Seq(Bytes), d \in Seq(Bytes), e \in Seq(Bytes) :
        a = SubSeq(p, 1, c) /\ d = SubSeq(p, c + 1, c + n) /\ e = SubSeq(p, 1, c + n)
  <2>1. SubSeq(p, 1, c) \in Seq(Bytes)
    BY <1>1
  <2>2. SubSeq(p, c + 1, c + n) \in Seq(Bytes)
    BY <1>1
  <2>3. SubSeq(p, 1, c + n) \in Seq(Bytes)
    BY <1>1
  <2> QED BY <2>1, <2>2, <2>3, Zenon
<1>3. Len(a) = c /\ \A i \in 1 .. c : a[i] = p[i]
  BY <1>1, <1>2
<1>4. Len(d) = n /\ \A i \in 1 .. n : d[i] = p[c + i]
  BY <1>1, <1>2
<1>5. Len(e) = c + n /\ \A i \in 1 .. c + n : e[i] = p[i]
  BY <1>1, <1>2
<1> DEFINE s == [i \in DOMAIN d |-> d[i] * Place[(c + i) % 2]]
<1>6. DOMAIN d = 1 .. n
  BY <1>4
<1>7. s \in Seq(Nat) /\ Len(s) = n
  <2>1. \A i \in 1 .. n : d[i] * Place[(c + i) % 2] \in Nat
    <3> TAKE i \in 1 .. n
    <3>1. d[i] \in Nat
      <4>1. d[i] \in Bytes
        BY <1>4
      <4> QED BY <4>1, ByteModAssumption DEF Bytes
    <3>2. (c + i) % 2 \in 0 .. 4
      OBVIOUS
    <3>3. Place[(c + i) % 2] \in Nat
      BY <3>2, PlaceTypes
    <3>4. \A x, y \in Nat : x * y \in Nat
      OBVIOUS
    <3> QED BY <3>1, <3>3, <3>4
  <2>2. s \in [1 .. n -> Nat]
    BY <1>6, <2>1
  <2> HIDE DEF s
  <2> QED BY <2>2
<1>8. Placed(d) = Total(s)
  BY <1>0 DEF Placed
<1>9. \A i \in 1 .. n : s[i] = d[i] * Place[(c + i) % 2]
  BY <1>6
<1> HIDE DEF s
<1>10. PICK u \in Seq(Nat), v \in Seq(Nat), w \in Seq(Nat) :
        u = Weights(a) /\ v = s /\ w = Weights(e)
  <2>1. Weights(a) \in Seq(Nat) /\ Weights(e) \in Seq(Nat)
    BY WeightsFacts
  <2> QED BY <1>7, <2>1, Zenon
<1>11. Len(u) = c /\ Len(v) = n /\ Len(w) = c + n
  BY <1>3, <1>5, <1>7, <1>10, WeightsFacts
<1>12. \A i \in 1 .. c : w[i] = u[i]
  <2> TAKE i \in 1 .. c
  <2>1. i \in 1 .. Len(a) /\ i \in 1 .. Len(e) /\ a[i] = e[i]
    <3>1. i \in 1 .. c + n
      OBVIOUS
    <3> QED BY <1>3, <1>5, <3>1
  <2>2. Weights(a)[i] = a[i] * Place[i % 2]
    BY <2>1, WeightsFacts
  <2>3. Weights(e)[i] = e[i] * Place[i % 2]
    BY <2>1, WeightsFacts
  <2> QED BY <1>10, <2>1, <2>2, <2>3
<1>13. \A i \in 1 .. n : w[c + i] = v[i]
  <2> TAKE i \in 1 .. n
  <2>1. c + i \in 1 .. Len(e) /\ e[c + i] = d[i]
    <3>1. c + i \in 1 .. c + n
      OBVIOUS
    <3> QED BY <1>4, <1>5, <3>1
  <2>2. Weights(e)[c + i] = e[c + i] * Place[(c + i) % 2]
    BY <2>1, WeightsFacts
  <2> QED BY <1>9, <1>10, <2>1, <2>2
<1>14. w = u \o v
  <2>1. /\ Len(w) = Len(u) + Len(v)
        /\ \A i \in 1 .. Len(u) : w[i] = u[i]
        /\ \A i \in 1 .. Len(v) : w[Len(u) + i] = v[i]
    BY <1>11, <1>12, <1>13
  <2> QED BY <2>1, ConcatUnique
<1>15. Total(w) = Total(u) + Total(v)
  BY <1>14, TotalConcat
<1>16. Weight(a) = Total(u) /\ Weight(e) = Total(w)
  BY <1>10, WeightsFacts
<1> QED BY <1>0, <1>2, <1>8, <1>10, <1>15, <1>16

\* One byte changes the weight by what it counts for.
LEMMA WeightChange ==
    ASSUME NEW p \in Seq(Bytes), NEW q \in Seq(Bytes), Len(p) = Len(q),
           NEW k \in 1 .. Len(p), \A j \in 1 .. Len(p) : j # k => p[j] = q[j]
    PROVE  Weight(q) + p[k] * Place[k % 2] = Weight(p) + q[k] * Place[k % 2]
<1>1. PICK s \in Seq(Nat), t \in Seq(Nat) : s = Weights(p) /\ t = Weights(q)
  <2>1. Weights(p) \in Seq(Nat) /\ Weights(q) \in Seq(Nat)
    BY WeightsFacts
  <2> QED BY <2>1, Zenon
<1>2. /\ Len(s) = Len(p) /\ Len(t) = Len(p)
      /\ \A j \in 1 .. Len(p) : s[j] = p[j] * Place[j % 2] /\ t[j] = q[j] * Place[j % 2]
      /\ Weight(p) = Total(s) /\ Weight(q) = Total(t)
  BY <1>1, WeightsFacts
<1>3. \A j \in 1 .. Len(s) : j # k => s[j] = t[j]
  BY <1>2
<1>4. Total(t) + s[k] = Total(s) + t[k]
  BY <1>2, <1>3, TotalChange
<1> QED BY <1>2, <1>4

-----------------------------------------------------------------------------
(* Which sums give zero *)

\* value() is 0 exactly for the sums that Zeros describes.
LEMMA ZeroValue ==
    ASSUME NEW n \in Nat
    PROVE  WordMod - 1 - OnesComplement(n) = 0 <=> Zeros(n)
<1>0. PICK m \in Nat \ {0} : m = WordMod - 1 /\ m >= 3
  BY WordModType
<1>1. OnesComplement(n) = IF n = 0 THEN 0 ELSE ((n - 1) % m) + 1
  BY <1>0 DEF OnesComplement
<1>2. CASE n = 0
  BY <1>0, <1>1, <1>2 DEF Zeros
<1>3. CASE n > 0
  <2>1. (n - 1) % m = m - 1 => n % m = 0
    <3>1. SUFFICES ASSUME (n - 1) % m = m - 1 PROVE n % m = 0
      OBVIOUS
    <3>2. PICK q \in Int : n - 1 = q * m + (m - 1)
      <4>1. n - 1 \in Int
        OBVIOUS
      <4>2. n - 1 = ((n - 1) \div m) * m + ((n - 1) % m) /\ (n - 1) \div m \in Int
        BY <4>1
      <4> QED BY <3>1, <4>2
    <3>3. (q + 1) * m = q * m + m /\ q * m \in Int
      OBVIOUS
    <3>4. n = (q + 1) * m + 0
      BY <3>2, <3>3
    <3>5. q + 1 \in Int /\ 0 \in 0 .. m - 1
      OBVIOUS
    <3> QED BY <3>4, <3>5, DivUnique
  <2>2. n % m = 0 => (n - 1) % m = m - 1
    <3>1. SUFFICES ASSUME n % m = 0 PROVE (n - 1) % m = m - 1
      OBVIOUS
    <3>2. PICK q \in Int : n = q * m
      <4>1. n = (n \div m) * m + (n % m) /\ n \div m \in Int
        OBVIOUS
      <4> QED BY <3>1, <4>1
    <3>3. (q - 1) * m = q * m - m /\ q * m \in Int
      OBVIOUS
    <3>4. n - 1 = (q - 1) * m + (m - 1)
      BY <3>2, <3>3
    <3>5. q - 1 \in Int /\ m - 1 \in 0 .. m - 1
      OBVIOUS
    <3> QED BY <3>4, <3>5, DivUnique
  <2>3. (n - 1) % m \in 0 .. m - 1
    BY <1>3
  <2> QED BY <1>0, <1>1, <1>3, <2>1, <2>2, <2>3 DEF Zeros
<1> QED BY <1>2, <1>3

\* The complement of the sum, added to the sum, gives zero.
LEMMA ComplementGivesZero ==
    ASSUME NEW n \in Nat
    PROVE  /\ WordMod - 1 - OnesComplement(n) \in 0 .. WordMod - 1
           /\ Zeros(n + (WordMod - 1 - OnesComplement(n)))
<1>0. PICK m \in Nat \ {0} : m = WordMod - 1 /\ m >= 3
  BY WordModType
<1>1. OnesComplement(n) = IF n = 0 THEN 0 ELSE ((n - 1) % m) + 1
  BY <1>0 DEF OnesComplement
<1>z. \A k \in Int : (k * m) % m = 0
  <2> TAKE k \in Int
  <2>1. (k * m + 0) % m = 0
    <3>1. 0 \in 0 .. m - 1
      OBVIOUS
    <3> QED BY <3>1, DivUnique
  <2>2. k * m + 0 = k * m
    OBVIOUS
  <2> QED BY <2>1, <2>2
<1>2. CASE n = 0
  <2>1. 0 + (m - 0) = 1 * m
    OBVIOUS
  <2>2. 1 \in Int /\ (1 * m) % m = 0
    BY <1>z
  <2>3. n + (m - OnesComplement(n)) = 1 * m /\ n + (m - OnesComplement(n)) > 0
    BY <1>0, <1>1, <1>2
  <2> QED BY <1>0, <1>1, <1>2, <2>2, <2>3 DEF Zeros
<1>3. CASE n > 0
  <2>1. PICK q \in Int, r \in 0 .. m - 1 : n - 1 = q * m + r /\ r = (n - 1) % m
    <3>1. n - 1 \in Int
      OBVIOUS
    <3>2. n - 1 = ((n - 1) \div m) * m + ((n - 1) % m) /\ (n - 1) \div m \in Int
          /\ (n - 1) % m \in 0 .. m - 1
      BY <3>1
    <3> QED BY <3>2
  <2>2. m - OnesComplement(n) = m - (r + 1)
    BY <1>1, <1>3, <2>1
  <2>3. n + (m - (r + 1)) = (q + 1) * m
    <3>1. PICK x \in Int : x = q * m
      OBVIOUS
    <3>2. (q + 1) * m = x + m
      BY <3>1
    <3>3. n - 1 = x + r
      BY <2>1, <3>1
    <3> QED BY <3>2, <3>3
  <2>4. q + 1 \in Int /\ n + (m - (r + 1)) > 0 /\ m - (r + 1) \in 0 .. m
    BY <1>3
  <2> QED BY <1>0, <1>z, <2>2, <2>3, <2>4 DEF Zeros
<1> QED BY <1>2, <1>3

\* No change of less than the modulus keeps a sum zero.
LEMMA SmallChange ==
    ASSUME NEW n \in Nat, NEW d \in Int, Zeros(n), Zeros(n + d),
           d < WordMod - 1, -d < WordMod - 1
    PROVE  d = 0
<1>0. PICK m \in Nat \ {0} : m = WordMod - 1 /\ d < m /\ -d < m
  BY WordModType
<1>1. n % m = 0 /\ (n + d) % m = 0
  BY <1>0 DEF Zeros
<1>2. PICK q \in Int : n = q * m
  <2>1. n = (n \div m) * m + (n % m) /\ n \div m \in Int
    OBVIOUS
  <2>2. (n \div m) * m \in Int
    BY <2>1
  <2>3. n = (n \div m) * m
    BY <1>1, <2>1, <2>2
  <2> QED BY <2>1, <2>3
<1>3. PICK k \in Int : n + d = k * m
  <2>1. n + d \in Int
    OBVIOUS
  <2>2. n + d = ((n + d) \div m) * m + ((n + d) % m) /\ (n + d) \div m \in Int
    BY <2>1
  <2>3. ((n + d) \div m) * m \in Int
    BY <2>2
  <2>4. n + d = ((n + d) \div m) * m
    BY <1>1, <2>2, <2>3
  <2> QED BY <2>2, <2>4
<1>4. (k - q) * m = d
  <2>1. PICK x \in Int, y \in Int : x = q * m /\ y = k * m
    OBVIOUS
  <2>2. (k - q) * m = y - x
    BY <2>1
  <2>3. n = x /\ n + d = y
    BY <1>2, <1>3, <2>1
  <2> QED BY <2>2, <2>3
<1>5. k - q = 0
  <2>1. k - q \in Int /\ (k - q) * m < m /\ (k - q) * m > -m
    BY <1>0, <1>4
  <2> QED BY <2>1, SmallMultiple
<1>6. 0 * m = 0
  OBVIOUS
<1> QED BY <1>4, <1>5, <1>6

\* A byte that changes, high or low in its word, is such a change.
LEMMA ByteChange ==
    ASSUME NEW x \in Bytes, NEW y \in Bytes, x # y, NEW k \in Nat
    PROVE  LET d == y * Place[k % 2] - x * Place[k % 2]
           IN  d \in Int /\ d # 0 /\ d < WordMod - 1 /\ -d < WordMod - 1
<1>0. PICK b \in Nat : b = ByteMod /\ b >= 2
  BY ByteModAssumption
<1>1. x \in 0 .. b - 1 /\ y \in 0 .. b - 1 /\ WordMod = b * b
  BY <1>0 DEF Bytes, WordMod
<1>2. k % 2 = 0 \/ k % 2 = 1
  OBVIOUS
<1>3. b * b = b * (b - 2) + 2 * b /\ b * (b - 2) >= 0
  BY <1>0
<1>4. PICK w \in Int : w = b * b /\ w >= 2 * b
  BY <1>3
<1>5. CASE k % 2 = 0
  <2>1. y * 1 - x * 1 = y - x
    BY <1>1
  <2> QED BY <1>0, <1>1, <1>4, <1>5, <2>1, PlaceFacts
<1>6. CASE k % 2 = 1
  <2>1. PICK d \in Int : d = y - x /\ d # 0 /\ d <= b - 1 /\ -d <= b - 1
    BY <1>1
  <2>2. y * b - x * b = d * b
    BY <1>1, <2>1
  <2>3. d * b <= w - b /\ -(d * b) <= w - b
    <3>1. ((b - 1) - d) * b >= 0 /\ ((b - 1) + d) * b >= 0
      BY <2>1
    <3>2. ((b - 1) - d) * b = b * b - b - d * b /\ ((b - 1) + d) * b = b * b - b + d * b
      OBVIOUS
    <3>3. PICK z \in Int : z = d * b
      OBVIOUS
    <3> QED BY <1>4, <3>1, <3>2, <3>3
  <2>4. d * b # 0
    <3>1. d >= 1 \/ d <= -1
      BY <2>1
    <3>2. d >= 1 => d * b >= b
      <4>1. d >= 1 => (d - 1) * b >= 0
        OBVIOUS
      <4>2. (d - 1) * b = d * b - b
        OBVIOUS
      <4>3. PICK z \in Int : z = d * b
        OBVIOUS
      <4> QED BY <4>1, <4>2, <4>3
    <3>3. d <= -1 => d * b <= -b
      <4>1. d <= -1 => (d + 1) * b <= 0
        OBVIOUS
      <4>2. (d + 1) * b = d * b + b
        OBVIOUS
      <4>3. PICK z \in Int : z = d * b
        OBVIOUS
      <4> QED BY <4>1, <4>2, <4>3
    <3> QED BY <1>0, <3>1, <3>2, <3>3
  <2>5. PICK z \in Int : z = d * b
    OBVIOUS
  <2>6. z # 0 /\ z < w - 1 /\ -z < w - 1
    BY <1>0, <2>3, <2>4, <2>5
  <2>7. y * Place[k % 2] - x * Place[k % 2] = z
    BY <1>0, <1>6, <2>2, <2>5, PlaceFacts
  <2> QED BY <1>1, <1>4, <2>6, <2>7
<1> QED BY <1>2, <1>5, <1>6

\* The two bytes of a word weigh as much as it counts.
LEMMA WordBytes ==
    ASSUME NEW v \in 0 .. WordMod - 1
    PROVE  /\ (v \div Place[1]) % ByteMod \in Bytes
           /\ (v \div Place[0]) % ByteMod \in Bytes
           /\ ((v \div Place[1]) % ByteMod) * Place[1] + ((v \div Place[0]) % ByteMod) * Place[0] = v
<1>0. PICK b \in Nat \ {0} : b = ByteMod
  BY ByteModAssumption
<1>1. v \in Nat /\ v < b * b /\ b * b \in Nat
  BY <1>0, WordModType DEF WordMod
<1>2. PICK h \in Int, l \in 0 .. b - 1 : h = v \div b /\ l = v % b /\ v = h * b + l
  BY <1>1
<1>3. h >= 0
  <2>1. SUFFICES ASSUME h <= -1 PROVE FALSE
    OBVIOUS
  <2>2. (h + 1) * b <= 0 /\ (h + 1) * b = h * b + b
    BY <2>1
  <2>3. PICK z \in Int : z = h * b
    OBVIOUS
  <2> QED BY <1>1, <1>2, <2>2, <2>3
<1>4. h <= b - 1
  <2>1. SUFFICES ASSUME h >= b PROVE FALSE
    OBVIOUS
  <2>2. (h - b) * b >= 0 /\ (h - b) * b = h * b - b * b
    BY <2>1
  <2>3. PICK z \in Int, y \in Int : z = h * b /\ y = b * b
    OBVIOUS
  <2> QED BY <1>1, <1>2, <2>2, <2>3
<1>5. h % b = h /\ v \div 1 = v
  BY <1>1, <1>3, <1>4
<1>6. h \in Bytes /\ l \in Bytes
  BY <1>0, <1>3, <1>4 DEF Bytes
<1>7. (v \div Place[1]) % ByteMod = h /\ (v \div Place[0]) % ByteMod = l
  BY <1>0, <1>2, <1>5, PlaceFacts
<1>8. h * b + l * 1 = v
  BY <1>2
<1> QED BY <1>0, <1>6, <1>7, <1>8, PlaceFacts

-----------------------------------------------------------------------------
(* Packets made of fields *)

\* What _unparse_int appends, byte by byte.
LEMMA UnparseFacts ==
    ASSUME NEW len \in Lengths, NEW val \in Nat
    PROVE  /\ Unparse(len, val) \in Seq(Bytes) /\ Len(Unparse(len, val)) = len
           /\ \A k \in 1 .. len : Unparse(len, val)[k] = (val \div Place[len - k]) % ByteMod
<1>0. len \in Nat /\ len <= 4
  BY DEF Lengths
<1>1. \A k \in 1 .. len : (val \div Place[len - k]) % ByteMod \in Bytes
  <2> TAKE k \in 1 .. len
  <2>1. len - k \in 0 .. 4
    BY <1>0
  <2>2. PICK p \in Nat \ {0} : p = Place[len - k]
    BY <2>1, PlaceTypes
  <2>3. PICK b \in Nat \ {0} : b = ByteMod
    BY ByteModAssumption
  <2>4. val \div p \in Int
    OBVIOUS
  <2>5. (val \div p) % b \in 0 .. b - 1
    BY <2>4
  <2> QED BY <2>2, <2>3, <2>5 DEF Bytes
<1>2. Unparse(len, val) \in [1 .. len -> Bytes]
  BY <1>1 DEF Unparse
<1>3. \A k \in 1 .. len : Unparse(len, val)[k] = (val \div Place[len - k]) % ByteMod
  BY DEF Unparse
<1> QED BY <1>0, <1>2, <1>3

\* NetUnparser appends a field.
LEMMA LayoutAppend ==
    ASSUME NEW f \in Seq(Fields), NEW p \in Seq(Bytes), Layout(f, p),
           NEW len \in Lengths, NEW val \in Nat
    PROVE  LET g == Append(f, <<len, val>>)
               q == p \o Unparse(len, val)
           IN  /\ g \in Seq(Fields) /\ Len(g) = Len(f) + 1
               /\ g[Len(f) + 1] = <<len, val>> /\ \A i \in 1 .. Len(f) : g[i] = f[i]
               /\ q \in Seq(Bytes)
               /\ \A i \in 1 .. Len(f) + 1 : Off(g, i) = Off(f, i)
               /\ Layout(g, q)
<1>1. PICK u \in Seq(Bytes) : u = Unparse(len, val)
  BY UnparseFacts
<1>2. PICK g \in Seq(Fields) : g = Append(f, <<len, val>>)
  <2>1. <<len, val>> \in Fields
    BY DEF Fields
  <2>2. Append(f, <<len, val>>) \in Seq(Fields)
    BY <2>1, AppendProperties
  <2> QED BY <2>2, Zenon
<1>3. PICK q \in Seq(Bytes) : q = p \o u
  <2>1. p \o u \in Seq(Bytes)
    BY ConcatProperties
  <2> QED BY <2>1
<1>4. PICK n \in Nat, z \in Nat : n = Len(f) /\ z = Len(p)
  OBVIOUS
<1>5. len \in Nat /\ Len(u) = len /\ \A k \in 1 .. len : u[k] = (val \div Place[len - k]) % ByteMod
  <2>1. len \in Nat
    BY DEF Lengths
  <2> QED BY <1>1, <2>1, UnparseFacts
<1>6. Len(g) = n + 1 /\ g[n + 1] = <<len, val>> /\ \A i \in 1 .. n : g[i] = f[i]
  <2>1. <<len, val>> \in Fields
    BY DEF Fields
  <2> QED BY <1>2, <1>4, <2>1, AppendProperties
<1>7. /\ Len(q) = z + len
      /\ \A j \in 1 .. z : q[j] = p[j]
      /\ \A k \in 1 .. len : q[z + k] = u[k]
  <2>1. Len(q) = z + len
    BY <1>3, <1>4, <1>5, ConcatProperties
  <2>2. \A j \in 1 .. z + len : q[j] = IF j <= z THEN p[j] ELSE u[j - z]
    BY <1>3, <1>4, <1>5, ConcatProperties
  <2>3. \A j \in 1 .. z : q[j] = p[j]
    <3> TAKE j \in 1 .. z
    <3>1. j \in 1 .. z + len /\ j <= z
      BY <1>5
    <3> QED BY <2>2, <3>1
  <2>4. \A k \in 1 .. len : q[z + k] = u[k]
    <3> TAKE k \in 1 .. len
    <3>1. z + k \in 1 .. z + len /\ ~(z + k <= z) /\ (z + k) - z = k
      BY <1>5
    <3> QED BY <2>2, <3>1
  <2> QED BY <2>1, <2>3, <2>4
<1>8. \A i \in 1 .. n + 1 : Off(g, i) = Off(f, i)
  <2> TAKE i \in 1 .. n + 1
  <2>1. i \in Nat /\ \A j \in 1 .. i - 1 : j \in 1 .. n
    OBVIOUS
  <2>2. \A j \in 1 .. i - 1 : g[j][1] = f[j][1]
    BY <1>6, <2>1
  <2> QED BY <2>1, <2>2, OffSame
<1>9. Off(f, n + 1) = z
  BY <1>4 DEF Layout
<1>10. Len(q) = Off(g, Len(g) + 1)
  <2>1. n + 1 \in 1 .. Len(g) /\ n + 1 \in 1 .. n + 1
    BY <1>6
  <2>2. Off(g, (n + 1) + 1) = Off(g, n + 1) + g[n + 1][1]
    BY <2>1, OffFacts
  <2>3. Off(g, n + 1) = z
    BY <1>8, <1>9, <2>1
  <2> QED BY <1>6, <1>7, <2>2, <2>3
<1>11. ASSUME NEW i \in 1 .. Len(g), NEW k \in 1 .. g[i][1]
       PROVE  q[Off(g, i) + k] = (g[i][2] \div Place[g[i][1] - k]) % ByteMod
  <2>0. i \in 1 .. n + 1 /\ Off(g, i) = Off(f, i)
    BY <1>6, <1>8
  <2>1. CASE i = n + 1
    <3>1. g[i][1] = len /\ g[i][2] = val /\ Off(g, i) = z
      BY <1>6, <1>9, <2>0, <2>1
    <3> QED BY <1>5, <1>7, <3>1
  <2>2. CASE i # n + 1
    <3>1. i \in 1 .. n /\ g[i] = f[i]
      BY <1>6, <2>0, <2>2
    <3>2. p[Off(f, i) + k] = (f[i][2] \div Place[f[i][1] - k]) % ByteMod
      BY <1>4, <3>1 DEF Layout
    <3>3. Off(f, i) \in Nat /\ Off(f, i + 1) = Off(f, i) + f[i][1] /\ Off(f, i + 1) <= z
      <4>1. i \in 1 .. Len(f) /\ i \in 1 .. Len(f) + 1 /\ i + 1 \in 1 .. Len(f) + 1
            /\ n + 1 \in 1 .. Len(f) + 1 /\ i + 1 <= n + 1
        BY <1>4, <3>1
      <4> QED BY <1>9, <4>1, OffFacts, OffMonotone
    <3>4. Off(f, i) + k \in 1 .. z
      <4>1. f[i][1] \in Nat /\ k \in 1 .. f[i][1]
        BY <1>4, <3>1, FieldTypes
      <4>2. PICK o \in Nat, l \in Nat : o = Off(f, i) /\ l = f[i][1]
        BY <3>3, <4>1
      <4>3. k \in 1 .. l /\ o + l <= z
        BY <3>3, <4>1, <4>2
      <4>4. o + k \in 1 .. z
        BY <4>3
      <4> QED BY <4>2, <4>4
    <3> QED BY <1>7, <2>0, <3>1, <3>2, <3>4
  <2> QED BY <2>1, <2>2
<1>12. Layout(g, q)
  BY <1>10, <1>11 DEF Layout
<1> QED BY <1>1, <1>2, <1>3, <1>4, <1>6, <1>8, <1>12

\* A field is read where it was written.
LEMMA FieldReadsBack ==
    ASSUME NEW f \in Seq(Fields), NEW p \in Seq(Bytes), Layout(f, p),
           NEW i \in 1 .. Len(f), f[i][2] < Place[f[i][1]]
    PROVE  BigEndian(SubSeq(p, Off(f, i) + 1, Off(f, i) + f[i][1])) = f[i][2]
<1>1. PICK o \in Nat, len \in Lengths, val \in Nat : o = Off(f, i) /\ len = f[i][1] /\ val = f[i][2]
  <2>1. i \in 1 .. Len(f) + 1
    OBVIOUS
  <2> QED BY <2>1, OffFacts, FieldTypes
<1>2. len \in Nat /\ len \in 0 .. 4 /\ len >= 1
  BY DEF Lengths
<1>3. o + len <= Len(p)
  <2>1. i \in 1 .. Len(f) /\ i + 1 \in 1 .. Len(f) + 1
        /\ Len(f) + 1 \in 1 .. Len(f) + 1 /\ i + 1 <= Len(f) + 1
    OBVIOUS
  <2>2. Off(f, i + 1) = o + len
    BY <1>1, OffFacts
  <2>3. Off(f, i + 1) <= Off(f, Len(f) + 1)
    BY <2>1, OffMonotone
  <2> QED BY <2>2, <2>3 DEF Layout
<1>4. PICK s \in Seq(Bytes) : s = SubSeq(p, o + 1, o + len)
  <2>1. SubSeq(p, o + 1, o + len) \in Seq(Bytes)
    BY <1>2, <1>3
  <2> QED BY <2>1, Zenon
<1>5. Len(s) = len /\ \A k \in 1 .. len : s[k] = p[o + k]
  BY <1>2, <1>3, <1>4
<1>6. \A k \in 1 .. len : s[k] = (val \div Place[len - k]) % ByteMod
  BY <1>1, <1>5 DEF Layout
<1>7. val < Place[len]
  BY <1>1
<1> HIDE DEF Layout
<1>8. BigEndian(s) = val
  <2>1. Len(s) \in 0 .. 4 /\ val < Place[Len(s)]
        /\ \A k \in 1 .. Len(s) : s[k] = (val \div Place[Len(s) - k]) % ByteMod
    BY <1>2, <1>5, <1>6, <1>7
  <2> QED BY <2>1, ReadsBack
<1> QED BY <1>1, <1>4, <1>8

\* ReplaceSubSeqAt() with two bytes for two.
LEMMA ReplaceTwo ==
    ASSUME NEW S, NEW p \in Seq(S), NEW u \in Seq(S), Len(u) = 2,
           NEW o \in Nat, o + 2 <= Len(p)
    PROVE  LET q == ReplaceSubSeqAt(o + 1, u, <<0, 0>>, p)
           IN  /\ q \in Seq(S) /\ Len(q) = Len(p)
               /\ q[o + 1] = u[1] /\ q[o + 2] = u[2]
               /\ \A i \in 1 .. Len(p) : i # o + 1 /\ i # o + 2 => q[i] = p[i]
<1>0. PICK z \in Nat : z = Len(p) /\ o + 2 <= z
  BY LenProperties
<1>1. PICK a \in Seq(S), c \in Seq(S) : a = SubSeq(p, 1, o) /\ c = SubSeq(p, o + 3, z)
  <2>1. SubSeq(p, 1, o) \in Seq(S)
    BY <1>0
  <2>2. SubSeq(p, o + 3, z) \in Seq(S)
    BY <1>0
  <2> QED BY <2>1, <2>2, Zenon
<1>2. Len(a) = o /\ \A i \in 1 .. o : a[i] = p[i]
  BY <1>0, <1>1
<1>3. Len(c) = z - o - 2 /\ \A i \in 1 .. z - o - 2 : c[i] = p[o + 2 + i]
  BY <1>0, <1>1
<1>4. PICK w \in Seq(S) : w = a \o u
  <2>1. a \o u \in Seq(S)
    BY ConcatProperties
  <2> QED BY <2>1
<1>5. PICK q \in Seq(S) : q = w \o c
  <2>1. w \o c \in Seq(S)
    BY ConcatProperties
  <2> QED BY <2>1
<1>6. ReplaceSubSeqAt(o + 1, u, <<0, 0>>, p) = q
  <2>1. (o + 1) - 1 = o /\ (o + 1) + Len(<<0, 0>>) = o + 3
    OBVIOUS
  <2> QED BY <1>0, <1>1, <1>4, <1>5, <2>1 DEF ReplaceSubSeqAt
<1>7. Len(w) = o + 2 /\ \A i \in 1 .. o + 2 : w[i] = IF i <= o THEN a[i] ELSE u[i - o]
  <2>1. /\ Len(w) = Len(a) + Len(u)
        /\ \A i \in 1 .. Len(a) + Len(u) : w[i] = IF i <= Len(a) THEN a[i] ELSE u[i - Len(a)]
    <3>1. \A x, y \in Seq(S) :
            /\ Len(x \o y) = Len(x) + Len(y)
            /\ \A i \in 1 .. Len(x) + Len(y) :
                  (x \o y)[i] = IF i <= Len(x) THEN x[i] ELSE y[i - Len(x)]
      BY ConcatProperties
    <3> QED BY <1>4, <3>1
  <2> QED BY <1>2, <2>1
<1>8. Len(q) = z /\ \A i \in 1 .. z : q[i] = IF i <= o + 2 THEN w[i] ELSE c[i - (o + 2)]
  <2>1. (o + 2) + (z - o - 2) = z
    OBVIOUS
  <2>2. /\ Len(q) = Len(w) + Len(c)
        /\ \A i \in 1 .. Len(w) + Len(c) : q[i] = IF i <= Len(w) THEN w[i] ELSE c[i - Len(w)]
    BY <1>5, ConcatProperties
  <2> QED BY <1>3, <1>7, <2>1, <2>2
<1>9. q[o + 1] = u[1] /\ q[o + 2] = u[2]
  <2>1. o + 1 \in 1 .. z /\ o + 2 \in 1 .. z /\ o + 1 \in 1 .. o + 2 /\ o + 2 \in 1 .. o + 2
    BY <1>0
  <2>2. ~(o + 1 <= o) /\ ~(o + 2 <= o) /\ (o + 1) - o = 1 /\ (o + 2) - o = 2
        /\ o + 1 <= o + 2 /\ o + 2 <= o + 2
    OBVIOUS
  <2> QED BY <1>7, <1>8, <2>1, <2>2
<1>10. ASSUME NEW i \in 1 .. z, i # o + 1, i # o + 2 PROVE q[i] = p[i]
  <2>1. CASE i <= o
    <3>1. i <= o + 2 /\ i \in 1 .. o + 2 /\ i \in 1 .. o
      BY <2>1
    <3> QED BY <1>2, <1>7, <1>8, <2>1, <3>1
  <2>2. CASE i > o + 2
    <3>1. i - (o + 2) \in 1 .. z - o - 2 /\ o + 2 + (i - (o + 2)) = i /\ ~(i <= o + 2)
      BY <1>0, <2>2
    <3> QED BY <1>3, <1>8, <3>1
  <2>3. i <= o \/ i > o + 2
    BY <1>10
  <2> QED BY <2>1, <2>2, <2>3
<1> QED BY <1>0, <1>6, <1>8, <1>9, <1>10

\* The two bytes of a word.
LEMMA EvenThenOdd ==
    ASSUME NEW i \in Nat, i % 2 = 0
    PROVE  (i + 1) % 2 = 1 /\ (i + 2) % 2 = 0
  OBVIOUS

\* What Seal makes of the fields and of the packet, field a being the checksum.
SealedFields(f, a, v) == [f EXCEPT ![a] = <<2, v>>]
SealedPacket(f, p, a, v) ==
    ReplaceSubSeqAt(Off(f, a) + 1, Unparse(2, v), <<0, 0>>, p)

\* Setting the checksum field, two bytes at an even offset that were zero: the
\* packet is made of the fields still, and weighs as much more.
LEMMA SetChecksum ==
    ASSUME NEW f \in Seq(Fields), NEW p \in Seq(Bytes), Layout(f, p),
           NEW a \in 1 .. Len(f), f[a][1] = 2, f[a][2] = 0, Off(f, a) % 2 = 0,
           NEW v \in 0 .. WordMod - 1
    PROVE  LET g == SealedFields(f, a, v)
               q == SealedPacket(f, p, a, v)
           IN  /\ g \in Seq(Fields) /\ Len(g) = Len(f) /\ g[a] = <<2, v>>
               /\ \A i \in 1 .. Len(f) : i # a => g[i] = f[i]
               /\ \A i \in 1 .. Len(f) + 1 : Off(g, i) = Off(f, i)
               /\ q \in Seq(Bytes) /\ Len(q) = Len(p)
               /\ Layout(g, q)
               /\ Weight(q) = Weight(p) + v
<1>0. PICK n \in Nat, z \in Nat : n = Len(f) /\ z = Len(p)
  BY LenProperties
<1>1. v \in Nat /\ 2 \in Lengths /\ <<2, v>> \in Fields
  BY WordModType DEF Fields, Lengths
<1>2. PICK g \in Seq(Fields) : g = [f EXCEPT ![a] = <<2, v>>]
  BY <1>1, ExceptSeq
<1>3. Len(g) = n /\ g[a] = <<2, v>> /\ \A i \in 1 .. n : i # a => g[i] = f[i]
  BY <1>0, <1>1, <1>2, ExceptSeq
<1>4. \A i \in 1 .. n + 1 : Off(g, i) = Off(f, i)
  <2> TAKE i \in 1 .. n + 1
  <2>1. i \in Nat /\ \A j \in 1 .. i - 1 : j \in 1 .. n
    OBVIOUS
  <2>2. \A j \in 1 .. i - 1 : g[j][1] = f[j][1]
    <3> TAKE j \in 1 .. i - 1
    <3>1. j \in 1 .. n
      BY <2>1
    <3>2. CASE j = a
      BY <1>3, <3>2
    <3>3. CASE j # a
      BY <1>3, <3>1, <3>3
    <3> QED BY <3>2, <3>3
  <2> QED BY <2>1, <2>2, OffSame
<1>5. PICK o \in Nat : o = Off(f, a)
  <2>1. a \in 1 .. Len(f) + 1
    BY <1>0
  <2> QED BY <2>1, OffFacts
<1>6. Off(f, a + 1) = o + 2 /\ o + 2 <= z
  <2>1. a + 1 \in 1 .. Len(f) + 1 /\ Len(f) + 1 \in 1 .. Len(f) + 1 /\ a + 1 <= Len(f) + 1
    BY <1>0
  <2>2. Off(f, a + 1) = o + 2
    BY <1>5, OffFacts
  <2>3. Off(f, a + 1) <= Off(f, Len(f) + 1)
    BY <2>1, OffMonotone
  <2> QED BY <1>0, <2>2, <2>3 DEF Layout
<1>7. PICK u \in Seq(Bytes) : u = Unparse(2, v)
  BY <1>1, UnparseFacts
<1>8. /\ Len(u) = 2
      /\ u[1] = (v \div Place[1]) % ByteMod /\ u[2] = (v \div Place[0]) % ByteMod
  <2>1. 1 \in 1 .. 2 /\ 2 \in 1 .. 2 /\ 2 - 1 = 1 /\ 2 - 2 = 0
    OBVIOUS
  <2> QED BY <1>1, <1>7, <2>1, UnparseFacts
<1>9. PICK q \in Seq(Bytes) : q = ReplaceSubSeqAt(o + 1, u, <<0, 0>>, p)
  BY <1>0, <1>6, <1>8, ReplaceTwo
<1>10. /\ Len(q) = z /\ q[o + 1] = u[1] /\ q[o + 2] = u[2]
       /\ \A i \in 1 .. z : i # o + 1 /\ i # o + 2 => q[i] = p[i]
  BY <1>0, <1>6, <1>8, <1>9, ReplaceTwo
<1>11. Layout(g, q)
  <2>1. Len(q) = Off(g, Len(g) + 1)
    <3>1. n + 1 \in 1 .. n + 1
      OBVIOUS
    <3> QED BY <1>0, <1>3, <1>4, <1>10, <3>1 DEF Layout
  <2>2. ASSUME NEW i \in 1 .. Len(g), NEW k \in 1 .. g[i][1]
        PROVE  q[Off(g, i) + k] = (g[i][2] \div Place[g[i][1] - k]) % ByteMod
    <3>0. i \in 1 .. n /\ i \in 1 .. n + 1 /\ Off(g, i) = Off(f, i)
      BY <1>3, <1>4
    <3>1. CASE i = a
      <4>1. g[i][1] = 2 /\ g[i][2] = v /\ Off(g, i) = o
        BY <1>3, <1>5, <3>0, <3>1
      <4>2. k = 1 \/ k = 2
        BY <4>1
      <4> QED BY <1>8, <1>10, <4>1, <4>2
    <3>2. CASE i # a
      <4>1. g[i] = f[i]
        BY <1>3, <3>0, <3>2
      <4>2. p[Off(f, i) + k] = (f[i][2] \div Place[f[i][1] - k]) % ByteMod
        BY <1>0, <3>0, <4>1 DEF Layout
      <4>3. PICK x \in Nat, l \in Nat : x = Off(f, i) /\ l = f[i][1]
        BY <1>0, <3>0, OffFacts, FieldTypes
      <4>4. k \in 1 .. l
        BY <4>1, <4>3
      <4>5. Off(f, i + 1) = x + l
        BY <1>0, <3>0, <4>3, OffFacts
      <4>6. /\ i \in 1 .. Len(f) + 1 /\ i + 1 \in 1 .. Len(f) + 1
            /\ a \in 1 .. Len(f) + 1 /\ a + 1 \in 1 .. Len(f) + 1
            /\ Len(f) + 1 \in 1 .. Len(f) + 1 /\ i + 1 <= Len(f) + 1
        BY <1>0, <3>0
      <4>7. x + l <= z
        <5>1. Off(f, i + 1) <= Off(f, Len(f) + 1)
          BY <4>6, OffMonotone
        <5> QED BY <1>0, <4>5, <5>1 DEF Layout
      <4>8. x + l <= o \/ o + 2 <= x
        <5>1. CASE i < a
          <6>1. i + 1 <= a
            BY <3>0, <5>1
          <6>2. Off(f, i + 1) <= Off(f, a)
            BY <4>6, <6>1, OffMonotone
          <6> QED BY <1>5, <4>5, <6>2
        <5>2. CASE i > a
          <6>1. a + 1 <= i
            BY <3>0, <5>2
          <6>2. Off(f, a + 1) <= Off(f, i)
            BY <4>6, <6>1, OffMonotone
          <6> QED BY <1>6, <4>3, <6>2
        <5>3. i < a \/ i > a
          BY <3>0, <3>2
        <5> QED BY <5>1, <5>2, <5>3
      <4>9. x + k \in 1 .. z /\ x + k # o + 1 /\ x + k # o + 2
        BY <4>4, <4>7, <4>8
      <4>10. q[x + k] = p[x + k]
        BY <1>10, <4>9
      <4> QED BY <3>0, <4>1, <4>2, <4>3, <4>10
    <3> QED BY <3>1, <3>2
  <2> QED BY <2>1, <2>2 DEF Layout
<1>12. Weight(q) = Weight(p) + v
  <2>1. p[o + 1] = 0 /\ p[o + 2] = 0
    <3>1. 1 \in 1 .. f[a][1] /\ 2 \in 1 .. f[a][1] /\ f[a][1] - 1 = 1 /\ f[a][1] - 2 = 0
      OBVIOUS
    <3>2. p[o + 1] = (0 \div Place[1]) % ByteMod /\ p[o + 2] = (0 \div Place[0]) % ByteMod
      BY <1>5, <3>1 DEF Layout
    <3>3. \A b \in Nat \ {0} : 0 \div b = 0 /\ 0 % b = 0
      <4> TAKE b \in Nat \ {0}
      <4>1. 0 \in Int /\ 0 \in 0 .. b - 1 /\ 0 * b + 0 = 0
        OBVIOUS
      <4>2. (0 * b + 0) \div b = 0 /\ (0 * b + 0) % b = 0
        BY <4>1, DivUnique
      <4> QED BY <4>1, <4>2
    <3>4. Place[1] \in Nat \ {0} /\ Place[0] \in Nat \ {0} /\ ByteMod \in Nat \ {0}
      BY PlaceFacts, ByteModAssumption
    <3> QED BY <3>2, <3>3, <3>4
  <2>2. u[1] \in Bytes /\ u[2] \in Bytes /\ u[1] * Place[1] + u[2] * Place[0] = v
    BY <1>8, WordBytes
  <2>3. PICK r \in Seq(Bytes) : r = [p EXCEPT ![o + 1] = u[1]]
    <3>1. o + 1 \in 1 .. Len(p)
      BY <1>0, <1>6
    <3> QED BY <2>2, <3>1, ExceptSeq
  <2>4. Len(r) = z /\ r[o + 1] = u[1] /\ \A i \in 1 .. z : i # o + 1 => r[i] = p[i]
    <3>1. o + 1 \in 1 .. Len(p)
      BY <1>0, <1>6
    <3> QED BY <1>0, <2>2, <2>3, <3>1, ExceptSeq
  <2>5. (o + 1) % 2 = 1 /\ (o + 2) % 2 = 0
    <3>1. o % 2 = 0
      BY <1>5
    <3> QED BY <3>1, EvenThenOdd
  <2>6. Weight(r) + p[o + 1] * Place[1] = Weight(p) + r[o + 1] * Place[1]
    <3>1. o + 1 \in 1 .. Len(p) /\ Len(p) = Len(r)
          /\ \A j \in 1 .. Len(p) : j # o + 1 => p[j] = r[j]
      <4>1. Len(p) = z /\ o + 1 \in 1 .. z
        BY <1>0, <1>6
      <4>2. Len(r) = z /\ \A j \in 1 .. z : j # o + 1 => p[j] = r[j]
        BY <2>4
      <4> QED BY <4>1, <4>2, Zenon
    <3>2. Weight(r) + p[o + 1] * Place[(o + 1) % 2] = Weight(p) + r[o + 1] * Place[(o + 1) % 2]
      BY <3>1, WeightChange
    <3> QED BY <2>5, <3>2
  <2>7. Weight(q) + r[o + 2] * Place[0] = Weight(r) + q[o + 2] * Place[0]
    <3>1. \A j \in 1 .. z : j # o + 2 => r[j] = q[j]
      <4> TAKE j \in 1 .. z
      <4>1. CASE j = o + 1
        BY <1>10, <2>4, <4>1
      <4>2. CASE j # o + 1
        BY <1>10, <2>4, <4>2
      <4> QED BY <4>1, <4>2
    <3>2. o + 2 \in 1 .. Len(r) /\ Len(r) = Len(q)
          /\ \A j \in 1 .. Len(r) : j # o + 2 => r[j] = q[j]
      BY <1>6, <1>10, <2>4, <3>1
    <3>3. Weight(q) + r[o + 2] * Place[(o + 2) % 2] = Weight(r) + q[o + 2] * Place[(o + 2) % 2]
      BY <3>2, WeightChange
    <3> QED BY <2>5, <3>3
  <2>8. r[o + 2] = 0
    <3>1. o + 2 \in 1 .. z /\ o + 2 # o + 1
      BY <1>6
    <3> QED BY <2>1, <2>4, <3>1
  <2>9. PICK s \in Nat, t \in Nat, w \in Nat : s = Weight(p) /\ t = Weight(r) /\ w = Weight(q)
    <3>1. Weight(p) \in Nat /\ Weight(r) \in Nat /\ Weight(q) \in Nat
      BY WeightsFacts
    <3> QED BY <3>1, Zenon
  <2>10. PICK x \in Nat, y \in Nat : x = u[1] * Place[1] /\ y = u[2] * Place[0]
    <3>1. u[1] \in Nat /\ u[2] \in Nat /\ Place[1] \in Nat /\ Place[0] \in Nat
      BY <2>2, PlaceFacts, ByteModAssumption DEF Bytes
    <3>2. \A c, d \in Nat : c * d \in Nat
      OBVIOUS
    <3> QED BY <3>1, <3>2
  <2>11. 0 * Place[1] = 0 /\ 0 * Place[0] = 0
    BY PlaceFacts, ByteModAssumption
  <2>12. t + 0 = s + x /\ w + 0 = t + y /\ x + y = v
    BY <1>10, <2>1, <2>2, <2>4, <2>6, <2>7, <2>8, <2>9, <2>10, <2>11
  <2>13. w = s + v
    BY <2>12
  <2> QED BY <2>9, <2>13
<1>13. g = SealedFields(f, a, v) /\ q = SealedPacket(f, p, a, v)
  BY <1>2, <1>5, <1>7, <1>9 DEF SealedFields, SealedPacket
<1> QED BY <1>0, <1>3, <1>4, <1>10, <1>11, <1>12, <1>13

-----------------------------------------------------------------------------
(* The ends of a packet *)

\* A slice, element by element.
LEMMA SubSeqFacts ==
    ASSUME NEW S, NEW p \in Seq(S), NEW m \in Nat, NEW n \in Nat, m <= n, n <= Len(p)
    PROVE  /\ SubSeq(p, m + 1, n) \in Seq(S) /\ Len(SubSeq(p, m + 1, n)) = n - m
           /\ \A i \in 1 .. n - m : SubSeq(p, m + 1, n)[i] = p[m + i]
<1>1. SubSeq(p, m + 1, n) \in Seq(S)
  OBVIOUS
<1>2. Len(SubSeq(p, m + 1, n)) = n - m
  OBVIOUS
<1>3. \A i \in 1 .. n - m : SubSeq(p, m + 1, n)[i] = p[m + i]
  OBVIOUS
<1> QED BY <1>1, <1>2, <1>3

\* remove_prefix() leaves an end, and the end of an end is an end.
LEMMA EndOfEnd ==
    ASSUME NEW S, NEW p \in Seq(S), NEW o \in 0 .. Len(p), NEW b,
           b = SubSeq(p, o + 1, Len(p))
    PROVE  /\ b \in Seq(S) /\ Len(b) = Len(p) - o
           /\ \A n \in 0 .. Len(b) :
                 /\ o + n \in 0 .. Len(p)
                 /\ SubSeq(b, n + 1, Len(b)) = SubSeq(p, (o + n) + 1, Len(p))
                 /\ SubSeq(b, 1, n) = SubSeq(p, o + 1, o + n)
<1>0. PICK z \in Nat : z = Len(p)
  BY LenProperties
<1>1. o \in Nat /\ o <= z
  BY <1>0
<1>2. b \in Seq(S) /\ Len(b) = z - o /\ \A i \in 1 .. z - o : b[i] = p[o + i]
  <2>1. b = SubSeq(p, o + 1, z) /\ o + 1 \in Nat
    BY <1>0, <1>1
  <2>2. SubSeq(p, o + 1, z) \in Seq(S) /\ Len(SubSeq(p, o + 1, z)) = z - o
    BY <1>0, <1>1
  <2>3. \A i \in 1 .. z - o : SubSeq(p, o + 1, z)[i] = p[o + i]
    BY <1>0, <1>1
  <2> QED BY <2>1, <2>2, <2>3
<1>s. \A x, y \in Seq(S) : Len(x) = Len(y) /\ (\A i \in 1 .. Len(x) : x[i] = y[i]) => x = y
  BY SeqEqual
<1>3. ASSUME NEW n \in 0 .. Len(b)
      PROVE  /\ o + n \in 0 .. Len(p)
             /\ SubSeq(b, n + 1, Len(b)) = SubSeq(p, (o + n) + 1, Len(p))
             /\ SubSeq(b, 1, n) = SubSeq(p, o + 1, o + n)
  <2>0. n \in Nat /\ n <= z - o /\ o + n \in 0 .. z
    BY <1>0, <1>1, <1>2
  <2>1. SubSeq(b, n + 1, z - o) = SubSeq(p, (o + n) + 1, z)
    <3>1. PICK x \in Seq(S), y \in Seq(S) :
            x = SubSeq(b, n + 1, z - o) /\ y = SubSeq(p, (o + n) + 1, z)
      <4>1. SubSeq(b, n + 1, z - o) \in Seq(S)
        BY <1>1, <1>2, <2>0
      <4>2. SubSeq(p, (o + n) + 1, z) \in Seq(S)
        BY <1>0, <1>1, <2>0
      <4> QED BY <4>1, <4>2, Zenon
    <3>2. Len(x) = z - o - n /\ \A i \in 1 .. z - o - n : x[i] = b[n + i]
      BY <1>1, <1>2, <2>0, <3>1
    <3>3. Len(y) = z - o - n /\ \A i \in 1 .. z - o - n : y[i] = p[(o + n) + i]
      <4>1. o + n \in Nat /\ o + n <= z /\ z <= Len(p) /\ z - (o + n) = z - o - n
        BY <1>0, <1>1, <2>0
      <4>2. PICK m \in Nat : m = o + n /\ m <= z /\ z - m = z - o - n
        BY <4>1
      <4>3. z \in Nat /\ y = SubSeq(p, m + 1, z)
        BY <1>0, <3>1, <4>2
      <4>4. Len(y) = z - m /\ \A i \in 1 .. z - m : y[i] = p[m + i]
        <5>1. m \in Nat /\ z \in Nat /\ m <= z /\ z <= Len(p)
          BY <4>1, <4>2, <4>3, Zenon
        <5>2. /\ Len(SubSeq(p, m + 1, z)) = z - m
              /\ \A i \in 1 .. z - m : SubSeq(p, m + 1, z)[i] = p[m + i]
          BY <5>1, SubSeqFacts, Zenon
        <5> QED BY <4>3, <5>2, Zenon
      <4> QED BY <4>2, <4>4
    <3>4. \A i \in 1 .. z - o - n : x[i] = y[i]
      <4> TAKE i \in 1 .. z - o - n
      <4>1. n + i \in 1 .. z - o /\ o + (n + i) = (o + n) + i
        BY <1>1, <2>0
      <4> QED BY <1>2, <3>2, <3>3, <4>1
    <3>5. x = y
      BY <1>s, <3>2, <3>3, <3>4
    <3> QED BY <3>1, <3>5
  <2>2. SubSeq(b, 1, n) = SubSeq(p, o + 1, o + n)
    <3>1. PICK x \in Seq(S), y \in Seq(S) :
            x = SubSeq(b, 1, n) /\ y = SubSeq(p, o + 1, o + n)
      <4>1. SubSeq(b, 1, n) \in Seq(S)
        BY <1>1, <1>2, <2>0
      <4>2. SubSeq(p, o + 1, o + n) \in Seq(S)
        BY <1>0, <1>1, <2>0
      <4> QED BY <4>1, <4>2, Zenon
    <3>2. Len(x) = n /\ \A i \in 1 .. n : x[i] = b[i]
      BY <1>1, <1>2, <2>0, <3>1
    <3>3. Len(y) = n /\ \A i \in 1 .. n : y[i] = p[o + i]
      <4>1. o + n \in Nat /\ o <= o + n /\ o + n <= Len(p) /\ (o + n) - o = n
        BY <1>0, <1>1, <2>0
      <4> QED BY <1>1, <3>1, <4>1, SubSeqFacts
    <3>4. \A i \in 1 .. n : x[i] = y[i]
      <4> TAKE i \in 1 .. n
      <4>1. i \in 1 .. z - o
        BY <1>1, <2>0
      <4> QED BY <1>2, <3>2, <3>3, <4>1
    <3>5. x = y
      BY <1>s, <3>2, <3>3, <3>4
    <3> QED BY <3>1, <3>5
  <2> QED BY <1>0, <1>2, <2>0, <2>1, <2>2
<1> QED BY <1>0, <1>2, <1>3

\* The whole packet, and nothing of it, are ends of it.
LEMMA TrivialEnds ==
    ASSUME NEW S, NEW p \in Seq(S)
    PROVE  /\ SubSeq(p, 1, Len(p)) = p
           /\ SubSeq(p, 1, 0) = <<>>
           /\ \E j \in 0 .. Len(p) : p = SubSeq(p, j + 1, Len(p))
           /\ \E j \in 0 .. Len(p) : <<>> = SubSeq(p, j + 1, Len(p))
<1>1. SubSeq(p, 1, Len(p)) = p
  OBVIOUS
<1>2. SubSeq(p, 1, 0) = <<>>
  OBVIOUS
<1>3. 0 \in 0 .. Len(p) /\ 0 + 1 = 1 /\ Len(p) \in 0 .. Len(p)
  OBVIOUS
<1>4. SubSeq(p, Len(p) + 1, Len(p)) = <<>>
  OBVIOUS
<1> QED BY <1>1, <1>2, <1>3, <1>4

\* The sum of no bytes.
LEMMA WeightEmpty == Weight(<<>>) = 0
<1>1. <<>> \in Seq(Bytes) /\ Len(<<>>) = 0
  OBVIOUS
<1>2. Weights(<<>>) \in Seq(Nat) /\ Len(Weights(<<>>)) = 0 /\ Weight(<<>>) = Total(Weights(<<>>))
  BY <1>1, WeightsFacts
<1>3. Weights(<<>>) = <<>>
  BY <1>2
<1> QED BY <1>2, <1>3, TotalEmpty

\* No fields make an empty packet.
LEMMA EmptyLayout == Layout(<<>>, <<>>) /\ <<>> \in Seq(Fields) /\ <<>> \in Seq(Bytes)
<1>1. <<>> \in Seq(Fields) /\ <<>> \in Seq(Bytes) /\ Len(<<>>) = 0 /\ 0 + 1 = 1
  OBVIOUS
<1>2. Off(<<>>, 1) = 0
  BY <1>1, OffFacts
<1>3. \A i \in 1 .. 0 : FALSE
  OBVIOUS
<1> QED BY <1>1, <1>2, <1>3 DEF Layout

-----------------------------------------------------------------------------
(* The invariant holds at the start *)

\* Inv holds before anything is written.
LEMMA InitInv == Init => Inv
<1> SUFFICES ASSUME Init PROVE Inv
  OBVIOUS
<1> USE DEF Init
<1>0. Len(<<>>) = 0
  OBVIOUS
<1>1. FieldsInv
  BY <1>0, EmptyLayout DEF FieldsInv
<1>2. PacketInv
  BY EmptyLayout DEF PacketInv
<1>3. SumInv
  <2>1. 0 * (WordMod - 1) = 0 /\ Slack(0) = 0 /\ 0 % SumMod = 0 /\ 0 \in 0 .. SumMod - 1
    BY WordModType, SumModType DEF Slack
  <2>2. total \in Nat /\ count \in Nat /\ initial \in 0 .. SumMod - 1
    BY <2>1
  <2>3. parity = (count % 2 = 1)
    <3>1. ~(0 % 2 = 1)
      OBVIOUS
    <3> QED BY <3>1
  <2>4. sum = total % SumMod /\ initial <= total
    BY <2>1
  <2>5. 2 * (total - initial) <= count * (WordMod - 1) + Slack(count)
    BY <2>1
  <2> QED BY <2>2, <2>3, <2>4, <2>5 DEF SumInv
<1>4. AddedInv
  BY <1>3 DEF AddedInv
<1>5. ParserInv
  <2>1. \E j \in 0 .. Len(packet) : buffer = SubSeq(packet, j + 1, Len(packet))
    BY EmptyLayout, TrivialEnds
  <2>2. 1 \in 1 .. Len(fields) + 1
    BY <1>0
  <2> QED BY <2>1, <2>2 DEF ParserInv, ParseResults
<1>6. ReadInv
  BY DEF ReadInv
<1> QED BY <1>1, <1>2, <1>4, <1>5, <1>6 DEF Inv

-----------------------------------------------------------------------------
(* The sender keeps it *)

\* SumInv is about the checksum only.
LEMMA SumInvSame == SumInv /\ UNCHANGED checksum => SumInv'
  BY DEF SumInv, checksum, Slack

\* What both ways of appending a field have in common.
LEMMA Append2Keeps ==
    ASSUME Inv, phase = "build", NEW len \in Lengths, NEW val \in Nat, Append2(len, val)
    PROVE  /\ PacketInv' /\ AddedInv' /\ ParserInv' /\ ReadInv'
           /\ phase' = phase /\ Layout(fields, packet)
           /\ fields' \in Seq(Fields) /\ Len(fields') = Len(fields) + 1
           /\ fields'[Len(fields) + 1] = <<len, val>>
           /\ \A i \in 1 .. Len(fields) : fields'[i] = fields[i]
           /\ \A i \in 1 .. Len(fields) + 1 : Off(fields', i) = Off(fields, i)
<1>1. /\ phase' = "build" /\ damaged' = FALSE /\ next' = 1 /\ got' = {}
      /\ buffer' = <<>> /\ error' = "NoError" /\ UNCHANGED checksum
  BY DEF Append2, Inv, PacketInv, ParserInv, parser
<1>2. fields \in Seq(Fields) /\ packet \in Seq(Bytes) /\ Layout(fields, packet)
  BY DEF Inv, FieldsInv, PacketInv
<1>3. /\ fields' = Append(fields, <<len, val>>)
      /\ packet' = packet \o Unparse(len, val)
  BY DEF Append2
<1>4. /\ fields' \in Seq(Fields) /\ Len(fields') = Len(fields) + 1
      /\ fields'[Len(fields) + 1] = <<len, val>>
      /\ \A i \in 1 .. Len(fields) : fields'[i] = fields[i]
      /\ \A i \in 1 .. Len(fields) + 1 : Off(fields', i) = Off(fields, i)
      /\ packet' \in Seq(Bytes) /\ Layout(fields', packet')
  BY <1>2, <1>3, LayoutAppend
<1>5. PacketInv'
  BY <1>1, <1>4 DEF PacketInv
<1>6. AddedInv'
  <2>1. SumInv'
    BY <1>1, SumInvSame DEF Inv, AddedInv
  <2> QED BY <1>1, <2>1 DEF AddedInv
<1>7. ParserInv'
  <2>1. \E j \in 0 .. Len(packet') : buffer' = SubSeq(packet', j + 1, Len(packet'))
    BY <1>1, <1>4, TrivialEnds
  <2>2. 1 \in 1 .. Len(fields') + 1
    BY <1>4
  <2> QED BY <1>1, <2>1, <2>2 DEF ParserInv, ParseResults
<1>8. ReadInv'
  BY <1>1 DEF ReadInv
<1> QED BY <1>1, <1>2, <1>4, <1>5, <1>6, <1>7, <1>8

\* Appending a field keeps Inv.
LEMMA WriteFieldInv ==
    ASSUME Inv, NEW len \in Lengths, NEW val \in Values, WriteField(len, val)
    PROVE  Inv'
<1>1. phase = "build" /\ val \in Nat /\ val < Place[len] /\ at' = at /\ Append2(len, val)
  BY WireAssumption DEF WriteField
<1>2. /\ PacketInv' /\ AddedInv' /\ ParserInv' /\ ReadInv'
      /\ phase' = phase
      /\ fields' \in Seq(Fields) /\ Len(fields') = Len(fields) + 1
      /\ fields'[Len(fields) + 1] = <<len, val>>
      /\ \A i \in 1 .. Len(fields) : fields'[i] = fields[i]
      /\ \A i \in 1 .. Len(fields) + 1 : Off(fields', i) = Off(fields, i)
  BY <1>1, Append2Keeps
<1>3. PICK n \in Nat : n = Len(fields)
  BY LenProperties DEF Inv, FieldsInv
<1>4. \A i \in 1 .. n + 1 : fields'[i][2] < Place[fields'[i][1]]
  <2> TAKE i \in 1 .. n + 1
  <2>1. CASE i = n + 1
    BY <1>1, <1>2, <1>3, <2>1
  <2>2. CASE i # n + 1
    <3>1. i \in 1 .. n
      BY <2>2
    <3>2. fields'[i] = fields[i] /\ fields[i][2] < Place[fields[i][1]]
      BY <1>2, <1>3, <3>1 DEF Inv, FieldsInv
    <3> QED BY <3>2
  <2> QED BY <2>1, <2>2
<1>5. at \in 0 .. n /\ (at # 0 => at \in 1 .. n /\ at \in 1 .. n + 1)
  BY <1>3 DEF Inv, FieldsInv
<1>6. at \in 0 .. n + 1
  BY <1>5
<1>7. at # 0 => /\ Off(fields', at) % 2 = 0 /\ fields'[at][1] = 2 /\ fields'[at][2] = 0
  BY <1>1, <1>2, <1>3, <1>5 DEF Inv, FieldsInv
<1>8. FieldsInv'
  BY <1>1, <1>2, <1>3, <1>4, <1>6, <1>7 DEF FieldsInv
<1> QED BY <1>2, <1>8 DEF Inv

\* Appending the place of the checksum keeps Inv.
LEMMA WriteZeroChecksumInv ==
    ASSUME Inv, WriteZeroChecksum
    PROVE  Inv'
<1>1. phase = "build" /\ Len(packet) % 2 = 0 /\ at' = Len(fields) + 1 /\ Append2(2, 0)
  BY DEF WriteZeroChecksum
<1>2. /\ PacketInv' /\ AddedInv' /\ ParserInv' /\ ReadInv'
      /\ phase' = phase /\ Layout(fields, packet)
      /\ fields' \in Seq(Fields) /\ Len(fields') = Len(fields) + 1
      /\ fields'[Len(fields) + 1] = <<2, 0>>
      /\ \A i \in 1 .. Len(fields) : fields'[i] = fields[i]
      /\ \A i \in 1 .. Len(fields) + 1 : Off(fields', i) = Off(fields, i)
  <2>1. 2 \in Lengths /\ 0 \in Nat
    BY DEF Lengths
  <2> QED BY <1>1, <2>1, Append2Keeps
<1>3. PICK n \in Nat : n = Len(fields)
  BY LenProperties DEF Inv, FieldsInv
<1>4. \A i \in 1 .. n + 1 : fields'[i][2] < Place[fields'[i][1]]
  <2> TAKE i \in 1 .. n + 1
  <2>1. CASE i = n + 1
    <3>1. 0 < Place[2]
      BY PlaceFacts, WordModType
    <3> QED BY <1>2, <1>3, <2>1, <3>1
  <2>2. CASE i # n + 1
    <3>1. i \in 1 .. n
      BY <2>2
    <3>2. fields'[i] = fields[i] /\ fields[i][2] < Place[fields[i][1]]
      BY <1>2, <1>3, <3>1 DEF Inv, FieldsInv
    <3> QED BY <3>2
  <2> QED BY <2>1, <2>2
<1>5. Off(fields', n + 1) = Len(packet)
  <2>1. n + 1 \in 1 .. n + 1
    OBVIOUS
  <2> QED BY <1>2, <1>3, <2>1 DEF Layout
<1>6. at' = n + 1 /\ n + 1 \in 0 .. n + 1
  BY <1>1, <1>3
<1>7. /\ Off(fields', n + 1) % 2 = 0 /\ fields'[n + 1][1] = 2 /\ fields'[n + 1][2] = 0
  BY <1>1, <1>2, <1>3, <1>5
<1>8. FieldsInv'
  BY <1>1, <1>2, <1>3, <1>4, <1>6, <1>7 DEF FieldsInv
<1> QED BY <1>2, <1>8 DEF Inv

\* A sum that starts has added nothing.
LEMMA FreshSum ==
    ASSUME NEW initial_sum \in 0 .. SumMod - 1, InitialSum(initial_sum), packet' \in Seq(Bytes)
    PROVE  AddedInv'
<1>1. SumInv'
  BY SumInvInitial
<1>2. count' = 0 /\ total' = initial' /\ initial' \in Nat
  BY SumModType DEF InitialSum
<1>3. Weight(SubSeq(packet', 1, 0)) = 0 /\ Len(packet') \in Nat
  <2>1. PICK p \in Seq(Bytes) : p = packet'
    OBVIOUS
  <2>2. SubSeq(p, 1, 0) = <<>> /\ Len(p) \in Nat
    BY TrivialEnds
  <2> QED BY <2>1, <2>2, WeightEmpty
<1>4. total' = initial' + Weight(SubSeq(packet', 1, count')) /\ count' <= Len(packet')
  BY <1>2, <1>3
<1> QED BY <1>1, <1>4 DEF AddedInv

\* Starting a sum keeps Inv.
LEMMA StartSumInv ==
    ASSUME Inv, NEW initial_sum \in InitialSums, StartSum(initial_sum)
    PROVE  Inv'
<1>1. /\ phase = "build" /\ phase' = "sum" /\ at # 0 /\ InitialSum(initial_sum)
      /\ UNCHANGED <<fields, at, packet, damaged, next, got, buffer, error, ret>>
  BY DEF StartSum, parser
<1>2. initial_sum \in 0 .. SumMod - 1
  BY WireAssumption
<1>3. FieldsInv'
  BY <1>1 DEF Inv, FieldsInv
<1>4. PacketInv'
  <2>1. packet \in Seq(Bytes) /\ damaged = FALSE /\ Layout(fields, packet)
    BY <1>1 DEF Inv, PacketInv
  <2>2. packet' \in Seq(Bytes) /\ damaged' = FALSE /\ Layout(fields', packet') /\ phase' = "sum"
    BY <1>1, <2>1
  <2> QED BY <2>2 DEF PacketInv
<1>5. AddedInv'
  BY <1>1, <1>2, FreshSum DEF Inv, PacketInv
<1>6. ParserInv'
  BY <1>1 DEF Inv, ParserInv
<1>7. ReadInv'
  BY <1>1 DEF ReadInv
<1> QED BY <1>3, <1>4, <1>5, <1>6, <1>7 DEF Inv

\* Adding the next bytes of the packet, of any length, keeps Inv.
LEMMA AddChunkInv ==
    ASSUME Inv, NEW n \in 1 .. Len(packet), AddChunk(n)
    PROVE  Inv'
<1>1. /\ phase \in {"sum", "verify"} /\ n <= Len(packet) - count
      /\ Add(SubSeq(packet, count + 1, count + n))
      /\ UNCHANGED <<phase, fields, at, packet, damaged, next, got, buffer, error, ret>>
  BY DEF AddChunk, parser
<1>2. initial' = initial /\ packet' = packet
  BY <1>1 DEF Add
<1>3. FieldsInv'
  BY <1>1 DEF Inv, FieldsInv
<1>4. PacketInv'
  <2>1. NoCarryLost' = NoCarryLost
    BY <1>2 DEF NoCarryLost
  <2> QED BY <1>1, <1>2, <2>1 DEF Inv, PacketInv
<1>5. AddedInv'
  <2>1. packet \in Seq(Bytes) /\ count \in Nat /\ n \in Nat /\ Len(packet) \in Nat /\ SumInv
    BY DEF Inv, PacketInv, AddedInv, SumInv
  <2>2. count + n <= Len(packet) /\ count + n \in Nat
    BY <1>1, <2>1
  <2>3. SubSeq(packet, count + 1, count + n) \in Seq(Bytes)
    BY <2>1, <2>2
  <2>4. SumInv'
    BY <1>1, <2>1, <2>3, SumInvAdd
  <2>5. /\ count' = count + n
        /\ total' = total + Placed(SubSeq(packet, count + 1, count + n))
    <3>1. Len(SubSeq(packet, count + 1, count + n)) = n
      <4>1. count <= count + n /\ (count + n) - count = n
        BY <2>1
      <4> QED BY <2>1, <2>2, <4>1, SubSeqFacts
    <3> QED BY <1>1, <3>1 DEF Add
  <2>6. Weight(SubSeq(packet, 1, count + n))
          = Weight(SubSeq(packet, 1, count)) + Placed(SubSeq(packet, count + 1, count + n))
    BY <2>1, <2>2, WeightAdd
  <2>7. total = initial + Weight(SubSeq(packet, 1, count))
    BY <1>1 DEF Inv, AddedInv
  <2>8. PICK a \in Nat, w \in Nat, x \in Nat :
          a = initial /\ w = Weight(SubSeq(packet, 1, count))
          /\ x = Placed(SubSeq(packet, count + 1, count + n))
    <3>1. initial \in Nat
      BY <2>1, SumModType DEF SumInv
    <3>2. SubSeq(packet, 1, count) \in Seq(Bytes)
      BY <2>1, <2>2
    <3>3. Weight(SubSeq(packet, 1, count)) \in Nat
      BY <3>2, WeightsFacts
    <3>4. Placed(SubSeq(packet, count + 1, count + n)) \in Nat
      BY <2>1, <2>3, PlacedFacts
    <3> QED BY <3>1, <3>3, <3>4, Zenon
  <2>9. (a + w) + x = a + (w + x)
    OBVIOUS
  <2>10. total' = initial' + Weight(SubSeq(packet', 1, count'))
    BY <1>2, <2>5, <2>6, <2>7, <2>8, <2>9
  <2> QED BY <1>2, <2>2, <2>4, <2>5, <2>10 DEF AddedInv
<1>6. ParserInv'
  BY <1>1 DEF Inv, ParserInv
<1>7. ReadInv'
  BY <1>1 DEF ReadInv
<1> QED BY <1>3, <1>4, <1>5, <1>6, <1>7 DEF Inv

\* The whole packet was added, and no carry lost: value() is as it should be.
LEMMA WholeSum ==
    ASSUME Inv, phase \in {"sum", "verify"}, count = Len(packet), NoCarryLost
    PROVE  /\ total = initial + Weight(packet) /\ total \in Nat
           /\ value = WordMod - 1 - OnesComplement(total)
<1>1. packet \in Seq(Bytes) /\ SumInv
  BY DEF Inv, PacketInv, AddedInv
<1>2. total = initial + Weight(SubSeq(packet, 1, count))
  BY DEF Inv, AddedInv
<1>3. SubSeq(packet, 1, count) = packet
  BY <1>1, TrivialEnds
<1>4. count < WordMod /\ 2 * initial <= SumMod
  BY DEF NoCarryLost
<1>5. ChecksumExact
  BY <1>1, SumInvExact
<1> QED BY <1>1, <1>2, <1>3, <1>4, <1>5 DEF ChecksumExact, SumInv

\* value() is a word.
LEMMA ValueType ==
    ASSUME SumInv
    PROVE  value \in 0 .. WordMod - 1
<1>1. sum \in 0 .. SumMod - 1
  BY SumModType DEF SumInv
<1>2. Folded(Folded(sum)) = OnesComplement(sum) /\ Folded(Folded(sum)) < WordMod
  BY <1>1, FoldsToOnesComplement
<1>3. sum \in Nat
  BY <1>1, SumModType
<1>4. WordMod - 1 - OnesComplement(sum) \in 0 .. WordMod - 1
  BY <1>3, ComplementGivesZero
<1> QED BY <1>2, <1>4 DEF value

\* Writing the checksum into the packet keeps Inv: the sum becomes all ones.
LEMMA SealInv ==
    ASSUME Inv, Seal
    PROVE  Inv'
<1>1. /\ phase = "sum" /\ phase' = "transit" /\ count = Len(packet)
      /\ fields' = [fields EXCEPT ![at] = <<2, value>>]
      /\ packet' = ReplaceSubSeqAt(Off(fields, at) + 1, Unparse(2, value), <<0, 0>>, packet)
      /\ UNCHANGED <<at, damaged, next, got, buffer, error, ret>> /\ UNCHANGED checksum
  BY DEF Seal, parser, Offset, Off
<1>2. /\ fields \in Seq(Fields) /\ packet \in Seq(Bytes) /\ damaged = FALSE
      /\ Layout(fields, packet) /\ SumInv
  BY <1>1 DEF Inv, FieldsInv, PacketInv, AddedInv
<1>3. /\ at \in 1 .. Len(fields) /\ at # 0
      /\ fields[at][1] = 2 /\ fields[at][2] = 0 /\ Off(fields, at) % 2 = 0
  <2>1. at \in 0 .. Len(fields) /\ at # 0
    BY <1>1 DEF Inv, FieldsInv
  <2>2. at \in 1 .. Len(fields)
    BY <2>1
  <2> QED BY <1>1, <2>1, <2>2 DEF Inv, FieldsInv
<1>4. PICK v \in 0 .. WordMod - 1 : v = value
  BY <1>2, ValueType
<1>5. PICK n \in Nat, a \in 1 .. Len(fields) : n = Len(fields) /\ a = at
  BY <1>2, <1>3, LenProperties
<1>6. /\ fields' \in Seq(Fields) /\ Len(fields') = n /\ fields'[a] = <<2, v>>
      /\ \A i \in 1 .. n : i # a => fields'[i] = fields[i]
      /\ \A i \in 1 .. n + 1 : Off(fields', i) = Off(fields, i)
      /\ packet' \in Seq(Bytes) /\ Len(packet') = Len(packet)
      /\ Layout(fields', packet')
      /\ Weight(packet') = Weight(packet) + v
  <2>1. PICK f \in Seq(Fields), p \in Seq(Bytes) : f = fields /\ p = packet
    BY <1>2
  <2>2. fields' = SealedFields(f, a, v) /\ packet' = SealedPacket(f, p, a, v)
    BY <1>1, <1>4, <1>5, <2>1 DEF SealedFields, SealedPacket
  <2>4. /\ a \in 1 .. Len(f) /\ Layout(f, p)
        /\ f[a][1] = 2 /\ f[a][2] = 0 /\ Off(f, a) % 2 = 0
    BY <1>2, <1>3, <1>5, <2>1
  <2>5. /\ fields' \in Seq(Fields) /\ Len(fields') = Len(f) /\ fields'[a] = <<2, v>>
        /\ \A i \in 1 .. Len(f) : i # a => fields'[i] = f[i]
        /\ \A i \in 1 .. Len(f) + 1 : Off(fields', i) = Off(f, i)
        /\ packet' \in Seq(Bytes) /\ Len(packet') = Len(p)
        /\ Layout(fields', packet')
        /\ Weight(packet') = Weight(p) + v
    BY <2>2, <2>4, SetChecksum
  <2> QED BY <1>5, <2>1, <2>5
<1>7. FieldsInv'
  <2>1. \A i \in 1 .. n : fields'[i][2] < Place[fields'[i][1]]
    <3> TAKE i \in 1 .. n
    <3>1. CASE i = a
      <4>1. v < Place[2]
        BY PlaceFacts, WordModType
      <4> QED BY <1>6, <3>1, <4>1
    <3>2. CASE i # a
      BY <1>5, <1>6, <3>2 DEF Inv, FieldsInv
    <3> QED BY <3>1, <3>2
  <2>2. a \in 1 .. n + 1 /\ a \in 0 .. n /\ a # 0
    BY <1>5
  <2>3. Off(fields', a) % 2 = 0 /\ fields'[a][1] = 2
    BY <1>3, <1>5, <1>6, <2>2
  <2> QED BY <1>1, <1>5, <1>6, <2>1, <2>2, <2>3 DEF FieldsInv
<1>8. PacketInv'
  <2>1. ASSUME NoCarryLost' PROVE Zeros(initial' + Weight(packet'))
    <3>1. initial' = initial /\ NoCarryLost
      BY <1>1, <1>6, <2>1 DEF NoCarryLost, checksum
    <3>2. total = initial + Weight(packet) /\ total \in Nat /\ v = WordMod - 1 - OnesComplement(total)
      BY <1>1, <1>4, <3>1, WholeSum
    <3>3. Zeros(total + v)
      BY <3>2, ComplementGivesZero
    <3>4. initial + (Weight(packet) + v) = total + v
      <4>1. Weight(packet) \in Nat /\ initial \in Nat /\ v \in Nat
        BY <1>2, WeightsFacts, SumModType, WordModType DEF SumInv
      <4>2. PICK x \in Nat, y \in Nat : x = initial /\ y = Weight(packet)
        BY <4>1
      <4>3. x + (y + v) = (x + y) + v
        BY <4>1
      <4> QED BY <3>2, <4>2, <4>3
    <3> QED BY <1>6, <3>1, <3>3, <3>4
  <2>2. damaged' = FALSE
    BY <1>1, <1>2
  <2> QED BY <1>1, <1>6, <2>1, <2>2 DEF PacketInv
<1>9. AddedInv'
  BY <1>1, <1>2, SumInvSame DEF AddedInv
<1>10. ParserInv'
  <2>1. buffer' = <<>> /\ error' = "NoError" /\ next' = 1 /\ got' = {}
    BY <1>1 DEF Inv, ParserInv
  <2>2. \E j \in 0 .. Len(packet') : buffer' = SubSeq(packet', j + 1, Len(packet'))
    BY <1>6, <2>1, TrivialEnds
  <2>3. 1 \in 1 .. Len(fields') + 1
    BY <1>6
  <2> QED BY <1>1, <2>1, <2>2, <2>3 DEF ParserInv, ParseResults
<1>11. ReadInv'
  BY <1>1 DEF ReadInv
<1> QED BY <1>7, <1>8, <1>9, <1>10, <1>11 DEF Inv

-----------------------------------------------------------------------------
(* The network and the receiver keep it *)

\* What arrives, damaged or not, is yet to be summed and read.
LEMMA ArrivesKeeps ==
    ASSUME Inv, NEW data \in Seq(Bytes), Arrives(data)
    PROVE  /\ FieldsInv' /\ AddedInv' /\ ParserInv' /\ ReadInv'
           /\ phase = "transit" /\ phase' = "verify"
           /\ packet' = data /\ damaged' = (data # packet)
           /\ fields' = fields /\ initial' = initial /\ initial \in Nat
           /\ fields \in Seq(Fields) /\ packet \in Seq(Bytes)
           /\ Layout(fields, packet)
           /\ NoCarryLost => Zeros(initial + Weight(packet))
<1>1. /\ phase = "transit" /\ phase' = "verify" /\ packet' = data /\ damaged' = (data # packet)
      /\ buffer' = data /\ error' = "NoError" /\ InitialSum(initial)
      /\ UNCHANGED <<fields, at, next, got>>
  BY DEF Arrives, ParserOf
<1>2. initial \in 0 .. SumMod - 1 /\ initial \in Nat /\ initial' = initial
  <2>1. initial \in 0 .. SumMod - 1
    BY DEF Inv, AddedInv, SumInv
  <2> QED BY <1>1, <2>1, SumModType DEF InitialSum
<1>3. /\ fields \in Seq(Fields) /\ packet \in Seq(Bytes) /\ damaged = FALSE
      /\ Layout(fields, packet) /\ (NoCarryLost => Zeros(initial + Weight(packet)))
  BY <1>1 DEF Inv, FieldsInv, PacketInv
<1>4. FieldsInv'
  BY <1>1 DEF Inv, FieldsInv
<1>5. AddedInv'
  <2>1. PICK i \in 0 .. SumMod - 1 : i = initial
    BY <1>2
  <2>2. InitialSum(i) /\ packet' \in Seq(Bytes)
    BY <1>1, <2>1
  <2> QED BY <2>2, FreshSum
<1>6. ParserInv'
  <2>1. \E j \in 0 .. Len(packet') : buffer' = SubSeq(packet', j + 1, Len(packet'))
    BY <1>1, TrivialEnds
  <2>2. next = 1 /\ got = {} /\ next \in 1 .. Len(fields) + 1
    BY <1>1 DEF Inv, ParserInv
  <2> QED BY <1>1, <2>1, <2>2 DEF ParserInv, ParseResults
<1>7. ReadInv'
  BY <1>1 DEF ReadInv
<1> QED BY <1>1, <1>2, <1>3, <1>4, <1>5, <1>6, <1>7

\* An undamaged packet arrives: Inv is kept.
LEMMA DeliverInv ==
    ASSUME Inv, Deliver
    PROVE  Inv'
<1>1. packet \in Seq(Bytes) /\ Arrives(packet)
  BY DEF Deliver, Inv, PacketInv
<1>2. /\ FieldsInv' /\ AddedInv' /\ ParserInv' /\ ReadInv'
      /\ phase' = "verify" /\ packet' = packet /\ damaged' = FALSE
      /\ fields' = fields /\ initial' = initial
      /\ Layout(fields, packet) /\ (NoCarryLost => Zeros(initial + Weight(packet)))
  BY <1>1, ArrivesKeeps
<1>3. NoCarryLost' = NoCarryLost
  BY <1>2 DEF NoCarryLost
<1>4. PacketInv'
  BY <1>1, <1>2, <1>3 DEF PacketInv
<1> QED BY <1>2, <1>4 DEF Inv

\* A packet arrives without its end: Inv is kept.
LEMMA TruncateInv ==
    ASSUME Inv, NEW n \in 0 .. Len(packet) - 1, Truncate(n)
    PROVE  Inv'
<1>1. packet \in Seq(Bytes) /\ Len(packet) \in Nat /\ n \in Nat /\ n < Len(packet)
  BY DEF Inv, PacketInv
<1>2. PICK data \in Seq(Bytes) : data = SubSeq(packet, 1, n)
  <2>1. SubSeq(packet, 1, n) \in Seq(Bytes)
    BY <1>1
  <2> QED BY <2>1
<1>3. Len(data) = n
  BY <1>1, <1>2
<1>4. Arrives(data)
  BY <1>2 DEF Truncate
<1>5. /\ FieldsInv' /\ AddedInv' /\ ParserInv' /\ ReadInv'
      /\ phase' = "verify" /\ packet' = data /\ damaged' = (data # packet)
      /\ fields' = fields /\ Layout(fields, packet)
  BY <1>4, ArrivesKeeps
<1>6. data # packet
  BY <1>1, <1>3
<1>7. Len(packet') < Off(fields', Len(fields') + 1)
  BY <1>1, <1>3, <1>5 DEF Layout
<1>8. PacketInv'
  BY <1>5, <1>6, <1>7 DEF PacketInv
<1> QED BY <1>5, <1>8 DEF Inv

\* A packet arrives with one byte changed: Inv is kept.
LEMMA CorruptInv ==
    ASSUME Inv, NEW i \in DOMAIN packet, NEW byte \in Bytes, Corrupt(i, byte)
    PROVE  Inv'
<1>1. packet \in Seq(Bytes) /\ i \in 1 .. Len(packet) /\ i \in Nat /\ packet[i] \in Bytes
  BY DEF Inv, PacketInv
<1>2. PICK p \in Seq(Bytes), k \in 1 .. Len(packet), x \in Bytes :
        p = packet /\ k = i /\ x = packet[i]
  BY <1>1
<1>3. byte # x /\ k \in 1 .. Len(p) /\ p[k] = x
  BY <1>2 DEF Corrupt
<1>4. PICK data \in Seq(Bytes) : data = [p EXCEPT ![k] = byte]
  BY <1>3, ExceptSeq
<1>5. Len(data) = Len(p) /\ data[k] = byte /\ \A j \in 1 .. Len(p) : j # k => p[j] = data[j]
  BY <1>3, <1>4, ExceptSeq
<1>6. Arrives(data)
  BY <1>2, <1>4 DEF Corrupt
<1>7. /\ FieldsInv' /\ AddedInv' /\ ParserInv' /\ ReadInv'
      /\ phase' = "verify" /\ packet' = data /\ damaged' = (data # packet)
      /\ fields' = fields /\ initial' = initial /\ initial \in Nat
      /\ NoCarryLost => Zeros(initial + Weight(packet))
  BY <1>6, ArrivesKeeps
<1>8. damaged' = TRUE
  BY <1>2, <1>3, <1>5, <1>7
<1>9. ASSUME NoCarryLost' PROVE ~Zeros(initial' + Weight(packet'))
  <2>1. NoCarryLost
    BY <1>2, <1>5, <1>7, <1>9 DEF NoCarryLost
  <2>2. PICK a \in Nat, w \in Nat, w2 \in Nat :
          a = initial /\ w = Weight(p) /\ w2 = Weight(data)
    <3>1. Weight(p) \in Nat /\ Weight(data) \in Nat
      BY WeightsFacts
    <3> QED BY <1>7, <3>1, Zenon
  <2>3. Zeros(a + w)
    BY <1>2, <1>7, <2>1, <2>2
  <2>4. w2 + x * Place[k % 2] = w + byte * Place[k % 2]
    BY <1>3, <1>5, <2>2, WeightChange
  <2>5. PICK d \in Int : /\ d = byte * Place[k % 2] - x * Place[k % 2]
                         /\ d # 0 /\ d < WordMod - 1 /\ -d < WordMod - 1
    <3>1. k \in Nat
      BY <1>1, <1>2
    <3> QED BY <1>3, <3>1, ByteChange
  <2>6. w2 = w + d
    <3>1. PICK y \in Int, z \in Int : y = x * Place[k % 2] /\ z = byte * Place[k % 2]
      <4>1. k % 2 \in 0 .. 4
        BY <1>1, <1>2
      <4>2. Place[k % 2] \in Int /\ x \in Int /\ byte \in Int
        BY <4>1, PlaceTypes, ByteModAssumption DEF Bytes
      <4>3. \A s, t \in Int : s * t \in Int
        OBVIOUS
      <4> QED BY <4>2, <4>3
    <3>2. w2 + y = w + z /\ d = z - y
      BY <2>4, <2>5, <3>1
    <3>3. w2 = (w + z) - y
      BY <3>2
    <3> QED BY <3>2, <3>3
  <2>7. a + w2 = (a + w) + d
    BY <2>6
  <2>8. ~Zeros((a + w) + d)
    <3>1. a + w \in Nat
      OBVIOUS
    <3> QED BY <2>3, <2>5, <3>1, SmallChange
  <2> QED BY <1>7, <2>2, <2>7, <2>8
<1>10. PacketInv'
  BY <1>7, <1>8, <1>9 DEF PacketInv
<1> QED BY <1>7, <1>10 DEF Inv

\* Checking the sum keeps Inv.
LEMMA VerifyInv ==
    ASSUME Inv, Verify
    PROVE  Inv'
<1>1. /\ phase = "verify" /\ phase' = "parse" /\ count = Len(packet)
      /\ IF value = 0 THEN error' = error ELSE error' = "BadChecksum"
      /\ buffer' = buffer
      /\ UNCHANGED <<fields, at, packet, damaged, next, got>> /\ UNCHANGED checksum
  BY DEF Verify, SetError, parser
<1>2. /\ fields \in Seq(Fields) /\ packet \in Seq(Bytes) /\ buffer = packet
      /\ error = "NoError" /\ next = 1 /\ got = {}
  BY <1>1 DEF Inv, FieldsInv, PacketInv, ParserInv
<1>3. initial' = initial /\ NoCarryLost' = NoCarryLost
  BY <1>1 DEF NoCarryLost, checksum
<1>4. FieldsInv'
  BY <1>1 DEF Inv, FieldsInv
<1>5. PacketInv'
  BY <1>1, <1>3 DEF Inv, PacketInv
<1>6. AddedInv'
  BY <1>1, SumInvSame DEF Inv, AddedInv
<1>7. ParserInv'
  <2>1. error' \in ParseResults
    BY <1>1, <1>2 DEF ParseResults
  <2> QED BY <1>1, <2>1 DEF Inv, ParserInv
<1>8. NoCarryLost => (value = 0 <=> Zeros(initial + Weight(packet)))
  <2>1. SUFFICES ASSUME NoCarryLost PROVE value = 0 <=> Zeros(initial + Weight(packet))
    OBVIOUS
  <2>2. total = initial + Weight(packet) /\ total \in Nat
        /\ value = WordMod - 1 - OnesComplement(total)
    BY <1>1, <2>1, WholeSum
  <2> QED BY <2>2, ZeroValue
<1>9. ReadInv'
  <2>1. error' = "NoError" => /\ Off(fields', next') <= Len(packet')
                              /\ buffer' = SubSeq(packet', Off(fields', next') + 1, Len(packet'))
    <3>1. Off(fields, 1) = 0 /\ 0 + 1 = 1 /\ 0 <= Len(packet) /\ SubSeq(packet, 1, Len(packet)) = packet
      BY <1>2, OffFacts, TrivialEnds
    <3> QED BY <1>1, <1>2, <3>1
  <2>2. ~damaged' /\ NoCarryLost' => error' = "NoError" /\ got' = {}
    BY <1>1, <1>2, <1>3, <1>8 DEF Inv, PacketInv
  <2>3. damaged' /\ NoCarryLost' /\ error' = "NoError" =>
          Len(packet') < Off(fields', Len(fields') + 1)
    BY <1>1, <1>2, <1>3, <1>8 DEF Inv, PacketInv
  <2> QED BY <2>1, <2>2, <2>3 DEF ReadInv
<1> QED BY <1>4, <1>5, <1>6, <1>7, <1>9 DEF Inv

\* Reading or skipping a field, when what was read so far is right.
LEMMA ConsumeKeeps ==
    ASSUME Inv, phase = "parse", next <= Len(fields), next' = next + 1,
           error' = CheckSize(fields[next][1]),
           buffer' = IF error' # "NoError" THEN buffer
                     ELSE SubSeq(buffer, fields[next][1] + 1, Len(buffer)),
           UNCHANGED <<phase, fields, at, packet, damaged, checksum>>,
           got' \subseteq (1 .. Len(fields)) \X Nat,
           ~damaged /\ NoCarryLost => \A g \in got' : g[2] = fields[g[1]][2]
    PROVE  Inv'
<1>0. /\ phase' = "parse" /\ fields' = fields /\ packet' = packet /\ damaged' = damaged
      /\ at' = at /\ initial' = initial /\ NoCarryLost' = NoCarryLost /\ UNCHANGED checksum
  BY DEF NoCarryLost, checksum
<1>1. fields \in Seq(Fields) /\ packet \in Seq(Bytes) /\ next \in 1 .. Len(fields) + 1
  BY DEF Inv, FieldsInv, PacketInv, ParserInv
<1>2. PICK f \in Seq(Fields), p \in Seq(Bytes) : f = fields /\ p = packet
  BY <1>1
<1>3. PICK i \in 1 .. Len(f) : i = next
  BY <1>1, <1>2
<1>4. PICK len \in Nat : len = f[i][1]
  BY FieldTypes
<1>5. /\ error' = IF len > Len(buffer) THEN "PacketTooShort" ELSE error
      /\ buffer' = IF error' # "NoError" THEN buffer ELSE SubSeq(buffer, len + 1, Len(buffer))
  BY <1>2, <1>3, <1>4 DEF CheckSize
<1>6. PICK j \in 0 .. Len(p) : buffer = SubSeq(p, j + 1, Len(p))
  BY <1>2 DEF Inv, ParserInv
<1>7. buffer \in Seq(Bytes) /\ Len(buffer) \in Nat
  BY <1>6, EndOfEnd
<1>8. error' = "NoError" => len \in 0 .. Len(buffer) /\ error = "NoError"
  BY <1>5, <1>7
<1>9. PICK o \in Nat : o = Off(f, i)
  <2>1. i \in 1 .. Len(f) + 1
    OBVIOUS
  <2> QED BY <2>1, OffFacts
<1>10. Off(f, i + 1) = o + len /\ o + len \in Nat /\ Len(p) \in Nat
  <2>1. o + len \in Nat /\ Len(p) \in Nat
    OBVIOUS
  <2>2. Off(f, i + 1) = Off(f, i) + f[i][1]
    BY OffFacts
  <2> QED BY <1>4, <1>9, <2>1, <2>2, Zenon
<1>11. error = "NoError" => /\ o \in 0 .. Len(p) /\ buffer = SubSeq(p, o + 1, Len(p))
                            /\ Len(buffer) = Len(p) - o
  <2>1. SUFFICES ASSUME error = "NoError"
                 PROVE  /\ o \in 0 .. Len(p) /\ buffer = SubSeq(p, o + 1, Len(p))
                        /\ Len(buffer) = Len(p) - o
    OBVIOUS
  <2>2. o <= Len(p) /\ buffer = SubSeq(p, o + 1, Len(p))
    BY <1>2, <1>3, <1>9, <2>1 DEF Inv, ReadInv
  <2>3. o \in 0 .. Len(p)
    BY <1>10, <2>2
  <2> QED BY <2>2, <2>3, EndOfEnd
<1>12. ~damaged /\ NoCarryLost => error' = "NoError"
  <2>1. SUFFICES ASSUME ~damaged, NoCarryLost PROVE error' = "NoError"
    OBVIOUS
  <2>2. error = "NoError" /\ Layout(f, p)
    BY <1>2, <2>1 DEF Inv, ReadInv, PacketInv
  <2>3. o + len <= Len(p)
    <3>1. i + 1 \in 1 .. Len(f) + 1 /\ Len(f) + 1 \in 1 .. Len(f) + 1 /\ i + 1 <= Len(f) + 1
      OBVIOUS
    <3>2. Off(f, i + 1) <= Off(f, Len(f) + 1)
      BY <3>1, OffMonotone
    <3> QED BY <1>10, <2>2, <3>2 DEF Layout
  <2>4. ~(len > Len(buffer))
    BY <1>10, <1>11, <2>2, <2>3
  <2> QED BY <1>5, <2>2, <2>4
<1>13. FieldsInv'
  BY <1>0 DEF Inv, FieldsInv
<1>14. PacketInv'
  BY <1>0 DEF Inv, PacketInv
<1>15. AddedInv'
  BY <1>0, SumInvSame DEF Inv, AddedInv
<1>16. ParserInv'
  <2>1. error' \in ParseResults
    BY <1>5 DEF Inv, ParserInv, ParseResults
  <2>2. next' \in 1 .. Len(fields') + 1
    BY <1>0, <1>1
  <2>3. \E k \in 0 .. Len(p) : buffer' = SubSeq(p, k + 1, Len(p))
    <3>1. CASE error' # "NoError"
      BY <1>5, <1>6, <3>1
    <3>2. CASE error' = "NoError"
      <4>1. len \in 0 .. Len(buffer) /\ buffer' = SubSeq(buffer, len + 1, Len(buffer))
        BY <1>5, <1>8, <3>2
      <4>2. /\ j + len \in 0 .. Len(p)
            /\ SubSeq(buffer, len + 1, Len(buffer)) = SubSeq(p, (j + len) + 1, Len(p))
        BY <1>6, <4>1, EndOfEnd, SMTT(30)
      <4> QED BY <4>1, <4>2
    <3> QED BY <3>1, <3>2
  <2> QED BY <1>0, <1>2, <2>1, <2>2, <2>3 DEF ParserInv
<1>17. ReadInv'
  <2>1. ASSUME error' = "NoError"
        PROVE  /\ Off(fields', next') <= Len(packet')
               /\ buffer' = SubSeq(packet', Off(fields', next') + 1, Len(packet'))
    <3>1. len \in 0 .. Len(buffer) /\ buffer' = SubSeq(buffer, len + 1, Len(buffer))
          /\ error = "NoError"
      BY <1>5, <1>8, <2>1
    <3>2. /\ o + len \in 0 .. Len(p)
          /\ SubSeq(buffer, len + 1, Len(buffer)) = SubSeq(p, (o + len) + 1, Len(p))
      <4>1. o \in 0 .. Len(p) /\ buffer = SubSeq(p, o + 1, Len(p))
        BY <1>11, <3>1
      <4>2. PICK b : b = buffer
        OBVIOUS
      <4>3. \A n \in 0 .. Len(b) :
              /\ o + n \in 0 .. Len(p)
              /\ SubSeq(b, n + 1, Len(b)) = SubSeq(p, (o + n) + 1, Len(p))
        BY <4>1, <4>2, EndOfEnd, SMTT(30)
      <4> QED BY <3>1, <4>2, <4>3, Zenon
    <3>3. Off(fields', next') = o + len /\ packet' = p
      BY <1>0, <1>2, <1>3, <1>10
    <3>4. o + len <= Len(p)
      BY <3>2
    <3>5. buffer' = SubSeq(p, (o + len) + 1, Len(p))
      BY <3>1, <3>2, Zenon
    <3> QED BY <3>3, <3>4, <3>5, Zenon
  <2>2. damaged' /\ NoCarryLost' /\ error' = "NoError" =>
          Len(packet') < Off(fields', Len(fields') + 1)
    BY <1>0, <1>8 DEF Inv, ReadInv
  <2>3. ~damaged' /\ NoCarryLost' => error' = "NoError" /\ \A g \in got' : g[2] = fields'[g[1]][2]
    BY <1>0, <1>12
  <2> QED BY <2>1, <2>2, <2>3 DEF ReadInv
<1> QED BY <1>13, <1>14, <1>15, <1>16, <1>17 DEF Inv

\* remove_prefix() keeps Inv.
LEMMA SkipFieldInv ==
    ASSUME Inv, SkipField
    PROVE  Inv'
<1>1. /\ phase = "parse" /\ next <= Len(fields) /\ next' = next + 1
      /\ error' = CheckSize(fields[next][1])
      /\ buffer' = IF error' # "NoError" THEN buffer
                   ELSE SubSeq(buffer, fields[next][1] + 1, Len(buffer))
      /\ UNCHANGED <<phase, fields, at, packet, damaged, checksum>> /\ got' = got
  BY DEF SkipField, RemovePrefix
<1>2. /\ got \subseteq (1 .. Len(fields)) \X Nat
      /\ ~damaged /\ NoCarryLost => \A g \in got : g[2] = fields[g[1]][2]
  BY <1>1 DEF Inv, ParserInv, ReadInv
<1> QED BY <1>1, <1>2, ConsumeKeeps

\* u8(), u16() and u32() keep Inv.
LEMMA ReadFieldInv ==
    ASSUME Inv, ReadField
    PROVE  Inv'
<1>1. /\ phase = "parse" /\ next <= Len(fields) /\ next' = next + 1
      /\ error' = CheckSize(fields[next][1])
      /\ got' = got \cup {<<next, ret'>>}
      /\ UNCHANGED <<phase, fields, at, packet, damaged, checksum>>
      /\ IF error' # "NoError"
         THEN ret' = 0 /\ buffer' = buffer
         ELSE /\ ret' = BigEndian(SubSeq(buffer, 1, fields[next][1]))
              /\ buffer' = SubSeq(buffer, fields[next][1] + 1, Len(buffer))
  BY DEF ReadField, Parse
<1>2. /\ got \subseteq (1 .. Len(fields)) \X Nat
      /\ ~damaged /\ NoCarryLost => \A g \in got : g[2] = fields[g[1]][2]
  BY <1>1 DEF Inv, ParserInv, ReadInv
<1>3. PICK f \in Seq(Fields), p \in Seq(Bytes) : f = fields /\ p = packet
  BY DEF Inv, FieldsInv, PacketInv
<1>4. PICK i \in 1 .. Len(f) : i = next
  <2>1. next \in 1 .. Len(fields) + 1
    BY DEF Inv, ParserInv
  <2> QED BY <1>1, <1>3, <2>1
<1>5. PICK len \in Lengths : len = f[i][1]
  BY FieldTypes
<1>6. len \in Nat /\ len \in 0 .. 4
  BY DEF Lengths
<1>7. PICK j \in 0 .. Len(p) : buffer = SubSeq(p, j + 1, Len(p))
  BY <1>3 DEF Inv, ParserInv
<1>8. buffer \in Seq(Bytes) /\ Len(buffer) \in Nat
  BY <1>7, EndOfEnd
<1>9. error' = "NoError" => /\ error = "NoError" /\ len \in 0 .. Len(buffer)
                            /\ ret' = BigEndian(SubSeq(buffer, 1, len))
  <2>1. len = fields[next][1]
    BY <1>3, <1>4, <1>5
  <2> QED BY <1>1, <1>6, <1>8, <2>1 DEF CheckSize
<1>10. ret' \in Nat
  <2>1. CASE error' # "NoError"
    BY <1>1, <2>1
  <2>2. CASE error' = "NoError"
    <3>1. len <= Len(buffer) /\ 0 <= len
      BY <1>6, <1>8, <1>9, <2>2
    <3>2. PICK s \in Seq(Bytes) : s = SubSeq(buffer, 1, len) /\ Len(s) = len
      <4>1. 0 + 1 = 1 /\ len - 0 = len /\ 0 \in Nat
        BY <1>6
      <4>2. PICK b \in Seq(Bytes) : b = buffer /\ len <= Len(b)
        BY <1>8, <3>1
      <4>3. SubSeq(b, 0 + 1, len) \in Seq(Bytes) /\ Len(SubSeq(b, 0 + 1, len)) = len - 0
        BY <1>6, <3>1, <4>1, <4>2, SubSeqFacts
      <4> QED BY <4>1, <4>2, <4>3
    <3> QED BY <1>6, <1>9, <2>2, <3>2, BigEndianType
  <2> QED BY <2>1, <2>2
<1>11. ASSUME ~damaged, NoCarryLost, error' = "NoError" PROVE ret' = f[i][2]
  <2>1. Layout(f, p) /\ buffer = SubSeq(p, Off(f, i) + 1, Len(p)) /\ Off(f, i) <= Len(p)
    BY <1>1, <1>3, <1>4, <1>9, <1>11 DEF Inv, PacketInv, ReadInv
  <2>2. f[i][2] < Place[f[i][1]]
    BY <1>3 DEF Inv, FieldsInv
  <2>3. PICK o \in Nat : o = Off(f, i)
    <3>1. i \in 1 .. Len(f) + 1
      OBVIOUS
    <3> QED BY <3>1, OffFacts
  <2>4. o \in 0 .. Len(p)
    BY <2>1, <2>3
  <2>5. SubSeq(buffer, 1, len) = SubSeq(p, o + 1, o + len)
    <3>1. PICK b : b = buffer
      OBVIOUS
    <3>2. b = SubSeq(p, o + 1, Len(p)) /\ len \in 0 .. Len(b)
      BY <1>9, <1>11, <2>1, <2>3, <3>1
    <3>3. \A n \in 0 .. Len(b) : SubSeq(b, 1, n) = SubSeq(p, o + 1, o + n)
      BY <2>4, <3>2, EndOfEnd
    <3> QED BY <3>1, <3>2, <3>3, Zenon
  <2>6. BigEndian(SubSeq(p, o + 1, o + len)) = f[i][2]
    BY <1>5, <2>1, <2>2, <2>3, FieldReadsBack
  <2> QED BY <1>9, <1>11, <2>5, <2>6
<1>12. ~damaged /\ NoCarryLost => error' = "NoError"
  <2>1. SUFFICES ASSUME ~damaged, NoCarryLost PROVE error' = "NoError"
    OBVIOUS
  <2>2. /\ error = "NoError" /\ Layout(f, p)
        /\ buffer = SubSeq(p, Off(f, i) + 1, Len(p)) /\ Off(f, i) <= Len(p)
    BY <1>1, <1>3, <1>4, <2>1 DEF Inv, PacketInv, ReadInv
  <2>3. PICK o \in Nat : o = Off(f, i)
    <3>1. i \in 1 .. Len(f) + 1
      OBVIOUS
    <3> QED BY <3>1, OffFacts
  <2>4. o + len <= Len(p)
    <3>1. i + 1 \in 1 .. Len(f) + 1 /\ Len(f) + 1 \in 1 .. Len(f) + 1 /\ i + 1 <= Len(f) + 1
      OBVIOUS
    <3>2. Off(f, i + 1) <= Off(f, Len(f) + 1) /\ Off(f, i + 1) = o + len
      BY <1>5, <2>3, <3>1, OffMonotone, OffFacts
    <3> QED BY <2>2, <3>2 DEF Layout
  <2>5. Len(buffer) = Len(p) - o /\ Len(p) \in Nat
    <3>1. o \in 0 .. Len(p) /\ Len(p) \in Nat
      BY <2>2, <2>3
    <3> QED BY <2>2, <2>3, <3>1, EndOfEnd
  <2>6. ~(len > Len(buffer)) /\ len = fields[next][1]
    BY <1>3, <1>4, <1>5, <1>6, <2>4, <2>5
  <2> QED BY <1>1, <2>2, <2>6 DEF CheckSize
<1>13. got' \subseteq (1 .. Len(fields)) \X Nat
  BY <1>1, <1>2, <1>3, <1>4, <1>10
<1>14. ~damaged /\ NoCarryLost => \A g \in got' : g[2] = fields[g[1]][2]
  BY <1>1, <1>2, <1>3, <1>4, <1>11, <1>12
<1>15. buffer' = IF error' # "NoError" THEN buffer
                 ELSE SubSeq(buffer, fields[next][1] + 1, Len(buffer))
  BY <1>1
<1> QED BY <1>1, <1>13, <1>14, <1>15, ConsumeKeeps

\* Going on to the next packet keeps Inv.
LEMMA NextPacketInv ==
    ASSUME Inv, NextPacket
    PROVE  Inv'
<1>1. /\ phase' = "build" /\ fields' = <<>> /\ at' = 0 /\ packet' = <<>>
      /\ damaged' = FALSE /\ next' = 1 /\ got' = {}
      /\ buffer' = <<>> /\ error' = "NoError" /\ InitialSum(0)
  BY DEF NextPacket, ParserOf
<1>2. Len(<<>>) = 0 /\ 0 \in 0 .. SumMod - 1
  BY SumModType
<1>3. FieldsInv'
  BY <1>1, <1>2, EmptyLayout DEF FieldsInv
<1>4. PacketInv'
  BY <1>1, EmptyLayout DEF PacketInv
<1>5. AddedInv'
  <2>1. packet' \in Seq(Bytes)
    BY <1>1, EmptyLayout
  <2> QED BY <1>1, <1>2, <2>1, FreshSum
<1>6. ParserInv'
  <2>1. \E j \in 0 .. Len(packet') : buffer' = SubSeq(packet', j + 1, Len(packet'))
    BY <1>1, EmptyLayout, TrivialEnds
  <2>2. 1 \in 1 .. Len(fields') + 1
    BY <1>1, <1>2
  <2> QED BY <1>1, <2>1, <2>2 DEF ParserInv, ParseResults
<1>7. ReadInv'
  BY <1>1 DEF ReadInv
<1> QED BY <1>3, <1>4, <1>5, <1>6, <1>7 DEF Inv

-----------------------------------------------------------------------------
(* The theorems *)

\* Inv is inductive.
LEMMA NextInv == Inv /\ [Next]_vars => Inv'
<1> SUFFICES ASSUME Inv, [Next]_vars PROVE Inv'
  OBVIOUS
<1>1. ASSUME NEW len \in Lengths, NEW val \in Values, WriteField(len, val) PROVE Inv'
  BY <1>1, WriteFieldInv
<1>2. CASE WriteZeroChecksum
  BY <1>2, WriteZeroChecksumInv
<1>3. ASSUME NEW initial_sum \in InitialSums, StartSum(initial_sum) PROVE Inv'
  BY <1>3, StartSumInv
<1>4. ASSUME NEW n \in 1 .. Len(packet), AddChunk(n) PROVE Inv'
  BY <1>4, AddChunkInv
<1>5. CASE Seal
  BY <1>5, SealInv
<1>6. CASE Deliver
  BY <1>6, DeliverInv
<1>7. ASSUME NEW i \in DOMAIN packet, NEW byte \in Bytes, Corrupt(i, byte) PROVE Inv'
  BY <1>7, CorruptInv
<1>8. ASSUME NEW n \in 0 .. Len(packet) - 1, Truncate(n) PROVE Inv'
  BY <1>8, TruncateInv
<1>9. CASE Verify
  BY <1>9, VerifyInv
<1>10. CASE ReadField
  BY <1>10, ReadFieldInv
<1>11. CASE SkipField
  BY <1>11, SkipFieldInv
<1>12. CASE NextPacket
  BY <1>12, NextPacketInv
<1>13. CASE UNCHANGED vars
  <2>1. UNCHANGED <<phase, fields, at, packet, damaged, next, got, buffer, error, ret>>
        /\ UNCHANGED checksum
    BY <1>13 DEF vars, parser
  <2>2. initial' = initial
    BY <2>1 DEF checksum
  <2>3. FieldsInv' /\ ParserInv'
    BY <2>1 DEF Inv, FieldsInv, ParserInv
  <2>4. NoCarryLost' = NoCarryLost
    BY <2>1, <2>2 DEF NoCarryLost
  <2>5. PacketInv' /\ ReadInv'
    BY <2>1, <2>2, <2>4 DEF Inv, PacketInv, ReadInv
  <2>6. SumInv' /\ total' = total /\ count' = count
    BY <2>1, SumInvSame DEF Inv, AddedInv, checksum
  <2>7. AddedInv'
    BY <2>1, <2>2, <2>6 DEF Inv, AddedInv
  <2> QED BY <2>3, <2>5, <2>7 DEF Inv
<1> QED BY <1>1, <1>2, <1>3, <1>4, <1>5, <1>6, <1>7, <1>8, <1>9, <1>10, <1>11, <1>12, <1>13
        DEF Next

\* Inv is an invariant.
LEMMA Invariance == Spec => []Inv
<1>1. Init => Inv
  BY InitInv
<1>2. Inv /\ [Next]_vars => Inv'
  BY NextInv
<1> QED BY <1>1, <1>2, PTL DEF Spec

\* However the data is cut into chunks, of odd or even length, value() is the
\* complement of the ones' complement sum of the whole: for any width of a
\* byte, any data and any initial sum, as long as no carry is lost, and none
\* is in a packet whose length fits 16 bits.
THEOREM ChecksumIsExact == Spec => []ChecksumExact
<1>1. Inv => ChecksumExact
  BY SumInvExact DEF Inv, AddedInv
<1> QED BY <1>1, Invariance, PTL

\* A packet that was not touched passes the check, and what NetParser reads is
\* what NetUnparser wrote.
THEOREM RoundTrips == Spec => []RoundTrip
<1>1. Inv => RoundTrip
  <2>1. SUFFICES ASSUME Inv, Finished, ~damaged, NoCarryLost
                 PROVE  /\ error = "NoError" /\ buffer = <<>>
                        /\ \A g \in got : g[2] = fields[g[1]][2]
    BY DEF RoundTrip
  <2>2. /\ error = "NoError" /\ (\A g \in got : g[2] = fields[g[1]][2])
        /\ buffer = SubSeq(packet, Off(fields, next) + 1, Len(packet))
    BY <2>1 DEF Finished, Inv, ReadInv
  <2>3. next = Len(fields) + 1
    <3>1. next \in 1 .. Len(fields) + 1 /\ next > Len(fields) /\ fields \in Seq(Fields)
      BY <2>1 DEF Finished, Inv, ParserInv, FieldsInv
    <3> QED BY <3>1
  <2>4. Off(fields, next) = Len(packet) /\ packet \in Seq(Bytes)
    BY <2>1, <2>3 DEF Inv, PacketInv, Layout
  <2>5. SubSeq(packet, Len(packet) + 1, Len(packet)) = <<>>
    BY <2>4
  <2> QED BY <2>2, <2>4, <2>5
<1> QED BY <1>1, Invariance, PTL

\* A receiver that looks at error() once, at the end, is told of every packet
\* of which one byte changed or the tail is missing.
THEOREM DamageIsCaught == Spec => []DamageCaught
<1>1. Inv => DamageCaught
  <2>1. SUFFICES ASSUME Inv, Finished, damaged, NoCarryLost, error = "NoError"
                 PROVE  FALSE
    BY DEF DamageCaught
  <2>2. Len(packet) < Off(fields, Len(fields) + 1) /\ Off(fields, next) <= Len(packet)
    BY <2>1 DEF Finished, Inv, ReadInv
  <2>3. next = Len(fields) + 1 /\ fields \in Seq(Fields) /\ packet \in Seq(Bytes)
    <3>1. next \in 1 .. Len(fields) + 1 /\ next > Len(fields)
          /\ fields \in Seq(Fields) /\ packet \in Seq(Bytes)
      BY <2>1 DEF Finished, Inv, ParserInv, FieldsInv, PacketInv
    <3> QED BY <3>1
  <2>4. Off(fields, Len(fields) + 1) \in Nat /\ Len(packet) \in Nat
    <3>1. Len(fields) + 1 \in 1 .. Len(fields) + 1
      BY <2>3
    <3> QED BY <2>3, <3>1, OffFacts
  <2> QED BY <2>2, <2>3, <2>4
<1> QED BY <1>1, Invariance, PTL

\* What was read as field g[1] is 0 or the bytes p has at that field's place.
InPlace(f, p, g) ==
    g[2] # 0 =>
        /\ Off(f, g[1]) + f[g[1]][1] <= Len(p)
        /\ g[2] = BigEndian(SubSeq(p, Off(f, g[1]) + 1, Off(f, g[1]) + f[g[1]][1]))

\* ReadInPlace says it of everything that was read.
LEMMA InPlaceMeaning == ReadInPlace <=> \A g \in got : InPlace(fields, packet, g)
<1> QED BY DEF ReadInPlace, InPlace, Offset, Off

\* u8(), u16() and u32() read in place: as long as there is no error the parser
\* is where the field begins, and with an error nothing is read.
LEMMA ReadFieldInPlace ==
    ASSUME Inv, ReadField
    PROVE  InPlace(fields, packet, <<next, ret'>>)
<1>1. /\ phase = "parse" /\ next <= Len(fields)
      /\ error' = CheckSize(fields[next][1])
      /\ IF error' # "NoError" THEN ret' = 0
         ELSE ret' = BigEndian(SubSeq(buffer, 1, fields[next][1]))
  BY DEF ReadField, Parse
<1>2. PICK f \in Seq(Fields), p \in Seq(Bytes) : f = fields /\ p = packet
  BY DEF Inv, FieldsInv, PacketInv
<1>3. PICK i \in 1 .. Len(f) : i = next
  <2>1. next \in 1 .. Len(fields) + 1
    BY DEF Inv, ParserInv
  <2> QED BY <1>1, <1>2, <2>1
<1>4. PICK len \in Nat : len = f[i][1]
  BY FieldTypes
<1>5. len = fields[next][1]
  BY <1>2, <1>3, <1>4
<1>6. CASE error' # "NoError"
  BY <1>1, <1>6 DEF InPlace
<1>7. CASE error' = "NoError"
  <2>1. error = "NoError" /\ ~(len > Len(buffer))
    BY <1>1, <1>5, <1>7 DEF CheckSize
  <2>2. buffer = SubSeq(p, Off(f, i) + 1, Len(p)) /\ Off(f, i) <= Len(p)
    BY <1>1, <1>2, <1>3, <2>1 DEF Inv, ReadInv
  <2>3. PICK o \in Nat : o = Off(f, i)
    <3>1. i \in 1 .. Len(f) + 1
      OBVIOUS
    <3> QED BY <3>1, OffFacts
  <2>4. PICK b : b = buffer /\ b = SubSeq(p, o + 1, Len(p)) /\ o \in 0 .. Len(p)
    <3>1. o \in 0 .. Len(p)
      BY <2>2, <2>3
    <3>2. buffer = SubSeq(p, o + 1, Len(p))
      BY <2>2, <2>3, Zenon
    <3> QED BY <3>1, <3>2, Zenon
  <2>5. /\ Len(b) = Len(p) - o
        /\ \A n \in 0 .. Len(b) : SubSeq(b, 1, n) = SubSeq(p, o + 1, o + n)
    BY <2>4, EndOfEnd
  <2>6. len \in 0 .. Len(b) /\ o + len <= Len(p)
    <3>1. Len(p) \in Nat /\ ~(len > Len(b))
      BY <2>1, <2>4
    <3> QED BY <2>3, <2>4, <2>5, <3>1
  <2>7. SubSeq(buffer, 1, len) = SubSeq(p, o + 1, o + len)
    BY <2>4, <2>5, <2>6, Zenon
  <2>8. ret' = BigEndian(SubSeq(p, o + 1, o + len))
    BY <1>1, <1>5, <1>7, <2>7
  <2> QED BY <1>2, <1>3, <1>5, <2>3, <2>6, <2>8 DEF InPlace
<1> QED BY <1>6, <1>7

\* Whatever happened to the packet and whichever earlier call failed, a read
\* returns 0 or the bytes at the place of the field it was meant for.
THEOREM ReadsInPlace == Spec => []ReadInPlace
<1>1. Init => ReadInPlace
  BY DEF Init, ReadInPlace
<1>2. Inv /\ Inv' /\ ReadInPlace /\ [Next]_vars => ReadInPlace'
  <2> SUFFICES ASSUME Inv, Inv', ReadInPlace, [Next]_vars
               PROVE  \A g \in got' : InPlace(fields', packet', g)
    BY DEF ReadInPlace, InPlace, Offset, Off
  <2>1. \A g \in got : InPlace(fields, packet, g)
    BY InPlaceMeaning
  <2>2. CASE ReadField
    <3>1. got' = got \cup {<<next, ret'>>} /\ fields' = fields /\ packet' = packet
      BY <2>2 DEF ReadField
    <3>2. InPlace(fields, packet, <<next, ret'>>)
      BY <2>2, ReadFieldInPlace
    <3> QED BY <2>1, <3>1, <3>2, Zenon
  <2>3. CASE SkipField \/ UNCHANGED vars
    <3>1. got' = got /\ fields' = fields /\ packet' = packet
      BY <2>3 DEF SkipField, vars
    <3> QED BY <2>1, <3>1, Zenon
  <2>4. CASE phase' # "parse"
    BY <2>4 DEF Inv, ParserInv
  <2>5. CASE Verify
    <3>1. got' = {}
      BY <2>5 DEF Verify, Inv, ParserInv
    <3> QED BY <3>1
  <2>6. CASE \/ WriteZeroChecksum \/ Seal \/ Deliver \/ NextPacket
             \/ \E len \in Lengths, val \in Values : WriteField(len, val)
             \/ \E initial_sum \in InitialSums : StartSum(initial_sum)
    <3>1. phase' # "parse"
      BY <2>6 DEF WriteField, Append2, WriteZeroChecksum, StartSum, Seal, Deliver,
                  Arrives, NextPacket
    <3> QED BY <2>4, <3>1
  <2>7. CASE \/ \E n \in 1 .. Len(packet) : AddChunk(n)
             \/ \E i \in DOMAIN packet, byte \in Bytes : Corrupt(i, byte)
             \/ \E n \in 0 .. Len(packet) - 1 : Truncate(n)
    <3>1. phase' # "parse"
      BY <2>7 DEF AddChunk, Corrupt, Truncate, Arrives
    <3> QED BY <2>4, <3>1
  <2> QED BY <2>2, <2>3, <2>5, <2>6, <2>7 DEF Next
<1> QED BY <1>1, <1>2, Invariance, PTL DEF Spec
=============================================================================
