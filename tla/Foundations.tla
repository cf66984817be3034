---------------------------- MODULE Foundations -----------------------------
(* What several proofs rest on: remainders, when the modulus is not a number *)
(* but any constant; induction; and what the loops over a sequence compute.  *)
EXTENDS Sums, SequencesExt, SequenceTheorems, WellFoundedInduction, TLAPS

(* Remainders *)

\* A multiple of a positive m lies outside -m+1 .. m-1 unless it is 0.
LEMMA SmallMultiple ==
    ASSUME NEW m \in Nat \ {0}, NEW k \in Int, k * m < m, k * m > -m
    PROVE  k = 0
<1>1. CASE k >= 1
  <2>1. k * m = (k - 1) * m + m  BY <1>1
  <2>2. (k - 1) * m >= 0  BY <1>1
  <2> QED BY <2>1, <2>2
<1>2. CASE k <= -1
  <2>1. k * m = (k + 1) * m - m  BY <1>2
  <2>2. (k + 1) * m <= 0  BY <1>2
  <2> QED BY <2>1, <2>2
<1> QED BY <1>1, <1>2

\* Quotient and remainder are unique: adding a multiple of m changes nothing.
LEMMA ModMultiple ==
    ASSUME NEW m \in Nat \ {0}, NEW q \in Int, NEW z \in Int
    PROVE  (q * m + z) % m = z % m
<1> DEFINE x == q * m + z
           c == x \div m
           d == z \div m
<1>1. x \in Int /\ c \in Int /\ d \in Int  OBVIOUS
<1>2. x = c * m + (x % m) /\ x % m \in 0 .. m - 1
  <2> HIDE DEF x
  <2> QED BY <1>1
<1>3. z = d * m + (z % m) /\ z % m \in 0 .. m - 1  OBVIOUS
<1>4. (q + d - c) * m = (x % m) - (z % m)
  <2>1. q * m + (d * m + (z % m)) = c * m + (x % m)  BY <1>2, <1>3
  <2>2. (q + d - c) * m = q * m + d * m - c * m  BY <1>1
  <2> HIDE DEF x, c, d
  <2> QED BY <1>1, <1>2, <1>3, <2>1, <2>2
<1>5. q + d - c = 0
  <2>1. (q + d - c) * m < m /\ (q + d - c) * m > -m  BY <1>2, <1>3, <1>4
  <2> HIDE DEF x, c, d
  <2> QED BY <1>1, <2>1, SmallMultiple
<1> QED BY <1>2, <1>3, <1>4, <1>5

\* A remainder may be taken before or after an addition.
LEMMA ModAdd ==
    ASSUME NEW m \in Nat \ {0}, NEW x \in Int, NEW n \in Int
    PROVE  ((x % m) + n) % m = (x + n) % m
<1> DEFINE q == x \div m
           z == (x % m) + n
<1>1. q \in Int /\ z \in Int /\ x + n = q * m + z  OBVIOUS
<1> HIDE DEF q, z
<1>2. (q * m + z) % m = z % m  BY <1>1, ModMultiple
<1> QED BY <1>1, <1>2 DEF z

\* What quotient and remainder are.
LEMMA DivUnique ==
    ASSUME NEW m \in Nat \ {0}, NEW q \in Int, NEW z \in 0 .. m - 1
    PROVE  (q * m + z) \div m = q /\ (q * m + z) % m = z
<1>1. PICK x \in Int : x = q * m + z
  OBVIOUS
<1>2. x % m = z
  <2>1. (q * m + z) % m = z % m
    <3>1. z \in Int
      OBVIOUS
    <3> QED BY <3>1, ModMultiple
  <2>2. z % m = z
    OBVIOUS
  <2> QED BY <1>1, <2>1, <2>2
<1>3. PICK c \in Int : c = x \div m
  OBVIOUS
<1>4. x = c * m + (x % m)
  BY <1>3
<1>5. (c - q) * m = 0
  <2>1. c * m + z = q * m + z
    BY <1>1, <1>2, <1>4
  <2>2. (c - q) * m = c * m - q * m
    OBVIOUS
  <2>3. PICK a \in Int, b \in Int : a = c * m /\ b = q * m
    OBVIOUS
  <2> QED BY <2>1, <2>2, <2>3
<1>6. c - q = 0
  <2>1. c - q \in Int /\ (c - q) * m < m /\ (c - q) * m > -m
    BY <1>5
  <2> QED BY <2>1, SmallMultiple
<1>7. c = q
  BY <1>6
<1> QED BY <1>1, <1>2, <1>3, <1>7

\* Dividing twice is dividing by the product.
LEMMA DivDiv ==
    ASSUME NEW v \in Nat, NEW p \in Nat \ {0}, NEW b \in Nat \ {0}
    PROVE  (v \div p) \div b = v \div (p * b)
<1>1. PICK q \in Int, r \in 0 .. p - 1 : q = v \div p /\ v = q * p + r
  OBVIOUS
<1>2. PICK c \in Int, d \in 0 .. b - 1 : c = q \div b /\ q = c * b + d
  OBVIOUS
<1>3. PICK m \in Nat \ {0} : m = p * b
  OBVIOUS
<1>4. PICK z \in Int : z = d * p + r
  OBVIOUS
<1>5. z \in 0 .. m - 1
  <2>1. d * p >= 0 /\ d * p \in Int
    OBVIOUS
  <2>2. ((b - 1) - d) * p >= 0
    OBVIOUS
  <2>3. ((b - 1) - d) * p = p * b - p - d * p
    OBVIOUS
  <2>4. PICK x \in Int : x = d * p
    OBVIOUS
  <2>5. x >= 0 /\ m - p - x >= 0 /\ z = x + r
    BY <1>3, <1>4, <2>1, <2>2, <2>3, <2>4
  <2> QED BY <2>5
<1>6. v = c * m + z
  <2>1. (c * b + d) * p = c * (p * b) + d * p
    OBVIOUS
  <2>2. v = (c * b + d) * p + r
    BY <1>1, <1>2
  <2>3. PICK x \in Int, y \in Int : x = c * (p * b) /\ y = d * p
    OBVIOUS
  <2>4. v = (x + y) + r
    BY <2>1, <2>2, <2>3
  <2>5. v = x + (y + r)
    BY <2>4
  <2> QED BY <1>3, <1>4, <2>3, <2>5
<1>7. v \div m = c
  BY <1>5, <1>6, DivUnique
<1> QED BY <1>1, <1>2, <1>3, <1>7

-----------------------------------------------------------------------------
(* Induction *)

\* The order of the natural numbers, as a set of pairs.
Less == {ss \in Nat \X Nat : ss[1] < ss[2]}

\* The library's theorem, with its operator parameter expanded.
LEMMA LessWF == IsWellFoundedOn(Less, Nat)
<1>1. IsWellFoundedOn({ss \in Nat \X Nat : ss[1] < ss[2]}, Nat)
  BY NatLessThanWellFounded DEF OpToRel
<1> QED BY <1>1 DEF Less

\* A set of natural numbers that is not empty has a least element.
LEMMA LeastNatural ==
    ASSUME NEW T, T \subseteq Nat, T # {}
    PROVE  \E k \in T : \A j \in T : k <= j
<1>1. PICK k \in T : \A j \in T : ~(<<j, k>> \in Less)
  BY WFMin, LessWF
<1>2. \A j \in T : k <= j
  <2> TAKE j \in T
  <2>1. <<j, k>> \in Nat \X Nat /\ <<j, k>>[1] = j /\ <<j, k>>[2] = k
    OBVIOUS
  <2>2. ~(j < k)
    BY <1>1, <2>1 DEF Less
  <2> QED BY <2>1, <2>2
<1> QED BY <1>2

\* Induction over the natural numbers.  The property is a set, which the
\* provers can instantiate, where the library's theorem has an operator.
LEMMA SetInduction ==
    ASSUME NEW S, 0 \in S, \A n \in Nat : n \in S => n + 1 \in S
    PROVE  Nat \subseteq S
<1>1. SUFFICES ASSUME NEW x \in Nat, x \notin S PROVE FALSE
  OBVIOUS
<1> DEFINE T == Nat \ S
<1>2. x \in T /\ T \subseteq Nat
  BY <1>1
<1>3. PICK k \in T : \A j \in T : k <= j
  <2> HIDE DEF T
  <2> QED BY <1>2, LeastNatural
<1>4. k \in Nat /\ k \notin S
  BY <1>3
<1>5. k # 0
  BY <1>4
<1>6. k - 1 \in Nat /\ k - 1 \notin T
  BY <1>3, <1>4, <1>5
<1>7. k - 1 \in S
  BY <1>6
<1>8. (k - 1) + 1 \in S
  BY <1>6, <1>7
<1> QED BY <1>8, <1>4

\* A loop over 1 .. N computes something: from b, with step[i] in turn i.
LEMMA FiniteRecursion ==
    ASSUME NEW V, NEW b \in V, NEW N \in Nat, NEW step \in [1 .. N -> [V -> V]]
    PROVE  \E f \in [0 .. N -> V] :
              f[0] = b /\ \A i \in 1 .. N : f[i] = step[i][f[i - 1]]
<1> DEFINE Good(f, k) == f[0] = b /\ \A i \in 1 .. k : f[i] = step[i][f[i - 1]]
<1> DEFINE S == {k \in Nat : k <= N => \E f \in [0 .. k -> V] : Good(f, k)}
<1>1. 0 \in S
  <2>1. [i \in 0 .. 0 |-> b] \in [0 .. 0 -> V] /\ Good([i \in 0 .. 0 |-> b], 0)
    OBVIOUS
  <2> QED BY <2>1
<1>2. ASSUME NEW k \in Nat, k \in S PROVE k + 1 \in S
  <2>1. SUFFICES ASSUME k + 1 <= N
                 PROVE  \E g \in [0 .. k + 1 -> V] : Good(g, k + 1)
    OBVIOUS
  <2>2. PICK f \in [0 .. k -> V] : Good(f, k)
    BY <1>2, <2>1
  <2> DEFINE g == [i \in 0 .. k + 1 |-> IF i <= k THEN f[i] ELSE step[k + 1][f[k]]]
  <2>3. f[k] \in V /\ step[k + 1] \in [V -> V]
    BY <2>1, <2>2
  <2>4. g \in [0 .. k + 1 -> V]
    BY <2>2, <2>3
  <2>5. g[0] = b
    BY <2>2
  <2>6. ASSUME NEW i \in 1 .. k + 1 PROVE g[i] = step[i][g[i - 1]]
    <3>1. CASE i <= k
      BY <2>2, <3>1
    <3>2. CASE i = k + 1
      BY <3>2
    <3> QED BY <3>1, <3>2
  <2> QED BY <2>4, <2>5, <2>6
<1>3. N \in S
  <2> HIDE DEF S
  <2> QED BY <1>1, <1>2, SetInduction
<1> QED BY <1>3

\* f runs through the values of a loop over 1 .. N that starts with b.
Iterates(V, b, N, step, f) ==
    /\ f \in [0 .. N -> V]
    /\ f[0] = b
    /\ \A i \in 1 .. N : f[i - 1] \in V /\ f[i] = step[i][f[i - 1]]

\* The same, in the form in which it is used.
LEMMA IterationExists ==
    ASSUME NEW V, NEW b \in V, NEW N \in Nat, NEW step \in [1 .. N -> [V -> V]]
    PROVE  \E f : Iterates(V, b, N, step, f)
<1>1. PICK f \in [0 .. N -> V] :
        f[0] = b /\ \A i \in 1 .. N : f[i] = step[i][f[i - 1]]
  BY FiniteRecursion
<1>2. \A i \in 1 .. N : f[i - 1] \in V
  BY <1>1
<1> QED BY <1>1, <1>2 DEF Iterates

\* Induction up to a bound.
LEMMA IntervalInduction ==
    ASSUME NEW S, NEW N \in Nat, 0 \in S, \A i \in 1 .. N : i - 1 \in S => i \in S
    PROVE  0 .. N \subseteq S
<1> DEFINE T == {i \in Nat : i <= N => i \in S}
<1>1. 0 \in T
  OBVIOUS
<1>2. ASSUME NEW i \in Nat, i \in T PROVE i + 1 \in T
  <2>1. SUFFICES ASSUME i + 1 <= N PROVE i + 1 \in S
    OBVIOUS
  <2>2. i \in S
    BY <1>2, <2>1
  <2>3. i + 1 \in 1 .. N /\ (i + 1) - 1 = i
    BY <2>1
  <2> QED BY <2>2, <2>3
<1>3. Nat \subseteq T
  <2> HIDE DEF T
  <2> QED BY <1>1, <1>2, SetInduction
<1> QED BY <1>3

\* The values of a loop over a sequence have the loop's type.
LEMMA LoopType ==
    ASSUME NEW V, NEW N \in Nat, NEW f, f[0] \in V,
           \A i \in 1 .. N : f[i - 1] \in V => f[i] \in V
    PROVE  \A i \in 0 .. N : f[i] \in V
<1> DEFINE S == {i \in 0 .. N : f[i] \in V}
<1>1. 0 \in S
  OBVIOUS
<1>2. ASSUME NEW i \in 1 .. N, i - 1 \in S PROVE i \in S
  BY <1>2
<1>3. 0 .. N \subseteq S
  <2> HIDE DEF S
  <2> QED BY <1>1, <1>2, IntervalInduction
<1> QED BY <1>3

-----------------------------------------------------------------------------
(* Sequences *)

\* A sequence is the concatenation of its two parts.
LEMMA ConcatUnique ==
    ASSUME NEW S, NEW u \in Seq(S), NEW v \in Seq(S), NEW w \in Seq(S),
           Len(w) = Len(u) + Len(v),
           \A i \in 1 .. Len(u) : w[i] = u[i],
           \A i \in 1 .. Len(v) : w[Len(u) + i] = v[i]
    PROVE  w = u \o v
<1>1. u \o v \in Seq(S) /\ Len(u \o v) = Len(u) + Len(v)
  BY ConcatProperties
<1>2. \A i \in 1 .. Len(w) : w[i] = (u \o v)[i]
  <2> TAKE i \in 1 .. Len(w)
  <2>0. Len(u) \in Nat /\ Len(v) \in Nat /\ i \in Nat
    OBVIOUS
  <2>1. (u \o v)[i] = IF i <= Len(u) THEN u[i] ELSE v[i - Len(u)]
    BY ConcatProperties
  <2>2. CASE i <= Len(u)
    BY <2>0, <2>1, <2>2
  <2>3. CASE ~(i <= Len(u))
    <3>1. i - Len(u) \in 1 .. Len(v) /\ Len(u) + (i - Len(u)) = i
      BY <2>0, <2>3
    <3>2. w[Len(u) + (i - Len(u))] = v[i - Len(u)]
      BY <3>1
    <3> QED BY <2>1, <2>3, <3>1, <3>2
  <2> QED BY <2>2, <2>3
<1> QED BY <1>1, <1>2, SeqEqual

-----------------------------------------------------------------------------
(* Total() *)

\* Total() is what its loop says.
LEMMA TotalLoop ==
    ASSUME NEW s \in Seq(Nat)
    PROVE  \E f : /\ f[0] = 0
                  /\ \A i \in 1 .. Len(s) : f[i] = f[i - 1] + s[i]
                  /\ \A i \in 0 .. Len(s) : f[i] \in Nat
                  /\ Total(s) = f[Len(s)]
<1> DEFINE F(g) == [i \in 0 .. Len(s) |-> IF i = 0 THEN 0 ELSE g[i - 1] + s[i]]
           h == CHOOSE g : g = F(g)
<1>0. Len(s) \in Nat /\ \A i \in 1 .. Len(s) : s[i] \in Nat
  OBVIOUS
<1>1. \E g : g = F(g)
  <2>1. PICK step : step = [i \in 1 .. Len(s) |-> [v \in Nat |-> v + s[i]]]
    OBVIOUS
  <2>2. step \in [1 .. Len(s) -> [Nat -> Nat]]
    <3>1. \A i \in 1 .. Len(s) : [v \in Nat |-> v + s[i]] \in [Nat -> Nat]
      <4> TAKE i \in 1 .. Len(s)
      <4>1. s[i] \in Nat
        BY <1>0
      <4> QED BY <4>1
    <3> QED BY <2>1, <3>1
  <2>3. PICK f : Iterates(Nat, 0, Len(s), step, f)
    BY <1>0, <2>2, IterationExists
  <2>4. \A i \in 1 .. Len(s) : f[i] = f[i - 1] + s[i]
    <3> TAKE i \in 1 .. Len(s)
    <3>1. f[i] = step[i][f[i - 1]] /\ f[i - 1] \in Nat
      BY <2>3 DEF Iterates
    <3> QED BY <2>1, <3>1
  <2>5. f = F(f)
    BY <1>0, <2>3, <2>4 DEF Iterates
  <2> QED BY <2>5
<1>2. h = F(h)
  <2> HIDE DEF F
  <2> QED BY <1>1, Zenon
<1>3. Total(s) = h[Len(s)]
  BY Zenon DEF Total
<1> HIDE DEF h
<1>4. h[0] = 0 /\ \A i \in 1 .. Len(s) : h[i] = h[i - 1] + s[i]
  BY <1>0, <1>2
<1>5. \A i \in 0 .. Len(s) : h[i] \in Nat
  <2>1. h[0] \in Nat
    BY <1>4
  <2>2. \A i \in 1 .. Len(s) : h[i - 1] \in Nat => h[i] \in Nat
    BY <1>0, <1>4
  <2> QED BY <1>0, <2>1, <2>2, LoopType
<1> QED BY <1>3, <1>4, <1>5

\* Total() of a sequence with one number more at the front.
LEMMA TotalCons ==
    ASSUME NEW x \in Nat, NEW s \in Seq(Nat)
    PROVE  Total(<<x>> \o s) = x + Total(s)
<1> DEFINE t == <<x>> \o s
<1>1. t \in Seq(Nat) /\ Len(t) = Len(s) + 1 /\ Len(s) \in Nat
  OBVIOUS
<1>2. t[1] = x /\ \A i \in 1 .. Len(s) : t[i + 1] = s[i] /\ s[i] \in Nat
  OBVIOUS
<1> HIDE DEF t
<1>3. PICK f : /\ f[0] = 0
               /\ \A i \in 1 .. Len(s) : f[i] = f[i - 1] + s[i]
               /\ \A i \in 0 .. Len(s) : f[i] \in Nat
               /\ Total(s) = f[Len(s)]
  BY TotalLoop
<1>4. PICK g : /\ g[0] = 0
               /\ \A i \in 1 .. Len(t) : g[i] = g[i - 1] + t[i]
               /\ \A i \in 0 .. Len(t) : g[i] \in Nat
               /\ Total(t) = g[Len(t)]
  BY <1>1, TotalLoop
<1> DEFINE S == {i \in 0 .. Len(s) : g[i + 1] = x + f[i]}
<1>5. 0 \in S
  <2>1. 1 \in 1 .. Len(t) /\ 1 - 1 = 0
    BY <1>1
  <2>2. g[1] = g[0] + t[1]
    BY <1>4, <2>1
  <2> QED BY <1>1, <1>2, <1>3, <1>4, <2>2
<1>6. ASSUME NEW i \in 1 .. Len(s), i - 1 \in S PROVE i \in S
  <2>1. g[i + 1] = g[i] + t[i + 1]
    <3>1. i + 1 \in 1 .. Len(t) /\ (i + 1) - 1 = i
      BY <1>1
    <3> QED BY <1>4, <3>1
  <2>0. i \in 0 .. Len(s) /\ i - 1 \in 0 .. Len(s) /\ (i - 1) + 1 = i
    BY <1>1
  <2>2. g[i] = x + f[i - 1]
    <3>1. g[(i - 1) + 1] = x + f[i - 1]
      BY <1>6
    <3> QED BY <2>0, <3>1
  <2>3. f[i] = f[i - 1] + s[i] /\ t[i + 1] = s[i] /\ s[i] \in Nat /\ f[i - 1] \in Nat
    BY <1>2, <1>3, <2>0
  <2>4. g[i + 1] = x + f[i]
    BY <2>1, <2>2, <2>3
  <2> QED BY <2>0, <2>4
<1>7. Len(s) \in S
  <2>1. 0 .. Len(s) \subseteq S
    <3> HIDE DEF S
    <3> QED BY <1>1, <1>5, <1>6, IntervalInduction
  <2> HIDE DEF S
  <2> QED BY <1>1, <2>1
<1> QED BY <1>1, <1>3, <1>4, <1>7 DEF t

\* Nothing adds up to 0 (the loop of Total() is not entered).
LEMMA TotalEmpty == Total(<<>>) = 0
<1>1. <<>> \in Seq(Nat) /\ Len(<<>>) = 0
  OBVIOUS
<1> QED BY <1>1, TotalLoop

\* The total of natural numbers is a natural number.
LEMMA TotalType ==
    ASSUME NEW s \in Seq(Nat)
    PROVE  Total(s) \in Nat
<1>1. Len(s) \in 0 .. Len(s)
  OBVIOUS
<1> QED BY <1>1, TotalLoop

\* What is added to the end of a sequence is added to its total.
LEMMA TotalConcat ==
    ASSUME NEW s \in Seq(Nat), NEW t \in Seq(Nat)
    PROVE  Total(s \o t) = Total(s) + Total(t)
<1> DEFINE u == s \o t
           N == Len(s)
           K == Len(t)
<1>1. u \in Seq(Nat) /\ Len(u) = N + K /\ N \in Nat /\ K \in Nat
  BY ConcatProperties
<1>2. /\ \A i \in 1 .. N : u[i] = s[i] /\ s[i] \in Nat
      /\ \A i \in 1 .. K : u[N + i] = t[i] /\ t[i] \in Nat
  OBVIOUS
<1>3. PICK f : /\ f[0] = 0
               /\ \A i \in 1 .. N : f[i] = f[i - 1] + s[i]
               /\ \A i \in 0 .. N : f[i] \in Nat
               /\ Total(s) = f[N]
  BY TotalLoop
<1>4. PICK g : /\ g[0] = 0
               /\ \A i \in 1 .. K : g[i] = g[i - 1] + t[i]
               /\ \A i \in 0 .. K : g[i] \in Nat
               /\ Total(t) = g[K]
  BY TotalLoop
<1> HIDE DEF u
<1>5. PICK h : /\ h[0] = 0
               /\ \A i \in 1 .. Len(u) : h[i] = h[i - 1] + u[i]
               /\ \A i \in 0 .. Len(u) : h[i] \in Nat
               /\ Total(u) = h[Len(u)]
  BY <1>1, TotalLoop
<1> HIDE DEF N, K
<1> DEFINE S == {i \in 0 .. N : h[i] = f[i]}
<1>6. 0 \in S
  BY <1>1, <1>3, <1>5
<1>7. ASSUME NEW i \in 1 .. N, i - 1 \in S PROVE i \in S
  <2>1. i \in 1 .. Len(u) /\ i \in 0 .. N
    BY <1>1
  <2>2. h[i] = h[i - 1] + u[i] /\ f[i] = f[i - 1] + s[i] /\ u[i] = s[i] /\ h[i - 1] = f[i - 1]
    BY <1>2, <1>3, <1>5, <1>7, <2>1
  <2> QED BY <2>1, <2>2
<1>8. h[N] = f[N]
  <2>1. 0 .. N \subseteq S
    <3> HIDE DEF S
    <3> QED BY <1>1, <1>6, <1>7, IntervalInduction
  <2> QED BY <1>1, <2>1
<1> HIDE DEF S
<1> DEFINE R == {i \in 0 .. K : h[N + i] = f[N] + g[i]}
<1>9. 0 \in R
  <2>1. f[N] \in Nat /\ N + 0 = N
    BY <1>1, <1>3
  <2> QED BY <1>1, <1>4, <1>8, <2>1
<1>10. ASSUME NEW i \in 1 .. K, i - 1 \in R PROVE i \in R
  <2>0. /\ N + i \in 1 .. Len(u) /\ (N + i) - 1 = N + (i - 1)
        /\ i \in 0 .. K /\ i - 1 \in 0 .. K /\ N \in 0 .. N
    BY <1>1
  <2>1. h[N + i] = h[N + (i - 1)] + u[N + i]
    BY <1>5, <2>0
  <2>2. h[N + (i - 1)] = f[N] + g[i - 1]
    BY <1>10
  <2>3. g[i] = g[i - 1] + t[i] /\ u[N + i] = t[i] /\ t[i] \in Nat
        /\ g[i - 1] \in Nat /\ f[N] \in Nat
    BY <1>2, <1>3, <1>4, <2>0
  <2>4. h[N + i] = f[N] + g[i]
    BY <2>1, <2>2, <2>3
  <2> QED BY <2>0, <2>4
<1>11. K \in R
  <2>1. 0 .. K \subseteq R
    <3> HIDE DEF R
    <3> QED BY <1>1, <1>9, <1>10, IntervalInduction
  <2> HIDE DEF R
  <2> QED BY <1>1, <2>1
<1> QED BY <1>1, <1>3, <1>4, <1>5, <1>11 DEF u

\* A sequence of one number.
LEMMA TotalOne ==
    ASSUME NEW x \in Nat
    PROVE  Total(<<x>>) = x
<1>1. <<>> \in Seq(Nat) /\ <<x>> \in Seq(Nat) /\ <<x>> \o <<>> = <<x>>
  BY ConcatEmptySeq
<1>2. Total(<<x>> \o <<>>) = x + Total(<<>>)
  BY <1>1, TotalCons
<1> QED BY <1>1, <1>2, TotalEmpty

\* When one number changes, the total changes by as much.
LEMMA TotalChange ==
    ASSUME NEW s \in Seq(Nat), NEW t \in Seq(Nat), Len(s) = Len(t),
           NEW k \in 1 .. Len(s), \A j \in 1 .. Len(s) : j # k => s[j] = t[j]
    PROVE  Total(t) + s[k] = Total(s) + t[k]
<1> DEFINE N == Len(s)
<1>1. N \in Nat /\ \A i \in 1 .. N : s[i] \in Nat /\ t[i] \in Nat
  OBVIOUS
<1>3. PICK f : /\ f[0] = 0
               /\ \A i \in 1 .. N : f[i] = f[i - 1] + s[i]
               /\ \A i \in 0 .. N : f[i] \in Nat
               /\ Total(s) = f[N]
  BY TotalLoop
<1>4. PICK g : /\ g[0] = 0
               /\ \A i \in 1 .. N : g[i] = g[i - 1] + t[i]
               /\ \A i \in 0 .. N : g[i] \in Nat
               /\ Total(t) = g[N]
  BY TotalLoop
<1>5. k \in 1 .. N /\ \A j \in 1 .. N : j # k => s[j] = t[j]
  OBVIOUS
<1>k. s[k] \in Nat /\ t[k] \in Nat
  BY <1>1, <1>5
<1> HIDE DEF N
<1> DEFINE S == {i \in 0 .. N : IF i < k THEN g[i] = f[i] ELSE g[i] + s[k] = f[i] + t[k]}
<1>6. 0 \in S
  BY <1>1, <1>3, <1>4, <1>5
<1>7. ASSUME NEW i \in 1 .. N, i - 1 \in S PROVE i \in S
  <2>0. i \in 0 .. N /\ i - 1 \in 0 .. N
    BY <1>1
  <2>1. /\ f[i] = f[i - 1] + s[i] /\ g[i] = g[i - 1] + t[i]
        /\ f[i - 1] \in Nat /\ g[i - 1] \in Nat /\ s[i] \in Nat /\ t[i] \in Nat
    BY <1>1, <1>3, <1>4, <2>0
  <2>2. IF i - 1 < k THEN g[i - 1] = f[i - 1] ELSE g[i - 1] + s[k] = f[i - 1] + t[k]
    BY <1>7
  <2>3. CASE i < k
    <3>1. g[i - 1] = f[i - 1] /\ s[i] = t[i]
      BY <1>5, <2>2, <2>3
    <3> QED BY <2>0, <2>1, <2>3, <3>1
  <2>4. CASE i = k
    <3>1. g[i - 1] = f[i - 1]
      BY <2>2, <2>4
    <3> QED BY <2>0, <2>1, <2>4, <3>1
  <2>5. CASE i > k
    <3>1. g[i - 1] + s[k] = f[i - 1] + t[k] /\ s[i] = t[i]
      BY <1>5, <2>2, <2>5
    <3>2. (g[i - 1] + t[i]) + s[k] = (f[i - 1] + s[i]) + t[k]
      <4>1. PICK a \in Nat, b \in Nat, x \in Nat, y \in Nat, z \in Nat :
              a = g[i - 1] /\ b = f[i - 1] /\ x = s[i] /\ y = s[k] /\ z = t[k]
        BY <1>k, <2>1, Zenon
      <4>2. a + y = b + z
        BY <3>1, <4>1
      <4>4. a = (b + z) - y
        BY <4>2
      <4>3. (a + x) + y = (b + x) + z
        BY <4>4, SMTT(30)
      <4> QED BY <3>1, <4>1, <4>3
    <3>3. g[i] + s[k] = f[i] + t[k]
      BY <2>1, <3>2
    <3> QED BY <2>0, <2>5, <3>3
  <2> QED BY <1>5, <2>3, <2>4, <2>5
<1>8. N \in S
  <2>1. 0 .. N \subseteq S
    <3> HIDE DEF S
    <3> QED BY <1>1, <1>6, <1>7, IntervalInduction
  <2> HIDE DEF S
  <2> QED BY <1>1, <2>1
<1> QED BY <1>1, <1>3, <1>4, <1>5, <1>8

-----------------------------------------------------------------------------
(* FlattenSeq() *)

\* FlattenSeq() is what its loop says.
LEMMA FlattenLoop ==
    ASSUME NEW B, NEW ss \in Seq(Seq(B))
    PROVE  \E f : /\ f[0] = <<>>
                  /\ \A i \in 1 .. Len(ss) : f[i] = f[i - 1] \o ss[i]
                  /\ \A i \in 0 .. Len(ss) : f[i] \in Seq(B)
                  /\ FlattenSeq(ss) = f[Len(ss)]
<1> DEFINE F(g) == [i \in 1 .. Len(ss) |-> IF i = 1 THEN ss[i] ELSE g[i - 1] \o ss[i]]
           h == CHOOSE g : g = F(g)
<1>0. Len(ss) \in Nat /\ \A i \in 1 .. Len(ss) : ss[i] \in Seq(B)
  OBVIOUS
<1>a. \A s \in Seq(B), t \in Seq(B) : s \o t \in Seq(B)
  BY ConcatProperties
<1>b. <<>> \in Seq(B)
  OBVIOUS
<1>c. \A s \in Seq(B) : <<>> \o s = s
  BY ConcatEmptySeq
<1>1. \E g : g = F(g)
  <2>1. PICK step : step = [i \in 1 .. Len(ss) |-> [v \in Seq(B) |-> v \o ss[i]]]
    OBVIOUS
  <2>2. step \in [1 .. Len(ss) -> [Seq(B) -> Seq(B)]]
    BY <1>0, <1>a, <2>1
  <2>3. PICK f : Iterates(Seq(B), <<>>, Len(ss), step, f)
    BY <1>0, <1>b, <2>2, IterationExists
  <2>4. \A i \in 1 .. Len(ss) : f[i] = f[i - 1] \o ss[i]
    <3> TAKE i \in 1 .. Len(ss)
    <3>1. f[i] = step[i][f[i - 1]] /\ f[i - 1] \in Seq(B)
      BY <2>3 DEF Iterates
    <3> QED BY <2>1, <3>1
  <2> DEFINE g == [i \in 1 .. Len(ss) |-> f[i]]
  <2>5. \A i \in 1 .. Len(ss) : g[i] = IF i = 1 THEN ss[i] ELSE g[i - 1] \o ss[i]
    <3> TAKE i \in 1 .. Len(ss)
    <3>1. CASE i = 1
      <4>1. f[1] = f[0] \o ss[1] /\ f[0] = <<>> /\ ss[1] \in Seq(B)
        <5>1. i - 1 = 0 /\ f[0] = <<>>
          BY <2>3, <3>1 DEF Iterates
        <5>2. f[i] = f[i - 1] \o ss[i]
          BY <2>4
        <5> QED BY <1>0, <3>1, <5>1, <5>2
      <4> QED BY <1>c, <3>1, <4>1
    <3>2. CASE i # 1
      <4>1. i - 1 \in 1 .. Len(ss)
        BY <1>0, <3>2
      <4>2. f[i] = f[i - 1] \o ss[i]
        BY <2>4
      <4> QED BY <3>2, <4>1, <4>2
    <3> QED BY <3>1, <3>2
  <2>6. g = F(g)
    BY <2>5
  <2> QED BY <2>6
<1>2. h = F(h)
  <2> HIDE DEF F
  <2> QED BY <1>1, Zenon
<1>3. Len(ss) # 0 => FlattenSeq(ss) = h[Len(ss)]
  BY Zenon DEF FlattenSeq
<1>4. Len(ss) = 0 => FlattenSeq(ss) = <<>>
  BY DEF FlattenSeq
<1> HIDE DEF h
<1> DEFINE f == [i \in 0 .. Len(ss) |-> IF i = 0 THEN <<>> ELSE h[i]]
<1>5. f[0] = <<>>
  BY <1>0
<1>6. \A i \in 1 .. Len(ss) : f[i] = f[i - 1] \o ss[i]
  <2> TAKE i \in 1 .. Len(ss)
  <2>1. h[i] = IF i = 1 THEN ss[i] ELSE h[i - 1] \o ss[i]
    BY <1>2
  <2>2. CASE i = 1
    BY <1>0, <1>c, <2>1, <2>2
  <2>3. CASE i # 1
    <3>1. i - 1 \in 0 .. Len(ss) /\ i - 1 # 0 /\ i \in 0 .. Len(ss) /\ i # 0
      BY <1>0, <2>3
    <3> QED BY <2>1, <2>3, <3>1
  <2> QED BY <2>2, <2>3
<1>7. FlattenSeq(ss) = f[Len(ss)]
  BY <1>0, <1>3, <1>4
<1> HIDE DEF f
<1>8. \A i \in 0 .. Len(ss) : f[i] \in Seq(B)
  <2>1. f[0] \in Seq(B)
    BY <1>5, <1>b
  <2>2. \A i \in 1 .. Len(ss) : f[i - 1] \in Seq(B) => f[i] \in Seq(B)
    BY <1>0, <1>a, <1>6
  <2> QED BY <1>0, <2>1, <2>2, LoopType
<1> QED BY <1>5, <1>6, <1>7, <1>8

\* FlattenSeq() of a sequence with one part more at the front.
LEMMA FlattenCons ==
    ASSUME NEW B, NEW x \in Seq(B), NEW ss \in Seq(Seq(B))
    PROVE  FlattenSeq(<<x>> \o ss) = x \o FlattenSeq(ss)
<1> DEFINE t == <<x>> \o ss
<1>1. t \in Seq(Seq(B)) /\ Len(t) = Len(ss) + 1 /\ Len(ss) \in Nat
  OBVIOUS
<1>2. t[1] = x /\ \A i \in 1 .. Len(ss) : t[i + 1] = ss[i] /\ ss[i] \in Seq(B)
  OBVIOUS
<1> HIDE DEF t
<1>3. PICK f : /\ f[0] = <<>>
               /\ \A i \in 1 .. Len(ss) : f[i] = f[i - 1] \o ss[i]
               /\ \A i \in 0 .. Len(ss) : f[i] \in Seq(B)
               /\ FlattenSeq(ss) = f[Len(ss)]
  BY FlattenLoop
<1>4. PICK g : /\ g[0] = <<>>
               /\ \A i \in 1 .. Len(t) : g[i] = g[i - 1] \o t[i]
               /\ \A i \in 0 .. Len(t) : g[i] \in Seq(B)
               /\ FlattenSeq(t) = g[Len(t)]
  BY <1>1, FlattenLoop
<1> DEFINE S == {i \in 0 .. Len(ss) : g[i + 1] = x \o f[i]}
<1>5. 0 \in S
  <2>1. 1 \in 1 .. Len(t) /\ 1 - 1 = 0
    BY <1>1
  <2>2. g[1] = g[0] \o t[1]
    BY <1>4, <2>1
  <2>3. <<>> \o x = x /\ x \o <<>> = x
    BY ConcatEmptySeq
  <2> QED BY <1>1, <1>2, <1>3, <1>4, <2>2, <2>3, SMTT(30)
<1>6. ASSUME NEW i \in 1 .. Len(ss), i - 1 \in S PROVE i \in S
  <2>1. g[i + 1] = g[i] \o t[i + 1]
    <3>1. i + 1 \in 1 .. Len(t) /\ (i + 1) - 1 = i
      BY <1>1
    <3> QED BY <1>4, <3>1
  <2>0. i \in 0 .. Len(ss) /\ i - 1 \in 0 .. Len(ss) /\ (i - 1) + 1 = i
    BY <1>1
  <2>2. g[i] = x \o f[i - 1]
    <3>1. g[(i - 1) + 1] = x \o f[i - 1]
      BY <1>6
    <3> QED BY <2>0, <3>1
  <2>3. f[i] = f[i - 1] \o ss[i] /\ t[i + 1] = ss[i] /\ ss[i] \in Seq(B) /\ f[i - 1] \in Seq(B)
    BY <1>2, <1>3, <2>0
  <2>4. (x \o f[i - 1]) \o ss[i] = x \o (f[i - 1] \o ss[i])
    <3>1. PICK v \in Seq(B), w \in Seq(B) : v = f[i - 1] /\ w = ss[i]
      BY <2>3
    <3> HIDE DEF S
    <3>2. (x \o v) \o w = x \o (v \o w)
      OBVIOUS
    <3> QED BY <3>1, <3>2
  <2>5. g[i + 1] = x \o f[i]
    BY <2>1, <2>2, <2>3, <2>4
  <2> QED BY <2>0, <2>5
<1>7. Len(ss) \in S
  <2>1. 0 .. Len(ss) \subseteq S
    <3> HIDE DEF S
    <3> QED BY <1>1, <1>5, <1>6, IntervalInduction
  <2>2. Len(ss) \in 0 .. Len(ss)
    BY <1>1
  <2> HIDE DEF S
  <2> QED BY <2>1, <2>2, Zenon
<1> QED BY <1>1, <1>3, <1>4, <1>7 DEF t

\* No parts make up the empty sequence.
LEMMA FlattenEmpty == FlattenSeq(<<>>) = <<>>
  BY DEF FlattenSeq

\* Parts over B make up a sequence over B.
LEMMA FlattenType ==
    ASSUME NEW B, NEW ss \in Seq(Seq(B))
    PROVE  FlattenSeq(ss) \in Seq(B)
<1>1. Len(ss) \in 0 .. Len(ss)
  OBVIOUS
<1> QED BY <1>1, FlattenLoop

\* The length of the whole is the total of the lengths of the parts.
LEMMA FlattenLen ==
    ASSUME NEW B, NEW ss \in Seq(Seq(B))
    PROVE  Len(FlattenSeq(ss)) = Total([i \in DOMAIN ss |-> Len(ss[i])])
<1> DEFINE t == [i \in DOMAIN ss |-> Len(ss[i])]
<1>1. Len(ss) \in Nat /\ DOMAIN ss = 1 .. Len(ss) /\ \A i \in 1 .. Len(ss) : ss[i] \in Seq(B)
  OBVIOUS
<1>2. t \in Seq(Nat) /\ Len(t) = Len(ss) /\ \A i \in 1 .. Len(ss) : t[i] = Len(ss[i])
  <2>1. t \in [1 .. Len(ss) -> Nat]
    BY <1>1
  <2> QED BY <1>1, <2>1
<1> HIDE DEF t
<1>3. PICK f : /\ f[0] = <<>>
               /\ \A i \in 1 .. Len(ss) : f[i] = f[i - 1] \o ss[i]
               /\ \A i \in 0 .. Len(ss) : f[i] \in Seq(B)
               /\ FlattenSeq(ss) = f[Len(ss)]
  BY FlattenLoop
<1>4. PICK g : /\ g[0] = 0
               /\ \A i \in 1 .. Len(t) : g[i] = g[i - 1] + t[i]
               /\ \A i \in 0 .. Len(t) : g[i] \in Nat
               /\ Total(t) = g[Len(t)]
  BY <1>2, TotalLoop
<1> DEFINE S == {i \in 0 .. Len(ss) : g[i] = Len(f[i])}
<1>5. 0 \in S
  BY <1>1, <1>3, <1>4
<1>6. ASSUME NEW i \in 1 .. Len(ss), i - 1 \in S PROVE i \in S
  <2>0. i \in 0 .. Len(ss) /\ i - 1 \in 0 .. Len(ss)
    BY <1>1
  <2>1. f[i - 1] \in Seq(B) /\ ss[i] \in Seq(B) /\ f[i] = f[i - 1] \o ss[i]
    BY <1>1, <1>3, <2>0
  <2>2. Len(f[i]) = Len(f[i - 1]) + Len(ss[i])
    BY <2>1, ConcatProperties
  <2>3. g[i] = g[i - 1] + Len(ss[i])
    BY <1>2, <1>4
  <2>4. g[i - 1] = Len(f[i - 1])
    BY <1>6
  <2>5. g[i] = Len(f[i])
    BY <2>2, <2>3, <2>4
  <2> QED BY <2>0, <2>5
<1>7. Len(ss) \in S
  <2>1. 0 .. Len(ss) \subseteq S
    <3> HIDE DEF S
    <3> QED BY <1>1, <1>5, <1>6, IntervalInduction
  <2> HIDE DEF S
  <2> QED BY <1>1, <2>1
<1> QED BY <1>2, <1>3, <1>4, <1>7 DEF t
=============================================================================
