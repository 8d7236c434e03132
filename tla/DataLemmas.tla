----------------------------- MODULE DataLemmas -----------------------------
(***************************************************************************)
(* Facts about the data that several proofs need, above all induction.     *)
(*                                                                         *)
(* The induction theorems of the library take the induction hypothesis as  *)
(* an operator, which the provers cannot instantiate; a set can take its   *)
(* place.  That every non-empty set of numbers has a least element follows *)
(* from WFMin, and induction over a set, the existence of functions defined*)
(* by primitive recursion and the equations of a fold follow from it.      *)
(***************************************************************************)
EXTENDS Powers, Sequences, FiniteSets, FiniteSetsExt, Functions, FiniteSetTheorems, WellFoundedInduction, TLAPS

\* A non-empty set of natural numbers has a least element.
LEMMA LeastNat ==
    ASSUME NEW S, S \subseteq Nat, S # {}
    PROVE  \E m \in S : \A k \in S : m <= k
<1> DEFINE R == {ss \in Nat \X Nat : ss[1] < ss[2]}
<1>1. IsWellFoundedOn(R, Nat)
  BY NatLessThanWellFounded DEF OpToRel
<1> HIDE DEF R
<1>2. PICK m \in S : \A k \in S : ~(<<k, m>> \in R)
  BY <1>1, WFMin
<1>3. \A k \in S : k < m => <<k, m>> \in R
  BY DEF R
<1>4. \A k \in S : ~(k < m)
  BY <1>2, <1>3
<1> QED
  BY <1>4

\* Induction: the set that holds what is to be shown contains every number.
LEMMA SetInduction ==
    ASSUME NEW S, 0 \in S, \A n \in Nat : n \in S => n + 1 \in S
    PROVE  Nat \subseteq S
<1> SUFFICES ASSUME Nat \ S # {} PROVE FALSE
  OBVIOUS
<1>1. PICK m \in Nat \ S : \A k \in Nat \ S : m <= k
  BY LeastNat
<1>2. m # 0 /\ m - 1 \in Nat
  BY <1>1
<1>3. m - 1 \in S
  BY <1>1, <1>2
<1>4. (m - 1) + 1 \in S
  BY <1>2, <1>3
<1> QED
  BY <1>1, <1>2, <1>4

\* Max of a non-empty set of indices.
LEMMA MaxIndex ==
    ASSUME NEW n \in Nat, NEW s \in SUBSET (1 .. n), s # {}
    PROVE  Max(s) \in s /\ \A y \in s : y <= Max(s)
<1> DEFINE R == {r \in Nat : n - r \in s}
<1>1. PICK z \in s : TRUE
  OBVIOUS
<1>2. n - (n - z) = z /\ n - z \in Nat
  OBVIOUS
<1>3. R \subseteq Nat /\ n - z \in R
  BY <1>2
<1>4. PICK r \in R : \A q \in R : r <= q
  BY <1>3, LeastNat
<1>5. ASSUME NEW y \in s PROVE n - r >= y
  <2>1. n - (n - y) = y /\ n - y \in Nat /\ y \in Int
    OBVIOUS
  <2>2. r <= n - y
    BY <1>4, <2>1
  <2> QED
    BY <2>1, <2>2
<1>6. \E x \in s : \A y \in s : x >= y
  BY <1>5
<1>7. Max(s) \in s /\ \A y \in s : Max(s) >= y
  BY <1>6 DEF Max
<1> QED
  BY <1>7

\* A prefix of the indices ends in its largest one.
LEMMA MaxPrefix ==
    ASSUME NEW i \in Nat \ {0}
    PROVE  Max(1 .. i) = i /\ (1 .. i) \ {i} = 1 .. (i - 1) /\ 1 .. i # {}
<1>1. 1 .. i # {} /\ (1 .. i) \ {i} = 1 .. (i - 1)
  OBVIOUS
<1>2. Max(1 .. i) \in 1 .. i /\ \A y \in 1 .. i : y <= Max(1 .. i)
  BY <1>1, MaxIndex
<1>3. Max(1 .. i) = i
  BY <1>2
<1> QED
  BY <1>1, <1>3

\* g[s] is the fold of F over the indices in s, the smallest one innermost: what a
\* loop over a vector has computed when it has gone through the positions in s.
IsFold(g, n, V, b, F) ==
    /\ g \in [SUBSET (1 .. n) -> V]
    /\ g[{}] = b
    /\ \A s \in SUBSET (1 .. n) : \A x \in s :
           (\A y \in s : y <= x) => g[s] = F[<<x, g[s \ {x}]>>]

\* There is such a function, for every step function F.
LEMMA FoldExists ==
    ASSUME NEW n \in Nat, NEW V, NEW b \in V, NEW F \in [(1 .. n) \X V -> V]
    PROVE  \E g : IsFold(g, n, V, b, F)
<1> DEFINE D == {m \in Nat : m <= n => \E g : IsFold(g, m, V, b, F)}
<1>1. 0 \in D
  <2> DEFINE g == [s \in SUBSET (1 .. 0) |-> b]
  <2>1. IsFold(g, 0, V, b, F)
    BY DEF IsFold
  <2> QED
    BY <2>1
<1>2. ASSUME NEW m \in Nat, m \in D PROVE m + 1 \in D
  <2> SUFFICES ASSUME m + 1 <= n PROVE \E g : IsFold(g, m + 1, V, b, F)
    OBVIOUS
  <2>1. PICK h : IsFold(h, m, V, b, F)
    BY <1>2
  <2> DEFINE g == [s \in SUBSET (1 .. m + 1) |->
                     IF m + 1 \in s THEN F[<<m + 1, h[s \ {m + 1}]>>] ELSE h[s]]
  <2>2. \A s \in SUBSET (1 .. m + 1) : s \ {m + 1} \in SUBSET (1 .. m)
    OBVIOUS
  <2>3. \A s \in SUBSET (1 .. m + 1) : m + 1 \notin s => s \in SUBSET (1 .. m)
    OBVIOUS
  <2>4. h \in [SUBSET (1 .. m) -> V]
    BY <2>1 DEF IsFold
  <2>5. g \in [SUBSET (1 .. m + 1) -> V]
    <3> SUFFICES ASSUME NEW s \in SUBSET (1 .. m + 1)
                 PROVE (IF m + 1 \in s THEN F[<<m + 1, h[s \ {m + 1}]>>] ELSE h[s]) \in V
      OBVIOUS
    <3>1. CASE m + 1 \in s
      <4>1. h[s \ {m + 1}] \in V
        BY <2>2, <2>4
      <4>2. <<m + 1, h[s \ {m + 1}]>> \in (1 .. n) \X V
        BY <4>1
      <4> QED
        BY <3>1, <4>2
    <3>2. CASE m + 1 \notin s
      BY <2>3, <2>4, <3>2
    <3> QED
      BY <3>1, <3>2
  <2>6. g[{}] = b
    BY <2>1 DEF IsFold
  <2>7. ASSUME NEW s \in SUBSET (1 .. m + 1), NEW x \in s, \A y \in s : y <= x
        PROVE  g[s] = F[<<x, g[s \ {x}]>>]
    <3>1. CASE m + 1 \in s
      <4>1. x = m + 1
        BY <2>7, <3>1
      <4>2. s \ {x} \in SUBSET (1 .. m + 1) /\ m + 1 \notin s \ {x}
        BY <4>1
      <4>3. g[s \ {x}] = h[s \ {m + 1}]
        BY <4>1, <4>2
      <4> QED
        BY <3>1, <4>1, <4>3
    <3>2. CASE m + 1 \notin s
      <4>1. s \in SUBSET (1 .. m)
        BY <2>3, <3>2
      <4>2. h[s] = F[<<x, h[s \ {x}]>>]
        BY <2>1, <2>7, <4>1 DEF IsFold
      <4>3. s \ {x} \in SUBSET (1 .. m + 1) /\ m + 1 \notin s \ {x}
        BY <3>2
      <4>4. g[s \ {x}] = h[s \ {x}] /\ g[s] = h[s]
        BY <3>2, <4>3
      <4> QED
        BY <4>2, <4>4
    <3> QED
      BY <3>1, <3>2
  <2>8. IsFold(g, m + 1, V, b, F)
    BY <2>5, <2>6, <2>7 DEF IsFold
  <2> QED
    BY <2>8
<1> HIDE DEF D
<1>3. n \in D
  BY <1>1, <1>2, SetInduction
<1> QED
  BY <1>3 DEF D

\* The first m steps of a primitive recursion.
Approx(f, m, V, b, F) ==
    /\ f \in [0 .. m -> V] /\ f[0] = b
    /\ \A i \in 1 .. m : f[i] = F[<<i, f[i - 1]>>]

\* Every number of steps can be taken.
LEMMA ApproxExists ==
    ASSUME NEW V, NEW b \in V, NEW F \in [Nat \X V -> V]
    PROVE  \A m \in Nat : \E f : Approx(f, m, V, b, F)
<1> DEFINE D == {m \in Nat : \E f : Approx(f, m, V, b, F)}
<1>1. 0 \in D
  <2>1. Approx([i \in 0 .. 0 |-> b], 0, V, b, F)
    BY DEF Approx
  <2> QED
    BY <2>1
<1>2. ASSUME NEW m \in Nat, m \in D PROVE m + 1 \in D
  <2>1. PICK f : Approx(f, m, V, b, F)
    BY <1>2
  <2> DEFINE g == [i \in 0 .. m + 1 |-> IF i = m + 1 THEN F[<<m + 1, f[m]>>] ELSE f[i]]
  <2>2. f \in [0 .. m -> V] /\ f[m] \in V /\ <<m + 1, f[m]>> \in Nat \X V
    BY <2>1 DEF Approx
  <2>3. \A i \in 0 .. m : i \in 0 .. m + 1 /\ i # m + 1 /\ g[i] = f[i]
    OBVIOUS
  <2>4. g \in [0 .. m + 1 -> V] /\ g[0] = b
    BY <2>1, <2>2, <2>3 DEF Approx
  <2>5. ASSUME NEW i \in 1 .. m + 1 PROVE g[i] = F[<<i, g[i - 1]>>]
    <3>1. i - 1 \in 0 .. m /\ g[i - 1] = f[i - 1]
      BY <2>3
    <3>2. CASE i = m + 1
      <4>1. i - 1 = m /\ g[i] = F[<<m + 1, f[m]>>]
        BY <3>2
      <4> QED
        BY <3>1, <3>2, <4>1
    <3>3. CASE i # m + 1
      <4>1. i \in 1 .. m /\ i \in 0 .. m
        BY <3>3
      <4>2. f[i] = F[<<i, f[i - 1]>>]
        BY <2>1, <4>1 DEF Approx
      <4> QED
        BY <2>3, <3>1, <4>1, <4>2
    <3> QED
      BY <3>2, <3>3
  <2>6. Approx(g, m + 1, V, b, F)
    BY <2>4, <2>5 DEF Approx
  <2> QED
    BY <2>6
<1> HIDE DEF D
<1>3. Nat \subseteq D
  BY <1>1, <1>2, SetInduction
<1> QED
  BY <1>3 DEF D

\* A longer computation begins with a shorter one.
LEMMA ApproxAgree ==
    ASSUME NEW V, NEW b, NEW F, NEW m \in Nat, NEW f, Approx(f, m, V, b, F),
           NEW k \in Nat, NEW h, Approx(h, k, V, b, F), m <= k
    PROVE  \A i \in 0 .. m : f[i] = h[i]
<1> DEFINE D == {i \in Nat : i <= m => f[i] = h[i]}
<1>1. 0 \in D
  BY DEF Approx
<1>2. ASSUME NEW i \in Nat, i \in D PROVE i + 1 \in D
  <2> SUFFICES ASSUME i + 1 <= m PROVE f[i + 1] = h[i + 1]
    OBVIOUS
  <2>1. f[i] = h[i]
    BY <1>2
  <2>2. i + 1 \in 1 .. m /\ i + 1 \in 1 .. k /\ (i + 1) - 1 = i
    OBVIOUS
  <2> QED
    BY <2>1, <2>2 DEF Approx
<1> HIDE DEF D
<1>3. Nat \subseteq D
  BY <1>1, <1>2, SetInduction
<1> QED
  BY <1>3 DEF D

\* g is defined by primitive recursion from b and F.
IsRecursion(g, V, b, F) ==
    /\ g \in [Nat -> V] /\ g[0] = b
    /\ \A n \in Nat : g[n + 1] = F[<<n + 1, g[n]>>]

\* Primitive recursion defines a function.
LEMMA PrimitiveRecursion ==
    ASSUME NEW V, NEW b \in V, NEW F \in [Nat \X V -> V]
    PROVE  \E g : IsRecursion(g, V, b, F)
<1> DEFINE a(n) == CHOOSE f : Approx(f, n, V, b, F)
           g == [n \in Nat |-> a(n)[n]]
<1>1. \A n \in Nat : Approx(a(n), n, V, b, F)
  BY ApproxExists
<1> HIDE DEF a
<1>2. g \in [Nat -> V] /\ g[0] = b
  BY <1>1 DEF Approx
<1>3. ASSUME NEW n \in Nat PROVE g[n + 1] = F[<<n + 1, g[n]>>]
  <2>1. a(n + 1)[n + 1] = F[<<n + 1, a(n + 1)[(n + 1) - 1]>>] /\ (n + 1) - 1 = n
    BY <1>1 DEF Approx
  <2>2. a(n + 1)[n] = a(n)[n]
    BY <1>1, ApproxAgree
  <2> QED
    BY <2>1, <2>2
<1> HIDE DEF g
<1> QED
  BY <1>2, <1>3 DEF IsRecursion

\* The recursive definition of Pow2 has a solution, of which Pow2 is one.
LEMMA Pow2Facts ==
    /\ Pow2 \in [Nat -> Nat \ {0}]
    /\ Pow2[0] = 1
    /\ \A n \in Nat : Pow2[n + 1] = 2 * Pow2[n]
<1> DEFINE V == Nat \ {0}
           F == [iv \in Nat \X V |-> 2 * iv[2]]
           Eq(g) == g = [n \in Nat |-> IF n = 0 THEN 1 ELSE 2 * g[n - 1]]
<1>1. F \in [Nat \X V -> V] /\ 1 \in V
  OBVIOUS
<1>2. PICK g : IsRecursion(g, V, 1, F)
  <2> HIDE DEF F, V
  <2> QED
    BY <1>1, PrimitiveRecursion
<1>3. ASSUME NEW n \in Nat PROVE g[n + 1] = 2 * g[n]
  <2>1. g[n] \in V /\ <<n + 1, g[n]>> \in Nat \X V
    BY <1>2 DEF IsRecursion
  <2>2. F[<<n + 1, g[n]>>] = 2 * g[n]
    BY <2>1
  <2> HIDE DEF F
  <2> QED
    BY <1>2, <2>2 DEF IsRecursion
<1>4. ASSUME NEW n \in Nat, n # 0 PROVE g[n] = 2 * g[n - 1]
  <2>1. n - 1 \in Nat /\ (n - 1) + 1 = n
    BY <1>4
  <2> QED
    BY <1>3, <2>1
<1>5. Eq(g)
  BY <1>2, <1>4 DEF IsRecursion
<1>6. Pow2 = CHOOSE h : Eq(h)
  BY DEF Pow2
<1>7. Eq(Pow2)
  <2> HIDE DEF Eq
  <2> QED
    BY <1>5, <1>6
<1>8. Pow2[0] = 1 /\ \A n \in Nat : Pow2[n + 1] = 2 * Pow2[n]
  <2>1. \A n \in Nat : n + 1 \in Nat /\ n + 1 # 0 /\ (n + 1) - 1 = n
    OBVIOUS
  <2> QED
    BY <1>7, <2>1
<1> DEFINE D == {n \in Nat : Pow2[n] \in V}
<1>9. 0 \in D /\ \A n \in Nat : n \in D => n + 1 \in D
  BY <1>8
<1>10. Nat \subseteq D
  <2> HIDE DEF D
  <2> QED
    BY <1>9, SetInduction
<1>11. Pow2 = [n \in Nat |-> Pow2[n]]
  BY <1>7
<1> QED
  BY <1>8, <1>10, <1>11

\* 2^(a + b).
LEMMA Pow2Sum ==
    ASSUME NEW a \in Nat, NEW b \in Nat
    PROVE  Pow2[a + b] = Pow2[a] * Pow2[b]
<1> DEFINE D == {n \in Nat : Pow2[a + n] = Pow2[a] * Pow2[n]}
<1>1. 0 \in D
  BY Pow2Facts
<1>2. ASSUME NEW n \in Nat, n \in D PROVE n + 1 \in D
  <2>1. Pow2[a + n] = Pow2[a] * Pow2[n]
    BY <1>2
  <2>2. Pow2[(a + n) + 1] = 2 * Pow2[a + n] /\ Pow2[n + 1] = 2 * Pow2[n] /\ (a + n) + 1 = a + (n + 1)
    BY Pow2Facts
  <2>3. Pow2[a] \in Nat /\ Pow2[n] \in Nat
    BY Pow2Facts
  <2> QED
    BY <2>1, <2>2, <2>3
<1> HIDE DEF D
<1>3. b \in D
  BY <1>1, <1>2, SetInduction
<1> QED
  BY <1>3 DEF D
\* f is what LET defines by recursion over the numbers in S.
RecursionOn(f, S, b, F) == f = [i \in S |-> IF i = 0 THEN b ELSE F[<<i, f[i - 1]>>]]

\* A function defined by recursion over 0 .. n.
LEMMA FiniteRecursion ==
    ASSUME NEW V, NEW b \in V, NEW F \in [Nat \X V -> V], NEW n \in Nat
    PROVE  \E f \in [0 .. n -> V] : RecursionOn(f, 0 .. n, b, F)
<1>1. PICK f : Approx(f, n, V, b, F)
  BY ApproxExists
<1>2. f \in [0 .. n -> V] /\ f[0] = b /\ \A i \in 1 .. n : f[i] = F[<<i, f[i - 1]>>]
  BY <1>1 DEF Approx
<1>3. \A i \in 0 .. n : f[i] = IF i = 0 THEN b ELSE F[<<i, f[i - 1]>>]
  BY <1>2
<1>4. RecursionOn(f, 0 .. n, b, F)
  BY <1>2, <1>3 DEF RecursionOn
<1> QED
  BY <1>2, <1>4

\* A function defined by recursion over the naturals.
LEMMA NatRecursion ==
    ASSUME NEW V, NEW b \in V, NEW F \in [Nat \X V -> V]
    PROVE  \E f \in [Nat -> V] : RecursionOn(f, Nat, b, F)
<1>1. PICK f : IsRecursion(f, V, b, F)
  BY PrimitiveRecursion
<1>2. f \in [Nat -> V] /\ f[0] = b /\ \A i \in Nat : f[i + 1] = F[<<i + 1, f[i]>>]
  BY <1>1 DEF IsRecursion
<1>3. ASSUME NEW i \in Nat PROVE f[i] = IF i = 0 THEN b ELSE F[<<i, f[i - 1]>>]
  <2>1. CASE i = 0
    BY <1>2, <2>1
  <2>2. CASE i # 0
    <3>1. i - 1 \in Nat /\ (i - 1) + 1 = i
      BY <2>2
    <3> QED
      BY <1>2, <2>2, <3>1
  <2> QED
    BY <2>1, <2>2
<1>4. RecursionOn(f, Nat, b, F)
  BY <1>2, <1>3 DEF RecursionOn
<1> QED
  BY <1>2, <1>4

\* The powers of b.
LEMMA PowerFacts ==
    ASSUME NEW b \in Nat \ {0}
    PROVE  /\ Power(b, 0) = 1
           /\ \A n \in Nat : Power(b, n) \in Nat \ {0} /\ Power(b, n + 1) = b * Power(b, n)
<1> DEFINE V == Nat \ {0}
           F == [iv \in Nat \X V |-> b * iv[2]]
           Eq(g) == g = [n \in Nat |-> IF n = 0 THEN 1 ELSE b * g[n - 1]]
           p == CHOOSE g : Eq(g)
<1>1. F \in [Nat \X V -> V] /\ 1 \in V
  OBVIOUS
<1>2. PICK g \in [Nat -> V] : RecursionOn(g, Nat, 1, F)
  <2> HIDE DEF F, V
  <2> QED
    BY <1>1, NatRecursion
<1>3. ASSUME NEW n \in Nat, n # 0 PROVE F[<<n, g[n - 1]>>] = b * g[n - 1]
  <2>1. n - 1 \in Nat
    BY <1>3
  <2>2. g[n - 1] \in V
    BY <2>1, <1>2
  <2> QED
    BY <2>2
<1>4. Eq(g)
  <2> HIDE DEF F
  <2> QED
    BY <1>2, <1>3 DEF RecursionOn
<1>5. Eq(p)
  <2> HIDE DEF Eq
  <2> QED
    BY <1>4
<1>6. \A n \in Nat : Power(b, n) = p[n]
  BY DEF Power
<1> HIDE DEF p
<1>7. p[0] = 1 /\ \A n \in Nat : p[n + 1] = b * p[n]
  <2>1. \A n \in Nat : n + 1 \in Nat /\ n + 1 # 0 /\ (n + 1) - 1 = n
    OBVIOUS
  <2> QED
    BY <1>5, <2>1
<1> DEFINE D == {n \in Nat : p[n] \in V}
<1>8. 0 \in D /\ \A n \in Nat : n \in D => n + 1 \in D
  BY <1>7
<1>9. Nat \subseteq D
  <2> HIDE DEF D
  <2> QED
    BY <1>8, SetInduction
<1> QED
  BY <1>6, <1>7, <1>9

\* Dividing twice is dividing by the product.
LEMMA DivTwice ==
    ASSUME NEW x \in Nat, NEW a \in Nat \ {0}, NEW b \in Nat \ {0}
    PROVE  (x \div a) \div b = x \div (a * b) /\ x \div (a * b) \in Nat
           /\ (a * b) * (x \div (a * b)) <= x
<1> DEFINE q == x \div a
           r == x % a
           p == q \div b
           s == q % b
<1>1. q \in Nat /\ r \in 0 .. a - 1 /\ x = a * q + r
  OBVIOUS
<1> HIDE DEF q, r
<1>2. p \in Nat /\ s \in 0 .. b - 1 /\ q = b * p + s
  BY <1>1
<1> HIDE DEF p, s
<1>3. x = (a * b) * p + (a * s + r)
  <2>1. a * q = a * (b * p) + a * s
    BY <1>1, <1>2
  <2>2. a * (b * p) = (a * b) * p
    BY <1>2
  <2> QED
    BY <1>1, <1>2, <2>1, <2>2
<1>4. a * s + r \in 0 .. (a * b) - 1
  <2>1. s + 1 <= b /\ s \in Nat /\ r \in Nat /\ r <= a - 1
    BY <1>1, <1>2
  <2>2. a * (s + 1) <= a * b /\ a * (s + 1) = a * s + a /\ a * s \in Nat
    BY <2>1
  <2> QED
    BY <2>1, <2>2
<1>5. a * b \in Nat \ {0}
  OBVIOUS
<1> DEFINE d == a * b
           e == a * s + r
<1>6. x = d * p + e /\ e \in 0 .. d - 1 /\ d \in Nat \ {0}
  BY <1>3, <1>4, <1>5
<1> HIDE DEF d, e
<1>7. x \div d = p
  BY <1>2, <1>6
<1>8. d * p <= x
  BY <1>2, <1>6
<1> QED
  BY <1>2, <1>7, <1>8 DEF d, p, q

\* Shifting by one more place.
LEMMA DivHalf ==
    ASSUME NEW x \in Nat, NEW p \in Nat \ {0}
    PROVE  x \div (2 * p) = (x \div 2) \div p /\ x \div (2 * p) = (x \div p) \div 2
<1> DEFINE two == 2
<1>1. two \in Nat \ {0} /\ two * p = p * two
  OBVIOUS
<1> HIDE DEF two
<1>2. (x \div two) \div p = x \div (two * p) /\ (x \div p) \div two = x \div (p * two)
  BY <1>1, DivTwice
<1> QED
  BY <1>1, <1>2 DEF two

\* Division with remainder has one result.
LEMMA DivUnique ==
    ASSUME NEW d \in Nat \ {0}, NEW q \in Int, NEW r \in 0 .. d - 1
    PROVE  (d * q + r) \div d = q /\ (d * q + r) % d = r
OBVIOUS

\* Division with remainder.
LEMMA DivMod ==
    ASSUME NEW x \in Int, NEW d \in Nat \ {0}
    PROVE  x \div d \in Int /\ x % d \in 0 .. d - 1 /\ x = d * (x \div d) + (x % d)
OBVIOUS

LEMMA DivNat ==
    ASSUME NEW x \in Nat, NEW d \in Nat \ {0}
    PROVE  x \div d \in Nat /\ x \div d <= x
OBVIOUS

-----------------------------------------------------------------------------
(* Sums over the positions of a vector.                                    *)

Summable(f, S) == \A i \in S : f[i] \in Int

\* g[k]: the sum of f over the members of S up to k.
PartialSums(g, f, S) ==
    /\ g \in [Nat -> Int] /\ g[0] = 0
    /\ \A k \in Nat : g[k + 1] = g[k] + (IF k + 1 \in S THEN f[k + 1] ELSE 0)

\* Sums can be taken in the order of the positions.
LEMMA PartialSumsExist ==
    ASSUME NEW S, NEW f, Summable(f, S)
    PROVE  \E g : PartialSums(g, f, S)
<1> DEFINE F == [iv \in Nat \X Int |-> iv[2] + (IF iv[1] \in S THEN f[iv[1]] ELSE 0)]
<1>1. F \in [Nat \X Int -> Int] /\ 0 \in Int
  BY DEF Summable
<1>2. PICK g : IsRecursion(g, Int, 0, F)
  <2> HIDE DEF F
  <2> QED
    BY <1>1, PrimitiveRecursion
<1>3. ASSUME NEW k \in Nat
      PROVE  g[k + 1] = g[k] + (IF k + 1 \in S THEN f[k + 1] ELSE 0)
  <2>1. g[k] \in Int /\ <<k + 1, g[k]>> \in Nat \X Int
    BY <1>2 DEF IsRecursion
  <2>2. F[<<k + 1, g[k]>>] = g[k] + (IF k + 1 \in S THEN f[k + 1] ELSE 0)
    BY <2>1
  <2> HIDE DEF F
  <2> QED
    BY <1>2, <2>2 DEF IsRecursion
<1> QED
  BY <1>2, <1>3 DEF IsRecursion, PartialSums

\* One term can be taken out of a sum.
LEMMA PartialSumsRemove ==
    ASSUME NEW S, NEW f, Summable(f, S), NEW x \in S, x \in Nat \ {0},
           NEW g, PartialSums(g, f, S), NEW h, NEW R, R = S \ {x}, PartialSums(h, f, R),
           NEW n \in Nat, x <= n
    PROVE  g[n] = h[n] + f[x]
<1> USE DEF Summable
<1> DEFINE D == {k \in Nat : g[k] = h[k] + (IF x <= k THEN f[x] ELSE 0)}
<1>1. 0 \in D
  BY DEF PartialSums
<1>2. ASSUME NEW k \in Nat, k \in D PROVE k + 1 \in D
  <2>1. /\ g[k] \in Int /\ h[k] \in Int /\ g[k + 1] \in Int /\ h[k + 1] \in Int
        /\ g[k + 1] = g[k] + (IF k + 1 \in S THEN f[k + 1] ELSE 0)
        /\ h[k + 1] = h[k] + (IF k + 1 \in S \ {x} THEN f[k + 1] ELSE 0)
    BY DEF PartialSums
  <2>2. g[k] = h[k] + (IF x <= k THEN f[x] ELSE 0)
    BY <1>2
  <2>3. CASE k + 1 = x
    BY <2>1, <2>2, <2>3
  <2>4. CASE k + 1 # x /\ k + 1 \in S
    <3>1. h[k + 1] = h[k] + f[k + 1] /\ g[k + 1] = g[k] + f[k + 1]
      BY <2>1, <2>4
    <3>2. (x <= k + 1) <=> (x <= k)
      BY <2>4
    <3>3. f[k + 1] \in Int
      BY <2>4
    <3>4. g[k + 1] = h[k + 1] + (IF x <= k + 1 THEN f[x] ELSE 0)
      BY <2>1, <2>2, <3>1, <3>2, <3>3
    <3> QED
      BY <3>4
  <2>5. CASE k + 1 # x /\ k + 1 \notin S
    <3>1. h[k + 1] = h[k] /\ g[k + 1] = g[k]
      BY <2>1, <2>5
    <3>2. (x <= k + 1) <=> (x <= k)
      BY <2>5
    <3>3. g[k + 1] = h[k + 1] + (IF x <= k + 1 THEN f[x] ELSE 0)
      BY <2>1, <2>2, <3>1, <3>2
    <3> QED
      BY <3>3
  <2> QED
    BY <2>3, <2>4, <2>5
<1> HIDE DEF D
<1>3. Nat \subseteq D
  BY <1>1, <1>2, SetInduction
<1> QED
  BY <1>3 DEF D

\* The sum of no terms.
LEMMA PartialSumsEmpty ==
    ASSUME NEW f, NEW g, PartialSums(g, f, {})
    PROVE  \A k \in Nat : g[k] = 0
<1> DEFINE D == {k \in Nat : g[k] = 0}
<1>1. 0 \in D /\ \A k \in Nat : k \in D => k + 1 \in D
  BY DEF PartialSums
<1> HIDE DEF D
<1>2. Nat \subseteq D
  BY <1>1, SetInduction
<1> QED
  BY <1>2 DEF D

\* The sums are unique.
LEMMA PartialSumsAgree ==
    ASSUME NEW S, NEW f, NEW g, PartialSums(g, f, S), NEW h, PartialSums(h, f, S)
    PROVE  \A k \in Nat : g[k] = h[k]
<1> DEFINE D == {k \in Nat : g[k] = h[k]}
<1>1. 0 \in D /\ \A k \in Nat : k \in D => k + 1 \in D
  BY DEF PartialSums
<1> HIDE DEF D
<1>2. Nat \subseteq D
  BY <1>1, SetInduction
<1> QED
  BY <1>2 DEF D

\* G[s]: the sum of f over s, whichever term is taken out first.
Sums(G, f, S) ==
    /\ G[{}] = 0
    /\ \A s \in SUBSET S : \A x \in s : G[s] = f[x] + G[s \ {x}]

\* SumFunctionOnSet, which adds in an unspecified order, is any such function.
LEMMA SumUnique ==
    ASSUME NEW S, IsFiniteSet(S), NEW f, NEW G, Sums(G, f, S)
    PROVE  SumFunctionOnSet(f, S) = G[S]
<1> DEFINE Pick(s) == CHOOSE x \in s : TRUE
           K == [s \in SUBSET S |-> G[s]]
           Eq(g) == g = [s \in SUBSET S |->
                           IF s = {} THEN 0 ELSE f[Pick(s)] + g[s \ {Pick(s)}]]
           h == CHOOSE g : Eq(g)
<1>1. \A s \in SUBSET S : s # {} => Pick(s) \in s
  OBVIOUS
<1>2. Eq(K)
  <2> HIDE DEF Pick
  <2>1. \A s \in SUBSET S : s # {} => s \ {Pick(s)} \in SUBSET S
    OBVIOUS
  <2>2. \A s \in SUBSET S : K[s] = IF s = {} THEN 0 ELSE f[Pick(s)] + K[s \ {Pick(s)}]
    BY <1>1, <2>1 DEF Sums
  <2> QED
    BY <2>2
<1>3. Eq(h)
  <2> HIDE DEF Eq
  <2> QED
    BY <1>2
<1>4. SumFunctionOnSet(f, S) = h[S]
  BY DEF SumFunctionOnSet, FoldFunctionOnSet, MapThenFoldSet
<1> DEFINE Wrong == {s \in SUBSET S : h[s] # G[s]}
           Sizes == {Cardinality(s) : s \in Wrong}
<1> HIDE DEF h
<1>5. \A s \in SUBSET S : IsFiniteSet(s) /\ Cardinality(s) \in Nat
  BY FS_Subset, FS_CardinalityType
<1>6. Wrong = {}
  <2> SUFFICES ASSUME Wrong # {} PROVE FALSE
    OBVIOUS
  <2>1. Sizes \subseteq Nat /\ Sizes # {}
    BY <1>5
  <2>2. PICK m \in Sizes : \A k \in Sizes : m <= k
    <3> HIDE DEF Sizes
    <3> QED
      BY <2>1, LeastNat
  <2>3. PICK s \in Wrong : Cardinality(s) = m
    BY <2>2
  <2>4. s # {}
    BY <1>3, <2>3 DEF Sums
  <2> DEFINE x == Pick(s)
  <2>5. x \in s /\ s \ {x} \in SUBSET S
    BY <1>1, <2>4
  <2>6. h[s] = f[x] + h[s \ {x}]
    <3> HIDE DEF Pick
    <3> QED
      BY <1>3, <2>4
  <2> HIDE DEF x
  <2>7. G[s] = f[x] + G[s \ {x}]
    BY <2>5 DEF Sums
  <2>8. s \ {x} \in Wrong
    BY <2>3, <2>5, <2>6, <2>7
  <2>9. Cardinality(s \ {x}) = Cardinality(s) - 1 /\ Cardinality(s) \in Nat
    BY <1>5, <2>5, FS_RemoveElement
  <2>10. Cardinality(s \ {x}) \in Sizes
    BY <2>8
  <2>11. m <= Cardinality(s \ {x})
    BY <2>2, <2>10
  <2> QED
    BY <2>3, <2>9, <2>11
<1> QED
  BY <1>4, <1>6

\* Along positions, it is the sum in their order.
LEMMA SumIsPartialSum ==
    ASSUME NEW n \in Nat, NEW S \in SUBSET (1 .. n), NEW f, Summable(f, S),
           NEW p, PartialSums(p, f, S)
    PROVE  SumFunctionOnSet(f, S) = p[n]
<1> DEFINE ps(s) == CHOOSE g : PartialSums(g, f, s)
           G == [s \in SUBSET S |-> ps(s)[n]]
<1>1. \A s \in SUBSET S : PartialSums(ps(s), f, s)
  <2> TAKE s \in SUBSET S
  <2>1. Summable(f, s)
    BY DEF Summable
  <2> QED
    BY <2>1, PartialSumsExist
<1> HIDE DEF ps
<1>2. G[{}] = 0
  BY <1>1, PartialSumsEmpty
<1>3. ASSUME NEW s \in SUBSET S, NEW x \in s PROVE G[s] = f[x] + G[s \ {x}]
  <2>1. /\ x \in Nat \ {0} /\ x <= n /\ f[x] \in Int /\ s \ {x} \in SUBSET S
        /\ Summable(f, s)
    BY DEF Summable
  <2>2. ps(s)[n] = ps(s \ {x})[n] + f[x]
    BY <1>1, <2>1, PartialSumsRemove
  <2>3. ps(s \ {x})[n] \in Int
    BY <1>1, <2>1 DEF PartialSums
  <2> QED
    BY <2>1, <2>2, <2>3
<1>4. Sums(G, f, S)
  <2> HIDE DEF G
  <2> QED
    BY <1>2, <1>3 DEF Sums
<1>5. IsFiniteSet(S)
  <2>1. IsFiniteSet(1 .. n)
    BY FS_Interval
  <2> QED
    BY <2>1, FS_Subset
<1>6. SumFunctionOnSet(f, S) = G[S]
  <2> HIDE DEF G
  <2> QED
    BY <1>4, <1>5, SumUnique
<1>7. ps(S)[n] = p[n]
  BY <1>1, PartialSumsAgree
<1> QED
  BY <1>6, <1>7

\* The sum of integers is one.
LEMMA SumType ==
    ASSUME NEW n \in Nat, NEW S \in SUBSET (1 .. n), NEW f, Summable(f, S)
    PROVE  SumFunctionOnSet(f, S) \in Int
<1>1. PICK p : PartialSums(p, f, S)
  BY PartialSumsExist
<1>2. SumFunctionOnSet(f, S) = p[n]
  BY <1>1, SumIsPartialSum
<1> QED
  BY <1>1, <1>2 DEF PartialSums

\* The sum over no positions.
LEMMA SumEmpty ==
    ASSUME NEW f
    PROVE  SumFunctionOnSet(f, {}) = 0
<1>1. Summable(f, {}) /\ {} \in SUBSET (1 .. 0)
  BY DEF Summable
<1>2. PICK p : PartialSums(p, f, {})
  BY <1>1, PartialSumsExist
<1>3. SumFunctionOnSet(f, {}) = p[0]
  BY <1>1, <1>2, SumIsPartialSum
<1> QED
  BY <1>2, <1>3 DEF PartialSums

\* A finite set can be laid out as positions, so its members can be added.
LEMMA SumsExist ==
    ASSUME NEW S, IsFiniteSet(S), NEW f, Summable(f, S)
    PROVE  \E G : Sums(G, f, S) /\ \A s \in SUBSET S : G[s] \in Int
<1>1. PICK n \in Nat : \E b : b \in [1 .. n -> S] /\ (\A y \in S : \E i \in 1 .. n : b[i] = y)
                               /\ \A i, j \in 1 .. n : b[i] = b[j] => i = j
  <2>1. Cardinality(S) \in Nat /\ ExistsBijection(1 .. Cardinality(S), S)
    BY FS_CardinalityType
  <2>2. PICK b : b \in Bijection(1 .. Cardinality(S), S)
    BY <2>1 DEF ExistsBijection
  <2>3. /\ b \in [1 .. Cardinality(S) -> S]
        /\ \A y \in S : \E i \in 1 .. Cardinality(S) : b[i] = y
        /\ \A i, j \in 1 .. Cardinality(S) : b[i] = b[j] => i = j
    BY <2>2 DEF Bijection, Injection, Surjection, IsInjective
  <2> QED
    BY <2>1, <2>3
<1>2. PICK b : /\ b \in [1 .. n -> S] /\ \A y \in S : \E i \in 1 .. n : b[i] = y
               /\ \A i, j \in 1 .. n : b[i] = b[j] => i = j
  BY <1>1
<1> DEFINE Places(s) == {i \in 1 .. n : b[i] \in s}
           fb == [i \in 1 .. n |-> f[b[i]]]
           ps(P) == CHOOSE g : PartialSums(g, fb, P)
           G == [s \in SUBSET S |-> ps(Places(s))[n]]
<1>3. \A s \in SUBSET S : Summable(fb, Places(s))
  BY <1>2 DEF Summable
<1> HIDE DEF fb
<1>4. \A s \in SUBSET S : PartialSums(ps(Places(s)), fb, Places(s))
  <2> TAKE s \in SUBSET S
  <2> HIDE DEF Places
  <2>1. Summable(fb, Places(s))
    BY <1>3
  <2> QED
    BY <2>1, PartialSumsExist
<1> HIDE DEF ps
<1>5. G[{}] = 0
  <2>1. Places({}) = {}
    OBVIOUS
  <2> QED
    BY <1>4, <2>1, PartialSumsEmpty
<1>6. ASSUME NEW s \in SUBSET S, NEW x \in s PROVE G[s] = f[x] + G[s \ {x}]
  <2>1. PICK i \in 1 .. n : b[i] = x
    BY <1>2
  <2>2. i \in Places(s) /\ Places(s \ {x}) = Places(s) \ {i} /\ i \in Nat \ {0} /\ i <= n
    BY <1>2, <2>1
  <2>3. fb[i] = f[x] /\ f[x] \in Int
    BY <2>1 DEF fb, Summable
  <2> HIDE DEF Places
  <2>4. s \ {x} \in SUBSET S
    OBVIOUS
  <2>5. Summable(fb, Places(s)) /\ PartialSums(ps(Places(s)), fb, Places(s))
        /\ PartialSums(ps(Places(s \ {x})), fb, Places(s) \ {i})
    BY <1>3, <1>4, <2>2, <2>4
  <2>6. ps(Places(s))[n] = ps(Places(s \ {x}))[n] + fb[i]
    BY <2>2, <2>5, PartialSumsRemove
  <2>7. ps(Places(s \ {x}))[n] \in Int
    BY <2>5 DEF PartialSums
  <2>8. G[s] = ps(Places(s))[n] /\ G[s \ {x}] = ps(Places(s \ {x}))[n]
    BY <2>4
  <2> QED
    BY <2>3, <2>6, <2>7, <2>8
<1>7. ASSUME NEW s \in SUBSET S PROVE G[s] \in Int
  <2> HIDE DEF Places
  <2>1. ps(Places(s)) \in [Nat -> Int]
    BY <1>4 DEF PartialSums
  <2> QED
    BY <2>1
<1> HIDE DEF G
<1> QED
  BY <1>5, <1>6, <1>7 DEF Sums

\* Any term can be taken out of a sum over a finite set; it is a number.
LEMMA SumRemove ==
    ASSUME NEW S, IsFiniteSet(S), NEW f, Summable(f, S)
    PROVE  /\ SumFunctionOnSet(f, S) \in Int
           /\ \A x \in S : /\ SumFunctionOnSet(f, S) = f[x] + SumFunctionOnSet(f, S \ {x})
                           /\ SumFunctionOnSet(f, S \ {x}) \in Int
<1>1. PICK G : Sums(G, f, S) /\ \A s \in SUBSET S : G[s] \in Int
  BY SumsExist
<1>2. ASSUME NEW s \in SUBSET S PROVE SumFunctionOnSet(f, s) = G[s]
  <2>1. IsFiniteSet(s) /\ Sums(G, f, s)
    BY <1>1, FS_Subset DEF Sums
  <2> QED
    BY <2>1, SumUnique
<1> QED
  BY <1>1, <1>2 DEF Sums

\* The values of a function on a finite set.
LEMMA FiniteImage ==
    ASSUME NEW S, IsFiniteSet(S), NEW b
    PROVE  IsFiniteSet({b[x] : x \in S})
<1> DEFINE T == {b[x] : x \in S}
           m == [x \in S |-> b[x]]
<1>1. m \in Surjection(S, T)
  BY DEF Surjection
<1> HIDE DEF m, T
<1>2. IsFiniteSet(T)
  BY <1>1, FS_Surjection
<1> QED
  BY <1>2 DEF T

\* The sum depends on the terms alone, not on how they are indexed.
LEMMA SumReindex ==
    ASSUME NEW S, IsFiniteSet(S), NEW T, NEW f, NEW g, Summable(g, T),
           NEW b \in [S -> T], \A y \in T : \E x \in S : b[x] = y,
           \A x, y \in S : b[x] = b[y] => x = y, \A x \in S : g[b[x]] = f[x]
    PROVE  SumFunctionOnSet(g, T) = SumFunctionOnSet(f, S)
<1> DEFINE Image(s) == {b[x] : x \in s}
           G == [s \in SUBSET S |-> SumFunctionOnSet(g, Image(s))]
<1>1. \A s \in SUBSET S : Image(s) \subseteq T
  OBVIOUS
<1>2. \A s \in SUBSET S : IsFiniteSet(Image(s)) /\ Summable(g, Image(s))
  <2> TAKE s \in SUBSET S
  <2>1. IsFiniteSet(s)
    BY FS_Subset
  <2>2. IsFiniteSet(Image(s))
    BY <2>1, FiniteImage
  <2> QED
    BY <1>1, <2>2 DEF Summable
<1>3. G[{}] = 0
  <2>1. Image({}) = {}
    OBVIOUS
  <2> QED
    BY <2>1, SumEmpty
<1>4. ASSUME NEW s \in SUBSET S, NEW x \in s PROVE G[s] = f[x] + G[s \ {x}]
  <2>1. Image(s \ {x}) = Image(s) \ {b[x]} /\ b[x] \in Image(s) /\ g[b[x]] = f[x]
    OBVIOUS
  <2> HIDE DEF Image
  <2>2. IsFiniteSet(Image(s)) /\ Summable(g, Image(s))
    BY <1>2
  <2>3. SumFunctionOnSet(g, Image(s)) = g[b[x]] + SumFunctionOnSet(g, Image(s) \ {b[x]})
    BY <2>1, <2>2, SumRemove
  <2>4. s \ {x} \in SUBSET S
    OBVIOUS
  <2> QED
    BY <2>1, <2>3, <2>4
<1>5. Image(S) = T
  OBVIOUS
<1>6. Sums(G, f, S)
  <2> HIDE DEF G
  <2> QED
    BY <1>3, <1>4 DEF Sums
<1>7. SumFunctionOnSet(f, S) = G[S]
  <2> HIDE DEF G
  <2> QED
    BY <1>6, SumUnique
<1> HIDE DEF Image
<1> QED
  BY <1>5, <1>7

\* Functions that agree on a set have the same sum over it.
LEMMA SumAgree ==
    ASSUME NEW S, IsFiniteSet(S), NEW f, NEW g, Summable(g, S), \A x \in S : g[x] = f[x]
    PROVE  SumFunctionOnSet(g, S) = SumFunctionOnSet(f, S)
<1> DEFINE b == [x \in S |-> x]
<1>1. /\ b \in [S -> S] /\ \A y \in S : \E x \in S : b[x] = y
      /\ \A x, y \in S : b[x] = b[y] => x = y
      /\ \A x \in S : g[b[x]] = f[x]
  OBVIOUS
<1> HIDE DEF b
<1> QED
  BY <1>1, SumReindex

\* Sums over disjoint sets add up.
LEMMA SumUnion ==
    ASSUME NEW A, NEW B, IsFiniteSet(A), IsFiniteSet(B), A \cap B = {},
           NEW f, Summable(f, A \cup B)
    PROVE  SumFunctionOnSet(f, A \cup B) = SumFunctionOnSet(f, A) + SumFunctionOnSet(f, B)
<1> DEFINE G == [s \in SUBSET B |-> SumFunctionOnSet(f, A \cup s) - SumFunctionOnSet(f, A)]
<1>1. \A s \in SUBSET B : IsFiniteSet(A \cup s) /\ Summable(f, A \cup s)
  BY FS_Subset, FS_Union DEF Summable
<1>2. \A s \in SUBSET B : SumFunctionOnSet(f, A \cup s) \in Int
  BY <1>1, SumRemove
<1>3. A \cup {} = A /\ SumFunctionOnSet(f, A) \in Int
  BY <1>2
<1>4. G[{}] = 0
  BY <1>3
<1>5. ASSUME NEW s \in SUBSET B, NEW x \in s PROVE G[s] = f[x] + G[s \ {x}]
  <2>1. x \in A \cup s /\ (A \cup s) \ {x} = A \cup (s \ {x}) /\ s \ {x} \in SUBSET B /\ f[x] \in Int
    BY DEF Summable
  <2>2. SumFunctionOnSet(f, A \cup s) = f[x] + SumFunctionOnSet(f, (A \cup s) \ {x})
    BY <1>1, <2>1, SumRemove
  <2>3. SumFunctionOnSet(f, A \cup s) = f[x] + SumFunctionOnSet(f, A \cup (s \ {x}))
    BY <2>1, <2>2
  <2>4. G[s \ {x}] = SumFunctionOnSet(f, A \cup (s \ {x})) - SumFunctionOnSet(f, A)
    BY <2>1
  <2>5. SumFunctionOnSet(f, A \cup (s \ {x})) \in Int
    BY <1>2, <2>1
  <2> QED
    BY <1>3, <2>1, <2>3, <2>4, <2>5
<1>6. SumFunctionOnSet(f, B) = G[B]
  <2> HIDE DEF G
  <2>1. Sums(G, f, B)
    BY <1>4, <1>5 DEF Sums
  <2> QED
    BY <2>1, SumUnique
<1>7. G[B] = SumFunctionOnSet(f, A \cup B) - SumFunctionOnSet(f, A)
  OBVIOUS
<1>8. SumFunctionOnSet(f, A \cup B) \in Int
  BY <1>2
<1> HIDE DEF G
<1> QED
  BY <1>3, <1>6, <1>7, <1>8

\* A sum can be taken part by part.
LEMMA SumPartition ==
    ASSUME NEW T, IsFiniteSet(T), NEW P, \A t \in T : IsFiniteSet(P[t]),
           \A t, u \in T : t # u => P[t] \cap P[u] = {},
           NEW f, \A t \in T : Summable(f, P[t]),
           NEW h, \A t \in T : h[t] = SumFunctionOnSet(f, P[t])
    PROVE  SumFunctionOnSet(f, UNION {P[t] : t \in T}) = SumFunctionOnSet(h, T)
<1> DEFINE U(s) == UNION {P[t] : t \in s}
           G == [s \in SUBSET T |-> SumFunctionOnSet(f, U(s))]
<1>1. ASSUME NEW s \in SUBSET T PROVE IsFiniteSet(U(s)) /\ Summable(f, U(s))
  <2> DEFINE parts == {P[t] : t \in s}
  <2>1. IsFiniteSet(s)
    BY FS_Subset
  <2>2. IsFiniteSet(parts)
    BY <2>1, FiniteImage
  <2>3. \A p \in parts : IsFiniteSet(p)
    OBVIOUS
  <2>4. IsFiniteSet(UNION parts)
    <3> HIDE DEF parts
    <3> QED
      BY <2>2, <2>3, FS_UNION
  <2> QED
    BY <2>4 DEF Summable
<1>2. G[{}] = 0
  <2>1. U({}) = {}
    OBVIOUS
  <2> QED
    BY <2>1, SumEmpty
<1>3. ASSUME NEW s \in SUBSET T, NEW x \in s PROVE G[s] = h[x] + G[s \ {x}]
  <2>1. /\ s \ {x} \in SUBSET T /\ U(s) = P[x] \cup U(s \ {x})
        /\ P[x] \cap U(s \ {x}) = {} /\ IsFiniteSet(P[x])
    OBVIOUS
  <2> HIDE DEF U
  <2>2. IsFiniteSet(U(s \ {x})) /\ Summable(f, P[x] \cup U(s \ {x}))
    BY <1>1, <2>1
  <2>3. SumFunctionOnSet(f, P[x] \cup U(s \ {x}))
            = SumFunctionOnSet(f, P[x]) + SumFunctionOnSet(f, U(s \ {x}))
    BY <2>1, <2>2, SumUnion
  <2> QED
    BY <2>1, <2>3
<1>4. SumFunctionOnSet(h, T) = G[T]
  <2> HIDE DEF G
  <2>1. Sums(G, h, T)
    BY <1>2, <1>3 DEF Sums
  <2> QED
    BY <2>1, SumUnique
<1> HIDE DEF U
<1>5. G[T] = SumFunctionOnSet(f, U(T))
  OBVIOUS
<1> QED
  BY <1>4, <1>5 DEF U

\* The sum of the negated terms.
LEMMA SumNegate ==
    ASSUME NEW S, IsFiniteSet(S), NEW f, Summable(f, S), NEW g, \A x \in S : g[x] = -f[x]
    PROVE  SumFunctionOnSet(g, S) = -SumFunctionOnSet(f, S)
<1> DEFINE G == [s \in SUBSET S |-> -SumFunctionOnSet(f, s)]
<1>1. \A s \in SUBSET S : IsFiniteSet(s) /\ Summable(f, s)
  BY FS_Subset DEF Summable
<1>2. G[{}] = 0
  BY SumEmpty
<1>3. ASSUME NEW s \in SUBSET S, NEW x \in s PROVE G[s] = g[x] + G[s \ {x}]
  <2>1. s \ {x} \in SUBSET S /\ g[x] = -f[x] /\ f[x] \in Int
    BY DEF Summable
  <2>2. SumFunctionOnSet(f, s) = f[x] + SumFunctionOnSet(f, s \ {x})
    BY <1>1, SumRemove
  <2>3. SumFunctionOnSet(f, s \ {x}) \in Int
    BY <1>1, <2>1, SumRemove
  <2> QED
    BY <2>1, <2>2, <2>3
<1>4. SumFunctionOnSet(g, S) = G[S]
  <2> HIDE DEF G
  <2>1. Sums(G, g, S)
    BY <1>2, <1>3 DEF Sums
  <2> QED
    BY <2>1, SumUnique
<1> QED
  BY <1>4

\* What position i contributes to a sum.
Term(f, S, i) == IF i \in S THEN f[i] ELSE 0

\* Sums compare as their terms do.
LEMMA SumCompare ==
    ASSUME NEW n \in Nat, NEW S \in SUBSET (1 .. n), NEW T \in SUBSET (1 .. n),
           NEW f, Summable(f, S), NEW g, Summable(g, T),
           \A i \in 1 .. n : Term(f, S, i) <= Term(g, T, i)
    PROVE  SumFunctionOnSet(f, S) <= SumFunctionOnSet(g, T)
<1>1. PICK p : PartialSums(p, f, S)
  BY PartialSumsExist
<1>2. PICK q : PartialSums(q, g, T)
  BY PartialSumsExist
<1> DEFINE D == {k \in Nat : k <= n => p[k] <= q[k]}
<1>3. 0 \in D
  BY <1>1, <1>2 DEF PartialSums
<1>4. ASSUME NEW k \in Nat, k \in D PROVE k + 1 \in D
  <2> SUFFICES ASSUME k + 1 <= n PROVE p[k + 1] <= q[k + 1]
    OBVIOUS
  <2>1. /\ p[k] \in Int /\ q[k] \in Int
        /\ p[k + 1] = p[k] + Term(f, S, k + 1) /\ q[k + 1] = q[k] + Term(g, T, k + 1)
    BY <1>1, <1>2 DEF PartialSums, Term
  <2>2. Term(f, S, k + 1) \in Int /\ Term(g, T, k + 1) \in Int
    BY DEF Term, Summable
  <2>3. Term(f, S, k + 1) <= Term(g, T, k + 1) /\ p[k] <= q[k]
    BY <1>4
  <2> QED
    BY <2>1, <2>2, <2>3
<1> HIDE DEF D
<1>5. n \in D
  BY <1>3, <1>4, SetInduction
<1> QED
  BY <1>1, <1>2, <1>5, SumIsPartialSum DEF D

\* A finite prefix holds finite sets.
LEMMA PrefixFinite ==
    ASSUME NEW n \in Nat, NEW S \in SUBSET (1 .. n)
    PROVE  IsFiniteSet(S) /\ Cardinality(S) \in Nat
<1>1. IsFiniteSet(1 .. n)
  BY FS_Interval
<1>2. IsFiniteSet(S)
  BY <1>1, FS_Subset
<1> QED
  BY <1>2, FS_CardinalityType

\* Taking v from every term takes it from the sum once for each of them.
LEMMA SumShift ==
    ASSUME NEW n \in Nat, NEW S \in SUBSET (1 .. n), NEW f, Summable(f, S), NEW v \in Int,
           NEW g, \A i \in S : g[i] = f[i] - v
    PROVE  SumFunctionOnSet(g, S) = SumFunctionOnSet(f, S) - v * Cardinality(S)
<1>1. Summable(g, S)
  BY DEF Summable
<1>2. PICK p : PartialSums(p, f, S)
  BY PartialSumsExist
<1>3. PICK q : PartialSums(q, g, S)
  BY <1>1, PartialSumsExist
<1> DEFINE Below(k) == S \cap (1 .. k)
           D == {k \in Nat : q[k] = p[k] - v * Cardinality(Below(k))}
<1>4. \A k \in Nat : IsFiniteSet(Below(k)) /\ Cardinality(Below(k)) \in Nat
  BY PrefixFinite
<1>5. 0 \in D
  <2>1. Below(0) = {}
    OBVIOUS
  <2>2. Cardinality(Below(0)) = 0
    BY <2>1, FS_EmptySet
  <2> QED
    BY <1>2, <1>3, <2>2 DEF PartialSums
<1>6. ASSUME NEW k \in Nat, k \in D PROVE k + 1 \in D
  <2>1. q[k] = p[k] - v * Cardinality(Below(k)) /\ p[k] \in Int /\ q[k] \in Int
    BY <1>2, <1>3, <1>6 DEF PartialSums
  <2>2. CASE k + 1 \in S
    <3>1. Below(k + 1) = Below(k) \cup {k + 1} /\ k + 1 \notin Below(k)
      BY <2>2
    <3> HIDE DEF Below
    <3>2. Cardinality(Below(k + 1)) = Cardinality(Below(k)) + 1
      BY <1>4, <3>1, FS_AddElement
    <3>3. p[k + 1] = p[k] + f[k + 1] /\ q[k + 1] = q[k] + (f[k + 1] - v) /\ f[k + 1] \in Int
      BY <1>2, <1>3, <2>2 DEF PartialSums, Summable
    <3>4. q[k + 1] = p[k + 1] - v * Cardinality(Below(k + 1))
      BY <1>4, <2>1, <3>2, <3>3
    <3> QED
      BY <3>4
  <2>3. CASE k + 1 \notin S
    <3>1. Below(k + 1) = Below(k)
      BY <2>3
    <3>2. p[k + 1] = p[k] /\ q[k + 1] = q[k]
      BY <1>2, <1>3, <2>3 DEF PartialSums
    <3> HIDE DEF Below
    <3> QED
      BY <2>1, <3>1, <3>2
  <2> QED
    BY <2>2, <2>3
<1>7. n \in D
  <2> HIDE DEF D
  <2> QED
    BY <1>5, <1>6, SetInduction
<1>8. Below(n) = S
  OBVIOUS
<1>9. SumFunctionOnSet(f, S) = p[n] /\ SumFunctionOnSet(g, S) = q[n]
  BY <1>1, <1>2, <1>3, SumIsPartialSum
<1> HIDE DEF Below
<1> QED
  BY <1>7, <1>8, <1>9

\* Of all sets with as many members, one that holds the terms above some v and none
\* below it has the largest sum.
LEMMA LargestSum ==
    ASSUME NEW n \in Nat, NEW S \in SUBSET (1 .. n), NEW T \in SUBSET (1 .. n), NEW f,
           Summable(f, 1 .. n), NEW v \in Int, Cardinality(S) = Cardinality(T),
           \A i \in T : f[i] >= v, \A i \in S : i \in T \/ f[i] <= v
    PROVE  SumFunctionOnSet(f, S) <= SumFunctionOnSet(f, T)
<1> DEFINE g == [i \in 1 .. n |-> f[i] - v]
<1>1. Summable(f, S) /\ Summable(f, T) /\ Summable(g, S) /\ Summable(g, T)
  BY DEF Summable
<1>2. \A i \in 1 .. n : g[i] = f[i] - v /\ f[i] \in Int
  BY DEF Summable
<1> HIDE DEF g
<1>3. \A i \in 1 .. n : Term(g, S, i) <= Term(g, T, i)
  BY <1>2 DEF Term
<1>4. SumFunctionOnSet(g, S) <= SumFunctionOnSet(g, T)
  BY <1>1, <1>3, SumCompare
<1>5. SumFunctionOnSet(g, S) = SumFunctionOnSet(f, S) - v * Cardinality(S)
  BY <1>1, <1>2, SumShift
<1>6. SumFunctionOnSet(g, T) = SumFunctionOnSet(f, T) - v * Cardinality(T)
  BY <1>1, <1>2, SumShift
<1>7. SumFunctionOnSet(f, S) \in Int /\ SumFunctionOnSet(f, T) \in Int
  BY <1>1, SumType
<1>8. v * Cardinality(S) \in Int
  <2>1. Cardinality(S) \in Nat
    BY PrefixFinite
  <2> QED
    BY <2>1
<1> QED
  BY <1>4, <1>5, <1>6, <1>7, <1>8

-----------------------------------------------------------------------------
(* Sequences.                                                              *)

\* A sequence is the function of its elements.
LEMMA SeqFacts ==
    ASSUME NEW S, NEW s \in Seq(S)
    PROVE  /\ Len(s) \in Nat /\ DOMAIN s = 1 .. Len(s) /\ s = [i \in 1 .. Len(s) |-> s[i]]
           /\ \A i \in 1 .. Len(s) : s[i] \in S
OBVIOUS

\* Sequences with the same elements are equal.
LEMMA SeqEqual ==
    ASSUME NEW S, NEW s \in Seq(S), NEW T, NEW t \in Seq(T), Len(s) = Len(t),
           \A i \in 1 .. Len(s) : s[i] = t[i]
    PROVE  s = t
OBVIOUS

\* The elements of a concatenation.
LEMMA ConcatFacts ==
    ASSUME NEW S, NEW a \in Seq(S), NEW b \in Seq(S)
    PROVE  /\ a \o b \in Seq(S) /\ Len(a \o b) = Len(a) + Len(b)
           /\ \A i \in 1 .. Len(a) + Len(b) :
                 (a \o b)[i] = IF i <= Len(a) THEN a[i] ELSE b[i - Len(a)]
OBVIOUS

\* The elements of a part of a sequence.
LEMMA SubSeqFacts ==
    ASSUME NEW S, NEW s \in Seq(S), NEW m \in Nat \ {0}, NEW n \in Nat,
           m <= n + 1, n <= Len(s)
    PROVE  /\ SubSeq(s, m, n) \in Seq(S) /\ Len(SubSeq(s, m, n)) = (n + 1) - m
           /\ \A i \in 1 .. (n + 1) - m : SubSeq(s, m, n)[i] = s[(m + i) - 1]
OBVIOUS

\* Sequences that are equal and end in parts of one length have equal parts.
LEMMA SplitEqual ==
    ASSUME NEW S, NEW a \in Seq(S), NEW b \in Seq(S), NEW c \in Seq(S), NEW d \in Seq(S),
           Len(b) = Len(d), a \o b = c \o d
    PROVE  a = c /\ b = d
<1> DEFINE l == a \o b
           r == c \o d
           m == Len(a)
           n == Len(b)
<1>1. /\ Len(l) = m + n /\ m \in Nat /\ n \in Nat
      /\ \A i \in 1 .. m + n : l[i] = IF i <= m THEN a[i] ELSE b[i - m]
  <2>1. m \in Nat /\ n \in Nat
    BY SeqFacts
  <2> QED
    BY <2>1, ConcatFacts
<1>2. /\ Len(r) = Len(c) + n /\ Len(c) \in Nat
      /\ \A i \in 1 .. Len(c) + n : r[i] = IF i <= Len(c) THEN c[i] ELSE d[i - Len(c)]
  <2>1. Len(c) \in Nat
    BY SeqFacts
  <2> QED
    BY <2>1, ConcatFacts
<1>3. l = r
  OBVIOUS
<1> HIDE DEF l, r, m, n
<1>4. Len(c) = m
  BY <1>1, <1>2, <1>3
<1>5. \A i \in 1 .. m : a[i] = c[i]
  <2>1. \A i \in 1 .. m : i \in 1 .. m + n /\ i <= m
    BY <1>1
  <2> QED
    BY <1>1, <1>2, <1>3, <1>4, <2>1
<1>6. \A i \in 1 .. n : b[i] = d[i]
  <2> SUFFICES ASSUME NEW i \in 1 .. n PROVE b[i] = d[i]
    OBVIOUS
  <2>1. m + i \in 1 .. m + n /\ ~(m + i <= m) /\ (m + i) - m = i
    BY <1>1
  <2>2. l[m + i] = b[i]
    BY <1>1, <2>1
  <2>3. r[m + i] = d[i]
    BY <1>2, <1>4, <2>1
  <2> QED
    BY <1>3, <2>2, <2>3
<1>7. a = c
  BY <1>4, <1>5, SeqEqual DEF m
<1>8. b = d
  BY <1>6, SeqEqual DEF n
<1> QED
  BY <1>7, <1>8
=============================================================================
