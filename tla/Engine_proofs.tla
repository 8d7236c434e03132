--------------------------- MODULE Engine_proofs ---------------------------
(***************************************************************************)
(* When the relay announces a win, for every chain, clock, hash and        *)
(* window: first that the kernel's 256-bit arithmetic is exact at every    *)
(* width, then what the search does with it.                               *)
(***************************************************************************)
EXTENDS Engine, WinCheck, DataLemmas

-----------------------------------------------------------------------------
(* The kernel.                                                             *)

\* A limb holds more than one value.
LEMMA BaseType == Base \in Nat \ {0, 1}
<1>1. Pow2[LimbBits - 1] \in Nat \ {0} /\ LimbBits - 1 \in Nat
  BY Pow2Facts, U256Assumption
<1>2. Pow2[(LimbBits - 1) + 1] = 2 * Pow2[LimbBits - 1] /\ (LimbBits - 1) + 1 = LimbBits
  BY <1>1, Pow2Facts, U256Assumption
<1> QED
  BY <1>1, <1>2 DEF Base

\* One limb more: the higher parts decide, then the limb.
LEMMA LimbOrder ==
    ASSUME NEW B \in Nat \ {0}, NEW a \in 0 .. B - 1, NEW b \in 0 .. B - 1,
           NEW x \in Int, NEW y \in Int
    PROVE  /\ a + B * x < b + B * y <=> x < y \/ (x = y /\ a < b)
           /\ a + B * x = b + B * y <=> x = y /\ a = b
<1>1. ASSUME x < y PROVE a + B * x < b + B * y
  <2>1. x + 1 <= y
    BY <1>1
  <2>2. B * (x + 1) <= B * y
    BY <2>1
  <2>3. B * (x + 1) = B * x + B
    OBVIOUS
  <2> QED
    BY <2>2, <2>3
<1>2. ASSUME y < x PROVE b + B * y < a + B * x
  <2>1. y + 1 <= x
    BY <1>2
  <2>2. B * (y + 1) <= B * x
    BY <2>1
  <2>3. B * (y + 1) = B * y + B
    OBVIOUS
  <2> QED
    BY <2>2, <2>3
<1>3. CASE x = y
  BY <1>3
<1>4. CASE x < y
  BY <1>1, <1>4
<1>5. CASE y < x
  BY <1>2, <1>5
<1> QED
  BY <1>3, <1>4, <1>5

\* The derived order of U256 compares the values.
LEMMA LessExact ==
    ASSUME NEW u \in U256s, NEW v \in U256s
    PROVE  Less(u, v) <=> Exact(u) < Exact(v)
<1>1. Base \in Nat \ {0} /\ Base - 1 \in Nat
  BY BaseType
<1>2. \A i \in {0, 1, 2, 3} : u[i] \in 0 .. Base - 1 /\ v[i] \in 0 .. Base - 1
  BY DEF U256s, Limbs
<1>3. Less(u, v) <=> \/ u[3] < v[3]
                     \/ u[3] = v[3] /\ u[2] < v[2]
                     \/ u[3] = v[3] /\ u[2] = v[2] /\ u[1] < v[1]
                     \/ u[3] = v[3] /\ u[2] = v[2] /\ u[1] = v[1] /\ u[0] < v[0]
  BY <1>2 DEF Less, Limbs
<1> DEFINE u2 == u[2] + Base * u[3]
           v2 == v[2] + Base * v[3]
           u1 == u[1] + Base * u2
           v1 == v[1] + Base * v2
<1>4. /\ u2 < v2 <=> u[3] < v[3] \/ (u[3] = v[3] /\ u[2] < v[2])
      /\ u2 = v2 <=> u[3] = v[3] /\ u[2] = v[2]
  <2>1. /\ u[2] \in 0 .. Base - 1 /\ v[2] \in 0 .. Base - 1
        /\ u[3] \in Int /\ v[3] \in Int
    BY <1>1, <1>2
  <2> DEFINE a == u[2]
             b == v[2]
             x == u[3]
             y == v[3]
  <2> HIDE DEF a, b, x, y
  <2>2. a \in 0 .. Base - 1 /\ b \in 0 .. Base - 1 /\ x \in Int /\ y \in Int
    BY <2>1 DEF a, b, x, y
  <2>3. /\ a + Base * x < b + Base * y <=> x < y \/ (x = y /\ a < b)
        /\ a + Base * x = b + Base * y <=> x = y /\ a = b
    BY <1>1, <2>2, LimbOrder
  <2> QED
    BY <2>3 DEF a, b, x, y
<1>5. u2 \in Int /\ v2 \in Int
  BY <1>1, <1>2
<1> HIDE DEF u2, v2
<1>6. /\ u1 < v1 <=> u2 < v2 \/ (u2 = v2 /\ u[1] < v[1])
      /\ u1 = v1 <=> u2 = v2 /\ u[1] = v[1]
  BY <1>1, <1>2, <1>5, LimbOrder
<1>7. u1 \in Int /\ v1 \in Int
  BY <1>1, <1>2, <1>5
<1> HIDE DEF u1, v1
<1>8. u[0] + Base * u1 < v[0] + Base * v1 <=> u1 < v1 \/ (u1 = v1 /\ u[0] < v[0])
  BY <1>1, <1>2, <1>7, LimbOrder
<1>9. Exact(u) = u[0] + Base * u1 /\ Exact(v) = v[0] + Base * v1
  BY DEF Exact, u1, v1, u2, v2
<1> QED
  BY <1>3, <1>4, <1>6, <1>8, <1>9

\* The value of a U256 is a number below Top.
LEMMA ExactType ==
    ASSUME NEW u \in U256s
    PROVE  Exact(u) \in Nat /\ Exact(u) < Top
<1>1. Base \in Nat \ {0} /\ Base - 1 \in Nat
  BY BaseType
<1>2. \A i \in {0, 1, 2, 3} : u[i] \in 0 .. Base - 1
  BY DEF U256s, Limbs
<1>3. ASSUME NEW a \in 0 .. Base - 1, NEW x \in Nat, NEW T \in Nat, x < T
      PROVE  a + Base * x \in Nat /\ a + Base * x < Base * T
  <2>1. Base * (x + 1) <= Base * T
    BY <1>1, <1>3
  <2>2. Base * (x + 1) = Base * x + Base /\ Base * x \in Nat
    BY <1>1
  <2> QED
    BY <1>1, <2>1, <2>2
<1>4. u[3] \in Nat /\ u[3] < Base
  BY <1>1, <1>2
<1>5. Base * Base \in Nat /\ Base * (Base * Base) \in Nat
  BY <1>1
<1>6. u[2] + Base * u[3] \in Nat /\ u[2] + Base * u[3] < Base * Base
  BY <1>1, <1>2, <1>3, <1>4
<1>7. /\ u[1] + Base * (u[2] + Base * u[3]) \in Nat
      /\ u[1] + Base * (u[2] + Base * u[3]) < Base * (Base * Base)
  BY <1>2, <1>3, <1>5, <1>6
<1> QED
  BY <1>2, <1>3, <1>5, <1>7 DEF Exact, Top

\* A multiplication by rhs with carry k in leaves r and carries `out` to weight B.
Carries(B, a, rhs, k, r, out) == a * rhs + k = r + B * out

\* Two such steps, a lower limb and the rest, make one.
LEMMA LimbTimes ==
    ASSUME NEW B \in Int, NEW a \in Int, NEW e \in Int, NEW rhs \in Int, NEW k \in Int,
           NEW k1 \in Int, NEW r \in Int, NEW s \in Int, NEW top \in Int, NEW out \in Int,
           Carries(B, a, rhs, k, r, k1), Carries(top, e, rhs, k1, s, out)
    PROVE  Carries(B * top, a + B * e, rhs, k, r + B * s, out)
<1>0. a * rhs + k = r + B * k1 /\ e * rhs + k1 = s + top * out
  BY DEF Carries
<1>1. (a + B * e) * rhs = a * rhs + B * (e * rhs)
  OBVIOUS
<1>2. e * rhs = s + top * out - k1
  BY <1>0
<1>3. B * (s + top * out - k1) = B * s + (B * top) * out - B * k1
  OBVIOUS
<1> QED
  BY <1>0, <1>1, <1>2, <1>3 DEF Carries

\* checked_mul_u64.
LEMMA CheckedMulExact ==
    ASSUME NEW u \in U256s, NEW rhs \in 0 .. Base - 1
    PROVE  IF CheckedMul(u, rhs) = None THEN Exact(u) * rhs >= Top
           ELSE /\ CheckedMul(u, rhs) \in U256s
                /\ Exact(CheckedMul(u, rhs)) = Exact(u) * rhs
<1> DEFINE Eq(g) == g = [i \in 0 .. 4 |-> IF i = 0 THEN 0
                                          ELSE (u[i - 1] * rhs + g[i - 1]) \div Base]
           c == CHOOSE g : Eq(g)
           r == [i \in Limbs |-> (u[i] * rhs + c[i]) % Base]
<1>1. Base \in Nat \ {0} /\ Base - 1 \in Nat /\ rhs \in Nat
  BY BaseType
<1>2. u[0] \in Nat /\ u[1] \in Nat /\ u[2] \in Nat /\ u[3] \in Nat
  BY BaseType DEF U256s, Limbs
<1>3. Eq(c)
  <2> DEFINE c1 == (u[0] * rhs + 0) \div Base
             c2 == (u[1] * rhs + c1) \div Base
             c3 == (u[2] * rhs + c2) \div Base
             c4 == (u[3] * rhs + c3) \div Base
             g == [i \in 0 .. 4 |-> IF i = 0 THEN 0 ELSE IF i = 1 THEN c1
                                    ELSE IF i = 2 THEN c2 ELSE IF i = 3 THEN c3 ELSE c4]
  <2>1. g[0] = 0 /\ g[1] = c1 /\ g[2] = c2 /\ g[3] = c3 /\ g[4] = c4
    OBVIOUS
  <2>2. \A i \in 0 .. 4 : g[i] = IF i = 0 THEN 0 ELSE (u[i - 1] * rhs + g[i - 1]) \div Base
    <3> HIDE DEF g
    <3>1. \A i \in 0 .. 4 : i \in {0, 1, 2, 3, 4}
      OBVIOUS
    <3> QED
      BY <2>1, <3>1
  <2>3. Eq(g)
    <3>1. g = [i \in 0 .. 4 |-> g[i]]
      OBVIOUS
    <3> HIDE DEF g
    <3> QED
      BY <2>2, <3>1
  <2> HIDE DEF Eq, g
  <2> QED
    BY <2>3
<1> HIDE DEF c
<1>4. /\ c[0] = 0
      /\ c[1] = (u[0] * rhs + c[0]) \div Base
      /\ c[2] = (u[1] * rhs + c[1]) \div Base
      /\ c[3] = (u[2] * rhs + c[2]) \div Base
      /\ c[4] = (u[3] * rhs + c[3]) \div Base
  BY <1>3
<1>5. ASSUME NEW x \in Nat
      PROVE  /\ x % Base \in 0 .. Base - 1 /\ x \div Base \in Nat
             /\ x = (x % Base) + Base * (x \div Base)
  BY <1>1
<1> DEFINE r0 == (u[0] * rhs + c[0]) % Base
           r1 == (u[1] * rhs + c[1]) % Base
           r2 == (u[2] * rhs + c[2]) % Base
           r3 == (u[3] * rhs + c[3]) % Base
<1> HIDE DEF r0, r1, r2, r3
<1>6. /\ r0 \in 0 .. Base - 1 /\ c[1] \in Nat /\ u[0] * rhs + c[0] = r0 + Base * c[1]
  <2> DEFINE x == u[0] * rhs + c[0]
  <2>1. c[0] \in Nat
    BY <1>4
  <2>2. x \in Nat
    BY <1>1, <1>2, <2>1
  <2>3. r0 = x % Base /\ c[1] = x \div Base
    BY <1>4 DEF r0
  <2> HIDE DEF x
  <2>4. r0 \in 0 .. Base - 1 /\ c[1] \in Nat /\ x = r0 + Base * c[1]
    BY <1>5, <2>2, <2>3
  <2> QED
    BY <2>4 DEF x
<1>7. /\ r1 \in 0 .. Base - 1 /\ c[2] \in Nat /\ u[1] * rhs + c[1] = r1 + Base * c[2]
  <2> DEFINE x == u[1] * rhs + c[1]
  <2>1. c[1] \in Nat
    BY <1>6
  <2>2. x \in Nat
    BY <1>1, <1>2, <2>1
  <2>3. r1 = x % Base /\ c[2] = x \div Base
    BY <1>4 DEF r1
  <2> HIDE DEF x
  <2>4. r1 \in 0 .. Base - 1 /\ c[2] \in Nat /\ x = r1 + Base * c[2]
    BY <1>5, <2>2, <2>3
  <2> QED
    BY <2>4 DEF x
<1>8. /\ r2 \in 0 .. Base - 1 /\ c[3] \in Nat /\ u[2] * rhs + c[2] = r2 + Base * c[3]
  <2> DEFINE x == u[2] * rhs + c[2]
  <2>1. c[2] \in Nat
    BY <1>7
  <2>2. x \in Nat
    BY <1>1, <1>2, <2>1
  <2>3. r2 = x % Base /\ c[3] = x \div Base
    BY <1>4 DEF r2
  <2> HIDE DEF x
  <2>4. r2 \in 0 .. Base - 1 /\ c[3] \in Nat /\ x = r2 + Base * c[3]
    BY <1>5, <2>2, <2>3
  <2> QED
    BY <2>4 DEF x
<1>9. /\ r3 \in 0 .. Base - 1 /\ c[4] \in Nat /\ u[3] * rhs + c[3] = r3 + Base * c[4]
  <2> DEFINE x == u[3] * rhs + c[3]
  <2>1. c[3] \in Nat
    BY <1>8
  <2>2. x \in Nat
    BY <1>1, <1>2, <2>1
  <2>3. r3 = x % Base /\ c[4] = x \div Base
    BY <1>4 DEF r3
  <2> HIDE DEF x
  <2>4. r3 \in 0 .. Base - 1 /\ c[4] \in Nat /\ x = r3 + Base * c[4]
    BY <1>5, <2>2, <2>3
  <2> QED
    BY <2>4 DEF x
<1>10. r \in U256s /\ r[0] = r0 /\ r[1] = r1 /\ r[2] = r2 /\ r[3] = r3
  <2>1. \A i \in Limbs : i = 0 \/ i = 1 \/ i = 2 \/ i = 3
    BY DEF Limbs
  <2> QED
    BY <1>6, <1>7, <1>8, <1>9, <2>1 DEF U256s, Limbs, r0, r1, r2, r3
<1> HIDE DEF r
<1>11. Exact(u) * rhs = Exact(r) + Top * c[4]
  <2> DEFINE u2 == u[2] + Base * u[3]
             s2 == r[2] + Base * r[3]
             u1 == u[1] + Base * u2
             s1 == r[1] + Base * s2
             top2 == Base * Base
             top1 == Base * top2
  <2>1. /\ u[0] \in Int /\ u[1] \in Int /\ u[2] \in Int /\ u[3] \in Int
        /\ r[0] \in Int /\ r[1] \in Int /\ r[2] \in Int /\ r[3] \in Int
        /\ c[0] = 0 /\ c[1] \in Int /\ c[2] \in Int /\ c[3] \in Int /\ c[4] \in Int
        /\ Base \in Int /\ rhs \in Int
    BY <1>1, <1>2, <1>4, <1>6, <1>7, <1>8, <1>9, <1>10
  <2>2. /\ Carries(Base, u[0], rhs, c[0], r[0], c[1]) /\ Carries(Base, u[1], rhs, c[1], r[1], c[2])
        /\ Carries(Base, u[2], rhs, c[2], r[2], c[3]) /\ Carries(Base, u[3], rhs, c[3], r[3], c[4])
    BY <1>6, <1>7, <1>8, <1>9, <1>10 DEF Carries
  <2>3. Carries(top2, u2, rhs, c[2], s2, c[4])
    BY <2>1, <2>2, LimbTimes
  <2>4. u2 \in Int /\ s2 \in Int /\ top2 \in Int
    BY <2>1
  <2> HIDE DEF u2, s2, top2
  <2>5. Carries(top1, u1, rhs, c[1], s1, c[4])
    BY <2>1, <2>2, <2>3, <2>4, LimbTimes
  <2>6. u1 \in Int /\ s1 \in Int /\ top1 \in Int
    BY <2>1, <2>4
  <2> HIDE DEF u1, s1, top1
  <2>7. Carries(Base * top1, u[0] + Base * u1, rhs, c[0], r[0] + Base * s1, c[4])
    BY <2>1, <2>2, <2>5, <2>6, LimbTimes
  <2>8. /\ Exact(u) = u[0] + Base * u1 /\ Exact(r) = r[0] + Base * s1
        /\ Top = Base * top1
    BY DEF Exact, Top, u1, u2, s1, s2, top1, top2
  <2>9. (u[0] + Base * u1) * rhs \in Int
    BY <2>1, <2>6
  <2> QED
    BY <2>1, <2>7, <2>8, <2>9 DEF Carries
<1>12. CheckedMul(u, rhs) = IF c[4] # 0 THEN None ELSE r
  BY DEF CheckedMul, c, r
<1>13. Exact(r) \in Nat /\ Exact(u) \in Nat /\ Top \in Nat
  BY <1>1, <1>10, ExactType DEF Top
<1>14. CASE c[4] = 0
  BY <1>10, <1>11, <1>12, <1>13, <1>14, NoneAssumption
<1>15. CASE c[4] # 0
  <2>1. Top * c[4] >= Top
    BY <1>9, <1>13, <1>15
  <2>2. CheckedMul(u, rhs) = None /\ Exact(u) * rhs >= Top
    BY <1>9, <1>11, <1>12, <1>13, <1>15, <2>1
  <2> QED
    BY <2>2
<1> QED
  BY <1>14, <1>15

\* The powers of two at the boundaries of the limbs.
LEMMA Pow2Limbs ==
    /\ Pow2[0] = 1 /\ Pow2[LimbBits] = Base /\ Pow2[2 * LimbBits] = Base * Base
    /\ Pow2[3 * LimbBits] = Base * (Base * Base)
    /\ Pow2[4 * LimbBits] = Top
<1>1. LimbBits \in Nat /\ 2 * LimbBits \in Nat /\ 3 * LimbBits \in Nat
  BY U256Assumption
<1>2. 2 * LimbBits = LimbBits + LimbBits /\ 3 * LimbBits = LimbBits + 2 * LimbBits
      /\ 4 * LimbBits = LimbBits + 3 * LimbBits
  BY <1>1
<1>3. Pow2[LimbBits + LimbBits] = Base * Base
  BY <1>1, Pow2Sum DEF Base
<1>4. Pow2[LimbBits + 2 * LimbBits] = Base * (Base * Base)
  BY <1>1, <1>2, <1>3, Pow2Sum DEF Base
<1>5. Pow2[LimbBits + 3 * LimbBits] = Base * (Base * (Base * Base))
  BY <1>1, <1>2, <1>4, Pow2Sum DEF Base
<1> QED
  BY <1>2, <1>3, <1>4, <1>5, Pow2Facts DEF Base, Top

\* A limb times a power of two below Base: what stays and what moves on.
LEMMA LimbShift ==
    ASSUME NEW w \in 0 .. Base - 1, NEW bs \in 0 .. LimbBits - 1,
           NEW lo, lo = (w * Pow2[bs]) % Base,
           NEW hi, hi = IF bs = 0 THEN 0 ELSE w \div Pow2[LimbBits - bs]
    PROVE  /\ lo \in 0 .. Base - 1 /\ hi \in 0 .. Base - 1
           /\ w * Pow2[bs] = lo + Base * hi
           /\ Pow2[bs] \in Nat \ {0} /\ lo + Pow2[bs] <= Base /\ hi < Pow2[bs]
<1> DEFINE P == Pow2[bs]
           D == Pow2[LimbBits - bs]
<1>1. bs \in Nat /\ LimbBits - bs \in Nat /\ bs + (LimbBits - bs) = LimbBits
  BY U256Assumption
<1>2. P \in Nat \ {0} /\ D \in Nat \ {0}
  BY <1>1, Pow2Facts
<1>3. P * D = Base
  BY <1>1, Pow2Sum DEF Base
<1>4. Base \in Nat \ {0} /\ w \in Nat /\ w <= Base - 1
  BY BaseType
<1>5. CASE bs = 0
  <2>1. P = 1 /\ hi = 0 /\ w * P = w
    BY <1>4, <1>5, Pow2Facts
  <2>2. lo = w % Base
    BY <2>1
  <2>3. w % Base = w
    BY <1>4
  <2>4. lo = w /\ hi = 0
    BY <2>1, <2>2, <2>3
  <2>5. lo \in 0 .. Base - 1 /\ hi \in 0 .. Base - 1
    BY <1>4, <2>4
  <2>6. w * P = lo + Base * hi
    <3>1. Base * 0 = 0
      BY <1>4
    <3> QED
      BY <1>4, <2>1, <2>4, <3>1
  <2>7. lo + P <= Base /\ hi < P
    BY <1>4, <2>1, <2>4
  <2> QED
    BY <1>2, <2>5, <2>6, <2>7
<1>6. CASE bs # 0
  <2> HIDE DEF P, D
  <2> DEFINE q == w \div D
             r == w % D
  <2>1. q \in Nat /\ r \in 0 .. D - 1 /\ w = D * q + r
    BY <1>2, <1>4
  <2> HIDE DEF q, r
  <2>2. w * P = (D * q) * P + r * P
    BY <1>2, <2>1
  <2>3. (D * q) * P = (P * D) * q
    BY <1>2, <2>1
  <2>4. w * P = Base * q + r * P
    BY <1>3, <2>2, <2>3
  <2>5. r * P \in 0 .. Base - 1 /\ r * P + P <= Base
    <3>1. r + 1 <= D /\ r \in Nat
      BY <1>2, <2>1
    <3>2. (r + 1) * P <= D * P
      BY <1>2, <3>1
    <3>3. (r + 1) * P = r * P + P /\ D * P = P * D /\ r * P \in Nat
      BY <1>2, <3>1
    <3> QED
      BY <1>2, <1>3, <1>4, <3>2, <3>3
  <2>6. (Base * q + r * P) % Base = r * P
    <3> DEFINE z == r * P
    <3>1. z \in 0 .. Base - 1
      BY <2>5
    <3> HIDE DEF z
    <3>2. (Base * q + z) % Base = z
      <4>1. Base * q + z \in Nat
        BY <1>4, <2>1, <3>1
      <4> QED
        BY <1>4, <2>1, <3>1, <4>1
    <3> QED
      BY <3>2 DEF z
  <2>7. lo = r * P
    BY <2>4, <2>6 DEF P
  <2>8. hi = q
    BY <1>6 DEF q, D
  <2>9. q <= Base - 1
    <3>1. D * q >= q
      BY <1>2, <2>1
    <3> QED
      BY <1>2, <1>4, <2>1, <3>1
  <2>10. Base * q \in Nat
    BY <1>4, <2>1
  <2>11. q < P
    <3> SUFFICES ASSUME q >= P PROVE FALSE
      BY <1>2, <2>1
    <3>1. D * q >= D * P
      BY <1>2, <2>1
    <3>2. D * P = P * D /\ D * q \in Nat
      BY <1>2, <2>1
    <3> QED
      BY <1>3, <1>4, <2>1, <3>1, <3>2
  <2> QED
    BY <1>2, <2>1, <2>4, <2>5, <2>7, <2>8, <2>9, <2>10, <2>11 DEF P
<1> QED
  BY <1>5, <1>6

\* Four limbs, each below Base, and what overflows them.
Stacked(m0, m1, m2, m3, m4) == m0 + Base * (m1 + Base * (m2 + Base * (m3 + Base * m4)))

\* Each limb of u times P splits into what stays and what moves on.
Splits(u, P, lo, hi) ==
    \A i \in {0, 1, 2, 3} :
        /\ u[i] \in Nat /\ lo[i] \in Nat /\ hi[i] \in Nat
        /\ u[i] * P = lo[i] + Base * hi[i]

\* What a number shifted within its limbs is: the limbs' two halves, added up where
\* they land.
LEMMA ShiftWithin ==
    ASSUME NEW u, NEW P \in Nat, NEW lo, NEW hi, Splits(u, P, lo, hi)
    PROVE  Exact(u) * P
              = Stacked(lo[0], lo[1] + hi[0], lo[2] + hi[1], lo[3] + hi[2], hi[3])
<1> DEFINE u0 == u[0]
           u1 == u[1]
           u2 == u[2]
           u3 == u[3]
           l0 == lo[0]
           l1 == lo[1]
           l2 == lo[2]
           l3 == lo[3]
           h0 == hi[0]
           h1 == hi[1]
           h2 == hi[2]
           h3 == hi[3]
<1>0. /\ u0 \in Nat /\ u1 \in Nat /\ u2 \in Nat /\ u3 \in Nat
      /\ l0 \in Nat /\ l1 \in Nat /\ l2 \in Nat /\ l3 \in Nat
      /\ h0 \in Nat /\ h1 \in Nat /\ h2 \in Nat /\ h3 \in Nat
      /\ u0 * P = l0 + Base * h0 /\ u1 * P = l1 + Base * h1
      /\ u2 * P = l2 + Base * h2 /\ u3 * P = l3 + Base * h3
  BY DEF Splits
<1> HIDE DEF u0, u1, u2, u3, l0, l1, l2, l3, h0, h1, h2, h3
<1>1. Base \in Nat
  BY BaseType
<1> DEFINE x2 == u2 + Base * u3
           y2 == l2 + Base * (l3 + h2 + Base * h3)
           x1 == u1 + Base * x2
           y1 == l1 + Base * (l2 + h1 + Base * (l3 + h2 + Base * h3))
<1>2. x2 * P = y2
  <2>1. x2 * P = u2 * P + Base * (u3 * P)
    BY <1>0, <1>1
  <2>2. Base * (l3 + Base * h3) = Base * l3 + Base * (Base * h3)
    BY <1>0, <1>1
  <2>3. Base * (l3 + h2 + Base * h3) = Base * l3 + Base * h2 + Base * (Base * h3)
    BY <1>0, <1>1
  <2> QED
    BY <1>0, <1>1, <2>1, <2>2, <2>3
<1>3. x2 \in Nat
  BY <1>0, <1>1
<1> DEFINE t2 == l3 + h2 + Base * h3
<1>4. t2 \in Nat /\ y2 = l2 + Base * t2 /\ y1 = l1 + Base * (l2 + h1 + Base * t2)
  BY <1>0, <1>1
<1> HIDE DEF x2, y2, t2
<1>5. x1 * P = y1
  <2>1. x1 * P = u1 * P + Base * (x2 * P)
    BY <1>0, <1>1, <1>3
  <2>2. Base * (l2 + Base * t2) = Base * l2 + Base * (Base * t2)
    BY <1>0, <1>1, <1>4
  <2>3. Base * (l2 + h1 + Base * t2) = Base * l2 + Base * h1 + Base * (Base * t2)
    BY <1>0, <1>1, <1>4
  <2> HIDE DEF y1, x1
  <2>4. Base * (x2 * P) = Base * l2 + Base * (Base * t2)
    BY <1>0, <1>2, <1>4, <2>2
  <2>5. y1 = l1 + (Base * l2 + Base * h1 + Base * (Base * t2))
    BY <1>0, <1>4, <2>3
  <2>6. Base * l2 \in Nat /\ Base * h1 \in Nat /\ Base * (Base * t2) \in Nat
    BY <1>0, <1>1, <1>4
  <2> QED
    BY <1>0, <2>1, <2>4, <2>5, <2>6
<1>6. x1 \in Nat
  BY <1>0, <1>1, <1>3
<1> DEFINE t1 == l2 + h1 + Base * t2
<1>7. t1 \in Nat /\ y1 = l1 + Base * t1
  BY <1>0, <1>1, <1>4
<1> HIDE DEF x1, y1, t1
<1>8. (u0 + Base * x1) * P = l0 + Base * (l1 + h0 + Base * t1)
  <2>1. (u0 + Base * x1) * P = u0 * P + Base * (x1 * P)
    BY <1>0, <1>1, <1>6
  <2>2. Base * (l1 + Base * t1) = Base * l1 + Base * (Base * t1)
    BY <1>0, <1>1, <1>7
  <2>3. Base * (l1 + h0 + Base * t1) = Base * l1 + Base * h0 + Base * (Base * t1)
    BY <1>0, <1>1, <1>7
  <2> QED
    BY <1>0, <1>1, <1>5, <1>7, <2>1, <2>2, <2>3
<1> QED
  BY <1>8 DEF Stacked, Exact, x1, x2, t1, t2, u0, u1, u2, u3, l0, l1, l2, l3, h0, h1, h2, h3

\* Moved up by whole limbs: nothing is lost when the top limbs are empty, and
\* otherwise the result is beyond Top.
LEMMA WholeLimbs ==
    ASSUME NEW m0 \in Nat, NEW m1 \in Nat, NEW m2 \in Nat, NEW m3 \in Nat, NEW m4 \in Nat
    PROVE  LET m == Stacked(m0, m1, m2, m3, m4)
           IN  /\ m \in Nat
               /\ m4 # 0 => m >= Top
               /\ m3 # 0 \/ m4 # 0 => Base * m >= Top
               /\ m2 # 0 \/ m3 # 0 \/ m4 # 0 => (Base * Base) * m >= Top
               /\ m1 # 0 \/ m2 # 0 \/ m3 # 0 \/ m4 # 0 => (Base * (Base * Base)) * m >= Top
               /\ m4 = 0 => m = m0 + Base * (m1 + Base * (m2 + Base * m3))
               /\ m4 = 0 /\ m3 = 0 => m = m0 + Base * (m1 + Base * m2)
               /\ m4 = 0 /\ m3 = 0 /\ m2 = 0 => m = m0 + Base * m1
               /\ m4 = 0 /\ m3 = 0 /\ m2 = 0 /\ m1 = 0 => m = m0
<1>1. Base \in Nat \ {0} /\ Top \in Nat
  BY BaseType DEF Top
<1> DEFINE a3 == m3 + Base * m4
           a2 == m2 + Base * a3
           a1 == m1 + Base * a2
           m == m0 + Base * a1
<1>2. m = Stacked(m0, m1, m2, m3, m4)
  BY DEF Stacked
<1>3. a3 \in Nat /\ (m3 # 0 \/ m4 # 0 => a3 >= 1) /\ a3 >= Base * m4 /\ (m4 = 0 => a3 = m3)
  BY <1>1
<1> HIDE DEF a3
<1>4. a2 \in Nat /\ (m2 # 0 \/ a3 >= 1 => a2 >= 1) /\ a2 >= Base * a3 /\ (a3 = 0 => a2 = m2)
  BY <1>1, <1>3
<1> HIDE DEF a2
<1>5. a1 \in Nat /\ (m1 # 0 \/ a2 >= 1 => a1 >= 1) /\ a1 >= Base * a2 /\ (a2 = 0 => a1 = m1)
  BY <1>1, <1>4
<1> HIDE DEF a1
<1>6. m \in Nat /\ m >= Base * a1 /\ (a1 = 0 => m = m0)
  BY <1>1, <1>5
<1>7. m4 # 0 => m >= Top
  <2> SUFFICES ASSUME m4 # 0 PROVE m >= Top
    OBVIOUS
  <2>1. Base * m4 >= Base
    BY <1>1
  <2>2. a3 >= Base
    BY <1>1, <1>3, <2>1
  <2>3. Base * a3 >= Base * Base
    BY <1>1, <1>3, <2>2
  <2>4. a2 >= Base * Base /\ Base * Base \in Nat
    BY <1>1, <1>3, <1>4, <2>3
  <2>5. Base * a2 >= Base * (Base * Base) /\ Base * (Base * Base) \in Nat
    BY <1>1, <1>4, <2>4
  <2>6. a1 >= Base * (Base * Base)
    BY <1>1, <1>4, <1>5, <2>5
  <2>7. Base * a1 >= Base * (Base * (Base * Base))
    BY <1>1, <1>5, <2>5, <2>6
  <2> HIDE DEF m
  <2> QED
    BY <1>1, <1>5, <1>6, <2>7 DEF Top
<1>8. a3 >= 1 => Base * m >= Top
  <2> SUFFICES ASSUME a3 >= 1 PROVE Base * m >= Top
    OBVIOUS
  <2>1. Base * a3 >= Base
    BY <1>1, <1>3
  <2>2. a2 >= Base
    BY <1>1, <1>3, <1>4, <2>1
  <2>3. Base * a2 >= Base * Base /\ Base * Base \in Nat
    BY <1>1, <1>4, <2>2
  <2>4. a1 >= Base * Base
    BY <1>1, <1>4, <1>5, <2>3
  <2>5. Base * a1 >= Base * (Base * Base) /\ Base * (Base * Base) \in Nat
    BY <1>1, <1>5, <2>3, <2>4
  <2> HIDE DEF m
  <2>6. m >= Base * (Base * Base)
    BY <1>1, <1>5, <1>6, <2>5
  <2> QED
    BY <1>1, <1>6, <2>5, <2>6 DEF Top
<1>9. a2 >= 1 => (Base * Base) * m >= Top
  <2> SUFFICES ASSUME a2 >= 1 PROVE (Base * Base) * m >= Top
    OBVIOUS
  <2>1. Base * a2 >= Base
    BY <1>1, <1>4
  <2>2. a1 >= Base
    BY <1>1, <1>4, <1>5, <2>1
  <2>3. Base * a1 >= Base * Base /\ Base * Base \in Nat
    BY <1>1, <1>5, <2>2
  <2> HIDE DEF m
  <2>4. m >= Base * Base
    BY <1>1, <1>5, <1>6, <2>3
  <2>5. (Base * Base) * m >= (Base * Base) * (Base * Base)
    BY <1>6, <2>3, <2>4
  <2>6. (Base * Base) * (Base * Base) = Top
    BY <1>1 DEF Top
  <2> QED
    BY <2>5, <2>6
<1>10. a1 >= 1 => (Base * (Base * Base)) * m >= Top
  <2> SUFFICES ASSUME a1 >= 1 PROVE (Base * (Base * Base)) * m >= Top
    OBVIOUS
  <2>1. Base * a1 >= Base
    BY <1>1, <1>5
  <2> HIDE DEF m
  <2>2. m >= Base /\ Base * (Base * Base) \in Nat
    BY <1>1, <1>5, <1>6, <2>1
  <2>3. (Base * (Base * Base)) * m >= (Base * (Base * Base)) * Base
    BY <1>1, <1>6, <2>2
  <2>4. (Base * (Base * Base)) * Base = Top
    BY <1>1 DEF Top
  <2> QED
    BY <2>3, <2>4
<1>11. /\ m4 = 0 => m = m0 + Base * (m1 + Base * (m2 + Base * m3))
       /\ m4 = 0 /\ m3 = 0 => m = m0 + Base * (m1 + Base * m2)
       /\ m4 = 0 /\ m3 = 0 /\ m2 = 0 => m = m0 + Base * m1
       /\ m4 = 0 /\ m3 = 0 /\ m2 = 0 /\ m1 = 0 => m = m0
  <2>1. m4 = 0 => a3 = m3
    BY <1>3
  <2>2. m4 = 0 /\ m3 = 0 => a2 = m2
    BY <1>4, <2>1
  <2>3. m4 = 0 /\ m3 = 0 /\ m2 = 0 => a1 = m1
    BY <1>5, <2>2
  <2>4. m4 = 0 /\ m3 = 0 /\ m2 = 0 /\ m1 = 0 => m = m0
    <3> HIDE DEF m
    <3> QED
      BY <1>6, <2>3
  <2>5. m4 = 0 => m = m0 + Base * (m1 + Base * (m2 + Base * m3))
    BY <2>1 DEF a1, a2
  <2>6. m4 = 0 /\ m3 = 0 => m = m0 + Base * (m1 + Base * m2)
    BY <2>2 DEF a1
  <2> QED
    BY <2>3, <2>4, <2>5, <2>6
<1> HIDE DEF m
<1> QED
  BY <1>2, <1>3, <1>4, <1>5, <1>6, <1>7, <1>8, <1>9, <1>10, <1>11

\* checked_shl.
LEMMA CheckedShlExact ==
    ASSUME NEW u \in U256s, NEW bits \in Nat
    PROVE  LET out == CheckedShl(u, bits)
           IN  IF out = None THEN Exact(u) * Pow2[bits] >= Top
               ELSE out \in U256s /\ Exact(out) = Exact(u) * Pow2[bits]
<1> DEFINE out == CheckedShl(u, bits)
<1>1. Base \in Nat \ {0} /\ LimbBits \in Nat \ {0} /\ Top \in Nat \ {0}
  BY BaseType, U256Assumption DEF Top
<1>2. /\ u[0] \in 0 .. Base - 1 /\ u[1] \in 0 .. Base - 1
      /\ u[2] \in 0 .. Base - 1 /\ u[3] \in 0 .. Base - 1
  BY DEF U256s, Limbs
<1>3. Exact(u) \in Nat
  BY ExactType
<1>4. CASE bits >= 4 * LimbBits
  <2>1. out = IF u = Zero THEN Zero ELSE None
    BY <1>4 DEF CheckedShl
  <2>2. Pow2[bits] \in Nat \ {0}
    BY Pow2Facts
  <2>3. CASE u = Zero
    <3>1. u[0] = 0 /\ u[1] = 0 /\ u[2] = 0 /\ u[3] = 0
      BY <2>3 DEF Zero, Limbs
    <3>2. Exact(u) = 0
      BY <1>1, <3>1 DEF Exact
    <3> QED
      BY <2>1, <2>2, <2>3, <3>2, NoneAssumption
  <2>4. CASE u # Zero
    <3>1. Exact(u) >= 1
      <4>1. u[0] # 0 \/ u[1] # 0 \/ u[2] # 0 \/ u[3] # 0
        <5> SUFFICES ASSUME u[0] = 0, u[1] = 0, u[2] = 0, u[3] = 0 PROVE FALSE
          OBVIOUS
        <5>1. \A i \in Limbs : u[i] = 0
          BY DEF Limbs
        <5>2. u = [i \in Limbs |-> u[i]]
          BY DEF U256s
        <5> QED
          BY <2>4, <5>1, <5>2 DEF Zero
      <4> DEFINE x2 == u[2] + Base * u[3]
                 x1 == u[1] + Base * x2
      <4>2. ASSUME NEW a \in Nat, NEW x \in Nat, a # 0 \/ x # 0 PROVE a + Base * x # 0
        BY <1>1, <4>2
      <4>3. /\ u[0] \in Nat /\ u[1] \in Nat /\ u[2] \in Nat /\ u[3] \in Nat
            /\ x2 \in Nat /\ x1 \in Nat
        BY <1>1, <1>2
      <4>4. Exact(u) = u[0] + Base * x1
        BY DEF Exact
      <4>5. u[2] # 0 \/ u[3] # 0 => x2 # 0
        BY <4>2, <4>3
      <4> HIDE DEF x2
      <4>6. u[1] # 0 \/ x2 # 0 => x1 # 0
        BY <4>2, <4>3
      <4> HIDE DEF x1
      <4>7. u[0] # 0 \/ x1 # 0 => Exact(u) # 0
        BY <4>2, <4>3, <4>4
      <4> QED
        BY <1>3, <4>1, <4>5, <4>6, <4>7
    <3>2. bits - 4 * LimbBits \in Nat /\ 4 * LimbBits \in Nat
          /\ 4 * LimbBits + (bits - 4 * LimbBits) = bits
      BY <1>1, <1>4
    <3>3. Pow2[bits] = Top * Pow2[bits - 4 * LimbBits]
      BY <3>2, Pow2Sum, Pow2Limbs
    <3>4. Pow2[bits - 4 * LimbBits] \in Nat \ {0}
      BY <3>2, Pow2Facts
    <3>5. Pow2[bits] >= Top
      BY <1>1, <3>3, <3>4
    <3>6. Exact(u) * Pow2[bits] >= Pow2[bits] /\ Exact(u) * Pow2[bits] \in Nat
      BY <1>3, <2>2, <3>1
    <3> QED
      BY <1>1, <2>1, <2>2, <2>4, <3>5, <3>6
  <2> QED
    BY <2>3, <2>4
<1>5. CASE ~(bits >= 4 * LimbBits)
  <2> DEFINE ls == bits \div LimbBits
             bs == bits % LimbBits
             P == Pow2[bs]
             Lo(i) == (u[i] * Pow2[bs]) % Base
             Hi(i) == IF bs = 0 THEN 0 ELSE u[i] \div Pow2[LimbBits - bs]
             lost == \E i \in Limbs : u[i] # 0 /\ (i + ls > 3 \/ (Hi(i) # 0 /\ i + ls + 1 > 3))
             res == [d \in Limbs |-> (IF d >= ls THEN Lo(d - ls) ELSE 0)
                                   + (IF d >= ls + 1 THEN Hi(d - ls - 1) ELSE 0)]
  <2>1. ls \in Nat /\ bs \in 0 .. LimbBits - 1 /\ bits = LimbBits * ls + bs
    BY <1>1
  <2>2. ls \in {0, 1, 2, 3}
    <3> HIDE DEF ls, bs
    <3>1. ls < 4
      <4> SUFFICES ASSUME ls >= 4 PROVE FALSE
        BY <2>1
      <4>1. LimbBits * ls >= LimbBits * 4
        BY <1>1, <2>1
      <4> QED
        BY <1>1, <1>5, <2>1, <4>1
    <3> QED
      BY <2>1, <3>1
  <2>3. out = IF lost THEN None ELSE res
    BY <1>5 DEF CheckedShl
  <2>4. ASSUME NEW i \in {0, 1, 2, 3}
        PROVE  /\ Lo(i) \in Nat /\ Hi(i) \in Nat
               /\ u[i] * P = Lo(i) + Base * Hi(i)
               /\ P \in Nat \ {0} /\ Lo(i) + P <= Base /\ Hi(i) < P
               /\ u[i] # 0 <=> Lo(i) # 0 \/ Hi(i) # 0
    <3> HIDE DEF bs
    <3>1. u[i] \in 0 .. Base - 1
      BY <1>2
    <3>2. /\ Lo(i) \in 0 .. Base - 1 /\ Hi(i) \in 0 .. Base - 1
          /\ u[i] * P = Lo(i) + Base * Hi(i)
          /\ P \in Nat \ {0} /\ Lo(i) + P <= Base /\ Hi(i) < P
      BY <2>1, <3>1, LimbShift
    <3> HIDE DEF P, Lo, Hi
    <3>3. u[i] # 0 => u[i] * P # 0
      BY <3>1, <3>2
    <3>4. u[i] = 0 => Lo(i) + Base * Hi(i) = 0
      BY <3>2
    <3>5. Lo(i) = 0 /\ Hi(i) = 0 => Lo(i) + Base * Hi(i) = 0
      BY <1>1
    <3>6. Lo(i) + Base * Hi(i) = 0 => Lo(i) = 0 /\ Hi(i) = 0
      BY <1>1, <3>2
    <3> QED
      BY <3>2, <3>3, <3>4, <3>5, <3>6
  <2> DEFINE m0 == Lo(0)
             m1 == Lo(1) + Hi(0)
             m2 == Lo(2) + Hi(1)
             m3 == Lo(3) + Hi(2)
             m4 == Hi(3)
             m == Stacked(m0, m1, m2, m3, m4)
  <2>5. Exact(u) * Pow2[bits] = Pow2[LimbBits * ls] * m
    <3> HIDE DEF ls, bs, Lo, Hi
    <3>1. LimbBits * ls \in Nat /\ bs \in Nat
      BY <1>1, <2>1
    <3>2. Pow2[bits] = Pow2[LimbBits * ls] * P
      BY <2>1, <3>1, Pow2Sum
    <3>3. Pow2[LimbBits * ls] \in Nat /\ P \in Nat
      BY <3>1, Pow2Facts
    <3>4. Exact(u) * (Pow2[LimbBits * ls] * P) = Pow2[LimbBits * ls] * (Exact(u) * P)
      BY <1>3, <3>3
    <3>5. Exact(u) * P = m
      <4> DEFINE lo == [i \in Limbs |-> Lo(i)]
                 hi == [i \in Limbs |-> Hi(i)]
      <4>1. \A i \in {0, 1, 2, 3} : lo[i] = Lo(i) /\ hi[i] = Hi(i)
        BY DEF Limbs
      <4> HIDE DEF P, lo, hi
      <4>2. Splits(u, P, lo, hi)
        <5> HIDE DEF Lo, Hi
        <5>1. ASSUME NEW i \in {0, 1, 2, 3} PROVE u[i] \in Nat
          BY <1>2
        <5> QED
          BY <2>4, <4>1, <5>1 DEF Splits
      <4>3. Exact(u) * P = Stacked(lo[0], lo[1] + hi[0], lo[2] + hi[1], lo[3] + hi[2], hi[3])
        BY <3>3, <4>2, ShiftWithin
      <4> QED
        BY <4>1, <4>3
    <3> QED
      BY <3>2, <3>4, <3>5
  <2>6. /\ m0 \in 0 .. Base - 1 /\ m1 \in 0 .. Base - 1 /\ m2 \in 0 .. Base - 1
        /\ m3 \in 0 .. Base - 1 /\ m4 \in Nat
    <3> HIDE DEF Lo, Hi, P
    <3>1. /\ P \in Nat \ {0}
          /\ Lo(0) \in Nat /\ Lo(1) \in Nat /\ Lo(2) \in Nat /\ Lo(3) \in Nat
          /\ Hi(0) \in Nat /\ Hi(1) \in Nat /\ Hi(2) \in Nat /\ Hi(3) \in Nat
          /\ Lo(0) + P <= Base /\ Lo(1) + P <= Base /\ Lo(2) + P <= Base /\ Lo(3) + P <= Base
          /\ Hi(0) < P /\ Hi(1) < P /\ Hi(2) < P
      BY <2>4
    <3> QED
      BY <1>1, <3>1
  <2>7. /\ ls = 0 => (lost <=> m4 # 0)
        /\ ls = 1 => (lost <=> m3 # 0 \/ m4 # 0)
        /\ ls = 2 => (lost <=> m2 # 0 \/ m3 # 0 \/ m4 # 0)
        /\ ls = 3 => (lost <=> m1 # 0 \/ m2 # 0 \/ m3 # 0 \/ m4 # 0)
    <3> HIDE DEF Lo, Hi, P, ls
    <3>1. lost <=> \/ u[0] # 0 /\ (ls > 3 \/ (Hi(0) # 0 /\ ls + 1 > 3))
                   \/ u[1] # 0 /\ (1 + ls > 3 \/ (Hi(1) # 0 /\ 1 + ls + 1 > 3))
                   \/ u[2] # 0 /\ (2 + ls > 3 \/ (Hi(2) # 0 /\ 2 + ls + 1 > 3))
                   \/ u[3] # 0 /\ (3 + ls > 3 \/ (Hi(3) # 0 /\ 3 + ls + 1 > 3))
      BY <2>2 DEF Limbs
    <3> HIDE DEF lost
    <3>2. /\ m1 # 0 <=> Lo(1) # 0 \/ Hi(0) # 0
          /\ m2 # 0 <=> Lo(2) # 0 \/ Hi(1) # 0
          /\ m3 # 0 <=> Lo(3) # 0 \/ Hi(2) # 0
      <4>1. \A x, y \in Nat : x + y # 0 <=> x # 0 \/ y # 0
        OBVIOUS
      <4>2. /\ Lo(1) \in Nat /\ Lo(2) \in Nat /\ Lo(3) \in Nat
            /\ Hi(0) \in Nat /\ Hi(1) \in Nat /\ Hi(2) \in Nat
        BY <2>4
      <4> QED
        BY <4>1, <4>2
    <3> HIDE DEF m1, m2, m3
    <3> QED
      BY <2>4, <3>1, <3>2
  <2>8. /\ ls = 0 => res[0] = m0 /\ res[1] = m1 /\ res[2] = m2 /\ res[3] = m3
        /\ ls = 1 => res[0] = 0 /\ res[1] = m0 /\ res[2] = m1 /\ res[3] = m2
        /\ ls = 2 => res[0] = 0 /\ res[1] = 0 /\ res[2] = m0 /\ res[3] = m1
        /\ ls = 3 => res[0] = 0 /\ res[1] = 0 /\ res[2] = 0 /\ res[3] = m0
    <3> HIDE DEF Lo, Hi, ls
    <3>1. 0 \in Limbs /\ 1 \in Limbs /\ 2 \in Limbs /\ 3 \in Limbs
      BY DEF Limbs
    <3>2. /\ Lo(0) \in Nat /\ Lo(1) \in Nat /\ Lo(2) \in Nat /\ Lo(3) \in Nat
          /\ Hi(0) \in Nat /\ Hi(1) \in Nat /\ Hi(2) \in Nat /\ Hi(3) \in Nat
      BY <2>4
    <3> QED
      BY <2>2, <3>1, <3>2
  <2>9. res = [d \in Limbs |-> res[d]]
    OBVIOUS
  <2> HIDE DEF res, m0, m1, m2, m3, m4, lost, ls
  <2>10. res \in U256s
    <3> SUFFICES ASSUME NEW d \in Limbs PROVE res[d] \in 0 .. Base - 1
      BY <2>9 DEF U256s
    <3>1. d \in {0, 1, 2, 3}
      BY DEF Limbs
    <3> QED
      BY <1>1, <2>2, <2>6, <2>8, <3>1
  <2>11. m0 \in Nat /\ m1 \in Nat /\ m2 \in Nat /\ m3 \in Nat /\ m4 \in Nat
    BY <2>6
  <2>12. /\ m \in Nat
         /\ m4 # 0 => m >= Top
         /\ m3 # 0 \/ m4 # 0 => Base * m >= Top
         /\ m2 # 0 \/ m3 # 0 \/ m4 # 0 => (Base * Base) * m >= Top
         /\ m1 # 0 \/ m2 # 0 \/ m3 # 0 \/ m4 # 0 => (Base * (Base * Base)) * m >= Top
         /\ m4 = 0 => m = m0 + Base * (m1 + Base * (m2 + Base * m3))
         /\ m4 = 0 /\ m3 = 0 => m = m0 + Base * (m1 + Base * m2)
         /\ m4 = 0 /\ m3 = 0 /\ m2 = 0 => m = m0 + Base * m1
         /\ m4 = 0 /\ m3 = 0 /\ m2 = 0 /\ m1 = 0 => m = m0
    BY <2>11, WholeLimbs
  <2> HIDE DEF m
  <2> DEFINE shift == Pow2[LimbBits * ls]
  <2>13. /\ ls = 0 => shift = 1 /\ (lost => shift * m >= Top) /\ (~lost => Exact(res) = shift * m)
    <3> SUFFICES ASSUME ls = 0
                 PROVE  shift = 1 /\ (lost => shift * m >= Top) /\ (~lost => Exact(res) = shift * m)
      OBVIOUS
    <3>1. shift = 1 /\ shift * m = m
      BY <1>1, <2>12, Pow2Limbs
    <3>2. Exact(res) = m0 + Base * (m1 + Base * (m2 + Base * m3))
      BY <2>8 DEF Exact
    <3> QED
      BY <2>7, <2>12, <3>1, <3>2
  <2>14. ls = 1 => (lost => shift * m >= Top) /\ (~lost => Exact(res) = shift * m)
    <3> SUFFICES ASSUME ls = 1
                 PROVE  (lost => shift * m >= Top) /\ (~lost => Exact(res) = shift * m)
      OBVIOUS
    <3>1. shift = Base
      BY <1>1, Pow2Limbs
    <3>2. Exact(res) = 0 + Base * (m0 + Base * (m1 + Base * m2))
      BY <2>8 DEF Exact
    <3>3. Exact(res) = Base * (m0 + Base * (m1 + Base * m2))
      BY <1>1, <2>11, <3>2
    <3> HIDE DEF shift
    <3> QED
      BY <2>7, <2>12, <3>1, <3>3
  <2>15. ls = 2 => (lost => shift * m >= Top) /\ (~lost => Exact(res) = shift * m)
    <3> SUFFICES ASSUME ls = 2
                 PROVE  (lost => shift * m >= Top) /\ (~lost => Exact(res) = shift * m)
      OBVIOUS
    <3>1. LimbBits * ls = 2 * LimbBits
      BY <1>1
    <3>2. shift = Base * Base
      BY <3>1, Pow2Limbs
    <3>3. Exact(res) = 0 + Base * (0 + Base * (m0 + Base * m1))
      BY <2>8 DEF Exact
    <3>4. Exact(res) = (Base * Base) * (m0 + Base * m1)
      BY <1>1, <2>11, <3>3
    <3> HIDE DEF shift
    <3> QED
      BY <2>7, <2>12, <3>2, <3>4
  <2>16. ls = 3 => (lost => shift * m >= Top) /\ (~lost => Exact(res) = shift * m)
    <3> SUFFICES ASSUME ls = 3
                 PROVE  (lost => shift * m >= Top) /\ (~lost => Exact(res) = shift * m)
      OBVIOUS
    <3>1. LimbBits * ls = 3 * LimbBits
      BY <1>1
    <3>2. shift = Base * (Base * Base)
      BY <3>1, Pow2Limbs
    <3>3. Exact(res) = 0 + Base * (0 + Base * (0 + Base * m0))
      BY <2>8 DEF Exact
    <3>4. Exact(res) = (Base * (Base * Base)) * m0
      BY <1>1, <2>11, <3>3
    <3> HIDE DEF shift
    <3> QED
      BY <2>7, <2>12, <3>2, <3>4
  <2>17. (lost => shift * m >= Top) /\ (~lost => Exact(res) = shift * m)
    BY <2>2, <2>13, <2>14, <2>15, <2>16
  <2>18. out = None <=> lost
    BY <2>3, <2>10, NoneAssumption
  <2> HIDE DEF shift
  <2>19. Exact(u) * Pow2[bits] = shift * m
    BY <2>5 DEF shift
  <2> HIDE DEF out
  <2> QED
    BY <2>3, <2>10, <2>17, <2>18, <2>19 DEF out
<1> QED
  BY <1>4, <1>5

\* A number of one limb.
LEMMA FromLimbExact ==
    ASSUME NEW w \in 0 .. Base - 1
    PROVE  FromLimb(w) \in U256s /\ Exact(FromLimb(w)) = w
<1>1. Base \in Nat \ {0}
  BY BaseType
<1>2. /\ FromLimb(w) \in U256s /\ FromLimb(w)[0] = w /\ FromLimb(w)[1] = 0
      /\ FromLimb(w)[2] = 0 /\ FromLimb(w)[3] = 0
  BY <1>1 DEF FromLimb, Zero, U256s, Limbs
<1>3. Exact(FromLimb(w)) = w + Base * (0 + Base * (0 + Base * 0))
  BY <1>2 DEF Exact
<1> QED
  BY <1>1, <1>2, <1>3

\* set_compact stands for the exact target, and is None exactly on overflow.
LEMMA SetCompactExact ==
    ASSUME NEW bits \in Compacts
    PROVE  /\ ExactTarget(bits) \in Nat
           /\ IF SetCompact(bits.size, bits.word) = None THEN ExactTarget(bits) >= Top
              ELSE /\ SetCompact(bits.size, bits.word) \in U256s
                   /\ Exact(SetCompact(bits.size, bits.word)) = ExactTarget(bits)
<1>1. bits.size \in Nat /\ bits.word \in 0 .. Base - 1 /\ ByteBits \in Nat
  BY U256Assumption DEF Compacts
<1>2. Base \in Nat \ {0}
  BY BaseType
<1>3. CASE bits.size <= 3
  <2> DEFINE p == Pow2[ByteBits * (3 - bits.size)]
             v == bits.word \div p
  <2>1. ByteBits * (3 - bits.size) \in Nat
    BY <1>1, <1>3
  <2>2. p \in Nat \ {0}
    BY <2>1, Pow2Facts
  <2> HIDE DEF p
  <2>3. v \in 0 .. Base - 1
    BY <1>1, <1>2, <2>2
  <2>4. SetCompact(bits.size, bits.word) = FromLimb(v) /\ ExactTarget(bits) = v
    BY <1>3 DEF SetCompact, ExactTarget, p
  <2> HIDE DEF v
  <2>5. FromLimb(v) \in U256s /\ Exact(FromLimb(v)) = v
    BY <2>3, FromLimbExact
  <2> QED
    BY <2>3, <2>4, <2>5, NoneAssumption
<1>4. CASE ~(bits.size <= 3)
  <2> DEFINE k == ByteBits * (bits.size - 3)
  <2>1. k \in Nat
    BY <1>1, <1>4
  <2>2. /\ SetCompact(bits.size, bits.word) = CheckedShl(FromLimb(bits.word), k)
        /\ ExactTarget(bits) = bits.word * Pow2[k]
    BY <1>4 DEF SetCompact, ExactTarget
  <2> HIDE DEF k
  <2>3. Pow2[k] \in Nat
    BY <2>1, Pow2Facts
  <2>4. bits.word * Pow2[k] \in Nat
    BY <1>1, <2>3
  <2>5. FromLimb(bits.word) \in U256s /\ Exact(FromLimb(bits.word)) = bits.word
    BY <1>1, FromLimbExact
  <2> QED
    BY <2>1, <2>2, <2>4, <2>5, CheckedShlExact
<1> QED
  BY <1>3, <1>4

\* target_hit decides hash < target * (value * weight / divisor) exactly, with limbs,
\* carries, the compact target and the overflow exits, for every width of a limb.
THEOREM TargetHitExact ==
    ASSUME NEW hash \in U256s, NEW value \in Values, NEW bits \in Compacts,
           NEW age \in 0 .. MaxAgeWeight
    PROVE  TargetHit(hash, value, bits, age) <=> HitsExactly(hash, value, bits, age)
<1>1. CASE ~(value > 0)
  BY <1>1 DEF TargetHit, HitsExactly
<1>2. CASE value > 0
  <2> DEFINE weight == ((value * age) \div CoinUnit) \div AgeUnit
             base == SetCompact(bits.size, bits.word)
             target == CheckedMul(base, weight)
  <2>1. /\ MaxValue \in Nat /\ MaxAgeWeight \in Nat /\ CoinUnit \in Nat \ {0}
        /\ AgeUnit \in Nat \ {0} /\ MaxValue * MaxAgeWeight < Base * CoinUnit * AgeUnit
        /\ value \in Nat \ {0} /\ value <= MaxValue /\ age \in Nat /\ age <= MaxAgeWeight
        /\ Base \in Nat \ {0}
    BY <1>2, KernelAssumption, BaseType DEF Values
  <2>2. value * age \in Nat
    BY <2>1
  <2>3. /\ weight = (value * age) \div (CoinUnit * AgeUnit) /\ weight \in Nat
        /\ (CoinUnit * AgeUnit) * weight <= value * age
    BY <2>1, <2>2, DivTwice, ZenonT(30)
  <2> HIDE DEF weight
  <2>4. weight < Base
    <3>1. value * age <= MaxValue * MaxAgeWeight
      <4>1. value * age <= MaxValue * age
        BY <2>1
      <4>2. MaxValue * age <= MaxValue * MaxAgeWeight
        BY <2>1
      <4>3. value * age \in Nat /\ MaxValue * age \in Nat /\ MaxValue * MaxAgeWeight \in Nat
        BY <2>1
      <4> QED
        BY <4>1, <4>2, <4>3
    <3> DEFINE d == CoinUnit * AgeUnit
    <3>2. d \in Nat \ {0} /\ Base * CoinUnit * AgeUnit = d * Base
      BY <2>1
    <3>3. MaxValue * MaxAgeWeight < d * Base
      BY <2>1, <3>2
    <3> HIDE DEF d
    <3>4. d * weight <= value * age
      BY <2>3 DEF d
    <3>5. d * weight \in Nat /\ d * Base \in Nat /\ value * age \in Nat /\ MaxValue * MaxAgeWeight \in Nat
      BY <2>1, <2>2, <2>3, <3>2
    <3>6. d * weight < d * Base
      BY <3>1, <3>3, <3>4, <3>5
    <3> QED
      BY <2>1, <2>3, <3>2, <3>6
  <2>5. age = 0 => weight = 0
    <3> SUFFICES ASSUME age = 0 PROVE weight = 0
      OBVIOUS
    <3>1. value * age = 0
      BY <2>1
    <3>2. (CoinUnit * AgeUnit) \in Nat \ {0}
      BY <2>1
    <3> QED
      BY <2>3, <3>1, <3>2
  <2>6. TargetHit(hash, value, bits, age) <=>
           /\ weight > 0 /\ base # None
           /\ target = None \/ (target # None /\ Less(hash, target))
    BY <1>2, <2>1, <2>3, <2>4, <2>5 DEF TargetHit, weight
  <2>7. HitsExactly(hash, value, bits, age) <=>
           ExactTarget(bits) < Top /\ Exact(hash) < ExactTarget(bits) * weight
    BY <1>2, <2>3 DEF HitsExactly
  <2>8. ExactTarget(bits) \in Nat /\ Top \in Nat /\ Exact(hash) \in Nat /\ Exact(hash) < Top
    BY <2>1, SetCompactExact, ExactType DEF Top
  <2>9. CASE base = None
    BY <2>6, <2>7, <2>8, <2>9, SetCompactExact
  <2>10. CASE base # None
    <3>1. base \in U256s /\ Exact(base) = ExactTarget(bits)
      BY <2>10, SetCompactExact
    <3>2. ExactTarget(bits) < Top
      BY <3>1, ExactType
    <3>3. weight \in 0 .. Base - 1
      BY <2>1, <2>3, <2>4
    <3> HIDE DEF base
    <3>4. IF target = None THEN ExactTarget(bits) * weight >= Top
          ELSE target \in U256s /\ Exact(target) = ExactTarget(bits) * weight
      BY <3>1, <3>3, CheckedMulExact
    <3> HIDE DEF target
    <3>5. ExactTarget(bits) * weight \in Nat
      BY <2>3, <2>8
    <3>6. weight = 0 => ExactTarget(bits) * weight = 0
      BY <2>8
    <3>7. CASE target = None
      BY <2>3, <2>6, <2>7, <2>8, <2>10, <3>2, <3>4, <3>5, <3>6, <3>7
    <3>8. CASE target # None
      <4>1. Less(hash, target) <=> Exact(hash) < ExactTarget(bits) * weight
        BY <3>4, <3>8, LessExact
      <4> QED
        BY <2>3, <2>6, <2>7, <2>8, <2>10, <3>2, <3>5, <3>6, <3>8, <4>1
    <3> QED
      BY <3>7, <3>8
  <2> QED
    BY <2>9, <2>10
<1> QED
  BY <1>1, <1>2 DEF Values

-----------------------------------------------------------------------------
(* The search.                                                             *)

USE DEF Times

\* The fresh tip of a running tick is still that tick's tip when the coins
\* arrive.
TickInv == tick # NoTick => CheckTipFresh(tick.tip, tick.now)

EngineInv ==
    /\ TypeOK /\ TickInv /\ NotBackdated /\ NearParent /\ AgeNotWrapped
    /\ WinsVerify /\ EarliestOfAll

\* Times are u32.
LEMMA MaxTimeType == MaxTime \in Nat /\ Pow2[TimeBits] = MaxTime + 1
<1>1. Pow2[TimeBits] \in Nat \ {0}
  BY KernelAssumption, Pow2Facts
<1> QED
  BY <1>1 DEF MaxTime

\* The search never starts before the clock or at the parent's time, and never
\* runs past the window.
LEMMA WindowBounds ==
    ASSUME NEW tk \in [tip : Tips, now : Times], NEW t \in From(tk) .. To(tk)
    PROVE  /\ t \in Times /\ t >= tk.now
           /\ tk.tip.time < MaxTime => t > tk.tip.time
           /\ CheckTipFresh(tk.tip, tk.now) => t <= tk.tip.time + MaxTipAge + Ahead
<1>1. tk.now \in Times /\ tk.tip \in Tips
  OBVIOUS
<1>2. tk.tip.time \in Times
  BY <1>1, EngineAssumption
<1>3. Ahead \in Nat /\ MaxTipAge \in Nat \ {0} /\ MaxTime \in Nat
  BY EngineAssumption, MaxTimeType
<1> QED
  BY <1>1, <1>2, <1>3 DEF From, To, SatInc, SatSub, CheckTipFresh

\* Everything a search finds lies in its window, is about its tip and one of the
\* coins it was given.
LEMMA BestWinsShape ==
    ASSUME NEW tk, NEW coins, NEW w \in BestWins(tk, coins)
    PROVE  /\ w.tip = tk.tip /\ w.coin \in coins /\ w.t \in From(tk) .. To(tk)
           /\ CheckWin(tk.tip, w.coin, w.t)
           /\ w = [staker |-> Owner[w.coin], tip |-> tk.tip, coin |-> w.coin, t |-> w.t]
  BY DEF BestWins, CoinWins, SearchWindow, WinningTimes

\* At a time when the coin exists the wrapping age is the real one, and check_win
\* is the exact inequality.
LEMMA CheckWinExact ==
    ASSUME NEW tip \in Tips, NEW c \in Coins, NEW t \in Times, t >= Start[c]
    PROVE  CheckWin(tip, c, t) <=> Hits(tip, c, t)
<1> DEFINE age == t - Start[c]
           weight == IF age > MaxAgeWeight THEN MaxAgeWeight ELSE age
<1>1. MaxTime \in Nat /\ Pow2[TimeBits] = MaxTime + 1 /\ MaxAgeWeight \in Nat
  BY MaxTimeType, KernelAssumption
<1>2. /\ Start[c] \in Times /\ Value[c] \in Values
      /\ tip.bits \in Compacts /\ tip.modifier \in Modifiers
  BY EngineAssumption
<1>3. StakeHash[<<tip.modifier, c, t>>] \in U256s
  BY <1>2, EngineAssumption
<1>4. age \in 0 .. MaxTime /\ weight \in 0 .. MaxAgeWeight
  BY <1>1, <1>2
<1>5. age % Pow2[TimeBits] = age
  BY <1>1, <1>4
<1>6. CoinAgeWeight(t, Start[c]) = weight
  BY <1>1, <1>4, <1>5 DEF CoinAgeWeight
<1> HIDE DEF weight
<1>7. CheckWin(tip, c, t) <=>
         HitsExactly(StakeHash[<<tip.modifier, c, t>>], Value[c], tip.bits, weight)
  BY <1>2, <1>3, <1>4, <1>6, TargetHitExact DEF CheckWin
<1> QED
  BY <1>7 DEF Hits, weight

\* What a search with these coins has to announce to staker s.
AnnouncesEarliest(tk, coins, ws, s) ==
    LET mine == {c \in coins : Owner[c] = s}
        first == IF tk.now > tk.tip.time THEN tk.now ELSE tk.tip.time + 1
        hits == {t \in first .. first + Ahead :
                   t <= MaxTime /\ \E c \in mine : Hits(tk.tip, c, t)}
        told == {w \in ws : w.staker = s}
    IN  first <= MaxTime =>
            IF hits = {} THEN told = {}
            ELSE \E w \in told :
                    /\ told = {w}
                    /\ w.t \in hits /\ \A t \in hits : w.t <= t
                    /\ w.coin \in mine /\ Hits(tk.tip, w.coin, w.t)

\* search_wins tells each staker of its earliest win, and of none if it has none.
LEMMA SearchFindsEarliest ==
    ASSUME NEW tk \in [tip : Tips, now : Times], NEW coins \in SUBSET Coins,
           \A c \in coins : Eligible(c, tk.now),
           NEW ws, ws \subseteq BestWins(tk, coins), Winners(ws) = Winners(BestWins(tk, coins)),
           \A v, w \in ws : v.staker = w.staker => v = w,
           NEW s \in Stakers
    PROVE  AnnouncesEarliest(tk, coins, ws, s)
<1> DEFINE mine == {c \in coins : Owner[c] = s}
           first == IF tk.now > tk.tip.time THEN tk.now ELSE tk.tip.time + 1
           hits == {t \in first .. first + Ahead :
                      t <= MaxTime /\ \E c \in mine : Hits(tk.tip, c, t)}
           told == {w \in ws : w.staker = s}
<1> SUFFICES ASSUME first <= MaxTime
             PROVE  IF hits = {} THEN told = {}
                    ELSE \E w \in told :
                            /\ told = {w}
                            /\ w.t \in hits /\ \A t \in hits : w.t <= t
                            /\ w.coin \in mine /\ Hits(tk.tip, w.coin, w.t)
  BY DEF AnnouncesEarliest
<1>1. /\ tk.now \in Nat /\ tk.now <= MaxTime /\ tk.tip \in Tips
      /\ tk.tip.time \in Nat /\ tk.tip.time <= MaxTime
      /\ MaxTime \in Nat /\ Ahead \in Nat /\ MinAge \in Nat
  BY EngineAssumption, MaxTimeType
<1>2. From(tk) = first /\ first \in Nat /\ first >= tk.now
  BY <1>1 DEF From, SatInc
<1>3. \A t : t \in From(tk) .. To(tk) <=> t \in first .. first + Ahead /\ t <= MaxTime
  <2> HIDE DEF first
  <2>1. To(tk) = IF first + Ahead > MaxTime THEN MaxTime ELSE first + Ahead
    BY <1>2 DEF To, SatInc
  <2> QED
    BY <1>1, <1>2, <2>1
<1>4. ASSUME NEW c \in coins, NEW t \in From(tk) .. To(tk)
      PROVE  CheckWin(tk.tip, c, t) <=> Hits(tk.tip, c, t)
  <2>1. t \in Times /\ t >= tk.now
    <3> HIDE DEF first
    <3> QED
      BY <1>1, <1>2, <1>3
  <2>2. Start[c] \in Nat /\ SatSub(tk.now, Start[c]) >= MinAge
    BY EngineAssumption DEF Eligible
  <2>3. t >= Start[c]
    BY <1>1, <2>1, <2>2, EngineAssumption DEF SatSub
  <2> QED
    BY <1>1, <2>1, <2>3, CheckWinExact
<1>5. \A t : t \in hits <=> \E c \in mine : t \in WinningTimes(tk, c)
  <2> HIDE DEF first
  <2> QED
    BY <1>3, <1>4 DEF WinningTimes
<1>6. hits \subseteq Nat
  <2> HIDE DEF first
  <2> QED
    BY <1>1, <1>2
<1> HIDE DEF hits, first
<1>7. ASSUME NEW v \in CoinWins(tk, coins), v.staker = s
      PROVE  v.coin \in mine /\ v.t \in hits /\ Hits(tk.tip, v.coin, v.t)
  <2>1. PICK c \in coins : \E t \in SearchWindow(tk, c) :
                v = [staker |-> Owner[c], tip |-> tk.tip, coin |-> c, t |-> t]
    BY DEF CoinWins
  <2>2. c = v.coin /\ Owner[c] = s /\ v.t \in SearchWindow(tk, c)
    BY <1>7, <2>1
  <2>3. v.t \in WinningTimes(tk, c)
    BY <2>2 DEF SearchWindow
  <2>4. v.t \in From(tk) .. To(tk) /\ CheckWin(tk.tip, c, v.t)
    BY <2>3 DEF WinningTimes
  <2> QED
    BY <1>4, <1>5, <2>2, <2>3, <2>4
<1>8. BestWins(tk, coins) \subseteq CoinWins(tk, coins)
  BY DEF BestWins
<1>9. CASE hits = {}
  <2>1. told = {}
    BY <1>7, <1>8, <1>9
  <2> QED
    BY <1>9, <2>1
<1>10. CASE hits # {}
  <2>1. PICK m \in hits : \A t \in hits : m <= t
    BY <1>6, <1>10, LeastNat
  <2>2. PICK c \in mine : m \in WinningTimes(tk, c)
    BY <1>5
  <2>3. \A u \in WinningTimes(tk, c) : m <= u
    BY <1>5, <2>1
  <2> DEFINE w0 == [staker |-> Owner[c], tip |-> tk.tip, coin |-> c, t |-> m]
  <2>4. w0 \in CoinWins(tk, coins) /\ w0.staker = s /\ w0.t = m
    BY <2>2, <2>3 DEF CoinWins, SearchWindow
  <2> HIDE DEF w0
  <2>5. w0 \in BestWins(tk, coins)
    BY <1>7, <2>1, <2>4 DEF BestWins
  <2>6. s \in Winners(ws)
    BY <2>4, <2>5 DEF Winners
  <2>7. PICK w \in ws : w.staker = s
    BY <2>6 DEF Winners
  <2>8. told = {w}
    BY <2>7
  <2>9. w.coin \in mine /\ w.t \in hits /\ Hits(tk.tip, w.coin, w.t)
    BY <1>7, <1>8, <2>7
  <2>10. w.t <= m
    BY <2>4, <2>7 DEF BestWins
  <2>11. \A t \in hits : w.t <= t
    <3>1. m \in Nat /\ w.t \in Nat
      BY <1>6, <2>1, <2>9
    <3>2. \A t \in hits : t \in Nat /\ m <= t
      BY <1>6, <2>1
    <3> QED
      BY <2>10, <3>1, <3>2
  <2> HIDE DEF mine
  <2> QED
    BY <1>10, <2>8, <2>9, <2>11
<1> QED
  BY <1>9, <1>10

\* The invariant holds at first, before any tick.
LEMMA EngineInit == Init => EngineInv
  BY DEF Init, EngineInv, TypeOK, TickInv, NotBackdated, NearParent, AgeNotWrapped, WinsVerify,
         EarliestOfAll

\* Every step of the engine preserves the invariant.
LEMMA EngineNext == EngineInv /\ [Next]_vars => EngineInv'
<1> SUFFICES ASSUME EngineInv, [Next]_vars PROVE EngineInv'
  OBVIOUS
<1> USE DEF EngineInv
<1>1. CASE NewBlock
  BY <1>1 DEF NewBlock, TypeOK, TickInv, NotBackdated, NearParent, AgeNotWrapped, WinsVerify,
         EarliestOfAll
<1>2. ASSUME NEW now \in Times, TickTip(now) PROVE EngineInv'
  <2>1. TypeOK' /\ TickInv'
    BY <1>2, EngineAssumption DEF TickTip, StakingTip, TypeOK, TickInv
  <2>2. wins' = {}
    BY <1>2 DEF TickTip
  <2>3. search' = NoTick
    BY <1>2 DEF TickTip
  <2> QED
    BY <2>1, <2>2, <2>3 DEF NotBackdated, NearParent, AgeNotWrapped, WinsVerify, EarliestOfAll
<1>3. CASE TickSearch
  <2> DEFINE coins == {c \in unspent : Eligible(c, tick.now)}
  <2>1. tick \in [tip : Tips, now : Times] /\ coins \subseteq Coins
    BY <1>3 DEF TickSearch, TypeOK
  <2>2. CheckTipFresh(tick.tip, tick.now)
    BY <1>3 DEF TickSearch, TickInv
  <2>3. /\ search' = [tick |-> tick, coins |-> coins]
        /\ wins' \subseteq BestWins(tick, coins)
        /\ tick' = NoTick /\ UNCHANGED <<best, unspent>>
    BY <1>3 DEF TickSearch
  <2>4. \A w \in wins' : /\ w \in Wins /\ w.tip = tick.tip /\ w.coin \in coins
                         /\ w.t \in From(tick) .. To(tick)
    <3> SUFFICES ASSUME NEW w \in wins'
                 PROVE  /\ w \in Wins /\ w.tip = tick.tip /\ w.coin \in coins
                        /\ w.t \in From(tick) .. To(tick)
      OBVIOUS
    <3>1. w \in BestWins(tick, coins)
      BY <2>3
    <3> HIDE DEF coins
    <3>2. /\ w.tip = tick.tip /\ w.coin \in coins /\ w.t \in From(tick) .. To(tick)
          /\ w = [staker |-> Owner[w.coin], tip |-> tick.tip, coin |-> w.coin, t |-> w.t]
      BY <3>1, BestWinsShape
    <3>3. w.t \in Times
      BY <2>1, <3>2, WindowBounds
    <3>4. Owner[w.coin] \in Stakers /\ w.coin \in Coins /\ tick.tip \in Tips
      BY <2>1, <3>2, EngineAssumption
    <3> QED
      BY <3>2, <3>3, <3>4 DEF Wins
  <2>5. TypeOK' /\ TickInv'
    <3>1. search' \in [tick : [tip : Tips, now : Times], coins : SUBSET Coins]
      BY <2>1, <2>3
    <3> QED
      BY <2>3, <2>4, <3>1 DEF TypeOK, TickInv
  <2>6. NotBackdated'
    BY <2>1, <2>3, <2>4, WindowBounds DEF NotBackdated
  <2>7. NearParent'
    BY <2>1, <2>2, <2>4, WindowBounds DEF NearParent
  <2>8. AgeNotWrapped'
    <3> SUFFICES ASSUME NEW w \in wins' PROVE w.t >= Start[w.coin] + MinAge
      BY DEF AgeNotWrapped
    <3>1. w.coin \in Coins /\ SatSub(tick.now, Start[w.coin]) >= MinAge
      BY <2>1, <2>4 DEF Eligible
    <3>2. Start[w.coin] \in Times /\ MinAge \in Nat \ {0} /\ tick.now \in Times
      BY <2>1, <3>1, EngineAssumption
    <3>3. w.t >= tick.now /\ w.t \in Times
      BY <2>1, <2>4, WindowBounds
    <3> QED
      BY <3>1, <3>2, <3>3 DEF SatSub
  <2>9. WinsVerify'
    <3> SUFFICES ASSUME NEW w \in wins' PROVE CheckWin(w.tip, w.coin, w.t)
      BY DEF WinsVerify, VerifyWin
    <3>1. w \in BestWins(tick, coins)
      BY <2>3
    <3> HIDE DEF coins
    <3> QED
      BY <3>1, BestWinsShape
  <2>10. EarliestOfAll'
    <3>1. /\ Winners(wins') = Winners(BestWins(tick, coins))
          /\ \A v, w \in wins' : v.staker = w.staker => v = w
      BY <1>3 DEF TickSearch
    <3>2. coins \in SUBSET Coins /\ \A c \in coins : Eligible(c, tick.now)
      BY <2>1
    <3>3. search'.tick = tick /\ search'.coins = coins
      BY <2>3
    <3> HIDE DEF coins
    <3>4. \A s \in Stakers : AnnouncesEarliest(tick, coins, wins', s)
      BY <2>1, <2>3, <3>1, <3>2, SearchFindsEarliest
    <3> QED
      BY <3>3, <3>4 DEF EarliestOfAll, AnnouncesEarliest
  <2> QED
    BY <2>5, <2>6, <2>7, <2>8, <2>9, <2>10
<1>4. CASE TickFails
  BY <1>4 DEF TickFails, TypeOK, TickInv, NotBackdated, NearParent, AgeNotWrapped, WinsVerify,
         EarliestOfAll
<1>5. CASE UNCHANGED vars
  BY <1>5 DEF vars, TypeOK, TickInv, NotBackdated, NearParent, AgeNotWrapped, WinsVerify,
         EarliestOfAll
<1> QED
  BY <1>1, <1>2, <1>3, <1>4, <1>5 DEF Next

\* Every reading of clock, tip and coins, and every win, is well-typed.
THEOREM EngineTypeCorrect == Spec => []TypeOK
<1>1. EngineInv => TypeOK
  BY DEF EngineInv
<1> QED
  BY <1>1, EngineInit, EngineNext, PTL DEF Spec

\* Engine::search never announces a win in the past of the relay's clock or at
\* or before its parent's time, whatever both of them say.
THEOREM NotBackdatedHolds == Spec => []NotBackdated
<1>1. EngineInv => NotBackdated
  BY DEF EngineInv
<1> QED
  BY <1>1, EngineInit, EngineNext, PTL DEF Spec

\* With check_tip_fresh before it, the saturating window stays within the
\* tolerated age and the search-ahead of the parent, however wrong the clock.
THEOREM NearParentHolds == Spec => []NearParent
<1>1. EngineInv => NearParent
  BY DEF EngineInv
<1> QED
  BY <1>1, EngineInit, EngineNext, PTL DEF Spec

\* The age filter of eligible_coins_by_address and the start of the window
\* together keep the kernel's wrapped age out of every announcement.
THEOREM AgeNotWrappedHolds == Spec => []AgeNotWrapped
<1>1. EngineInv => AgeNotWrapped
  BY DEF EngineInv
<1> QED
  BY <1>1, EngineInit, EngineNext, PTL DEF Spec

\* The three together: clock, tip and the saturating, wrapping 32-bit arithmetic
\* between them never date an announced win wrongly.
THEOREM WinTimesSoundHolds == Spec => []WinTimesSound
<1>1. EngineInv => WinTimesSound
  BY DEF EngineInv, WinTimesSound
<1> QED
  BY <1>1, EngineInit, EngineNext, PTL DEF Spec

\* Every win the relay announces passes the phone's own check_win on the
\* ingredients it is sent, although the chain may have moved during the tick.
THEOREM WinsVerifyHolds == Spec => []WinsVerify
<1>1. EngineInv => WinsVerify
  BY DEF EngineInv
<1> QED
  BY <1>1, EngineInit, EngineNext, PTL DEF Spec

\* Engine::search loses no earnings: over all of a staker's coins it announces
\* the earliest second in the window at which the exact kernel inequality holds,
\* once, and announces nothing when there is none.  The 256-bit arithmetic, the
\* wrapping age and both minima (search_window, min_by_key) are in between.
THEOREM EarliestOfAllHolds == Spec => []EarliestOfAll
<1>1. EngineInv => EarliestOfAll
  BY DEF EngineInv
<1> QED
  BY <1>1, EngineInit, EngineNext, PTL DEF Spec

-----------------------------------------------------------------------------
(* One check on any hash.                                                  *)

\* The age with its wrap and its cap.
LEMMA AgeExact ==
    ASSUME NEW t \in Times, NEW start \in Times
    PROVE  /\ CoinAgeWeight(t, start) \in 0 .. MaxAgeWeight
           /\ CoinAgeWeight(t, start) =
                 LET elapsed == IF t >= start THEN t - start ELSE t - start + MaxTime + 1
                 IN  IF elapsed > MaxAgeWeight THEN MaxAgeWeight ELSE elapsed
<1> DEFINE elapsed == IF t >= start THEN t - start ELSE t - start + MaxTime + 1
           wrapped == (t - start) % Pow2[TimeBits]
<1>1. MaxTime \in Nat /\ Pow2[TimeBits] = MaxTime + 1 /\ MaxAgeWeight \in Nat
  BY MaxTimeType, KernelAssumption
<1>2. wrapped = elapsed /\ elapsed \in Nat
  BY <1>1
<1>3. CoinAgeWeight(t, start) = IF wrapped < MaxAgeWeight THEN wrapped ELSE MaxAgeWeight
  BY DEF CoinAgeWeight
<1> HIDE DEF wrapped, elapsed
<1>4. (IF wrapped < MaxAgeWeight THEN wrapped ELSE MaxAgeWeight)
         = (IF elapsed > MaxAgeWeight THEN MaxAgeWeight ELSE elapsed)
  BY <1>1, <1>2
<1> QED
  BY <1>1, <1>2, <1>3, <1>4 DEF elapsed

CheckInv == CheckTypeOK /\ TargetExact

LEMMA CheckInvInit == CheckInit => CheckInv
  BY DEF CheckInit, CheckInv, CheckTypeOK, TargetExact

LEMMA CheckInvNext == CheckInv /\ [CheckNext]_checkVars => CheckInv'
<1> SUFFICES ASSUME CheckInv, [CheckNext]_checkVars PROVE CheckInv'
  OBVIOUS
<1>1. ASSUME NEW value \in Values, NEW bits \in AskedBits, NEW t \in Times, NEW start \in Starts,
             Ask(value, bits, t, start)
      PROVE  CheckInv'
  <2> DEFINE age == CoinAgeWeight(t, start)
             hit == TargetHit(digest, value, bits, age)
  <2>1. digest \in U256s /\ bits \in Compacts /\ start \in Times
    BY WinCheckAssumption DEF CheckInv, CheckTypeOK
  <2>2. /\ digest' = digest
        /\ asked' = [value |-> value, bits |-> bits, t |-> t, start |-> start, hit |-> hit]
    BY <1>1 DEF Ask
  <2>3. age \in 0 .. MaxAgeWeight
    BY <2>1, AgeExact
  <2> HIDE DEF age
  <2>4. hit \in BOOLEAN
    BY DEF TargetHit
  <2>5. hit <=> HitsExactly(digest, value, bits, age)
    BY <2>1, <2>3, TargetHitExact
  <2> HIDE DEF hit
  <2>6. asked' \in Questions
    BY <2>2, <2>4 DEF Questions
  <2>7. /\ asked'.value = value /\ asked'.bits = bits /\ asked'.t = t /\ asked'.start = start
        /\ asked'.hit = hit
    BY <2>2
  <2>8. age = LET elapsed == IF t >= start THEN t - start ELSE t - start + MaxTime + 1
              IN  IF elapsed > MaxAgeWeight THEN MaxAgeWeight ELSE elapsed
    BY <2>1, AgeExact DEF age
  <2>9. TargetExact'
    BY <2>2, <2>5, <2>7, <2>8 DEF TargetExact
  <2> QED
    BY <2>1, <2>2, <2>6, <2>9 DEF CheckInv, CheckTypeOK
<1>2. CASE UNCHANGED checkVars
  BY <1>2 DEF checkVars, CheckInv, CheckTypeOK, TargetExact
<1> QED
  BY <1>1, <1>2 DEF CheckNext

\* check_win decides the kernel inequality over exact integers, and its shift and its
\* multiplication are exact, for every width, hash, coin, difficulty and time.
THEOREM KernelExactHolds == CheckSpec => []KernelExact
<1>1. CheckInv => KernelExact
  <2> SUFFICES ASSUME CheckInv PROVE KernelExact
    OBVIOUS
  <2>1. digest \in U256s
    BY DEF CheckInv, CheckTypeOK
  <2>2. ShlExact
    <3>1. \A k \in 0 .. 4 * LimbBits + 1 : k \in Nat
      BY U256Assumption
    <3> QED
      BY <2>1, <3>1, CheckedShlExact DEF ShlExact
  <2>3. MulExact
    BY <2>1, CheckedMulExact DEF MulExact
  <2> QED
    BY <2>2, <2>3 DEF CheckInv, KernelExact
<1> QED
  BY <1>1, CheckInvInit, CheckInvNext, PTL DEF CheckSpec
=============================================================================
