-------------------------------- MODULE U256 --------------------------------
(***************************************************************************)
(* The 256-bit integer of lovenode-core/src/u256.rs: four limbs, least     *)
(* significant first, with the operations the stake target needs.  A limb  *)
(* has LimbBits bits instead of 64 and a compact target's byte ByteBits    *)
(* instead of 8, so that the exact value of a number fits TLC's integers.  *)
(***************************************************************************)
EXTENDS Powers

CONSTANTS
    LimbBits,   \* bits of a limb
    ByteBits,   \* bits of a byte of the compact form
    None        \* Option::None

ASSUME U256Assumption == LimbBits \in Nat \ {0} /\ ByteBits \in Nat \ {0}

Base == Pow2[LimbBits]
Limbs == 0 .. 3
U256s == [Limbs -> 0 .. Base - 1]

ASSUME NoneAssumption == None \notin U256s

Zero == [i \in Limbs |-> 0]
FromLimb(v) == [Zero EXCEPT ![0] = v]

\* checked_shl: each limb lands in two neighbours; a set bit beyond limb 3 is
\* an overflow.
CheckedShl(u, bits) ==
    LET ls == bits \div LimbBits
        bs == bits % LimbBits
        Lo(i) == (u[i] * Pow2[bs]) % Base
        Hi(i) == IF bs = 0 THEN 0 ELSE u[i] \div Pow2[LimbBits - bs]
    IN  IF bits >= 4 * LimbBits
        THEN IF u = Zero THEN Zero ELSE None
        ELSE IF \E i \in Limbs : u[i] # 0 /\ (i + ls > 3 \/ (Hi(i) # 0 /\ i + ls + 1 > 3))
        THEN None
        ELSE [d \in Limbs |-> (IF d >= ls THEN Lo(d - ls) ELSE 0)
                            + (IF d >= ls + 1 THEN Hi(d - ls - 1) ELSE 0)]

\* Mutant: the carry between limbs is one bit.
CheckedMul_OneBitCarry(u, rhs) ==
    LET carry[i \in 0 .. 4] ==
            IF i = 0 THEN 0
            ELSE IF u[i - 1] * rhs + carry[i - 1] >= Base THEN 1 ELSE 0
    IN  IF carry[4] # 0 THEN None
        ELSE [i \in Limbs |-> (u[i] * rhs + carry[i]) % Base]

\* checked_mul_u64: limb by limb with a carry; a carry out of limb 3 overflows.
CheckedMul(u, rhs) ==
    LET carry[i \in 0 .. 4] ==
            IF i = 0 THEN 0 ELSE (u[i - 1] * rhs + carry[i - 1]) \div Base
    IN  IF carry[4] # 0 THEN None
        ELSE [i \in Limbs |-> (u[i] * rhs + carry[i]) % Base]

\* set_compact of an nBits given as its size byte and its three-byte mantissa
\* without the sign bit.
SetCompact(size, word) ==
    IF size <= 3 THEN FromLimb(word \div Pow2[ByteBits * (3 - size)])
                 ELSE CheckedShl(FromLimb(word), ByteBits * (size - 3))

\* Ord::cmp: the most significant limb that differs decides.
Less(u, v) ==
    \E i \in Limbs : u[i] < v[i] /\ \A j \in Limbs : j > i => u[j] = v[j]

\* The number that four limbs stand for.
Exact(u) == u[0] + Base * (u[1] + Base * (u[2] + Base * u[3]))
Top == Base * (Base * (Base * Base))
=============================================================================
