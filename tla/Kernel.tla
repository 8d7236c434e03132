------------------------------- MODULE Kernel -------------------------------
(***************************************************************************)
(* The proof-of-stake win check of lovenode-core/src/kernel.rs.  Times are *)
(* unsigned numbers of TimeBits bits (32 in the code), amounts signed ones *)
(* whose largest is MaxValue.  The proof hash, a double SHA-256, is any    *)
(* function of the stake modifier, the coin (its outpoint and start time)  *)
(* and the timestamp.                                                      *)
(***************************************************************************)
EXTENDS U256

CONSTANTS
    TimeBits,      \* bits of a unix time
    MaxAgeWeight,  \* MAX_COIN_AGE_WEIGHT
    CoinUnit,      \* COIN
    AgeUnit,       \* the divisor 400
    MaxValue       \* i64::MAX

MaxTime == Pow2[TimeBits] - 1
Times == 0 .. MaxTime
Values == -(MaxValue + 1) .. MaxValue

\* No amount and age make a weight that does not fit a limb.
ASSUME KernelAssumption ==
    /\ TimeBits \in Nat /\ MaxAgeWeight \in Nat /\ MaxValue \in Nat
    /\ CoinUnit \in Nat \ {0} /\ AgeUnit \in Nat \ {0}
    /\ MaxValue * MaxAgeWeight < Base * CoinUnit * AgeUnit

\* coin_age_weight: u32 wrapping subtraction, then the cap.
CoinAgeWeight(t, start) ==
    LET elapsed == (t - start) % Pow2[TimeBits]
    IN  IF elapsed < MaxAgeWeight THEN elapsed ELSE MaxAgeWeight

\* An nBits value: its exponent byte and its mantissa without the sign bit.
Compacts == [size : Nat, word : 0 .. Base - 1]

\* target_hit: the hash is below the coin's weighted target.  An exponent that
\* overflows is a target of zero; a product that overflows is above every hash.
TargetHit(hash, value, bits, age) ==
    LET weight == ((value * age) \div CoinUnit) \div AgeUnit
        base == SetCompact(bits.size, bits.word)
    IN  /\ value > 0 /\ age > 0 /\ weight > 0
        /\ \/ weight >= Base
           \/ /\ weight < Base
              /\ base # None
              /\ LET target == CheckedMul(base, weight)
                 IN  target = None \/ (target # None /\ Less(hash, target))

-----------------------------------------------------------------------------
(* The reference: the same check on exact integers.                        *)

ExactTarget(bits) ==
    IF bits.size <= 3 THEN bits.word \div Pow2[ByteBits * (3 - bits.size)]
                      ELSE bits.word * Pow2[ByteBits * (bits.size - 3)]

HitsExactly(hash, value, bits, age) ==
    /\ value > 0
    /\ ExactTarget(bits) < Top
    /\ Exact(hash) < ExactTarget(bits) * ((value * age) \div (CoinUnit * AgeUnit))
=============================================================================
