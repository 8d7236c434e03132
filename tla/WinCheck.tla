------------------------------ MODULE WinCheck ------------------------------
(***************************************************************************)
(* One kernel check (check_win of lovenode-core/src/kernel.rs) on any      *)
(* proof hash: the hash comes first, the coin, the difficulty and the time *)
(* it is checked for afterwards, so that every hash meets every target.    *)
(***************************************************************************)
EXTENDS Kernel

CONSTANTS
    AskedBits,   \* the difficulties asked about
    Starts,      \* the start times of the coins asked about
    Unasked

Questions == [value : Values, bits : AskedBits, t : Times, start : Starts, hit : BOOLEAN]

ASSUME WinCheckAssumption ==
    AskedBits \subseteq Compacts /\ Starts \subseteq Times /\ Unasked \notin Questions

VARIABLES
    digest,   \* the proof hash
    asked     \* the check it was put to, with the verdict

checkVars == <<digest, asked>>

CheckTypeOK == digest \in U256s /\ asked \in Questions \cup {Unasked}

CheckInit == digest \in U256s /\ asked = Unasked

\* check_win: the weight of the coin's age, then target_hit.
Ask(value, bits, t, start) ==
    /\ asked = Unasked
    /\ asked' = [value |-> value, bits |-> bits, t |-> t, start |-> start,
                 hit |-> TargetHit(digest, value, bits, CoinAgeWeight(t, start))]
    /\ UNCHANGED digest

CheckNext ==
    \E value \in Values, bits \in AskedBits, t \in Times, start \in Starts :
        Ask(value, bits, t, start)

CheckSpec == CheckInit /\ [][CheckNext]_checkVars

-----------------------------------------------------------------------------

\* The limb arithmetic of target_hit decides exactly hash < target * weight, for
\* the age as an unsigned 32-bit difference: no carry, shift or rounding turns
\* a lost kernel into a win or a win into a loss.
TargetExact ==
    asked # Unasked =>
        LET elapsed == IF asked.t >= asked.start THEN asked.t - asked.start
                       ELSE asked.t - asked.start + MaxTime + 1
            age == IF elapsed > MaxAgeWeight THEN MaxAgeWeight ELSE elapsed
        IN  asked.hit <=> HitsExactly(digest, asked.value, asked.bits, age)

\* The shift multiplies by a power of two, and reports an overflow exactly when
\* the product does not fit (u256.rs checked_shl, "None if any set bit would be
\* shifted out").
ShlExact ==
    asked = Unasked =>
        \A k \in 0 .. 4 * LimbBits + 1 :
            LET out == CheckedShl(digest, k)
            IN  IF out = None THEN Exact(digest) * Pow2[k] >= Top
                              ELSE out \in U256s /\ Exact(out) = Exact(digest) * Pow2[k]

\* The multiplication is exact, and reports an overflow exactly when the product
\* does not fit: an overflow is taken for "every hash wins".
MulExact ==
    asked = Unasked =>
        \A k \in 0 .. Base - 1 :
            LET out == CheckedMul(digest, k)
            IN  IF out = None THEN Exact(digest) * k >= Top
                              ELSE out \in U256s /\ Exact(out) = Exact(digest) * k

\* check_win: the verdict and the two operations it is built from are exact.
KernelExact == TargetExact /\ ShlExact /\ MulExact
=============================================================================
