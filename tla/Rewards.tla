------------------------------ MODULE Rewards ------------------------------
(***************************************************************************)
(* The NFD award decision (lovenode-rewards/src/lib.rs): the diminishing   *)
(* chance, the roll and the gates in front of it.  Pure operators.         *)
(*                                                                         *)
(* The unit of time is one half-life, where 0.5^(elapsed/half_life) is     *)
(* exact; chances are in parts of Ppm.  Sha256 is the constant function    *)
(* Digest of what the code feeds it.                                       *)
(***************************************************************************)
EXTENDS Integers, FiniteSetsExt, Powers

CONSTANTS
    Ppm,           \* 1_000_000, scaled
    NoCap,         \* max_total_awards: None
    Keys,          \* what a roll is derived from: proof hashes and block hashes
    Heights,       \* the heights of the blocks that are offered
    Secrets,       \* the server secrets, and NoSecret
    NoSecret,
    Digest,        \* Digest[key, height, secret]: the roll
    ProgramStart   \* AwardState.program_start_time

ASSUME RewardsAssumption ==
    /\ Ppm \in Nat \ {0} /\ ProgramStart \in Nat
    /\ NoSecret \in Secrets /\ NoCap \notin Nat
    /\ Digest \in [Keys \X Heights \X Secrets -> Nat]

Sources == {"StakeProof", "BlockHash", "ServerSecret"}

\* DiminishingPolicy.  `decays`: half_life_days is finite and positive.
Policies == [initial : Nat, floor : Nat, decays : BOOLEAN, cap : Nat \cup {NoCap},
             min_stake : Nat, source : Sources, secret : Secrets]

\* divi_card_game: 25 % at launch, a floor of 1 in 64, no cap.
CardGame == [initial |-> Ppm \div 4, floor |-> Ppm \div 64, decays |-> TRUE, cap |-> NoCap,
             min_stake |-> 0, source |-> "StakeProof", secret |-> NoSecret]

Validate(p) == p.decays /\ p.initial <= Ppm /\ p.floor <= Ppm /\ p.floor <= p.initial

\* Mutant: the subtraction wraps instead of saturating.
Elapsed_Wraps(now) == (now - ProgramStart) % 8

Elapsed(now) == Max({0, now - ProgramStart})

\* initial * 0.5^n, rounded half away from zero.
Decayed(p, n) == IF p.decays THEN (2 * p.initial + Pow2[n]) \div Pow2[n + 1] ELSE p.initial

\* chance_ppm_at.
ChanceAt(p, now) == Min({Ppm, Max({p.floor, Decayed(p, Elapsed(now))})})

\* Mutant: every source rolls on the block hash.
Roll_OnHeader(p, win) == Digest[win.block_hash, win.height, NoSecret]

\* RollSource::roll.
Roll(p, win) ==
    Digest[IF p.source = "BlockHash" THEN win.block_hash ELSE win.proof_hash,
           win.height,
           IF p.source = "ServerSecret" THEN p.secret ELSE NoSecret]

\* Mutant: off by one at the cap.
BelowCap_OffByOne(p, total) == p.cap = NoCap \/ total <= p.cap

BelowCap(p, total) == p.cap = NoCap \/ total < p.cap

\* DiminishingPolicy::evaluate: is the win awarded when the caller's AwardState
\* says that `total` awards were made?
Evaluate(p, win, total) ==
    /\ BelowCap(p, total)
    /\ win.value >= p.min_stake
    /\ ChanceAt(p, win.time) # 0
    /\ Roll(p, win) % Ppm < ChanceAt(p, win.time)
=============================================================================
