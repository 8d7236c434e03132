-------------------------------- MODULE Send --------------------------------
(***************************************************************************)
(* build_signed_send (lovenode-phone/src/send.rs): coin selection, fee,    *)
(* change and the safety checks of a payment built on the phone.           *)
(*                                                                         *)
(* A coin is a pair: `hint`, the value_sats the relay reported, and        *)
(* `true`, what FundingValues::true_value returns for it -- the value its  *)
(* funding transaction really commits to, or Unverified when the relay     *)
(* serves no transaction with that id.  A selection is the set of the      *)
(* coins' positions.  Amounts and sizes are scaled; the order of the       *)
(* checks and every rounding boundary is the code's.                       *)
(***************************************************************************)
EXTENDS Integers, FiniteSets, Functions

CONSTANTS
    MaxCoins,      \* bound: spendable coins of the wallet
    Hints,         \* values a relay may report
    TrueValues,    \* values a coin may have
    Amounts,       \* amounts a user may ask for
    BaseSize, InputSize, OutputSize,   \* est_fee's sizes
    FeeRate,       \* RELAY_SATS_PER_BYTE
    FastMultiple,  \* FAST_FEE_MULTIPLE
    FeeCap,        \* FEE_CAP_SATS
    Dust,          \* DUST_SATS
    I64Max,        \* i64::MAX, scaled
    Unverified     \* true_value returned an error

ASSUME SendAssumption ==
    /\ {MaxCoins, BaseSize, InputSize, OutputSize, FeeRate, FastMultiple,
        FeeCap, Dust, I64Max} \subseteq Nat
    /\ Dust > 0
    /\ Hints \cup Amounts \subseteq -(I64Max + 1) .. I64Max
    /\ TrueValues \subseteq 0 .. I64Max
    /\ Unverified \notin Int

Kinds == {"Normal", "Fast"}
CoinSet == [hint : Hints, true : TrueValues \cup {Unverified}]

\* What the relay says of each coin, and what the chain does.
Hint(coins) == [i \in DOMAIN coins |-> coins[i].hint]
Worth(coins) ==
    [i \in DOMAIN coins |-> IF coins[i].true = Unverified THEN 0 ELSE coins[i].true]

\* The coins of a wallet are part of the money supply, which an i64 can count.
Wallets ==
    {coins \in UNION {[1 .. n -> CoinSet] : n \in 0 .. MaxCoins} :
        SumFunctionOnSet(Worth(coins), DOMAIN coins) < I64Max}

Requests == [coins : Wallets, amount : Amounts, kind : Kinds]

VARIABLES request, result

vars == <<request, result>>

-----------------------------------------------------------------------------
\* i64::saturating_add of non-negative amounts.
SatAdd(a, b) == IF a + b > I64Max THEN I64Max ELSE a + b

\* The sum of an iterator over i64, in a build that does not check overflow.
Wrapped(x) == ((x + I64Max + 1) % (2 * (I64Max + 1))) - (I64Max + 1)

FeeMultiple(kind) == IF kind = "Fast" THEN FastMultiple ELSE 1
NOut(kind) == IF kind = "Fast" THEN 3 ELSE 2
EstFee(kind, inputs) ==
    (BaseSize + inputs * InputSize + NOut(kind) * OutputSize) * FeeRate * FeeMultiple(kind)

Need(r, inputs) == SatAdd(r.amount, EstFee(r.kind, inputs))

SumHints(r, S) == Wrapped(SumFunctionOnSet(Hint(r.coins), S))

Covers(r, S) == SumHints(r, S) >= Need(r, Cardinality(S))

\* The coins that the relay claims to have value.
Claimed(r) == {i \in DOMAIN r.coins : r.coins[i].hint > 0}

\* Mutant: from the smallest up to coin i.
Down_Ascending(r, i) ==
    {j \in Claimed(r) :
        \/ r.coins[j].hint < r.coins[i].hint
        \/ r.coins[j].hint = r.coins[i].hint /\ j <= i}

\* `sorted.iter().rev()` from the largest claim down to coin i.  sort_by_key keeps
\* coins with the same claim in their order.
Down(r, i) ==
    {j \in Claimed(r) :
        \/ r.coins[j].hint > r.coins[i].hint
        \/ r.coins[j].hint = r.coins[i].hint /\ j >= i}

\* The smallest single coin that covers the send, else from the largest down to the
\* first one with which the amount and the fee are covered, else everything.
Select(r) ==
    LET single == {i \in Claimed(r) : Covers(r, {i})}
        enough == {i \in Claimed(r) : Covers(r, Down(r, i))}
    IN  IF single # {} THEN {CHOOSE i \in single : \A j \in single : j \in Down(r, i)}
        ELSE IF enough # {} THEN Down(r, CHOOSE i \in enough : \A j \in enough : i \in Down(r, j))
        ELSE Claimed(r)

\* Mutant: the money math uses the relay's figures.
TotalIn_Hints(r, S) == SumHints(r, S)

\* What the selected coins are worth by their funding transactions: saturating
\* additions of non-negative amounts give the exact sum, cut at i64::MAX.
TotalIn(r, S) == SatAdd(SumFunctionOnSet(Worth(r.coins), S), 0)

Refused(why) == [ok |-> FALSE, why |-> why]

\* Change below the dust limit is left in the fee.
Change(total, r, fee) ==
    IF total - r.amount - fee >= Dust THEN total - r.amount - fee ELSE 0

\* `fault`: dest_script or change_script rejects the address, or a txid does not
\* parse or a key is not found for one of the inputs.
Faults == {"none", "address", "signing"}

BuildSignedSend(r, fault) ==
    LET selected == Select(r)
        total    == TotalIn(r, selected)
        fee      == EstFee(r.kind, Cardinality(selected))
        change   == Change(total, r, fee)
        realFee  == total - r.amount - change
    IN  IF r.amount <= 0 THEN Refused("amount")
        ELSE IF fault = "address" THEN Refused("address")
        ELSE IF \E i \in selected : r.coins[i].true = Unverified THEN Refused("unverified")
        ELSE IF total < SatAdd(r.amount, fee) THEN Refused("balance")
        ELSE IF fee > FeeCap THEN Refused("cap")
        ELSE IF fault = "signing" THEN Refused("signing")
        ELSE IF realFee < 0 THEN Refused("outputs")
        ELSE IF realFee > FeeCap THEN Refused("burn")
        ELSE [ok |-> TRUE, coins |-> selected, change |-> change, fee |-> realFee]

-----------------------------------------------------------------------------
Init == request \in Requests /\ result = Refused("none")

Build ==
    /\ result = Refused("none")
    /\ \E fault \in Faults : result' = BuildSignedSend(request, fault)
    /\ UNCHANGED request

Next == Build

Spec == Init /\ [][Next]_vars

-----------------------------------------------------------------------------
\* A built payment burns nothing, whatever values the relay reported: its inputs are
\* verified and are really worth the amount, the change and a fee of at least the
\* estimate and less than one dust limit above it, and never over the cap
\* (send.rs, "the trait is required, not optional").
NothingBurned ==
    result.ok =>
        LET in  == SumFunctionOnSet(Worth(request.coins), result.coins)
            fee == in - request.amount - result.change
            est == EstFee(request.kind, Cardinality(result.coins))
        IN  /\ \A i \in result.coins : request.coins[i].true # Unverified
            /\ result.fee = fee
            /\ fee \in est .. est + Dust - 1
            /\ fee <= FeeCap
            /\ result.change = 0 \/ result.change >= Dust

\* With true figures, "not enough spendable balance" means what it says: no
\* choice of coins pays the amount and the fee for that many inputs.  The greedy
\* selection never misses a payment that could be made.
RefusedOnlyWhenShort ==
    (result = Refused("balance") /\ Hint(request.coins) = Worth(request.coins)) =>
        \A pick \in SUBSET DOMAIN request.coins :
            SumFunctionOnSet(Worth(request.coins), pick)
                < request.amount + EstFee(request.kind, Cardinality(pick))

\* The last check of build_signed_send, "outputs exceed inputs (internal
\* error)", is never the one that stops a payment: the earlier ones imply it.
NoInternalError == result # Refused("outputs")

\* build_signed_send refuses for true reasons: a payment that some choice of coins
\* covers is not called too large, and no request ends in the internal error.
RefusalsTrue == RefusedOnlyWhenShort /\ NoInternalError
=============================================================================
