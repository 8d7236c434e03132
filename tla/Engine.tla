------------------------------- MODULE Engine -------------------------------
(***************************************************************************)
(* The relay's search for wins: what tick (lovenode-relay/src/server.rs)   *)
(* does with time.  It reads the clock, then the tip (chain.rs), refuses a *)
(* stale one (session.rs), then reads the coins of the registered          *)
(* addresses, and searches them (engine.rs).  The chain moves between the  *)
(* two readings, and neither clock is right: the relay's may read anything *)
(* and the tip carries the time its producer chose.  Routing a win to its  *)
(* device is module RelayServer's; here a staker is a set of coins.        *)
(***************************************************************************)
EXTENDS Kernel

CONSTANTS
    Coins,        \* outpoints
    Value, Start, \* the amount and first confirmation time of each coin
    Stakers, Owner,
    Modifiers, StakeHash,   \* <<modifier, coin, time>> to the proof hash
    Tips,         \* the StakingTips the node may report
    Ahead,        \* search_ahead_secs
    MaxTipAge,    \* max_tip_age_secs
    MinAge,       \* MIN_COIN_AGE_SECS
    NoTick

ASSUME EngineAssumption ==
    /\ Ahead \in Nat /\ MaxTipAge \in Nat \ {0} /\ MinAge \in Nat \ {0}
    /\ Value \in [Coins -> Values] /\ Start \in [Coins -> Times]
    /\ Owner \in [Coins -> Stakers]
    /\ StakeHash \in [Modifiers \X Coins \X Times -> U256s]
    /\ Tips \subseteq [height : Nat, time : Times, bits : Compacts, modifier : Modifiers]
    /\ NoTick \notin [tip : Tips, now : Times]

\* WinNotice: bits and modifier are those of its tip.
Wins == [staker : Stakers, tip : Tips, coin : Coins, t : Times]

VARIABLES
    best,     \* the node's tip
    unspent,  \* the coins listunspent returns at MIN_CONFIRMATIONS
    tick,     \* the running tick: its clock reading and the tip it read
    search,   \* the last search: the tick and the coins it was given
    wins      \* what it found

vars == <<best, unspent, tick, search, wins>>

TypeOK ==
    /\ best \in Tips
    /\ unspent \subseteq Coins
    /\ tick \in [tip : Tips, now : Times] \cup {NoTick}
    /\ search \in [tick : [tip : Tips, now : Times], coins : SUBSET Coins] \cup {NoTick}
    /\ wins \subseteq Wins

Init ==
    /\ best \in Tips
    /\ unspent \in SUBSET Coins
    /\ tick = NoTick /\ search = NoTick /\ wins = {}

\* u32 saturating arithmetic.
SatSub(a, b) == IF a > b THEN a - b ELSE 0
SatInc(a, b) == IF a + b > MaxTime THEN MaxTime ELSE a + b

\* check_tip_fresh.
CheckTipFresh(tip, now) == SatSub(now, tip.time) <= MaxTipAge

\* Mutant: the age wraps as it does in the kernel.
Eligible_Wraps(c, now) == (now - Start[c]) % Pow2[TimeBits] >= MinAge

\* eligible_coins_by_address: a coin too young by the tick's clock is left out.
Eligible(c, now) == SatSub(now, Start[c]) >= MinAge

\* check_win for the ingredients a notice carries.
CheckWin(tip, c, t) ==
    TargetHit(StakeHash[<<tip.modifier, c, t>>], Value[c], tip.bits,
              CoinAgeWeight(t, Start[c]))

\* verify_win on a notice as the engine fills it in, with no transactions.
VerifyWin(w) == CheckWin(w.tip, w.coin, w.t)

\* The search starts at the clock, and after the parent block.
From(tk) == IF tk.now > SatInc(tk.tip.time, 1) THEN tk.now ELSE SatInc(tk.tip.time, 1)

To(tk) == SatInc(From(tk), Ahead)

\* The timestamps search_window looks for.
WinningTimes(tk, c) == {t \in From(tk) .. To(tk) : CheckWin(tk.tip, c, t)}

\* search_window: the first of them, as a set of at most one.
SearchWindow(tk, c) ==
    {t \in WinningTimes(tk, c) : \A u \in WinningTimes(tk, c) : t <= u}

\* What each coin's sweep found.
CoinWins(tk, coins) ==
    UNION {{[staker |-> Owner[c], tip |-> tk.tip, coin |-> c, t |-> t] :
              t \in SearchWindow(tk, c)} : c \in coins}

\* Mutant: any coin that wins somewhere in the window will do.
BestWins_AnyCoin(tk, coins) == CoinWins(tk, coins)

\* min_by_key: each staker's earliest.  Several coins may win at that time.
BestWins(tk, coins) ==
    {w \in CoinWins(tk, coins) :
        \A v \in CoinWins(tk, coins) : v.staker = w.staker => w.t <= v.t}

\* The stakers among some wins.
Winners(ws) == {w.staker : w \in ws}

-----------------------------------------------------------------------------

\* A block arrives, or the chain is reorganised.
NewBlock ==
    /\ best' \in Tips
    /\ unspent' \in SUBSET Coins
    /\ UNCHANGED <<tick, search, wins>>

\* staking_tip: height, hash, time, modifier and bits of one block, in one call.
StakingTip == best

\* serve reads the clock, tick the tip; a stale one ends the tick.
TickTip(now) ==
    /\ tick = NoTick
    /\ tick' = IF CheckTipFresh(StakingTip, now)
               THEN [tip |-> StakingTip, now |-> now] ELSE NoTick
    /\ search' = NoTick /\ wins' = {}
    /\ UNCHANGED <<best, unspent>>

\* Mutant: the notice is filled in from the tip of the moment.
TickSearch_FreshTip ==
    /\ tick # NoTick
    /\ LET coins == {c \in unspent : Eligible(c, tick.now)}
       IN  /\ search' = [tick |-> tick, coins |-> coins]
           /\ wins' = {[w EXCEPT !.tip = best] : w \in BestWins(tick, coins)}
    /\ tick' = NoTick
    /\ UNCHANGED <<best, unspent>>

\* The coins are read, by then perhaps on another tip, and searched: one win for
\* each staker that has any.  Of several coins that win at the same time, the
\* order of the node's list decides.
TickSearch ==
    /\ tick # NoTick
    /\ LET coins == {c \in unspent : Eligible(c, tick.now)}
           bests == BestWins(tick, coins)
       IN  /\ search' = [tick |-> tick, coins |-> coins]
           /\ wins' \in {ws \in SUBSET bests :
                           /\ Winners(ws) = Winners(bests)
                           /\ \A v, w \in ws : v.staker = w.staker => v = w}
    /\ tick' = NoTick
    /\ UNCHANGED <<best, unspent>>

\* Nothing is registered, or the node call for the coins fails: the tick ends.
TickFails ==
    /\ tick # NoTick
    /\ tick' = NoTick
    /\ UNCHANGED <<best, unspent, search, wins>>

Next ==
    \/ NewBlock
    \/ \E now \in Times : TickTip(now)
    \/ TickSearch
    \/ TickFails

Spec == Init /\ [][Next]_vars

-----------------------------------------------------------------------------
(* Properties.                                                             *)

\* A win is never backdated (engine.rs:47): not before the relay's clock, and
\* after the parent block unless that carries the last time there is.
NotBackdated ==
    \A w \in wins :
        /\ w.t >= search.tick.now
        /\ w.tip.time < MaxTime => w.t > w.tip.time

\* A notice is about the near future of its parent: however wrong the clock, a
\* win is at most the tolerated age of the tip and the window after it.
NearParent ==
    \A w \in wins : w.t <= w.tip.time + MaxTipAge + Ahead

\* The 32-bit wrap of the kernel's age is never what makes the relay announce a
\* win: the coin existed, and was old enough to stake, at the winning time.
AgeNotWrapped ==
    \A w \in wins : w.t >= Start[w.coin] + MinAge

\* The time of an announced win is one the network accepts, whatever clock and tip
\* say: in neither's past, near its parent and at a real age of its coin.
WinTimesSound == NotBackdated /\ NearParent /\ AgeNotWrapped

\* Whether the kernel hits at t, in exact integers.
Hits(tip, c, t) ==
    LET age == t - Start[c]
    IN  HitsExactly(StakeHash[<<tip.modifier, c, t>>], Value[c], tip.bits,
                    IF age > MaxAgeWeight THEN MaxAgeWeight ELSE age)

\* No earnings are lost: a staker is told of a win exactly when one of its coins
\* hits in the window, it is told once, and at the earliest such second over all
\* its coins (engine.rs:55-58).
EarliestOfAll ==
    search # NoTick =>
        \A s \in Stakers :
            LET mine == {c \in search.coins : Owner[c] = s}
                first == IF search.tick.now > search.tick.tip.time
                         THEN search.tick.now ELSE search.tick.tip.time + 1
                hits == {t \in first .. first + Ahead :
                           t <= MaxTime /\ \E c \in mine : Hits(search.tick.tip, c, t)}
                told == {w \in wins : w.staker = s}
            IN  first <= MaxTime =>
                    IF hits = {} THEN told = {}
                    ELSE \E w \in told :
                            /\ told = {w}
                            /\ w.t \in hits /\ \A t \in hits : w.t <= t
                            /\ w.coin \in mine /\ Hits(search.tick.tip, w.coin, w.t)

\* Every notice the relay sends passes the phone's own verify_win, for the tip it
\* names: a chain that moved during the tick makes a win stale, not false.
WinsVerify == \A w \in wins : VerifyWin(w)

=============================================================================
