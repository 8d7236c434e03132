---------------------------- MODULE PhoneStaker ----------------------------
(***************************************************************************)
(* The on-device staker (lovenode-phone/src/lib.rs) with the signing guard *)
(* of lovenode-sign and the coinstake checks of lovenode-core/src/tx.rs,   *)
(* driven by the Win branch of lovenode-phone/src/client.rs.               *)
(*                                                                         *)
(* The relay and the template source are untrusted: a notice is any member *)
(* of Notices, a template any member of Templates.  The chain moves while  *)
(* the phone waits for the template.  A coin is an outpoint; scripts are   *)
(* compared, never parsed; amounts live in a scaled i64 range.  Whether a  *)
(* notice meets the target (check_win) is a field of the notice.           *)
(***************************************************************************)
EXTENDS Integers, Sequences, SequencesExt, FiniteSets

CONSTANTS
    Coins,       \* outpoints
    NullOut,     \* the null outpoint, which is no coin
    Own,         \* the OwnedCoins of this device
    Value,       \* what each coin is worth: value_sats of the device's own view
    Scripts,     \* p2pkh scripts
    ScriptOf,    \* the script that controls each coin
    Empty,       \* the empty script of the coinstake marker
    Blocks,      \* block hashes
    HeightOf,    \* the height of each block
    Amounts,     \* the values a notice may claim for its coin
    Coinstakes,  \* the transactions a template may carry
    I64Max,      \* i64::MAX, scaled
    MaxMoney,    \* consensus: the largest value of an output
    MaxSigned,   \* bound: how many stakes the phone signs
    NoNotice,    \* the phone waits for a frame
    NoTemplate   \* the template source answers with an error

I64 == -(I64Max + 1) .. I64Max

ASSUME StakerAssumption ==
    /\ I64Max \in Nat /\ MaxMoney \in Nat /\ MaxSigned \in Nat
    /\ Own \subseteq Coins
    /\ ScriptOf \in [Coins -> Scripts]
    /\ Value \in [Coins -> I64]
    /\ HeightOf \in [Blocks -> Nat]
    /\ Amounts \subseteq I64
    /\ Empty \notin Scripts /\ NullOut \notin Coins

Outputs == [to : Scripts \cup {Empty}, value : I64]
Marker == [to |-> Empty, value |-> 0]

ASSUME CoinstakesAssumption ==
    Coinstakes \subseteq [vin : Seq(Coins \cup {NullOut}), vout : Seq(Outputs)]

Heights == {HeightOf[b] + 1 : b \in Blocks}

\* WinNotice.  `wins`: verify_win accepts it (size limits, kernel target);
\* `parses`: its mempool transactions deserialize, which is found out only when
\* the block is put together.
Notices == [height : Heights, prev : Blocks, coin : Coins, value : Amounts,
            wins : BOOLEAN, parses : BOOLEAN]

\* StakeTemplate: the coinstake, and the tip the node built it on.
Templates == [tx : Coinstakes, height : Heights, prev : Blocks]

Stakes == [height : Heights, prev : Blocks, built : Blocks, tx : Coinstakes]

ASSUME SentinelAssumption == NoNotice \notin Notices /\ NoTemplate \notin Templates

VARIABLES
    tip,       \* the node's best block
    asking,    \* the notice whose template the phone is waiting for
    signed,    \* the SignedStakes the phone has sent to the relay
    onChain,   \* those that are in the node's best chain
    declined   \* the notice and template of the last ClientEvent::Declined

vars == <<tip, asking, signed, onChain, declined>>

NothingDeclined == [notice |-> NoNotice, tmpl |-> NoTemplate]

TypeOK ==
    /\ tip \in Blocks
    /\ asking \in Notices \cup {NoNotice}
    /\ signed \subseteq Stakes
    /\ onChain \subseteq signed
    /\ declined \in [notice : Notices \cup {NoNotice}, tmpl : Templates \cup {NoTemplate}]

Init ==
    /\ tip \in Blocks
    /\ asking = NoNotice
    /\ signed = {}
    /\ onChain = {}
    /\ declined = NothingDeclined

-----------------------------------------------------------------------------
(* Coinstake checks.                                                       *)

IsCoinstake(tx) ==
    /\ Len(tx.vin) > 0 /\ tx.vin[1] # NullOut
    /\ Len(tx.vout) >= 2 /\ tx.vout[1] = Marker

\* i64::saturating_add.
SatAdd(a, b) ==
    IF a + b > I64Max THEN I64Max
    ELSE IF a + b < -(I64Max + 1) THEN -(I64Max + 1)
    ELSE a + b

\* coinstake_pays_to: what the outputs to `script` add up to, saturating.
PaysTo(tx, script) ==
    LET Add(acc, o) == IF o.to = script THEN SatAdd(acc, o.value) ELSE acc
    IN  FoldLeft(Add, 0, tx.vout)

\* Mutant: the staked value itself is refused.
ReturnsAtLeast_Strict(tx, script, min) ==
    /\ IsCoinstake(tx)
    /\ PaysTo(tx, script) > 0
    /\ PaysTo(tx, script) > min

\* coinstake_returns_at_least.
ReturnsAtLeast(tx, script, min) ==
    /\ IsCoinstake(tx)
    /\ PaysTo(tx, script) > 0
    /\ PaysTo(tx, script) >= min

\* sign_coinstake: the signer refuses unless its own key gets back what it
\* itself knows the coin to be worth.
SignCoinstake(tx, c) ==
    /\ IsCoinstake(tx)
    /\ ReturnsAtLeast(tx, ScriptOf[c], Value[c])

-----------------------------------------------------------------------------
(* The phone: build_signed_stake and the client's Win branch.              *)

\* Mutant: the input of the template is not compared with the notice.
Acceptable_AnyInput(n, t) ==
    /\ t # NoTemplate
    /\ t.height = n.height
    /\ SignCoinstake(t.tx, n.coin)
    /\ n.parses

\* Mutant: the relay's figure is taken for the value of the coin.
Acceptable_NoticeValue(n, t) ==
    /\ t # NoTemplate
    /\ t.tx.vin = <<n.coin>>
    /\ t.height = n.height
    /\ ReturnsAtLeast(t.tx, ScriptOf[n.coin], n.value)
    /\ n.parses

\* Every check between the template's arrival and the signed block.
Acceptable(n, t) ==
    /\ t # NoTemplate
    /\ t.tx.vin = <<n.coin>>
    /\ t.height = n.height
    /\ SignCoinstake(t.tx, n.coin)
    /\ n.parses

\* verify_win and owned_coin, before the template is asked for.
Plausible(n) == n.wins /\ n.coin \in Own

\* A win the phone declines before it asks for a template.
DeclineNotice(n) ==
    /\ asking = NoNotice
    /\ ~Plausible(n)
    /\ declined' = [notice |-> n, tmpl |-> NoTemplate]
    /\ UNCHANGED <<tip, asking, signed, onChain>>

AskTemplate(n) ==
    /\ asking = NoNotice
    /\ Cardinality(signed) < MaxSigned
    /\ Plausible(n)
    /\ asking' = n
    /\ declined' = NothingDeclined
    /\ UNCHANGED <<tip, signed, onChain>>

DeclineTemplate(t) ==
    /\ asking # NoNotice
    /\ ~Acceptable(asking, t)
    /\ asking' = NoNotice
    /\ declined' = [notice |-> asking, tmpl |-> t]
    /\ UNCHANGED <<tip, signed, onChain>>

\* The header is built on notice.prev_block_hash.
Sign(t) ==
    /\ asking # NoNotice
    /\ Acceptable(asking, t)
    /\ asking' = NoNotice
    /\ signed' = signed \cup {[height |-> asking.height, prev |-> asking.prev,
                               built |-> t.prev, tx |-> t.tx]}
    /\ UNCHANGED <<tip, onChain, declined>>

-----------------------------------------------------------------------------
(* The node.                                                               *)

\* What consensus requires of a coinstake's outputs.
ValidOutputs(tx) == \A i \in 1 .. Len(tx.vout) : tx.vout[i].value \in 0 .. MaxMoney

\* submitstakeblock: the node rebuilds the header on its own tip, so a stake
\* signed for another parent or height fails its block signature.
Submit(s) ==
    /\ tip = s.prev
    /\ s.height = HeightOf[tip] + 1
    /\ ValidOutputs(s.tx)
    /\ \A o \in onChain : o.tx.vin # s.tx.vin
    /\ onChain' = onChain \cup {s}
    /\ tip' \in {b \in Blocks : HeightOf[b] >= s.height}
    /\ UNCHANGED <<asking, signed, declined>>

\* Another block arrives, or a reorganisation drops some of our stakes.
TipMoves ==
    /\ tip' \in Blocks
    /\ onChain' \in SUBSET onChain
    /\ UNCHANGED <<asking, signed, declined>>

Next ==
    \/ \E n \in Notices : DeclineNotice(n) \/ AskTemplate(n)
    \/ \E t \in Templates \cup {NoTemplate} : DeclineTemplate(t) \/ Sign(t)
    \/ \E s \in signed : Submit(s)
    \/ TipMoves

Spec == Init /\ [][Next]_vars

-----------------------------------------------------------------------------
(* Properties.                                                             *)

\* What a coinstake really pays a script: the exact sum of its outputs.
ExactlyPays(tx, script) ==
    LET Add(acc, o) == IF o.to = script THEN acc + o.value ELSE acc
    IN  FoldLeft(Add, 0, tx.vout)

\* A coinstake that reaches the chain spends one coin and returns, in exact
\* arithmetic, at least that coin's worth to the coin's own script, whatever
\* the relay and the template source said (phone/lib.rs, "the line between
\* signing a stake and signing away a balance").  The phone adds with
\* saturation and accepts negative outputs: it is consensus that closes the
\* gap between that sum and the exact one.
PrincipalSafe ==
    \A s \in onChain : \A i \in 1 .. Len(s.tx.vin) :
        LET c == s.tx.vin[i]
        IN  c \in Own => ExactlyPays(s.tx, ScriptOf[c]) >= Value[c]

\* Everything the phone ever signs spends exactly one coin, its own, and by the
\* phone's own arithmetic pays back the value the phone itself knows.
SignedStakesPayBack ==
    \A s \in signed : \E c \in Own :
        /\ s.tx.vin = <<c>>
        /\ PaysTo(s.tx, ScriptOf[c]) >= Value[c]

\* What an honest node authors for a win: it spends the coin named and pays at
\* least its worth back, all amounts valid.  The kernel lets no coin without
\* value win (target_hit).
HonestTemplate(n, t) ==
    /\ t.prev = n.prev /\ t.height = n.height /\ n.height = HeightOf[n.prev] + 1
    /\ t.tx.vin = <<n.coin>>
    /\ IsCoinstake(t.tx) /\ ValidOutputs(t.tx)
    /\ Value[n.coin] > 0
    /\ ExactlyPays(t.tx, ScriptOf[n.coin]) >= Value[n.coin]

\* A genuine win of this device's own coin with the node's own template for
\* that tip is never declined: the guards cost no honest block.
HonestWinSigned ==
    LET n == declined.notice
        t == declined.tmpl
    IN  ~ /\ n # NoNotice /\ t # NoTemplate
          /\ Plausible(n) /\ n.parses
          /\ HonestTemplate(n, t)

=============================================================================
