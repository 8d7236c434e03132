----------------------------- MODULE StakeCycle -----------------------------
(***************************************************************************)
(* From a win to a published block and an award: RelaySession::run_once    *)
(* and submit (lovenode-relay/src/session.rs) over NodeRpc::call (rpc.rs), *)
(* then Engine::award_for_accepted_block and the rewards hook.             *)
(*                                                                         *)
(* Several hosts (the hosted relay, a user's desktop) run cycles for the   *)
(* same devices against one node, whose chain may reorganise.  A call can  *)
(* break at any point: before the node sees the request, while it works on *)
(* it, or after it accepted the stake, while the answer is on its way.     *)
(* The caller of the award hook is not in the repository: it is a host     *)
(* that reads its AwardState, offers the win and counts an award that      *)
(* comes back.  Which devices win is settled in Engine; here it is any     *)
(* selection, at most one win per staker, in the stakers' order.           *)
(*                                                                         *)
(* Branches of the chain are numbered by eras: a reorganisation starts a   *)
(* new one, so a height and the era it was added in identify a block.      *)
(***************************************************************************)
EXTENDS Rewards, Sequences, SequencesExt, FiniteSets

CONSTANTS
    Hosts,
    Stakers,     \* the devices, in the order the engine searches them
    Value,       \* the stake value of each device's coin
    Winners,     \* Winners[h, e]: the devices whose coins can win height h, on a
                 \* parent that was added in era e
    ProofOf,     \* ProofOf[d, h, e]: the kernel hash of that win of d
    HashOf,      \* HashOf[h]: the hash of a block with the header of h's template
    TimeOf,      \* TimeOf[h, e]: the time of that block, in half-lives
    PolicySet,   \* the policies that are configured
    MaxLate,     \* bound: abandoned calls the node may still work on
    MaxHeight,   \* bound: no win is looked for above it
    MaxReorgs,   \* bound: reorganisations of the chain
    Nobody       \* no stake is awaited, no block was made of it

Devices == ToSet(Stakers)
Eras == 0..MaxReorgs

ASSUME CycleAssumption ==
    /\ IsFiniteSet(Hosts)
    /\ MaxHeight \in Nat /\ MaxLate \in Nat /\ MaxReorgs \in Nat
    /\ Value \in [Devices -> Nat]
    /\ Winners \in [Heights \X Eras -> SUBSET Devices]
    /\ ProofOf \in [Devices \X Heights \X Eras -> Keys]
    /\ HashOf \in [Hosts -> Keys]
    /\ TimeOf \in [Heights \X Eras -> Nat]
    /\ 1..MaxHeight \subseteq Heights
    /\ PolicySet \subseteq Policies

\* A signed stake: it spends the device's coin, is built on the block of height - 1
\* that was added in era `on`, and has the header of the template of one of the hosts.
Stakes == [device : Devices, height : 1..MaxHeight, on : Eras, header : Hosts]
\* A stake that became a block, in an era.
Blocks == [stake : Stakes, era : Eras]
\* What NodeRpc::call brings back for submitstakeblock.
Answers == {"none", "hash", "nohash", "stale", "error"}

VARIABLES
    policy,    \* the configured DiminishingPolicy
    height,    \* the node's tip
    era,       \* how often the chain reorganised
    branch,    \* the era in which the block at each height was added
    blocks,    \* history: the stakes that became blocks of the node's chain
    network,   \* submissions the node has not worked on; `live`: the host waits
    phase,     \* where each host is: idle, sign, call or award
    parent,    \* the tip each host searched against
    wins,      \* the devices whose wins the cycle has still to complete
    awaited,   \* the stake each host waits for an answer about
    answer,    \* what the node answered each host; it may not arrive
    made,      \* the block the node made of the stake, if it did
    reported,  \* history: the blocks a CycleResult calls Accepted
    lost,      \* history: the blocks whose call broke, before the node made them or after
    total,     \* the callers' AwardState.total_awarded
    due,       \* accepted blocks each host has still to offer to the hook
    seen,      \* the total_awarded each host read before the call, or NoCap
    awards,    \* the awards on_stake_win returned
    recorded   \* the awards the sink took

chainVars == <<height, era, branch, blocks, network>>
cycleVars == <<parent, wins, awaited, answer, made, reported, lost>>
awardVars == <<total, seen, awards, recorded>>
vars == <<policy, phase, due, chainVars, cycleVars, awardVars>>

AwardRecords == [block : Blocks, roll : Nat, chance : 0..Ppm]
Tips == [height : 0..MaxHeight, era : Eras]

TypeOK ==
    /\ policy \in PolicySet
    /\ height \in 0..MaxHeight
    /\ era \in Eras /\ branch \in [0..MaxHeight -> Eras]
    /\ blocks \subseteq Blocks
    /\ network \subseteq [host : Hosts, stake : Stakes, live : BOOLEAN]
    /\ phase \in [Hosts -> {"idle", "sign", "call", "award"}]
    /\ parent \in [Hosts -> Tips]
    /\ wins \in [Hosts -> Seq(Devices)]
    /\ awaited \in [Hosts -> Stakes \cup {Nobody}]
    /\ answer \in [Hosts -> Answers]
    /\ made \in [Hosts -> Blocks \cup {Nobody}]
    /\ reported \subseteq Blocks
    /\ lost \subseteq Blocks
    /\ total \in Nat
    /\ due \in [Hosts -> SUBSET Blocks]
    /\ seen \in [Hosts -> Nat \cup {NoCap}]
    /\ awards \subseteq AwardRecords
    /\ recorded \subseteq awards

Genesis == [height |-> 0, era |-> 0]

Init ==
    /\ policy \in PolicySet
    /\ height = 0 /\ era = 0 /\ branch = [i \in 0..MaxHeight |-> 0]
    /\ blocks = {} /\ network = {}
    /\ phase = [h \in Hosts |-> "idle"]
    /\ parent = [h \in Hosts |-> Genesis]
    /\ wins = [h \in Hosts |-> <<>>]
    /\ awaited = [h \in Hosts |-> Nobody]
    /\ answer = [h \in Hosts |-> "none"]
    /\ made = [h \in Hosts |-> Nobody]
    /\ reported = {} /\ lost = {}
    /\ total = 0 /\ awards = {} /\ recorded = {}
    /\ due = [h \in Hosts |-> {}]
    /\ seen = [h \in Hosts |-> NoCap]

-----------------------------------------------------------------------------
(* One cycle.                                                              *)

\* run_once: the tip is read and is fresh, the engine searches it.  With an
\* error of the node or a stale tip nothing happens.
BeginCycle(h, found) ==
    /\ phase[h] = "idle"
    /\ found \subseteq IF height < MaxHeight THEN Winners[height + 1, branch[height]] ELSE {}
    /\ parent' = [parent EXCEPT ![h] = [height |-> height, era |-> branch[height]]]
    /\ wins' = [wins EXCEPT ![h] = IF found = {} THEN <<>>
                                   ELSE SelectSeq(Stakers, LAMBDA d : d \in found)]
    /\ phase' = [phase EXCEPT ![h] = "sign"]
    /\ UNCHANGED <<policy, chainVars, awaited, answer, made, reported, lost, due, awardVars>>

StakeOf(h) == [device |-> Head(wins[h]), height |-> parent[h].height + 1,
               on |-> parent[h].era, header |-> h]

\* The win's device is not connected (`continue`), or its signer declines (a
\* Rejected result): nothing is submitted.
NotSigned(h) ==
    /\ phase[h] = "sign" /\ wins[h] # <<>>
    /\ wins' = [wins EXCEPT ![h] = Tail(@)]
    /\ UNCHANGED <<policy, phase, chainVars, parent, awaited, answer, made, reported, lost,
                   due, awardVars>>

\* complete: the signer signs, submit calls submitstakeblock.
SignAndSubmit(h) ==
    /\ phase[h] = "sign" /\ wins[h] # <<>>
    /\ network' = network \cup {[host |-> h, stake |-> StakeOf(h), live |-> TRUE]}
    /\ awaited' = [awaited EXCEPT ![h] = StakeOf(h)]
    /\ wins' = [wins EXCEPT ![h] = Tail(@)]
    /\ phase' = [phase EXCEPT ![h] = "call"]
    /\ UNCHANGED <<policy, height, era, branch, blocks, parent, answer, made, reported, lost,
                   due, awardVars>>

\* Mutant: a block hash is not recognised.
SubmitOutcome_NoHash(a) == IF a = "stale" THEN "Stale" ELSE "Rejected"

\* submit and is_stale: what the answer of the node means.
SubmitOutcome(a) ==
    CASE a = "hash"  -> "Accepted"
      [] a = "stale" -> "Stale"
      [] OTHER       -> "Rejected"

\* Mutant: a stake that lost its height is offered to the hook as well.
Conclude_StaleToo(h, outcome) ==
    /\ reported' = IF outcome = "Accepted" THEN reported \cup {made[h]} ELSE reported
    /\ due' = [due EXCEPT ![h] = CASE outcome = "Accepted" -> @ \cup {made[h]}
                                   [] outcome = "Stale" ->
                                        @ \cup {[stake |-> awaited[h], era |-> era]}
                                   [] OTHER -> @]
    /\ awaited' = [awaited EXCEPT ![h] = Nobody]
    /\ answer' = [answer EXCEPT ![h] = "none"]
    /\ made' = [made EXCEPT ![h] = Nobody]
    /\ phase' = [phase EXCEPT ![h] = "sign"]

\* The outcome is pushed on the results of the cycle; the accepted ones are kept.
Conclude(h, outcome) ==
    /\ reported' = IF outcome = "Accepted" THEN reported \cup {made[h]} ELSE reported
    /\ due' = [due EXCEPT ![h] = IF outcome = "Accepted" THEN @ \cup {made[h]} ELSE @]
    /\ awaited' = [awaited EXCEPT ![h] = Nobody]
    /\ answer' = [answer EXCEPT ![h] = "none"]
    /\ made' = [made EXCEPT ![h] = Nobody]
    /\ phase' = [phase EXCEPT ![h] = "sign"]

\* The answer arrives in time and can be read.
CallReturns(h) ==
    /\ phase[h] = "call" /\ answer[h] # "none"
    /\ Conclude(h, SubmitOutcome(answer[h]))
    /\ UNCHANGED <<policy, chainVars, parent, wins, lost, awardVars>>

\* Calls nobody waits for any more.
Late == Cardinality({r \in network : ~r.live})

\* What becomes of the request of a call that broke: it was lost, the node may
\* still work on it, or the node has worked on it and only the answer is lost.
Abandon(h) ==
    LET rest == {r \in network : ~(r.host = h /\ r.live)}
        late == [host |-> h, stake |-> awaited[h], live |-> FALSE]
    IN  \/ network' = rest
        \/ answer[h] = "none" /\ Late < MaxLate /\ network' = rest \cup {late}

\* Mutant: the call has no timeout.
CallBreaks_Never(h) ==
    /\ phase[h] = "call" /\ height > MaxHeight
    /\ UNCHANGED vars

\* NodeRpc::call fails on the host's side: the 15 s are over, the connection is
\* refused or lost, or the reply is no JSON.  It can at any point of the call, and
\* submit makes the same Rejected of it wherever that was.
CallBreaks(h) ==
    /\ phase[h] = "call"
    /\ Abandon(h)
    /\ lost' = IF answer[h] = "hash" THEN lost \cup {made[h]} ELSE lost
    /\ Conclude(h, SubmitOutcome("error"))
    /\ UNCHANGED <<policy, height, era, branch, blocks, parent, wins, awardVars>>

\* run_once returns: its caller goes through the accepted results.
EndCycle(h) ==
    /\ phase[h] = "sign" /\ wins[h] = <<>>
    /\ phase' = [phase EXCEPT ![h] = IF due[h] = {} THEN "idle" ELSE "award"]
    /\ parent' = [parent EXCEPT ![h] = Genesis]
    /\ UNCHANGED <<policy, chainVars, wins, awaited, answer, made, reported, lost, due,
                   awardVars>>

-----------------------------------------------------------------------------
(* The award hook.                                                         *)

\* award_for_accepted_block puts the StakeWin together.
WinOf(s) == [height |-> s.height, time |-> TimeOf[s.height, s.on],
             value |-> Value[s.device], proof_hash |-> ProofOf[s.device, s.height, s.on],
             block_hash |-> HashOf[s.header]]

\* The caller takes a copy of its AwardState.
ReadAwardState(h) ==
    /\ phase[h] = "award" /\ seen[h] = NoCap
    /\ seen' = [seen EXCEPT ![h] = total]
    /\ UNCHANGED <<policy, phase, due, chainVars, cycleVars, total, awards, recorded>>

\* on_stake_win for an awarded win: the sink's refusal is only logged.
OnStakeWin(b, taken) ==
    LET award == [block |-> b, roll |-> Roll(policy, WinOf(b.stake)),
                  chance |-> ChanceAt(policy, WinOf(b.stake).time)]
    IN  /\ awards' = awards \cup {award}
        /\ recorded' = IF taken THEN recorded \cup {award} ELSE recorded

\* Nothing here asks whether the block is still on the chain.
Offer(h, b) ==
    /\ phase[h] = "award" /\ seen[h] # NoCap /\ b \in due[h]
    /\ IF Evaluate(policy, WinOf(b.stake), seen[h])
       THEN \E taken \in BOOLEAN : OnStakeWin(b, taken) /\ total' = total + 1
       ELSE UNCHANGED <<awards, recorded, total>>
    /\ seen' = [seen EXCEPT ![h] = NoCap]
    /\ due' = [due EXCEPT ![h] = @ \ {b}]
    /\ phase' = [phase EXCEPT ![h] = IF due[h] = {b} THEN "idle" ELSE "award"]
    /\ UNCHANGED <<policy, chainVars, cycleVars>>

-----------------------------------------------------------------------------
(* The node, as submitstakeblock presents it.                              *)

\* Only a stake on the tip can be accepted; anything else is stale or an error.
NodeAnswers(r) ==
    IF r.stake.height = height + 1 /\ r.stake.on = branch[height]
    THEN {"hash", "nohash", "stale", "error"}
    ELSE {"nohash", "stale", "error"}

\* The node works on a request.  Its answer is on its way to a host that waits.
NodeWorks(r, a) ==
    LET block == [stake |-> r.stake, era |-> era]
    IN  /\ r \in network /\ a \in NodeAnswers(r)
        /\ network' = network \ {r}
        /\ IF a = "hash"
           THEN /\ height' = height + 1
                /\ branch' = [branch EXCEPT ![height + 1] = era]
                /\ blocks' = blocks \cup {block}
           ELSE UNCHANGED <<height, branch, blocks>>
        /\ answer' = IF r.live THEN [answer EXCEPT ![r.host] = a] ELSE answer
        /\ made' = IF r.live /\ a = "hash" THEN [made EXCEPT ![r.host] = block] ELSE made
        /\ lost' = IF ~r.live /\ a = "hash" THEN lost \cup {block} ELSE lost
        /\ UNCHANGED <<policy, phase, due, era, parent, wins, awaited, reported, awardVars>>

\* Another staker of the network takes the next height.
TipMoves ==
    /\ height < MaxHeight
    /\ height' = height + 1
    /\ branch' = [branch EXCEPT ![height + 1] = era]
    /\ UNCHANGED <<policy, phase, due, era, blocks, network, cycleVars, awardVars>>

\* The chain goes back to the block at height fork, where another branch begins;
\* its blocks follow.
Reorganised(fork) ==
    /\ era < MaxReorgs /\ fork < height
    /\ height' = fork /\ era' = era + 1
    /\ branch' = [i \in 0..MaxHeight |-> IF i <= fork THEN branch[i] ELSE 0]
    /\ UNCHANGED <<policy, phase, due, blocks, network, cycleVars, awardVars>>

HostStep(h) ==
    \/ NotSigned(h) \/ SignAndSubmit(h) \/ CallReturns(h) \/ CallBreaks(h)
    \/ EndCycle(h) \/ ReadAwardState(h)
    \/ \E b \in due[h] : Offer(h, b)

Next ==
    \/ \E h \in Hosts, found \in SUBSET Devices : BeginCycle(h, found)
    \/ \E h \in Hosts : HostStep(h)
    \/ \E r \in network, a \in Answers \ {"none"} : NodeWorks(r, a)
    \/ TipMoves
    \/ \E fork \in 0..MaxHeight : Reorganised(fork)

Spec == Init /\ [][Next]_vars

\* A cycle is synchronous code that waits for nothing without a timeout; the node
\* and the other stakers owe nobody anything.
FairSpec == Spec /\ \A h \in Hosts : WF_vars(HostStep(h))

-----------------------------------------------------------------------------
(* Properties.                                                             *)

\* The block is on the chain as it is now.
OnChain(b) == b.stake.height <= height /\ branch[b.stake.height] = b.era

\* submit: a result says Accepted only for a stake that became a block of the
\* chain, on the parent its own cycle searched.
AcceptedWasOnChain ==
    reported \subseteq blocks

\* submit: a stake that became a block is reported Accepted to the host that
\* submitted it, or its answer is on its way there, or its call broke; a lost race,
\* a refusal, a reorganisation or a retry by a second host never hides one.
BlocksAreReported ==
    \A b \in blocks \ lost :
        b \in reported \/ \E h \in Hosts : answer[h] = "hash" /\ made[h] = b

\* What submit tells a host about a stake is what became of it, for every order of
\* answers, broken calls, rival blocks and reorganisations: Accepted exactly for
\* the blocks whose call did not break.
OutcomesTrue == AcceptedWasOnChain /\ BlocksAreReported /\ reported \cap lost = {}

\* award_for_accepted_block: whatever broke, was retried or submitted by two
\* hosts, only a stake that became a block is awarded; there is one award per block,
\* and two for one height only when a reorganisation came between, so that at
\* most one of them is for a block that is still on the chain.  Each award is
\* counted, also one the sink refused.
OneAwardPerBlock ==
    /\ \A a \in awards : a.block \in blocks
    /\ \A a, b \in awards :
          a.block.stake.height = b.block.stake.height /\ a.block.era = b.block.era => a = b
    /\ \A a, b \in awards :
          a.block.stake.height = b.block.stake.height /\ OnChain(a.block) /\ OnChain(b.block)
            => a = b
    /\ total = Cardinality(awards)

\* evaluate compares the cap with the AwardState its caller read earlier: hosts
\* that read before one another's award overrun the cap by one each at most, and
\* a cap of 0 is never overrun.
CapOverrunBounded ==
    policy.cap # NoCap =>
        Cardinality(awards) <=
            IF policy.cap = 0 THEN 0 ELSE policy.cap + Cardinality(Hosts) - 1

\* RollSource: except with BlockHash, no choice of the header can change whether a
\* stake that awaits its award gets one.
Ungrindable ==
    policy.source # "BlockHash" =>
        \A h \in Hosts : \A b \in due[h], header \in Hosts, n \in {total, seen[h]} \ {NoCap} :
            Evaluate(policy, WinOf(b.stake), n)
                = Evaluate(policy, WinOf([b.stake EXCEPT !.header = header]), n)

\* chance_ppm_at: with a policy that validate accepts, the award for a block with a
\* later time never had the better odds, whatever the order of the blocks, and no
\* award had worse odds than the floor.
ChanceDiminishes ==
    Validate(policy) =>
        \A a, b \in awards :
            /\ policy.floor <= a.chance
            /\ WinOf(a.block.stake).time <= WinOf(b.block.stake).time => b.chance <= a.chance

\* run_once returns whatever the node does and answers: each call has its timeout.
CycleEnds == \A h \in Hosts : phase[h] # "idle" ~> phase[h] = "idle"
=============================================================================
