-------------------------- MODULE StakeCycle_proofs --------------------------
(***************************************************************************)
(* What outcomes say about the chain and what is awarded for them, for     *)
(* every set of hosts and devices, every policy, and any number of broken  *)
(* calls and reorganisations.                                              *)
(***************************************************************************)
EXTENDS StakeCycle, FiniteSetTheorems, DataLemmas

\* The hosts' own variables are functions of the host.
PerHost ==
    /\ DOMAIN phase = Hosts /\ DOMAIN awaited = Hosts /\ DOMAIN answer = Hosts
    /\ DOMAIN made = Hosts /\ DOMAIN due = Hosts /\ seen \in [Hosts -> Nat \cup {NoCap}]
    /\ height \in Nat /\ era \in Nat /\ total \in Nat

\* A stake as StakeOf puts it together for host h.
StakeFor(h, s) == s = [device |-> s.device, height |-> s.height, on |-> s.on, header |-> h]

\* A request that is waited for is the one its host waits for, and there is one.
RequestInv ==
    /\ \A r \in network :
          /\ r.host \in Hosts /\ StakeFor(r.host, r.stake)
          /\ r.live => /\ phase[r.host] = "call" /\ answer[r.host] = "none"
                       /\ awaited[r.host] = r.stake
    /\ \A q, r \in network : q.live /\ r.live /\ q.host = r.host => q = r

\* An answer belongs to the stake that is awaited; a block hash names the block that
\* was made of it, which nobody heard of yet.
AnswerInv ==
    \A h \in Hosts :
        /\ phase[h] = "call" => StakeFor(h, awaited[h])
        /\ phase[h] # "call" => answer[h] = "none"
        /\ answer[h] = "hash" => /\ made[h] \in blocks /\ made[h].stake = awaited[h]
                                 /\ made[h] \notin reported /\ made[h] \notin lost

\* In an era at most one block is added at a height, and none above the tip of the
\* era that is going on; a block of any era was added once.
HeightInv ==
    /\ lost \subseteq blocks
    /\ \A b \in blocks : /\ b = [stake |-> b.stake, era |-> b.era]
                         /\ b.stake.height \in Nat /\ b.era \in Nat /\ b.era <= era
                         /\ b.era = era => b.stake.height <= height
    /\ \A b, c \in blocks : b.stake.height = c.stake.height /\ b.era = c.era => b = c

CycleInv == PerHost /\ RequestInv /\ AnswerInv /\ HeightInv /\ OutcomesTrue

LEMMA CycleInvInit == Init => CycleInv
  BY CycleAssumption DEF Init, CycleInv, PerHost, RequestInv, AnswerInv, HeightInv,
     OutcomesTrue, AcceptedWasOnChain, BlocksAreReported

\* The stake StakeOf(h) has the shape of one of h.
LEMMA StakeOfShape == \A h \in Hosts : StakeFor(h, StakeOf(h))
  BY DEF StakeOf, StakeFor

\* Two hosts never wait for the same block: its stake has the header of its host.
LEMMA OtherHost ==
    ASSUME CycleInv, NEW g \in Hosts, NEW h \in Hosts, g # h,
           answer[g] = "hash", answer[h] = "hash"
    PROVE  made[g] # made[h]
<1>1. StakeFor(g, made[g].stake) /\ StakeFor(h, made[h].stake)
  BY DEF CycleInv, AnswerInv
<1> QED
  BY <1>1 DEF StakeFor

LEMMA CycleInvNext == CycleInv /\ [Next]_vars => CycleInv'
<1> SUFFICES ASSUME CycleInv, [Next]_vars PROVE CycleInv'
  OBVIOUS
<1> USE DEF CycleInv, PerHost
<1>1. ASSUME NEW h \in Hosts, NEW found \in SUBSET Devices, BeginCycle(h, found) PROVE CycleInv'
  BY <1>1 DEF BeginCycle, chainVars, awardVars, RequestInv, AnswerInv, HeightInv,
     OutcomesTrue, AcceptedWasOnChain, BlocksAreReported
<1>2. ASSUME NEW h \in Hosts, NotSigned(h) PROVE CycleInv'
  BY <1>2 DEF NotSigned, chainVars, awardVars, RequestInv, AnswerInv, HeightInv,
     OutcomesTrue, AcceptedWasOnChain, BlocksAreReported
<1>3. ASSUME NEW h \in Hosts, SignAndSubmit(h) PROVE CycleInv'
  <2> DEFINE s == StakeOf(h)
             new == [host |-> h, stake |-> s, live |-> TRUE]
  <2>1. StakeFor(h, s)
    BY StakeOfShape
  <2> HIDE DEF s
  <2>2. /\ phase[h] = "sign" /\ phase' = [phase EXCEPT ![h] = "call"]
        /\ awaited' = [awaited EXCEPT ![h] = s] /\ network' = network \cup {new}
        /\ UNCHANGED <<height, era, blocks, answer, made, reported, lost, due, total, seen>>
    BY <1>3 DEF SignAndSubmit, awardVars, s
  <2>3. PerHost'
    BY <2>2
  <2>4. RequestInv'
    <3>1. \A q \in network : q.live => q.host # h
      BY <2>2 DEF RequestInv
    <3>2. new.host = h /\ new.stake = s /\ new.live
      OBVIOUS
    <3> HIDE DEF new
    <3>3. ASSUME NEW r \in network'
          PROVE  /\ r.host \in Hosts /\ StakeFor(r.host, r.stake)
                 /\ r.live => /\ phase'[r.host] = "call" /\ answer'[r.host] = "none"
                              /\ awaited'[r.host] = r.stake
      <4>1. CASE r = new
        BY <4>1, <2>1, <2>2, <3>2 DEF AnswerInv
      <4>2. CASE r \in network
        BY <4>2, <2>2, <3>1 DEF RequestInv
      <4> QED
        BY <4>1, <4>2, <2>2
    <3>4. ASSUME NEW q \in network', NEW r \in network', q.live, r.live, q.host = r.host
          PROVE  q = r
      BY <3>1, <3>2, <3>4, <2>2 DEF RequestInv
    <3> QED
      BY <3>3, <3>4 DEF RequestInv
  <2>5. AnswerInv'
    BY <2>1, <2>2 DEF AnswerInv
  <2>6. HeightInv' /\ OutcomesTrue'
    BY <2>2 DEF HeightInv, AnswerInv, OutcomesTrue, AcceptedWasOnChain, BlocksAreReported
  <2> QED
    BY <2>3, <2>4, <2>5, <2>6
<1>4. ASSUME NEW h \in Hosts, CallReturns(h) PROVE CycleInv'
  <2>1. /\ phase[h] = "call" /\ answer[h] # "none"
        /\ phase' = [phase EXCEPT ![h] = "sign"]
        /\ awaited' = [awaited EXCEPT ![h] = Nobody]
        /\ answer' = [answer EXCEPT ![h] = "none"]
        /\ made' = [made EXCEPT ![h] = Nobody]
        /\ DOMAIN due' = Hosts
        /\ UNCHANGED <<height, era, blocks, network, lost, total, seen>>
    BY <1>4 DEF CallReturns, Conclude, chainVars, awardVars
  <2>2. reported' = IF answer[h] = "hash" THEN reported \cup {made[h]} ELSE reported
    BY <1>4 DEF CallReturns, Conclude, SubmitOutcome
  <2>3. PerHost'
    BY <2>1
  <2>4. RequestInv'
    BY <2>1 DEF RequestInv
  <2>5. AnswerInv'
    <3>1. ASSUME NEW g \in Hosts, g # h, answer[g] = "hash", answer[h] = "hash"
          PROVE  made[g] # made[h]
      BY <3>1, OtherHost
    <3> QED
      BY <2>1, <2>2, <3>1 DEF AnswerInv
  <2>6. HeightInv'
    BY <2>1 DEF HeightInv
  <2>7. OutcomesTrue'
    BY <2>1, <2>2 DEF AnswerInv, OutcomesTrue, AcceptedWasOnChain, BlocksAreReported
  <2> QED
    BY <2>3, <2>4, <2>5, <2>6, <2>7
<1>5. ASSUME NEW h \in Hosts, CallBreaks(h) PROVE CycleInv'
  <2> DEFINE rest == {r \in network : ~(r.host = h /\ r.live)}
             late == [host |-> h, stake |-> awaited[h], live |-> FALSE]
  <2>1. /\ phase[h] = "call"
        /\ phase' = [phase EXCEPT ![h] = "sign"]
        /\ awaited' = [awaited EXCEPT ![h] = Nobody]
        /\ answer' = [answer EXCEPT ![h] = "none"]
        /\ made' = [made EXCEPT ![h] = Nobody]
        /\ DOMAIN due' = Hosts
        /\ UNCHANGED <<height, era, blocks, reported, total, seen>>
    BY <1>5 DEF CallBreaks, Conclude, SubmitOutcome, awardVars
  <2>2. network' = rest \/ network' = rest \cup {late}
    BY <1>5 DEF CallBreaks, Abandon
  <2>3. lost' = IF answer[h] = "hash" THEN lost \cup {made[h]} ELSE lost
    BY <1>5 DEF CallBreaks
  <2>4. PerHost'
    BY <2>1
  <2>5. RequestInv'
    BY <2>1, <2>2 DEF RequestInv, AnswerInv
  <2>6. AnswerInv'
    <3>1. ASSUME NEW g \in Hosts, g # h, answer[g] = "hash", answer[h] = "hash"
          PROVE  made[g] # made[h]
      BY <3>1, OtherHost
    <3> QED
      BY <2>1, <2>3, <3>1 DEF AnswerInv
  <2>7. HeightInv'
    BY <2>1, <2>3 DEF HeightInv, AnswerInv
  <2>8. OutcomesTrue'
    BY <2>1, <2>3 DEF AnswerInv, OutcomesTrue, AcceptedWasOnChain, BlocksAreReported
  <2> QED
    BY <2>4, <2>5, <2>6, <2>7, <2>8
<1>6. ASSUME NEW h \in Hosts, EndCycle(h) PROVE CycleInv'
  BY <1>6 DEF EndCycle, chainVars, awardVars, RequestInv, AnswerInv, HeightInv,
     OutcomesTrue, AcceptedWasOnChain, BlocksAreReported
<1>7. ASSUME NEW h \in Hosts, ReadAwardState(h) PROVE CycleInv'
  BY <1>7 DEF ReadAwardState, chainVars, cycleVars, RequestInv, AnswerInv, HeightInv,
     OutcomesTrue, AcceptedWasOnChain, BlocksAreReported
<1>8. ASSUME NEW h \in Hosts, NEW s \in due[h], Offer(h, s) PROVE CycleInv'
  <2>1. /\ phase[h] = "award" /\ DOMAIN due' = Hosts
        /\ seen' = [seen EXCEPT ![h] = NoCap]
        /\ phase' = [phase EXCEPT ![h] = IF due[h] = {s} THEN "idle" ELSE "award"]
        /\ UNCHANGED <<height, era, blocks, network, awaited, answer, made, reported, lost>>
    BY <1>8 DEF Offer, chainVars, cycleVars
  <2>2. total' = total + 1 \/ total' = total
    BY <1>8 DEF Offer
  <2>3. PerHost'
    BY <2>1, <2>2
  <2>4. RequestInv' /\ AnswerInv' /\ HeightInv' /\ OutcomesTrue'
    BY <2>1 DEF RequestInv, AnswerInv, HeightInv, OutcomesTrue, AcceptedWasOnChain,
       BlocksAreReported
  <2> QED
    BY <2>3, <2>4
<1>9. ASSUME NEW r \in network, NEW a \in Answers \ {"none"}, NodeWorks(r, a) PROVE CycleInv'
  <2> USE DEF RequestInv
  <2> DEFINE block == [stake |-> r.stake, era |-> era]
  <2>1. /\ network' = network \ {r}
        /\ UNCHANGED <<phase, awaited, reported, due, era, seen, total>>
    BY <1>9 DEF NodeWorks, awardVars
  <2>2. /\ a = "hash" => /\ r.stake.height = height + 1
                         /\ height' = height + 1 /\ blocks' = blocks \cup {block}
        /\ a # "hash" => UNCHANGED <<height, blocks>>
    BY <1>9 DEF NodeWorks, NodeAnswers
  <2>3. /\ answer' = IF r.live THEN [answer EXCEPT ![r.host] = a] ELSE answer
        /\ made' = IF r.live /\ a = "hash" THEN [made EXCEPT ![r.host] = block] ELSE made
        /\ lost' = IF ~r.live /\ a = "hash" THEN lost \cup {block} ELSE lost
    BY <1>9 DEF NodeWorks
  <2>4. PerHost'
    BY <2>1, <2>2, <2>3
  <2>5. RequestInv'
    BY <2>1, <2>3
  <2>6. block.stake = r.stake /\ block.era = era
    OBVIOUS
  <2> HIDE DEF block
  <2>7. a = "hash" => block \notin blocks /\ block \notin reported /\ block \notin lost
    BY <2>2, <2>6 DEF HeightInv, OutcomesTrue, AcceptedWasOnChain
  <2>8. AnswerInv'
    BY <2>1, <2>2, <2>3, <2>6, <2>7 DEF AnswerInv
  <2>9. HeightInv'
    <3>1. lost' \subseteq blocks'
      BY <2>2, <2>3 DEF HeightInv
    <3>2. ASSUME a = "hash", NEW b \in blocks
          PROVE  ~(b.era = era /\ b.stake.height = height + 1)
      BY DEF HeightInv
    <3>3. block = [stake |-> block.stake, era |-> block.era]
      BY DEF block
    <3>4. CASE a = "hash"
      BY <2>1, <2>2, <2>6, <3>1, <3>2, <3>3, <3>4 DEF HeightInv
    <3>5. CASE a # "hash"
      BY <2>1, <2>2, <3>1, <3>5 DEF HeightInv
    <3> QED
      BY <3>4, <3>5
  <2>10. OutcomesTrue'
    <3>1. AcceptedWasOnChain' /\ reported' \cap lost' = {}
      BY <2>1, <2>2, <2>3, <2>7 DEF OutcomesTrue, AcceptedWasOnChain
    <3>2. ASSUME NEW t \in blocks' \ lost'
          PROVE  t \in reported' \/ \E h \in Hosts : answer'[h] = "hash" /\ made'[h] = t
      <4>1. CASE t \in blocks
        <5>1. t \in blocks \ lost
          BY <4>1, <3>2, <2>3
        <5>2. CASE t \in reported
          BY <5>2, <2>1
        <5>3. ASSUME NEW h \in Hosts, answer[h] = "hash", made[h] = t
              PROVE  answer'[h] = "hash" /\ made'[h] = t
          BY <5>3, <2>1, <2>3
        <5> QED
          BY <5>1, <5>2, <5>3 DEF OutcomesTrue, BlocksAreReported
      <4>2. CASE t \notin blocks
        BY <4>2, <3>2, <2>1, <2>2, <2>3
      <4> QED
        BY <4>1, <4>2
    <3> QED
      BY <3>1, <3>2 DEF OutcomesTrue, BlocksAreReported
  <2> QED
    BY <2>4, <2>5, <2>8, <2>9, <2>10
<1>10. CASE TipMoves
  BY <1>10 DEF TipMoves, cycleVars, awardVars, RequestInv, AnswerInv, HeightInv,
     OutcomesTrue, AcceptedWasOnChain, BlocksAreReported
<1>11. ASSUME NEW fork \in 0 .. MaxHeight, Reorganised(fork) PROVE CycleInv'
  BY <1>11 DEF Reorganised, cycleVars, awardVars, RequestInv, AnswerInv, HeightInv,
     OutcomesTrue, AcceptedWasOnChain, BlocksAreReported
<1>12. CASE UNCHANGED vars
  BY <1>12 DEF vars, chainVars, cycleVars, awardVars, RequestInv, AnswerInv, HeightInv,
     OutcomesTrue, AcceptedWasOnChain, BlocksAreReported
<1> QED
  BY <1>1, <1>2, <1>3, <1>4, <1>5, <1>6, <1>7, <1>8, <1>9, <1>10, <1>11, <1>12
  DEF Next, HostStep

\* What submit reports is what the chain holds, for every order of answers,
\* timeouts and rival blocks.
THEOREM OutcomesTrueHolds == Spec => []OutcomesTrue
<1>1. CycleInv => OutcomesTrue
  BY DEF CycleInv
<1> QED
  BY <1>1, CycleInvInit, CycleInvNext, PTL DEF Spec

-----------------------------------------------------------------------------
(* The awards.                                                             *)

\* The award of a block, which is settled by the policy and its stake.
AwardOf(p, b) == [block |-> b, roll |-> Roll(p, WinOf(b.stake)),
                  chance |-> ChanceAt(p, WinOf(b.stake).time)]

\* A block is offered once, to its own host's policy, after it was reported;
\* every award is one of these offers and is counted.
AwardInv ==
    /\ \A h \in Hosts : \A b \in due[h] :
          StakeFor(h, b.stake) /\ b \in reported /\ \A a \in awards : a.block # b
    /\ \A a \in awards : a.block \in reported /\ a = AwardOf(policy, a.block)
    /\ IsFiniteSet(awards) /\ total = Cardinality(awards)

LEMMA AwardInvInit == Init => AwardInv
  BY FS_EmptySet DEF Init, AwardInv

\* Steps that neither conclude a call nor offer a win leave all of it alone.
LEMMA AwardInvUnchanged ==
    AwardInv /\ UNCHANGED <<policy, due, reported, total, awards>> => AwardInv'
  BY DEF AwardInv

LEMMA AwardInvNext == CycleInv /\ AwardInv /\ [Next]_vars => AwardInv'
<1> SUFFICES ASSUME CycleInv, AwardInv, [Next]_vars PROVE AwardInv'
  OBVIOUS
<1>1. ASSUME NEW h \in Hosts, CallReturns(h) PROVE AwardInv'
  <2>1. /\ phase[h] = "call" /\ UNCHANGED <<policy, total, awards>>
        /\ reported' = IF answer[h] = "hash" THEN reported \cup {made[h]} ELSE reported
        /\ due' = [due EXCEPT ![h] = IF answer[h] = "hash" THEN @ \cup {made[h]} ELSE @]
    BY <1>1 DEF CallReturns, Conclude, SubmitOutcome, awardVars
  <2>2. CASE answer[h] # "hash"
    BY <2>1, <2>2 DEF AwardInv, CycleInv, PerHost
  <2>3. CASE answer[h] = "hash"
    <3>1. StakeFor(h, made[h].stake) /\ made[h] \notin reported
      BY <2>1, <2>3 DEF CycleInv, AnswerInv
    <3> QED
      BY <2>1, <2>3, <3>1 DEF AwardInv, CycleInv, PerHost
  <2> QED
    BY <2>2, <2>3
<1>2. ASSUME NEW h \in Hosts, CallBreaks(h) PROVE AwardInv'
  <2>1. UNCHANGED <<policy, reported, total, awards>>
        /\ due' = [due EXCEPT ![h] = @]
    BY <1>2 DEF CallBreaks, Conclude, SubmitOutcome, awardVars
  <2> QED
    BY <2>1 DEF AwardInv, CycleInv, PerHost
<1>3. ASSUME NEW h \in Hosts, NEW s \in due[h], Offer(h, s) PROVE AwardInv'
  <2> DEFINE award == AwardOf(policy, s)
  <2>1. UNCHANGED <<policy, reported>> /\ due' = [due EXCEPT ![h] = @ \ {s}]
    BY <1>3 DEF Offer, cycleVars
  <2>2. \/ awards' = awards \cup {award} /\ total' = total + 1
        \/ UNCHANGED <<awards, total>>
    BY <1>3 DEF Offer, OnStakeWin, AwardOf
  <2>3. award.block = s
    BY DEF AwardOf
  <2> HIDE DEF award
  <2>4. s \in reported /\ StakeFor(h, s.stake) /\ award \notin awards
    BY <2>3 DEF AwardInv
  <2>5. ASSUME NEW g \in Hosts, NEW t \in due'[g]
        PROVE  StakeFor(g, t.stake) /\ t \in reported' /\ \A a \in awards' : a.block # t
    <3>1. t \in due[g] /\ (g = h => t # s)
      BY <2>1 DEF CycleInv, PerHost
    <3>2. StakeFor(g, t.stake) /\ (t = s => StakeFor(h, t.stake))
      BY <3>1, <2>4 DEF AwardInv
    <3>3. t # s
      BY <3>1, <3>2 DEF StakeFor
    <3> QED
      BY <3>1, <3>3, <2>1, <2>2, <2>3 DEF AwardInv
  <2>6. \A a \in awards' : a.block \in reported' /\ a = AwardOf(policy', a.block)
    BY <2>1, <2>2, <2>3, <2>4 DEF AwardInv, award
  <2>7. IsFiniteSet(awards') /\ total' = Cardinality(awards')
    BY <2>2, <2>4, FS_AddElement DEF AwardInv
  <2> QED
    BY <2>5, <2>6, <2>7 DEF AwardInv
<1>4. ASSUME NEW h \in Hosts,
             (\E found \in SUBSET Devices : BeginCycle(h, found)) \/ NotSigned(h)
               \/ SignAndSubmit(h) \/ EndCycle(h) \/ ReadAwardState(h)
      PROVE  AwardInv'
  BY <1>4, AwardInvUnchanged
  DEF BeginCycle, NotSigned, SignAndSubmit, EndCycle, ReadAwardState, awardVars, cycleVars
<1>5. ASSUME NEW r \in network, NEW a \in Answers \ {"none"}, NodeWorks(r, a) PROVE AwardInv'
  BY <1>5, AwardInvUnchanged DEF NodeWorks, awardVars
<1>6. CASE TipMoves \/ (\E fork \in 0 .. MaxHeight : Reorganised(fork)) \/ UNCHANGED vars
  BY <1>6, AwardInvUnchanged DEF TipMoves, Reorganised, vars, cycleVars, awardVars
<1> QED
  BY <1>1, <1>2, <1>3, <1>4, <1>5, <1>6 DEF Next, HostStep

\* One award per block, only for stakes that became blocks, none at a height a second
\* time unless the chain reorganised; the count of awards is exact although sinks
\* fail, calls break and hosts submit twice.
THEOREM OneAwardPerBlockHolds == Spec => []OneAwardPerBlock
<1>1. CycleInv /\ AwardInv => OneAwardPerBlock
  <2> SUFFICES ASSUME CycleInv, AwardInv PROVE OneAwardPerBlock
    OBVIOUS
  <2>1. \A a \in awards : a.block \in blocks /\ a = AwardOf(policy, a.block)
    BY DEF AwardInv, CycleInv, OutcomesTrue, AcceptedWasOnChain
  <2>2. ASSUME NEW a \in awards, NEW b \in awards,
               a.block.stake.height = b.block.stake.height, a.block.era = b.block.era
        PROVE  a = b
    <3>1. a.block = b.block
      BY <2>1, <2>2 DEF CycleInv, HeightInv
    <3> QED
      BY <2>1, <3>1
  <2>3. ASSUME NEW a \in awards, NEW b \in awards,
               a.block.stake.height = b.block.stake.height, OnChain(a.block), OnChain(b.block)
        PROVE  a = b
    BY <2>2, <2>3 DEF OnChain
  <2> QED
    BY <2>1, <2>2, <2>3 DEF OneAwardPerBlock, AwardInv
<1> QED
  BY <1>1, CycleInvInit, CycleInvNext, AwardInvInit, AwardInvNext, PTL DEF Spec

\* RollSource::StakeProof and ::ServerSecret: the header, which a staker can vary
\* at will, has no influence on the award of an accepted stake.
THEOREM UngrindableHolds == Spec => []Ungrindable
<1>1. AwardInv => Ungrindable
  <2> SUFFICES ASSUME AwardInv, policy.source # "BlockHash",
                      NEW h \in Hosts, NEW b \in due[h], NEW header \in Hosts, NEW n
               PROVE  Evaluate(policy, WinOf(b.stake), n)
                          = Evaluate(policy, WinOf([b.stake EXCEPT !.header = header]), n)
    BY Zenon DEF Ungrindable
  <2> DEFINE s == b.stake
  <2> DEFINE v == WinOf(s)
             w == WinOf([s EXCEPT !.header = header])
  <2>1. StakeFor(h, s)
    BY DEF AwardInv
  <2> HIDE DEF s
  <2>2. /\ [s EXCEPT !.header = header].height = s.height
        /\ [s EXCEPT !.header = header].on = s.on
        /\ [s EXCEPT !.header = header].device = s.device
    BY <2>1 DEF StakeFor
  <2>3. v.height = w.height /\ v.time = w.time /\ v.value = w.value
          /\ v.proof_hash = w.proof_hash
    BY <2>2 DEF WinOf
  <2> HIDE DEF v, w
  <2>4. Roll(policy, v) = Roll(policy, w)
    BY <2>3 DEF Roll
  <2>5. Evaluate(policy, v, n) = Evaluate(policy, w, n)
    BY <2>3, <2>4 DEF Evaluate
  <2> QED
    BY <2>5 DEF v, w, s
<1> QED
  BY <1>1, CycleInvInit, CycleInvNext, AwardInvInit, AwardInvNext, PTL DEF Spec

-----------------------------------------------------------------------------
(* The cap.                                                                *)

\* Hosts whose copy of the AwardState still admits an award.
Pending == {h \in Hosts : seen[h] # NoCap /\ seen[h] < policy.cap}

\* Below the cap anybody may read a count that admits an award; at the cap
\* nobody newly does, and each of the others can be wrong once.
CapInv ==
    /\ policy \in Policies
    /\ policy.cap = 0 => total = 0
    /\ policy.cap \in Nat \ {0} =>
          total + Cardinality(Pending) <= policy.cap - 1 + Cardinality(Hosts)

LEMMA PendingFinite ==
    IsFiniteSet(Pending) /\ Cardinality(Pending) \in Nat /\ Cardinality(Hosts) \in Nat
      /\ Cardinality(Pending) <= Cardinality(Hosts)
  BY CycleAssumption, FS_Subset, FS_CardinalityType DEF Pending

LEMMA CapInvInit == Init => CapInv
<1> SUFFICES ASSUME Init PROVE CapInv
  OBVIOUS
<1>1. Pending = {}
  BY DEF Init, Pending
<1>2. Cardinality(Pending) = 0
  BY <1>1, FS_EmptySet
<1>3. policy \in Policies /\ total = 0
  BY CycleAssumption DEF Init
<1> QED
  BY <1>2, <1>3, PendingFinite DEF CapInv

LEMMA CapInvUnchanged == CapInv /\ UNCHANGED <<policy, seen, total>> => CapInv'
  BY DEF CapInv, Pending

LEMMA CapInvNext == CycleInv /\ CapInv /\ [Next]_vars => CapInv'
<1> SUFFICES ASSUME CycleInv, CapInv, [Next]_vars PROVE CapInv'
  OBVIOUS
<1> USE DEF CycleInv, PerHost
<1>0. NoCap \notin Nat
  BY RewardsAssumption
<1>1. ASSUME NEW h \in Hosts, ReadAwardState(h) PROVE CapInv'
  <2>1. seen' = [seen EXCEPT ![h] = total] /\ UNCHANGED <<policy, total>>
    BY <1>1 DEF ReadAwardState
  <2>2. ASSUME policy.cap \in Nat \ {0}
        PROVE  total + Cardinality(Pending') <= policy.cap - 1 + Cardinality(Hosts)
    <3>1. CASE total < policy.cap
      <4>1. Pending' \subseteq Hosts
        BY DEF Pending
      <4>2. Cardinality(Pending') \in Nat /\ Cardinality(Pending') <= Cardinality(Hosts)
        BY <4>1, CycleAssumption, FS_Subset, FS_CardinalityType
      <4> QED
        BY <3>1, <4>2, <2>2, PendingFinite
    <3>2. CASE ~(total < policy.cap)
      <4>1. Pending' \subseteq Pending
        BY <2>1, <3>2 DEF Pending
      <4>2. Cardinality(Pending') \in Nat /\ Cardinality(Pending') <= Cardinality(Pending)
        BY <4>1, PendingFinite, FS_Subset, FS_CardinalityType
      <4> QED
        BY <4>2, <2>2, PendingFinite DEF CapInv
    <3> QED
      BY <3>1, <3>2
  <2> QED
    BY <2>1, <2>2 DEF CapInv
<1>2. ASSUME NEW h \in Hosts, NEW s \in due[h], Offer(h, s) PROVE CapInv'
  <2>1. seen[h] \in Nat /\ seen' = [seen EXCEPT ![h] = NoCap] /\ policy' = policy
    BY <1>2 DEF Offer
  <2>2. Pending' = Pending \ {h}
    BY <2>1 DEF Pending
  <2>3. CASE total' = total
    <3>1. Cardinality(Pending') \in Nat /\ Cardinality(Pending') <= Cardinality(Pending)
      BY <2>2, PendingFinite, FS_Subset, FS_CardinalityType
    <3> QED
      BY <2>1, <2>3, <3>1, PendingFinite DEF CapInv, Policies
  <2>4. CASE total' = total + 1 /\ BelowCap(policy, seen[h])
    <3>1. CASE policy.cap = NoCap
      BY <3>1, <2>1, <1>0 DEF CapInv
    <3>2. CASE policy.cap \in Nat
      <4>1. seen[h] < policy.cap /\ policy.cap # 0
        BY <2>1, <2>4, <3>2, <1>0 DEF BelowCap
      <4>2. h \in Pending
        BY <4>1, <2>1, <1>0 DEF Pending
      <4>3. Cardinality(Pending') = Cardinality(Pending) - 1
        BY <2>2, <4>2, PendingFinite, FS_RemoveElement
      <4> QED
        BY <2>1, <2>4, <3>2, <4>1, <4>3, PendingFinite DEF CapInv
    <3> QED
      BY <3>1, <3>2 DEF CapInv, Policies
  <2> QED
    BY <1>2, <2>3, <2>4 DEF Offer, Evaluate
<1>3. ASSUME NEW h \in Hosts,
             (\E found \in SUBSET Devices : BeginCycle(h, found)) \/ NotSigned(h)
               \/ SignAndSubmit(h) \/ CallReturns(h) \/ CallBreaks(h) \/ EndCycle(h)
      PROVE  CapInv'
  BY <1>3, CapInvUnchanged
  DEF BeginCycle, NotSigned, SignAndSubmit, CallReturns, CallBreaks, EndCycle, awardVars
<1>4. ASSUME NEW r \in network, NEW a \in Answers \ {"none"}, NodeWorks(r, a) PROVE CapInv'
  BY <1>4, CapInvUnchanged DEF NodeWorks, awardVars
<1>5. CASE TipMoves \/ (\E fork \in 0 .. MaxHeight : Reorganised(fork)) \/ UNCHANGED vars
  BY <1>5, CapInvUnchanged DEF TipMoves, Reorganised, vars, awardVars
<1> QED
  BY <1>1, <1>2, <1>3, <1>4, <1>5 DEF Next, HostStep

\* max_total_awards against a stale AwardState: the overrun is one award for each
\* host but the first, for any number of hosts.
THEOREM CapOverrunBoundedHolds == Spec => []CapOverrunBounded
<1>1. CycleInv /\ AwardInv /\ CapInv => CapOverrunBounded
  <2> SUFFICES ASSUME CycleInv, AwardInv, CapInv, policy.cap # NoCap
               PROVE  Cardinality(awards) <=
                        IF policy.cap = 0 THEN 0 ELSE policy.cap + Cardinality(Hosts) - 1
    BY DEF CapOverrunBounded
  <2>1. policy.cap \in Nat
    BY DEF CapInv, Policies
  <2>2. total = Cardinality(awards) /\ total \in Nat
    BY DEF AwardInv, CycleInv, PerHost
  <2> QED
    BY <2>1, <2>2, PendingFinite DEF CapInv
<1> QED
  BY <1>1, CycleInvInit, CycleInvNext, AwardInvInit, AwardInvNext, CapInvInit, CapInvNext, PTL
  DEF Spec

-----------------------------------------------------------------------------
(* The odds.                                                               *)

Scheduled(s) == s.height \in 1 .. MaxHeight /\ s.on \in Eras

\* Every stake that is under way, and so every block, has a height and a parent that
\* the environment's schedule covers.
HeightsInv ==
    /\ height \in 0 .. MaxHeight /\ era \in Eras /\ branch \in [0 .. MaxHeight -> Eras]
    /\ parent \in [Hosts -> Tips] /\ DOMAIN wins = Hosts
    /\ \A h \in Hosts : wins[h] # <<>> => parent[h].height < MaxHeight
    /\ \A r \in network : Scheduled(r.stake)
    /\ \A h \in Hosts : phase[h] = "call" => Scheduled(awaited[h])
    /\ \A b \in blocks : Scheduled(b.stake)

LEMMA HeightsInit == Init => HeightsInv
  BY CycleAssumption DEF Init, HeightsInv, Eras, Tips, Genesis

LEMMA HeightsUnchanged ==
    HeightsInv /\ UNCHANGED <<height, era, branch, parent, wins, network, phase, awaited,
                             blocks>>
      => HeightsInv'
  BY DEF HeightsInv

LEMMA HeightsNext == CycleInv /\ HeightsInv /\ [Next]_vars => HeightsInv'
<1> SUFFICES ASSUME CycleInv, HeightsInv, [Next]_vars PROVE HeightsInv'
  OBVIOUS
<1> USE CycleAssumption DEF CycleInv, PerHost, HeightsInv
<1>1. ASSUME NEW h \in Hosts, NEW found \in SUBSET Devices, BeginCycle(h, found)
      PROVE  HeightsInv'
  <2> DEFINE picked == SelectSeq(Stakers, LAMBDA d : d \in found)
  <2> HIDE DEF picked
  <2> DEFINE tip == [height |-> height, era |-> branch[height]]
  <2>0. tip \in Tips /\ tip.height = height
    BY DEF Tips
  <2> HIDE DEF tip
  <2>1. /\ phase' = [phase EXCEPT ![h] = "sign"] /\ parent' = [parent EXCEPT ![h] = tip]
        /\ UNCHANGED <<height, era, branch, network, blocks, awaited>>
    BY <1>1 DEF BeginCycle, chainVars, tip
  <2>2. wins' = [wins EXCEPT ![h] = IF found = {} THEN <<>> ELSE picked]
    BY <1>1 DEF BeginCycle, picked
  <2>3. found # {} => height < MaxHeight
    BY <1>1 DEF BeginCycle
  <2> QED
    BY <2>0, <2>1, <2>2, <2>3
<1>2. ASSUME NEW h \in Hosts, NotSigned(h) PROVE HeightsInv'
  <2>1. wins[h] # <<>> /\ \E rest : wins' = [wins EXCEPT ![h] = rest]
    BY <1>2 DEF NotSigned
  <2> QED
    BY <1>2, <2>1 DEF NotSigned, chainVars
<1>3. ASSUME NEW h \in Hosts, SignAndSubmit(h) PROVE HeightsInv'
  <2> DEFINE s == StakeOf(h)
  <2>1. wins[h] # <<>> /\ \E rest : wins' = [wins EXCEPT ![h] = rest]
    BY <1>3 DEF SignAndSubmit
  <2>2. Scheduled(s)
    BY <2>1 DEF StakeOf, Scheduled, Tips
  <2> HIDE DEF s
  <2>3. /\ network' = network \cup {[host |-> h, stake |-> s, live |-> TRUE]}
        /\ awaited' = [awaited EXCEPT ![h] = s] /\ phase' = [phase EXCEPT ![h] = "call"]
        /\ UNCHANGED <<height, era, branch, blocks, parent>>
    BY <1>3 DEF SignAndSubmit, s
  <2> QED
    BY <2>1, <2>2, <2>3
<1>4. ASSUME NEW h \in Hosts, CallReturns(h) PROVE HeightsInv'
  BY <1>4 DEF CallReturns, Conclude, chainVars
<1>5. ASSUME NEW h \in Hosts, CallBreaks(h) PROVE HeightsInv'
  <2>1. /\ phase[h] = "call" /\ UNCHANGED <<height, era, branch, blocks, parent, wins>>
        /\ phase' = [phase EXCEPT ![h] = "sign"]
        /\ awaited' = [awaited EXCEPT ![h] = Nobody]
    BY <1>5 DEF CallBreaks, Conclude
  <2>2. \A r \in network' : r \in network \/ r.stake = awaited[h]
    BY <1>5 DEF CallBreaks, Abandon
  <2> QED
    BY <2>1, <2>2
<1>6. ASSUME NEW h \in Hosts, EndCycle(h) PROVE HeightsInv'
  <2>1. Genesis \in Tips
    BY CycleAssumption DEF Genesis, Tips, Eras
  <2>2. /\ phase' = [phase EXCEPT ![h] = IF due[h] = {} THEN "idle" ELSE "award"]
        /\ parent' = [parent EXCEPT ![h] = Genesis] /\ wins[h] = <<>>
        /\ UNCHANGED <<height, era, branch, blocks, network, wins, awaited>>
    BY <1>6 DEF EndCycle, chainVars
  <2> QED
    BY <2>1, <2>2
<1>7. ASSUME NEW h \in Hosts, NEW s \in due[h], Offer(h, s) PROVE HeightsInv'
  BY <1>7 DEF Offer, chainVars, cycleVars
<1>8. ASSUME NEW r \in network, NEW a \in Answers \ {"none"}, NodeWorks(r, a) PROVE HeightsInv'
  <2>1. network' = network \ {r} /\ UNCHANGED <<phase, parent, wins, awaited>>
    BY <1>8 DEF NodeWorks
  <2> DEFINE block == [stake |-> r.stake, era |-> era]
  <2>2. /\ era' = era
        /\ \/ UNCHANGED <<height, branch, blocks>>
           \/ /\ r.stake.height = height + 1 /\ height' = height + 1
              /\ branch' = [branch EXCEPT ![height + 1] = era] /\ blocks' = blocks \cup {block}
    BY <1>8 DEF NodeWorks, NodeAnswers
  <2>3. block.stake = r.stake /\ Scheduled(r.stake)
    OBVIOUS
  <2> HIDE DEF block
  <2>4. r.stake.height = height + 1 => height + 1 \in 0 .. MaxHeight
    BY <2>3 DEF Scheduled
  <2> QED
    BY <2>1, <2>2, <2>3, <2>4
<1>9. CASE TipMoves
  BY <1>9 DEF TipMoves, cycleVars
<1>12. ASSUME NEW fork \in 0 .. MaxHeight, Reorganised(fork) PROVE HeightsInv'
  BY <1>12 DEF Reorganised, cycleVars, Eras
<1>10. CASE UNCHANGED vars
  BY <1>10, HeightsUnchanged DEF vars, chainVars, cycleVars
<1>11. ASSUME NEW h \in Hosts, ReadAwardState(h) PROVE HeightsInv'
  BY <1>11, HeightsUnchanged DEF ReadAwardState, chainVars, cycleVars
<1> QED
  BY <1>1, <1>2, <1>3, <1>4, <1>5, <1>6, <1>7, <1>8, <1>9, <1>10, <1>11, <1>12
  DEF Next, HostStep

\* Min and Max of two integers.
LEMMA MinMaxPair ==
    ASSUME NEW a \in Int, NEW b \in Int
    PROVE  /\ Max({a, b}) = IF a >= b THEN a ELSE b
           /\ Min({a, b}) = IF a <= b THEN a ELSE b
<1>1. \E x \in {a, b} : \A y \in {a, b} : x >= y
  OBVIOUS
<1>2. Max({a, b}) \in {a, b} /\ \A y \in {a, b} : Max({a, b}) >= y
  BY <1>1 DEF Max
<1>3. \E x \in {a, b} : \A y \in {a, b} : x <= y
  OBVIOUS
<1>4. Min({a, b}) \in {a, b} /\ \A y \in {a, b} : Min({a, b}) <= y
  BY <1>3 DEF Min
<1> QED
  BY <1>2, <1>4

\* One more half-life never raises the rounded chance.
LEMMA DecayStep ==
    ASSUME NEW p \in Policies, NEW n \in Nat
    PROVE  Decayed(p, n) \in Nat /\ Decayed(p, n + 1) <= Decayed(p, n)
<1> DEFINE i == p.initial
           P == Pow2[n]
<1>1. i \in Nat /\ P \in Nat /\ P > 0
  BY Pow2Facts DEF Policies
<1>2. Pow2[n + 1] = 2 * P /\ Pow2[(n + 1) + 1] = 4 * P
  BY Pow2Facts
<1> HIDE DEF i, P
<1>3. (2 * i + P) \div (2 * P) \in Nat
  BY <1>1
<1>4. (2 * i + 2 * P) \div (4 * P) <= (2 * i + P) \div (2 * P)
  BY <1>1
<1> QED
  BY <1>1, <1>2, <1>3, <1>4 DEF Decayed, i, P

\* initial * 0.5^n, rounded, falls with n.
LEMMA DecayMonotone ==
    ASSUME NEW p \in Policies, NEW m \in Nat, NEW n \in Nat, m <= n
    PROVE  Decayed(p, n) <= Decayed(p, m)
<1> DEFINE D == {k \in Nat : Decayed(p, m + k) <= Decayed(p, m)}
<1>1. 0 \in D
  BY DecayStep
<1>2. ASSUME NEW k \in Nat, k \in D PROVE k + 1 \in D
  <2>1. Decayed(p, (m + k) + 1) <= Decayed(p, m + k) /\ (m + k) + 1 = m + (k + 1)
    BY DecayStep
  <2>2. /\ Decayed(p, m) \in Nat /\ Decayed(p, m + k) \in Nat
        /\ Decayed(p, m + (k + 1)) \in Nat
    BY DecayStep
  <2> QED
    BY <1>2, <2>1, <2>2
<1> HIDE DEF D
<1>3. n - m \in D
  BY <1>1, <1>2, SetInduction
<1>4. m + (n - m) = n
  OBVIOUS
<1> QED
  BY <1>3, <1>4 DEF D

\* chance_ppm_at falls with time and keeps above the floor.
LEMMA ChanceMonotone ==
    ASSUME NEW p \in Policies, NEW s \in Nat, NEW t \in Nat, s <= t
    PROVE  /\ ChanceAt(p, t) <= ChanceAt(p, s)
           /\ Validate(p) => p.floor <= ChanceAt(p, s)
<1>1. ProgramStart \in Nat /\ Ppm \in Nat /\ p.floor \in Nat
  BY RewardsAssumption DEF Policies
<1>2. Elapsed(s) \in Nat /\ Elapsed(t) \in Nat /\ Elapsed(s) <= Elapsed(t)
  BY <1>1, MinMaxPair DEF Elapsed
<1> DEFINE ds == Decayed(p, Elapsed(s))
           dt == Decayed(p, Elapsed(t))
<1>3. ds \in Nat /\ dt \in Nat /\ dt <= ds
  BY <1>2, DecayStep, DecayMonotone
<1> HIDE DEF ds, dt
<1>4. /\ Max({p.floor, ds}) = IF p.floor >= ds THEN p.floor ELSE ds
      /\ Max({p.floor, dt}) = IF p.floor >= dt THEN p.floor ELSE dt
  BY <1>1, <1>3, MinMaxPair
<1> DEFINE ms == Max({p.floor, ds})
           mt == Max({p.floor, dt})
<1>5. ms \in Nat /\ mt \in Nat /\ mt <= ms /\ p.floor <= ms
  BY <1>1, <1>3, <1>4
<1> HIDE DEF ms, mt
<1>6. ChanceAt(p, s) = Min({Ppm, ms}) /\ ChanceAt(p, t) = Min({Ppm, mt})
  BY DEF ChanceAt, ms, mt, ds, dt
<1>7. /\ Min({Ppm, ms}) = IF Ppm <= ms THEN Ppm ELSE ms
      /\ Min({Ppm, mt}) = IF Ppm <= mt THEN Ppm ELSE mt
  <2>1. Ppm \in Int /\ ms \in Int /\ mt \in Int
    BY <1>1, <1>5
  <2> QED
    BY <2>1, MinMaxPair
<1> QED
  BY <1>1, <1>5, <1>6, <1>7 DEF Validate

\* chance_ppm_at: for every valid policy, every schedule of block times and every
\* history of awards, later blocks never had better odds nor worse than the floor.
THEOREM ChanceDiminishesHolds == Spec => []ChanceDiminishes
<1>1. CycleInv /\ AwardInv /\ CapInv /\ HeightsInv => ChanceDiminishes
  <2> SUFFICES ASSUME CycleInv, AwardInv, CapInv, HeightsInv, Validate(policy),
                      NEW a \in awards, NEW b \in awards
               PROVE  /\ policy.floor <= a.chance
                      /\ WinOf(a.block.stake).time <= WinOf(b.block.stake).time
                           => b.chance <= a.chance
    BY DEF ChanceDiminishes
  <2> DEFINE s == WinOf(a.block.stake).time
             t == WinOf(b.block.stake).time
  <2>1. Scheduled(a.block.stake) /\ Scheduled(b.block.stake)
    BY DEF AwardInv, CycleInv, OutcomesTrue, AcceptedWasOnChain, HeightsInv
  <2>2. s \in Nat /\ t \in Nat
    BY <2>1, CycleAssumption DEF Scheduled, WinOf
  <2>3. a.chance = ChanceAt(policy, s) /\ b.chance = ChanceAt(policy, t)
    BY DEF AwardInv, AwardOf
  <2>4. policy \in Policies
    BY DEF CapInv
  <2> HIDE DEF s, t
  <2>5. policy.floor <= ChanceAt(policy, s)
    BY <2>2, <2>4, ChanceMonotone
  <2>6. s <= t => ChanceAt(policy, t) <= ChanceAt(policy, s)
    BY <2>2, <2>4, ChanceMonotone
  <2> QED
    BY <2>3, <2>5, <2>6 DEF s, t
<1> QED
  BY <1>1, CycleInvInit, CycleInvNext, AwardInvInit, AwardInvNext, CapInvInit, CapInvNext,
     HeightsInit, HeightsNext, PTL DEF Spec
=============================================================================
