------------------------- MODULE PhoneStaker_proofs -------------------------
(* What the phone signs, for every set of coins, templates and notices.    *)
EXTENDS PhoneStaker, DataLemmas

\* coinstake_pays_to as the running sum of its loop over the outputs.
LEMMA PaysToSteps ==
    ASSUME NEW tx, NEW script, NEW n \in Nat, DOMAIN tx.vout = 1 .. n,
           \A i \in 1 .. n : tx.vout[i].value \in I64
    PROVE  \E p :
              /\ p[0] = 0 /\ PaysTo(tx, script) = p[n]
              /\ \A i \in 1 .. n :
                    p[i] = IF tx.vout[i].to = script
                           THEN SatAdd(p[i - 1], tx.vout[i].value) ELSE p[i - 1]
<1> DEFINE Step(acc, o) == IF o.to = script THEN SatAdd(acc, o.value) ELSE acc
           F == [iv \in (1 .. n) \X I64 |-> Step(iv[2], tx.vout[iv[1]])]
           Eq(g) == g = [s \in SUBSET (1 .. n) |->
                           IF s = {} THEN 0 ELSE Step(g[s \ {Max(s)}], tx.vout[Max(s)])]
           h == CHOOSE g : Eq(g)
<1>1. I64Max \in Nat /\ 0 \in I64
  BY StakerAssumption DEF I64
<1>2. F \in [(1 .. n) \X I64 -> I64]
  BY <1>1 DEF SatAdd, I64
<1>3. PICK g : IsFold(g, n, I64, 0, F)
  <2> HIDE DEF F
  <2> QED
    BY <1>1, <1>2, FoldExists
<1>4. Eq(g)
  <2>1. g \in [SUBSET (1 .. n) -> I64] /\ g[{}] = 0
    BY <1>3 DEF IsFold
  <2>2. ASSUME NEW s \in SUBSET (1 .. n), s # {}
        PROVE  g[s] = Step(g[s \ {Max(s)}], tx.vout[Max(s)])
    <3> DEFINE x == Max(s)
    <3>1. x \in s /\ \A y \in s : y <= x
      BY <2>2, MaxIndex
    <3> HIDE DEF x, F
    <3>2. g[s] = F[<<x, g[s \ {x}]>>]
      BY <1>3, <3>1 DEF IsFold
    <3>3. <<x, g[s \ {x}]>> \in (1 .. n) \X I64
      BY <2>1, <3>1
    <3>4. F[<<x, g[s \ {x}]>>] = Step(g[s \ {x}], tx.vout[x])
      BY <3>3 DEF F
    <3> QED
      BY <3>2, <3>4 DEF x
  <2> HIDE DEF Step
  <2> QED
    BY <2>1, <2>2
<1>5. PaysTo(tx, script) = h[1 .. n]
  BY DEF PaysTo, FoldLeft, MapThenFoldSet
<1>6. Eq(h)
  <2> HIDE DEF Eq
  <2> QED
    BY <1>4
<1> DEFINE p == [i \in 0 .. n |-> h[1 .. i]]
<1>7. p[0] = 0 /\ PaysTo(tx, script) = p[n]
  <2>1. 1 .. 0 = {} /\ 1 .. 0 \in SUBSET (1 .. n)
    OBVIOUS
  <2> HIDE DEF h, Step
  <2>2. h[1 .. 0] = 0
    BY <1>6, <2>1
  <2> QED
    BY <1>5, <2>2
<1>8. ASSUME NEW i \in 1 .. n PROVE p[i] = Step(p[i - 1], tx.vout[i])
  <2>1. Max(1 .. i) = i /\ (1 .. i) \ {i} = 1 .. (i - 1) /\ 1 .. i # {}
    <3>1. i \in Nat \ {0}
      OBVIOUS
    <3> QED
      BY <3>1, MaxPrefix
  <2>2. 1 .. i \in SUBSET (1 .. n) /\ i \in 0 .. n /\ i - 1 \in 0 .. n
    OBVIOUS
  <2> HIDE DEF h, Step
  <2>3. h[1 .. i] = Step(h[1 .. (i - 1)], tx.vout[i])
    BY <1>6, <2>1, <2>2
  <2> QED
    BY <2>2, <2>3
<1> HIDE DEF p
<1> QED
  BY <1>7, <1>8

\* The exact sum, in the same steps.
LEMMA ExactlyPaysSteps ==
    ASSUME NEW tx, NEW script, NEW n \in Nat, DOMAIN tx.vout = 1 .. n,
           \A i \in 1 .. n : tx.vout[i].value \in I64
    PROVE  \E p :
              /\ p[0] = 0 /\ ExactlyPays(tx, script) = p[n]
              /\ \A i \in 1 .. n :
                    p[i] = IF tx.vout[i].to = script
                           THEN p[i - 1] + tx.vout[i].value ELSE p[i - 1]
<1> DEFINE Step(acc, o) == IF o.to = script THEN acc + o.value ELSE acc
           F == [iv \in (1 .. n) \X Int |-> Step(iv[2], tx.vout[iv[1]])]
           Eq(g) == g = [s \in SUBSET (1 .. n) |->
                           IF s = {} THEN 0 ELSE Step(g[s \ {Max(s)}], tx.vout[Max(s)])]
           h == CHOOSE g : Eq(g)
<1>1. I64Max \in Nat /\ 0 \in Int
  BY StakerAssumption DEF I64
<1>2. F \in [(1 .. n) \X Int -> Int]
  BY <1>1 DEF I64
<1>3. PICK g : IsFold(g, n, Int, 0, F)
  <2> HIDE DEF F
  <2> QED
    BY <1>1, <1>2, FoldExists
<1>4. Eq(g)
  <2>1. g \in [SUBSET (1 .. n) -> Int] /\ g[{}] = 0
    BY <1>3 DEF IsFold
  <2>2. ASSUME NEW s \in SUBSET (1 .. n), s # {}
        PROVE  g[s] = Step(g[s \ {Max(s)}], tx.vout[Max(s)])
    <3> DEFINE x == Max(s)
    <3>1. x \in s /\ \A y \in s : y <= x
      BY <2>2, MaxIndex
    <3> HIDE DEF x, F
    <3>2. g[s] = F[<<x, g[s \ {x}]>>]
      BY <1>3, <3>1 DEF IsFold
    <3>3. <<x, g[s \ {x}]>> \in (1 .. n) \X Int
      BY <2>1, <3>1
    <3>4. F[<<x, g[s \ {x}]>>] = Step(g[s \ {x}], tx.vout[x])
      BY <3>3 DEF F
    <3> QED
      BY <3>2, <3>4 DEF x
  <2> HIDE DEF Step
  <2> QED
    BY <2>1, <2>2
<1>5. ExactlyPays(tx, script) = h[1 .. n]
  BY DEF ExactlyPays, FoldLeft, MapThenFoldSet
<1>6. Eq(h)
  <2> HIDE DEF Eq
  <2> QED
    BY <1>4
<1> DEFINE p == [i \in 0 .. n |-> h[1 .. i]]
<1>7. p[0] = 0 /\ ExactlyPays(tx, script) = p[n]
  <2>1. 1 .. 0 = {} /\ 1 .. 0 \in SUBSET (1 .. n)
    OBVIOUS
  <2> HIDE DEF h, Step
  <2>2. h[1 .. 0] = 0
    BY <1>6, <2>1
  <2> QED
    BY <1>5, <2>2
<1>8. ASSUME NEW i \in 1 .. n PROVE p[i] = Step(p[i - 1], tx.vout[i])
  <2>1. Max(1 .. i) = i /\ (1 .. i) \ {i} = 1 .. (i - 1) /\ 1 .. i # {}
    <3>1. i \in Nat \ {0}
      OBVIOUS
    <3> QED
      BY <3>1, MaxPrefix
  <2>2. 1 .. i \in SUBSET (1 .. n) /\ i \in 0 .. n /\ i - 1 \in 0 .. n
    OBVIOUS
  <2> HIDE DEF h, Step
  <2>3. h[1 .. i] = Step(h[1 .. (i - 1)], tx.vout[i])
    BY <1>6, <2>1, <2>2
  <2> QED
    BY <2>2, <2>3
<1> HIDE DEF p
<1> QED
  BY <1>7, <1>8

\* With consensus-valid outputs the saturating sum is the exact one, cut at the
\* largest i64.
LEMMA SaturatedSum ==
    ASSUME NEW tx \in Coinstakes, ValidOutputs(tx), NEW script
    PROVE  /\ ExactlyPays(tx, script) \in Nat
           /\ PaysTo(tx, script) = IF ExactlyPays(tx, script) > I64Max THEN I64Max
                                   ELSE ExactlyPays(tx, script)
<1> DEFINE n == Len(tx.vout)
<1>1. I64Max \in Nat /\ MaxMoney \in Nat
  BY StakerAssumption
<1>2. tx.vout \in Seq(Outputs)
  BY CoinstakesAssumption
<1>3. n \in Nat /\ DOMAIN tx.vout = 1 .. n /\ \A i \in 1 .. n : tx.vout[i] \in Outputs
  BY <1>2
<1>4. \A i \in 1 .. n : tx.vout[i].value \in I64 /\ tx.vout[i].value \in Nat
  BY <1>1, <1>3 DEF ValidOutputs, Outputs
<1> HIDE DEF n
<1>5. PICK p : /\ p[0] = 0 /\ PaysTo(tx, script) = p[n]
               /\ \A i \in 1 .. n : p[i] = IF tx.vout[i].to = script
                                           THEN SatAdd(p[i - 1], tx.vout[i].value) ELSE p[i - 1]
  BY <1>3, <1>4, PaysToSteps
<1>6. PICK q : /\ q[0] = 0 /\ ExactlyPays(tx, script) = q[n]
               /\ \A i \in 1 .. n : q[i] = IF tx.vout[i].to = script
                                           THEN q[i - 1] + tx.vout[i].value ELSE q[i - 1]
  BY <1>3, <1>4, ExactlyPaysSteps
<1> DEFINE Agree == {k \in Nat : k <= n => /\ q[k] \in Nat
                                           /\ p[k] = IF q[k] > I64Max THEN I64Max ELSE q[k]}
<1>7. 0 \in Agree
  BY <1>1, <1>5, <1>6
<1>8. ASSUME NEW k \in Nat, k \in Agree PROVE k + 1 \in Agree
  <2> SUFFICES ASSUME k + 1 <= n
               PROVE  /\ q[k + 1] \in Nat
                      /\ p[k + 1] = IF q[k + 1] > I64Max THEN I64Max ELSE q[k + 1]
    OBVIOUS
  <2>1. /\ q[k] \in Nat
        /\ p[k] = IF q[k] > I64Max THEN I64Max ELSE q[k]
    BY <1>3, <1>8
  <2>2. k + 1 \in 1 .. n /\ (k + 1) - 1 = k
    BY <1>3
  <2>3. /\ p[k + 1] = IF tx.vout[k + 1].to = script
                      THEN SatAdd(p[k], tx.vout[k + 1].value) ELSE p[k]
        /\ q[k + 1] = IF tx.vout[k + 1].to = script
                      THEN q[k] + tx.vout[k + 1].value ELSE q[k]
    BY <1>5, <1>6, <2>2
  <2>4. tx.vout[k + 1].value \in Nat
    BY <1>4, <2>2
  <2> QED
    BY <1>1, <2>1, <2>3, <2>4 DEF SatAdd
<1> HIDE DEF Agree
<1>9. n \in Agree
  BY <1>3, <1>7, <1>8, SetInduction
<1> QED
  BY <1>3, <1>5, <1>6, <1>9 DEF Agree

-----------------------------------------------------------------------------

\* The phone's waiting notice passed verify_win and names an owned coin: the
\* facts checked before the template was asked for still hold when it arrives,
\* whatever the chain did meanwhile.
AskingInv == asking # NoNotice => Plausible(asking)

\* What consensus let into the chain has valid amounts.
OnChainInv == \A s \in onChain : ValidOutputs(s.tx)

\* A template that was declined failed one of the phone's checks.
DeclinedInv ==
    declined.notice # NoNotice /\ declined.tmpl # NoTemplate =>
        ~Acceptable(declined.notice, declined.tmpl)

StakerInv == TypeOK /\ AskingInv /\ SignedStakesPayBack /\ OnChainInv /\ DeclinedInv

\* The invariant holds before the first win.
LEMMA StakerInit == Init => StakerInv
  BY DEF Init, StakerInv, TypeOK, AskingInv, SignedStakesPayBack, OnChainInv, DeclinedInv, NothingDeclined

\* Every step of the staker preserves it.
LEMMA StakerNext == StakerInv /\ [Next]_vars => StakerInv'
<1> SUFFICES ASSUME StakerInv, [Next]_vars PROVE StakerInv'
  OBVIOUS
<1> USE StakerAssumption, SentinelAssumption DEF StakerInv
<1>1. ASSUME NEW n \in Notices, DeclineNotice(n) PROVE StakerInv'
  BY <1>1 DEF DeclineNotice, TypeOK, AskingInv, SignedStakesPayBack, OnChainInv, DeclinedInv
<1>2. ASSUME NEW n \in Notices, AskTemplate(n) PROVE StakerInv'
  BY <1>2 DEF AskTemplate, TypeOK, AskingInv, SignedStakesPayBack, OnChainInv, DeclinedInv, NothingDeclined
<1>3. ASSUME NEW t \in Templates \cup {NoTemplate}, DeclineTemplate(t) PROVE StakerInv'
  BY <1>3 DEF DeclineTemplate, TypeOK, AskingInv, SignedStakesPayBack, OnChainInv, DeclinedInv
<1>4. ASSUME NEW t \in Templates \cup {NoTemplate}, Sign(t) PROVE StakerInv'
  <2> DEFINE s == [height |-> asking.height, prev |-> asking.prev,
                   built |-> t.prev, tx |-> t.tx]
  <2>1. asking \in Notices /\ t \in Templates /\ asking.coin \in Own
    BY <1>4 DEF Sign, TypeOK, Acceptable, AskingInv, Plausible
  <2>2. s \in Stakes
    BY <2>1 DEF Notices, Templates, Stakes
  <2>3. s.tx.vin = <<asking.coin>> /\ PaysTo(s.tx, ScriptOf[asking.coin]) >= Value[asking.coin]
    BY <1>4 DEF Sign, Acceptable, SignCoinstake, ReturnsAtLeast
  <2> HIDE DEF s
  <2>4. signed' = signed \cup {s} /\ asking' = NoNotice /\ UNCHANGED <<tip, onChain, declined>>
    BY <1>4 DEF Sign, s
  <2>5. TypeOK' /\ AskingInv' /\ OnChainInv' /\ DeclinedInv'
    BY <2>2, <2>4 DEF TypeOK, AskingInv, OnChainInv, DeclinedInv
  <2>6. SignedStakesPayBack'
    BY <2>1, <2>3, <2>4 DEF SignedStakesPayBack
  <2> QED
    BY <2>5, <2>6
<1>5. ASSUME NEW s \in signed, Submit(s) PROVE StakerInv'
  BY <1>5 DEF Submit, TypeOK, AskingInv, SignedStakesPayBack, OnChainInv, DeclinedInv
<1>6. CASE TipMoves
  BY <1>6 DEF TipMoves, TypeOK, AskingInv, SignedStakesPayBack, OnChainInv, DeclinedInv
<1>7. CASE UNCHANGED vars
  BY <1>7 DEF vars, TypeOK, AskingInv, SignedStakesPayBack, OnChainInv, DeclinedInv
<1> QED
  BY <1>1, <1>2, <1>3, <1>4, <1>5, <1>6, <1>7 DEF Next

\* Every state the phone, the relay and the node reach is well-typed.
THEOREM StakerTypeCorrect == Spec => []TypeOK
<1>1. StakerInv => TypeOK
  BY DEF StakerInv
<1> QED
  BY <1>1, StakerInit, StakerNext, PTL DEF Spec

\* Whatever notices and templates it is given, and however the chain moves
\* while it waits, the phone signs only coinstakes that spend exactly one coin
\* of its own and return the value it knows that coin to have
\* (build_signed_stake, coinstake_returns_at_least).
THEOREM SignedStakesPayBackHolds == Spec => []SignedStakesPayBack
<1>1. StakerInv => SignedStakesPayBack
  BY DEF StakerInv
<1> QED
  BY <1>1, StakerInit, StakerNext, PTL DEF Spec

\* Where the chain ends up holding a stake of the phone, the coin's own script
\* has its worth back in exact arithmetic: the saturation of coinstake_pays_to
\* and the negative outputs the phone would accept never add up to a loss,
\* because consensus bounds each output (SaturatedSum).
THEOREM PrincipalSafeHolds == Spec => []PrincipalSafe
<1>1. StakerInv => PrincipalSafe
  <2> SUFFICES ASSUME StakerInv, NEW s \in onChain, NEW i \in 1 .. Len(s.tx.vin),
                      s.tx.vin[i] \in Own
               PROVE  ExactlyPays(s.tx, ScriptOf[s.tx.vin[i]]) >= Value[s.tx.vin[i]]
    BY DEF PrincipalSafe
  <2>1. s \in signed /\ s.tx \in Coinstakes /\ ValidOutputs(s.tx)
    BY DEF StakerInv, TypeOK, OnChainInv, Stakes
  <2>2. PICK c \in Own : s.tx.vin = <<c>> /\ PaysTo(s.tx, ScriptOf[c]) >= Value[c]
    BY <2>1 DEF StakerInv, SignedStakesPayBack
  <2>3. s.tx.vin[i] = c
    BY <2>2
  <2>4. Value[c] \in Int /\ I64Max \in Nat
    BY StakerAssumption DEF I64
  <2>5. /\ ExactlyPays(s.tx, ScriptOf[c]) \in Nat
        /\ PaysTo(s.tx, ScriptOf[c]) = IF ExactlyPays(s.tx, ScriptOf[c]) > I64Max THEN I64Max
                                       ELSE ExactlyPays(s.tx, ScriptOf[c])
    BY <2>1, SaturatedSum
  <2> QED
    BY <2>2, <2>3, <2>4, <2>5
<1> QED
  BY <1>1, StakerInit, StakerNext, PTL DEF Spec

\* The guards of build_signed_stake and sign_coinstake cost no honest block: what
\* an honest node authors for a genuine win passes all of them.
THEOREM HonestWinSignedHolds == Spec => []HonestWinSigned
<1>1. StakerInv => HonestWinSigned
  <2> DEFINE n == declined.notice
             t == declined.tmpl
  <2> SUFFICES ASSUME StakerInv, n # NoNotice, t # NoTemplate,
                      Plausible(n), n.parses, HonestTemplate(n, t)
               PROVE  FALSE
    BY DEF HonestWinSigned
  <2>1. n \in Notices /\ t \in Templates
    BY DEF StakerInv, TypeOK
  <2>2. ~Acceptable(n, t)
    BY DEF StakerInv, DeclinedInv
  <2> HIDE DEF n, t
  <2>3. t.tx \in Coinstakes /\ n.coin \in Coins
    BY <2>1 DEF Notices, Templates
  <2>4. Value[n.coin] \in I64 /\ I64Max \in Nat
    BY <2>3, StakerAssumption
  <2>5. /\ ExactlyPays(t.tx, ScriptOf[n.coin]) \in Nat
        /\ PaysTo(t.tx, ScriptOf[n.coin]) = IF ExactlyPays(t.tx, ScriptOf[n.coin]) > I64Max
                                            THEN I64Max ELSE ExactlyPays(t.tx, ScriptOf[n.coin])
    BY <2>3, SaturatedSum DEF HonestTemplate
  <2>6. PaysTo(t.tx, ScriptOf[n.coin]) > 0 /\ PaysTo(t.tx, ScriptOf[n.coin]) >= Value[n.coin]
    BY <2>4, <2>5 DEF HonestTemplate, I64
  <2> QED
    BY <2>2, <2>6 DEF Acceptable, SignCoinstake, ReturnsAtLeast, HonestTemplate
<1> QED
  BY <1>1, StakerInit, StakerNext, PTL DEF Spec
=============================================================================
