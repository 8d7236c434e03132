----------------------------- MODULE Send_proofs -----------------------------
(***************************************************************************)
(* What build_signed_send promises, for every wallet and every figure a    *)
(* relay may report; what the octets of a block, a hash or a number say of *)
(* it, for every width: two recursions, what is left of a number and what  *)
(* its last octets are worth, meet in the middle; and what becomes of a    *)
(* transaction on its way.  What Serialize writes is laid out field by     *)
(* field, the reader gets every field that stands there, what it accepts   *)
(* stood there, and octets spell one transaction at most: so is a          *)
(* signature of one input of one transaction.                              *)
(***************************************************************************)
EXTENDS Send, Formats, Wire, DataLemmas

\* The coins of a request are at the positions 1 .. n, and their amounts are
\* integers that an i64 can count.
LEMMA RequestFacts ==
    ASSUME NEW r \in Requests
    PROVE  \E n \in Nat :
              /\ DOMAIN r.coins = 1 .. n
              /\ \A i \in 1 .. n : Worth(r.coins)[i] \in Nat
              /\ \A i \in 1 .. n : Hint(r.coins)[i] = r.coins[i].hint
              /\ \A i \in 1 .. n : r.coins[i].hint \in -(I64Max + 1) .. I64Max
              /\ SumFunctionOnSet(Worth(r.coins), 1 .. n) < I64Max
              /\ r.amount \in Int /\ r.amount <= I64Max /\ r.kind \in Kinds
<1>1. r.coins \in Wallets /\ r.amount \in Amounts /\ r.kind \in Kinds
  BY DEF Requests
<1>2. PICK n \in 0 .. MaxCoins : r.coins \in [1 .. n -> CoinSet]
  BY <1>1 DEF Wallets
<1>3. n \in Nat /\ DOMAIN r.coins = 1 .. n
  BY <1>2, SendAssumption
<1>4. \A i \in 1 .. n : r.coins[i].hint \in Hints /\ r.coins[i].true \in TrueValues \cup {Unverified}
  BY <1>2 DEF CoinSet
<1>5. I64Max \in Nat /\ TrueValues \subseteq 0 .. I64Max /\ Hints \subseteq -(I64Max + 1) .. I64Max
      /\ Amounts \subseteq -(I64Max + 1) .. I64Max
  BY SendAssumption
<1>6. ASSUME NEW i \in 1 .. n PROVE Worth(r.coins)[i] \in Nat
  <2>1. Worth(r.coins)[i] = IF r.coins[i].true = Unverified THEN 0 ELSE r.coins[i].true
    BY <1>3 DEF Worth
  <2>2. r.coins[i].true = Unverified \/ r.coins[i].true \in 0 .. I64Max
    BY <1>4, <1>5
  <2> QED
    BY <2>1, <2>2
<1>7. \A i \in 1 .. n : Hint(r.coins)[i] = r.coins[i].hint
  BY <1>3 DEF Hint
<1>8. SumFunctionOnSet(Worth(r.coins), 1 .. n) < I64Max
  BY <1>1, <1>3 DEF Wallets
<1>9. r.amount \in Int /\ r.amount <= I64Max
  <2>1. r.amount \in -(I64Max + 1) .. I64Max
    BY <1>1, <1>5
  <2> QED
    BY <1>5, <2>1
<1>10. \A i \in 1 .. n : r.coins[i].hint \in -(I64Max + 1) .. I64Max
  BY <1>4, <1>5
<1> QED
  BY <1>1, <1>3, <1>6, <1>7, <1>8, <1>9, <1>10

\* est_fee is a natural number and grows with the inputs.
LEMMA FeeFacts ==
    ASSUME NEW kind \in Kinds, NEW a \in Nat, NEW b \in Nat, a <= b
    PROVE  EstFee(kind, a) \in Nat /\ EstFee(kind, a) <= EstFee(kind, b)
<1>1. /\ BaseSize \in Nat /\ InputSize \in Nat /\ OutputSize \in Nat /\ FeeRate \in Nat
      /\ FastMultiple \in Nat
  BY SendAssumption
<1>2. FeeMultiple(kind) \in Nat /\ NOut(kind) \in Nat
  BY <1>1 DEF FeeMultiple, NOut
<1> DEFINE size(k) == BaseSize + k * InputSize + NOut(kind) * OutputSize
<1>3. size(a) \in Nat /\ size(b) \in Nat /\ size(a) <= size(b)
  <2>1. a * InputSize \in Nat /\ b * InputSize \in Nat /\ NOut(kind) * OutputSize \in Nat
    BY <1>1, <1>2
  <2>2. a * InputSize <= b * InputSize
    BY <1>1
  <2> QED
    BY <1>1, <2>1, <2>2
<1> HIDE DEF size
<1>4. /\ size(a) * FeeRate \in Nat /\ size(b) * FeeRate \in Nat
      /\ size(a) * FeeRate <= size(b) * FeeRate
  BY <1>1, <1>3
<1>5. /\ size(a) * FeeRate * FeeMultiple(kind) \in Nat
      /\ size(a) * FeeRate * FeeMultiple(kind) <= size(b) * FeeRate * FeeMultiple(kind)
  BY <1>2, <1>4
<1> QED
  BY <1>5 DEF EstFee, size

\* Part of a wallet is worth no more than all of it: no sum is cut or wraps.
LEMMA PartialWorth ==
    ASSUME NEW r \in Requests, NEW S \in SUBSET DOMAIN r.coins
    PROVE  /\ SumFunctionOnSet(Worth(r.coins), S) \in 0 .. (I64Max - 1)
           /\ Cardinality(S) \in Nat
<1>1. PICK n \in Nat :
         /\ DOMAIN r.coins = 1 .. n
         /\ \A i \in 1 .. n : Worth(r.coins)[i] \in Nat
         /\ SumFunctionOnSet(Worth(r.coins), 1 .. n) < I64Max
  BY RequestFacts
<1> DEFINE f == Worth(r.coins)
<1> HIDE DEF f
<1>2. S \in SUBSET (1 .. n) /\ 1 .. n \in SUBSET (1 .. n) /\ {} \in SUBSET (1 .. n)
  BY <1>1
<1>3. Summable(f, S) /\ Summable(f, 1 .. n) /\ Summable(f, {})
  BY <1>1, <1>2 DEF Summable, f
<1>4. \A i \in 1 .. n : /\ Term(f, S, i) <= Term(f, 1 .. n, i)
                        /\ Term(f, {}, i) <= Term(f, S, i)
  BY <1>1, <1>2 DEF Term, f
<1>5. SumFunctionOnSet(f, S) <= SumFunctionOnSet(f, 1 .. n)
  BY <1>2, <1>3, <1>4, SumCompare
<1>6. SumFunctionOnSet(f, {}) <= SumFunctionOnSet(f, S)
  BY <1>2, <1>3, <1>4, SumCompare
<1>7. SumFunctionOnSet(f, {}) = 0
  BY SumEmpty
<1>8. SumFunctionOnSet(f, S) \in Int /\ SumFunctionOnSet(f, 1 .. n) \in Int
  BY <1>2, <1>3, SumType
<1>9. I64Max \in Nat
  BY SendAssumption
<1>10. SumFunctionOnSet(f, S) \in 0 .. (I64Max - 1)
  BY <1>1, <1>5, <1>6, <1>7, <1>8, <1>9 DEF f
<1> QED
  BY <1>2, <1>10, PrefixFinite DEF f

-----------------------------------------------------------------------------
(* The order of the coins.                                                 *)

\* Of some coins with a claim there is a last one from the largest down.
LEMMA LastExists ==
    ASSUME NEW r \in Requests, NEW S \in SUBSET Claimed(r), S # {}
    PROVE  \E i \in S : \A j \in S : j \in Down(r, i)
<1>1. PICK n \in Nat :
         /\ DOMAIN r.coins = 1 .. n
         /\ \A i \in 1 .. n : r.coins[i].hint \in -(I64Max + 1) .. I64Max
  BY RequestFacts
<1> DEFINE h(i) == r.coins[i].hint
<1>2. I64Max \in Nat
  BY SendAssumption
<1>3. \A i \in S : i \in Nat /\ h(i) \in Nat
  BY <1>1, <1>2 DEF Claimed
<1> DEFINE hints == {h(i) : i \in S}
<1>4. PICK v \in hints : \A w \in hints : v <= w
  <2>1. hints \subseteq Nat /\ hints # {}
    BY <1>3
  <2> HIDE DEF hints
  <2> QED
    BY <2>1, LeastNat
<1> DEFINE small == {i \in S : h(i) = v}
<1>5. PICK i \in small : \A j \in small : i <= j
  <2>1. small \subseteq Nat /\ small # {}
    BY <1>3, <1>4
  <2> HIDE DEF small
  <2> QED
    BY <2>1, LeastNat
<1>6. ASSUME NEW j \in S PROVE j \in Down(r, i)
  <2>1. h(i) <= h(j) /\ h(i) \in Nat /\ h(j) \in Nat /\ i \in Nat /\ j \in Nat
    BY <1>3, <1>4, <1>5
  <2>2. h(j) = h(i) => i <= j
    BY <1>5
  <2> QED
    BY <2>1, <2>2 DEF Down
<1> QED
  BY <1>5, <1>6

\* And a first one.
LEMMA FirstExists ==
    ASSUME NEW r \in Requests, NEW S \in SUBSET Claimed(r), S # {}
    PROVE  \E i \in S : \A j \in S : i \in Down(r, j)
<1>1. PICK n \in Nat :
         /\ DOMAIN r.coins = 1 .. n
         /\ \A i \in 1 .. n : r.coins[i].hint \in -(I64Max + 1) .. I64Max
  BY RequestFacts
<1> DEFINE h(i) == r.coins[i].hint
<1>2. I64Max \in Nat
  BY SendAssumption
<1>3. \A i \in S : i \in 1 .. n /\ h(i) \in 0 .. I64Max
  BY <1>1, <1>2 DEF Claimed
<1> DEFINE hints == {I64Max - h(i) : i \in S}
<1>4. PICK v \in hints : \A w \in hints : v <= w
  <2>1. hints \subseteq Nat /\ hints # {}
    BY <1>2, <1>3
  <2> HIDE DEF hints
  <2> QED
    BY <2>1, LeastNat
<1> DEFINE large == {i \in S : I64Max - h(i) = v}
           places == {n - i : i \in large}
<1>5. PICK p \in places : \A q \in places : p <= q
  <2>1. places \subseteq Nat /\ places # {}
    BY <1>3, <1>4
  <2> HIDE DEF places
  <2> QED
    BY <2>1, LeastNat
<1>6. PICK i \in large : p = n - i
  BY <1>5
<1>7. ASSUME NEW j \in S PROVE i \in Down(r, j)
  <2>1. h(i) \in Nat /\ h(j) \in Nat /\ i \in 1 .. n /\ j \in 1 .. n
    BY <1>3, <1>6
  <2>2. I64Max - h(i) <= I64Max - h(j)
    BY <1>4, <1>6
  <2>3. h(j) = h(i) => n - i <= n - j
    BY <1>5, <1>6
  <2> QED
    BY <1>2, <2>1, <2>2, <2>3 DEF Down
<1> QED
  BY <1>6, <1>7

\* What build_signed_send selects: one coin that covers the send; or a run of the
\* coins from the largest down that covers it; or, when neither exists, all coins.
LEMMA SelectFacts ==
    ASSUME NEW r \in Requests
    PROVE  /\ Select(r) \in SUBSET DOMAIN r.coins
           /\ \/ Covers(r, Select(r))
              \/ \A i \in Claimed(r) : ~Covers(r, Down(r, i))
<1> DEFINE single == {i \in Claimed(r) : Covers(r, {i})}
           enough == {i \in Claimed(r) : Covers(r, Down(r, i))}
           one == CHOOSE i \in single : \A j \in single : j \in Down(r, i)
           first == CHOOSE i \in enough : \A j \in enough : i \in Down(r, j)
<1>1. Select(r) = IF single # {} THEN {one}
                  ELSE IF enough # {} THEN Down(r, first) ELSE Claimed(r)
  BY DEF Select
<1>2. Claimed(r) \subseteq DOMAIN r.coins /\ \A i : Down(r, i) \subseteq Claimed(r)
  BY DEF Claimed, Down
<1>3. single \in SUBSET Claimed(r) /\ enough \in SUBSET Claimed(r)
  OBVIOUS
<1>4. CASE single # {}
  <2>1. one \in single
    <3> HIDE DEF single
    <3>1. \E i \in single : \A j \in single : j \in Down(r, i)
      BY <1>3, <1>4, LastExists
    <3> QED
      BY <3>1
  <2> HIDE DEF one
  <2>2. Select(r) = {one} /\ one \in Claimed(r) /\ Covers(r, {one})
    BY <1>1, <1>4, <2>1
  <2> QED
    BY <1>2, <2>2
<1>5. CASE single = {} /\ enough # {}
  <2>1. first \in enough
    <3> HIDE DEF enough
    <3>1. \E i \in enough : \A j \in enough : i \in Down(r, j)
      BY <1>3, <1>5, FirstExists
    <3> QED
      BY <3>1
  <2> HIDE DEF first
  <2>2. Select(r) = Down(r, first) /\ Covers(r, Down(r, first))
    BY <1>1, <1>5, <2>1
  <2> QED
    BY <1>2, <2>2
<1>6. CASE single = {} /\ enough = {}
  <2>1. Select(r) = Claimed(r)
    BY <1>1, <1>6
  <2> QED
    BY <1>2, <1>6, <2>1
<1> QED
  BY <1>4, <1>5, <1>6

-----------------------------------------------------------------------------
(* What is built.                                                          *)

\* The figures of a request: nothing that is added up is cut.
LEMMA Figures ==
    ASSUME NEW r \in Requests, NEW S \in SUBSET DOMAIN r.coins
    PROVE  /\ TotalIn(r, S) = SumFunctionOnSet(Worth(r.coins), S)
           /\ TotalIn(r, S) \in 0 .. (I64Max - 1)
           /\ r.amount \in Int /\ EstFee(r.kind, Cardinality(S)) \in Nat
           /\ I64Max \in Nat /\ Dust \in Nat \ {0} /\ FeeCap \in Nat
<1>1. I64Max \in Nat /\ Dust \in Nat \ {0} /\ FeeCap \in Nat
  BY SendAssumption
<1>2. SumFunctionOnSet(Worth(r.coins), S) \in 0 .. (I64Max - 1) /\ Cardinality(S) \in Nat
  BY PartialWorth
<1>3. TotalIn(r, S) = SumFunctionOnSet(Worth(r.coins), S)
  BY <1>1, <1>2 DEF TotalIn, SatAdd
<1>4. r.amount \in Int /\ r.kind \in Kinds
  BY RequestFacts
<1>5. EstFee(r.kind, Cardinality(S)) \in Nat
  BY <1>2, <1>4, FeeFacts
<1> QED
  BY <1>1, <1>2, <1>3, <1>4, <1>5

\* A payment that passes the checks in front of its last one passes that one too,
\* and what it pays is what the coins are worth.
LEMMA BuiltFacts ==
    ASSUME NEW r \in Requests, NEW fault \in Faults
    PROVE  LET b == BuildSignedSend(r, fault)
               est == EstFee(r.kind, Cardinality(b.coins))
           IN  /\ b # Refused("outputs")
               /\ b.ok => /\ \A i \in b.coins : r.coins[i].true # Unverified
                          /\ b.fee = SumFunctionOnSet(Worth(r.coins), b.coins)
                                       - r.amount - b.change
                          /\ b.fee \in est .. est + Dust - 1 /\ b.fee <= FeeCap
                          /\ b.change = 0 \/ b.change >= Dust
<1> DEFINE sel == Select(r)
           total == TotalIn(r, sel)
           fee == EstFee(r.kind, Cardinality(sel))
           change == Change(total, r, fee)
           real == total - r.amount - change
           b == BuildSignedSend(r, fault)
<1>1. sel \in SUBSET DOMAIN r.coins
  BY SelectFacts
<1>2. /\ total = SumFunctionOnSet(Worth(r.coins), sel) /\ total \in 0 .. (I64Max - 1)
      /\ r.amount \in Int /\ fee \in Nat
      /\ I64Max \in Nat /\ Dust \in Nat \ {0} /\ FeeCap \in Nat
  BY <1>1, Figures
<1>3. \/ b.ok = FALSE /\ b.why # "outputs"
      \/ b = Refused("outputs") /\ total >= SatAdd(r.amount, fee) /\ real < 0
      \/ /\ b = [ok |-> TRUE, coins |-> sel, change |-> change, fee |-> real]
         /\ \A i \in sel : r.coins[i].true # Unverified
         /\ total >= SatAdd(r.amount, fee) /\ real <= FeeCap
  <2> HIDE DEF sel, total, fee, change
  <2>1. b = IF r.amount <= 0 THEN Refused("amount")
        ELSE IF fault = "address" THEN Refused("address")
        ELSE IF \E i \in sel : r.coins[i].true = Unverified THEN Refused("unverified")
        ELSE IF total < SatAdd(r.amount, fee) THEN Refused("balance")
        ELSE IF fee > FeeCap THEN Refused("cap")
        ELSE IF fault = "signing" THEN Refused("signing")
        ELSE IF real < 0 THEN Refused("outputs")
        ELSE IF real > FeeCap THEN Refused("burn")
        ELSE [ok |-> TRUE, coins |-> sel, change |-> change, fee |-> real]
    BY DEF BuildSignedSend, sel, total, fee, change
  <2>2. change \in Int /\ SatAdd(r.amount, fee) \in Int
    BY <1>2 DEF Change, change, SatAdd
  <2>3. real \in Int
    BY <1>2, <2>2
  <2> HIDE DEF b, real
  <2>4. \A why : Refused(why).ok = FALSE /\ Refused(why).why = why
    BY DEF Refused
  <2>5. \/ \E why \in {"amount", "address", "unverified", "balance", "cap", "signing", "burn"} :
              b = Refused(why)
        \/ b = Refused("outputs") /\ ~(total < SatAdd(r.amount, fee)) /\ real < 0
        \/ /\ b = [ok |-> TRUE, coins |-> sel, change |-> change, fee |-> real]
           /\ ~(\E i \in sel : r.coins[i].true = Unverified)
           /\ ~(total < SatAdd(r.amount, fee)) /\ ~(real > FeeCap)
    BY <2>1
  <2> QED
    BY <1>2, <2>2, <2>3, <2>4, <2>5
<1> HIDE DEF sel, total, fee
<1>4. change = IF total - r.amount - fee >= Dust THEN total - r.amount - fee ELSE 0
  BY DEF Change
<1> HIDE DEF change, b
<1>5. total >= SatAdd(r.amount, fee) =>
         /\ real \in fee .. fee + Dust - 1 /\ real >= 0
         /\ change = 0 \/ change >= Dust
  <2> SUFFICES ASSUME total >= SatAdd(r.amount, fee)
               PROVE  /\ real \in fee .. fee + Dust - 1 /\ real >= 0
                      /\ change = 0 \/ change >= Dust
    OBVIOUS
  <2>1. total >= r.amount + fee
    BY <1>2 DEF SatAdd
  <2> QED
    BY <1>2, <1>4, <2>1
<1>6. CASE b.ok = FALSE /\ b.why # "outputs"
  BY <1>6 DEF Refused, b
<1>7. CASE b = Refused("outputs") /\ total >= SatAdd(r.amount, fee) /\ real < 0
  <2>1. change \in Int
    BY <1>2, <1>4
  <2> QED
    BY <1>2, <1>5, <1>7, <2>1
<1>8. CASE /\ b = [ok |-> TRUE, coins |-> sel, change |-> change, fee |-> real]
           /\ \A i \in sel : r.coins[i].true # Unverified
           /\ total >= SatAdd(r.amount, fee) /\ real <= FeeCap
  <2>1. b.ok = TRUE /\ b.coins = sel /\ b.change = change /\ b.fee = real
    BY <1>8
  <2>2. b # Refused("outputs")
    BY <2>1 DEF Refused
  <2>3. real = SumFunctionOnSet(Worth(r.coins), sel) - r.amount - change
    BY <1>2
  <2> HIDE DEF real
  <2> QED
    BY <1>5, <1>8, <2>1, <2>2, <2>3 DEF b, fee
<1> QED
  BY <1>3, <1>6, <1>7, <1>8

-----------------------------------------------------------------------------
(* The greedy selection.                                                   *)

\* From the largest down is a total order.
LEMMA DownOrder ==
    ASSUME NEW r \in Requests, NEW c \in Claimed(r)
    PROVE  /\ c \in Down(r, c) /\ Down(r, c) \subseteq Claimed(r)
           /\ \A d \in Down(r, c) : /\ Down(r, d) \subseteq Down(r, c)
                                    /\ d # c => c \notin Down(r, d)
<1>1. PICK n \in Nat :
         /\ DOMAIN r.coins = 1 .. n
         /\ \A i \in 1 .. n : r.coins[i].hint \in -(I64Max + 1) .. I64Max
  BY RequestFacts
<1>2. I64Max \in Nat
  BY SendAssumption
<1>3. \A i \in Claimed(r) : i \in Nat /\ r.coins[i].hint \in Nat
  BY <1>1, <1>2 DEF Claimed
<1>4. c \in Down(r, c) /\ Down(r, c) \subseteq Claimed(r)
  BY <1>3 DEF Down
<1>5. ASSUME NEW d \in Down(r, c), NEW e \in Down(r, d) PROVE e \in Down(r, c)
  <2>1. d \in Claimed(r) /\ e \in Claimed(r)
    BY <1>5 DEF Down
  <2>2. /\ e \in Nat /\ d \in Nat /\ c \in Nat /\ r.coins[e].hint \in Nat
        /\ r.coins[d].hint \in Nat /\ r.coins[c].hint \in Nat
    BY <1>3, <2>1
  <2> QED
    BY <1>5, <2>1, <2>2 DEF Down
<1>6. ASSUME NEW d \in Down(r, c), d # c PROVE c \notin Down(r, d)
  <2>1. d \in Claimed(r)
    BY <1>6 DEF Down
  <2>2. d \in Nat /\ c \in Nat /\ r.coins[d].hint \in Nat /\ r.coins[c].hint \in Nat
    BY <1>3, <2>1
  <2> QED
    BY <1>6, <2>2 DEF Down
<1> QED
  BY <1>4, <1>5, <1>6

\* Sets of coins are finite, and a larger one has no fewer members.
LEMMA CoinSets ==
    ASSUME NEW r \in Requests, NEW S \in SUBSET DOMAIN r.coins, NEW T \in SUBSET S
    PROVE  /\ IsFiniteSet(S) /\ IsFiniteSet(T)
           /\ Cardinality(S) \in Nat /\ Cardinality(T) \in Nat
           /\ Cardinality(T) <= Cardinality(S)
<1>1. PICK n \in Nat : DOMAIN r.coins = 1 .. n
  BY RequestFacts
<1>2. S \in SUBSET (1 .. n) /\ T \in SUBSET (1 .. n)
  BY <1>1
<1>3. /\ IsFiniteSet(S) /\ Cardinality(S) \in Nat
      /\ IsFiniteSet(T) /\ Cardinality(T) \in Nat
  BY <1>2, PrefixFinite
<1>4. Cardinality(T) <= Cardinality(S)
  BY <1>3, FS_Subset
<1> QED
  BY <1>3, <1>4

\* There is a run from the largest coin down of each size.
LEMMA RunOfSize ==
    ASSUME NEW r \in Requests, NEW P \in SUBSET Claimed(r), P # {}
    PROVE  \E c \in Claimed(r) : Cardinality(Down(r, c)) = Cardinality(P)
<1> DEFINE size(c) == Cardinality(Down(r, c))
           long == {c \in Claimed(r) : size(c) >= Cardinality(P)}
           sizes == {size(c) : c \in long}
<1>1. Claimed(r) \in SUBSET DOMAIN r.coins /\ P \in SUBSET DOMAIN r.coins
  BY DEF Claimed
<1>2. \A c \in Claimed(r) : Down(r, c) \in SUBSET DOMAIN r.coins
  BY <1>1, DownOrder
<1>3. \A c \in Claimed(r) : size(c) \in Nat
  BY <1>2, CoinSets
<1>4. long # {}
  <2>1. PICK c \in Claimed(r) : \A j \in Claimed(r) : j \in Down(r, c)
    BY LastExists
  <2>2. P \in SUBSET Down(r, c)
    BY <2>1
  <2>3. Cardinality(P) <= size(c) /\ Cardinality(P) \in Nat
    BY <1>2, <2>2, CoinSets
  <2> QED
    BY <1>3, <2>3
<1>5. PICK m \in sizes : \A k \in sizes : m <= k
  <2>1. sizes \subseteq Nat /\ sizes # {}
    BY <1>3, <1>4
  <2> HIDE DEF sizes
  <2> QED
    BY <2>1, LeastNat
<1>6. PICK c \in long : m = size(c)
  BY <1>5
<1>7. Cardinality(P) \in Nat /\ Cardinality(P) # 0 /\ m \in Nat /\ m >= Cardinality(P)
  <2>1. IsFiniteSet(P) /\ Cardinality(P) \in Nat
    BY <1>1, CoinSets
  <2>2. Cardinality(P) # 0
    BY <2>1, FS_EmptySet
  <2> QED
    BY <1>3, <1>6, <2>1, <2>2
<1>8. ASSUME m > Cardinality(P) PROVE FALSE
  <2> DEFINE T == Down(r, c) \ {c}
  <2>1. c \in Claimed(r) /\ c \in Down(r, c) /\ T \in SUBSET Claimed(r)
    BY <1>6, DownOrder
  <2>2. IsFiniteSet(Down(r, c))
    BY <1>2, <2>1, CoinSets
  <2>3. Cardinality(T) = m - 1
    BY <1>6, <2>1, <2>2, FS_RemoveElement
  <2>4. T # {}
    <3>1. Cardinality(T) # 0
      BY <1>7, <1>8, <2>3
    <3> QED
      BY <3>1, FS_EmptySet
  <2>5. PICK d \in T : \A j \in T : j \in Down(r, d)
    <3> HIDE DEF T
    <3> QED
      BY <2>1, <2>4, LastExists
  <2>6. d \in Claimed(r) /\ Down(r, d) \in SUBSET DOMAIN r.coins /\ T \in SUBSET Down(r, d)
    BY <1>2, <2>1, <2>5
  <2>7. Down(r, d) \in SUBSET T
    BY <2>1, <2>5, DownOrder
  <2>8. Down(r, d) = T
    BY <2>6, <2>7
  <2>9. size(d) = m - 1
    BY <2>3, <2>8
  <2>10. d \in long
    BY <1>7, <1>8, <2>6, <2>9
  <2>11. m <= size(d)
    BY <1>5, <2>10
  <2> QED
    BY <1>7, <2>9, <2>11
<1> QED
  BY <1>6, <1>7, <1>8

\* When the relay's figures are true, some coins cover a send exactly when they are
\* worth the amount and the fee.
LEMMA TrueCovers ==
    ASSUME NEW r \in Requests, Hint(r.coins) = Worth(r.coins),
           NEW S \in SUBSET DOMAIN r.coins
    PROVE  Covers(r, S) <=>
              SumFunctionOnSet(Worth(r.coins), S) >= Need(r, Cardinality(S))
<1> DEFINE x == SumFunctionOnSet(Worth(r.coins), S)
<1>1. x \in 0 .. (I64Max - 1) /\ I64Max \in Nat
  BY PartialWorth, SendAssumption
<1> HIDE DEF x
<1>2. Wrapped(x) = x
  <2>1. /\ x + I64Max + 1 \in Nat /\ 2 * (I64Max + 1) \in Nat
        /\ x + I64Max + 1 < 2 * (I64Max + 1)
    BY <1>1
  <2>2. (x + I64Max + 1) % (2 * (I64Max + 1)) = x + I64Max + 1
    BY <2>1
  <2> QED
    BY <1>1, <2>2 DEF Wrapped
<1>3. SumHints(r, S) = Wrapped(x)
  BY DEF SumHints, x
<1> QED
  BY <1>2, <1>3 DEF Covers, x

\* If no run from the largest coin down covers the send, no choice of coins does.
LEMMA GreedyIsBest ==
    ASSUME NEW r \in Requests, Hint(r.coins) = Worth(r.coins), r.amount > 0,
           \A i \in Claimed(r) : ~Covers(r, Down(r, i)),
           NEW pick \in SUBSET DOMAIN r.coins
    PROVE  SumFunctionOnSet(Worth(r.coins), pick)
              < r.amount + EstFee(r.kind, Cardinality(pick))
<1>1. PICK n \in Nat :
         /\ DOMAIN r.coins = 1 .. n
         /\ \A i \in 1 .. n : Worth(r.coins)[i] \in Nat
         /\ \A i \in 1 .. n : Hint(r.coins)[i] = r.coins[i].hint
         /\ r.amount \in Int /\ r.kind \in Kinds
  BY RequestFacts
<1> DEFINE f == Worth(r.coins)
           P == pick \cap Claimed(r)
           fee(S) == EstFee(r.kind, Cardinality(S))
<1>2. P \in SUBSET pick /\ P \in SUBSET Claimed(r) /\ P \in SUBSET DOMAIN r.coins
  OBVIOUS
<1>3. fee(pick) \in Nat /\ fee(P) \in Nat /\ fee(P) <= fee(pick)
  <2>1. /\ Cardinality(P) \in Nat /\ Cardinality(pick) \in Nat
        /\ Cardinality(P) <= Cardinality(pick)
    BY <1>2, CoinSets
  <2> QED
    BY <1>1, <2>1, FeeFacts
<1>4. SumFunctionOnSet(f, pick) <= SumFunctionOnSet(f, P)
  <2>1. pick \in SUBSET (1 .. n) /\ P \in SUBSET (1 .. n)
    BY <1>1
  <2>2. Summable(f, pick) /\ Summable(f, P)
    BY <1>1, <2>1 DEF Summable
  <2>3. ASSUME NEW i \in 1 .. n PROVE Term(f, pick, i) <= Term(f, P, i)
    <3>1. f[i] = r.coins[i].hint /\ f[i] \in Nat
      BY <1>1
    <3> HIDE DEF f
    <3>2. i \in Claimed(r) \/ f[i] = 0
      BY <1>1, <3>1 DEF Claimed
    <3> QED
      BY <3>1, <3>2 DEF Term
  <2> HIDE DEF f, P
  <2> QED
    BY <2>1, <2>2, <2>3, SumCompare
<1>5. SumFunctionOnSet(f, pick) \in Int /\ SumFunctionOnSet(f, P) \in Int
  BY <1>2, PartialWorth
<1>6. SumFunctionOnSet(f, P) < r.amount + fee(P)
  <2>1. CASE P = {}
    <3>1. SumFunctionOnSet(f, P) = 0
      BY <2>1, SumEmpty
    <3> HIDE DEF f, P, fee
    <3> QED
      BY <1>1, <1>3, <3>1
  <2>2. CASE P # {}
    <3>1. PICK c \in Claimed(r) : Cardinality(Down(r, c)) = Cardinality(P)
      <4> HIDE DEF P
      <4> QED
        BY <1>2, <2>2, RunOfSize
    <3> DEFINE T == Down(r, c)
               v == f[c]
    <3>2. T \in SUBSET Claimed(r) /\ T \in SUBSET DOMAIN r.coins
      BY DownOrder DEF Claimed
    <3>3. c \in 1 .. n /\ v \in Nat /\ \A i \in 1 .. n : f[i] = r.coins[i].hint /\ f[i] \in Nat
      BY <1>1 DEF Claimed
    <3>4. \A i \in T : f[i] >= v
      BY <1>1, <3>2, <3>3 DEF Down
    <3>5. \A i \in P : i \in T \/ f[i] <= v
      BY <1>1, <1>2, <3>3 DEF Down
    <3>6. SumFunctionOnSet(f, P) <= SumFunctionOnSet(f, T)
      <4>1. P \in SUBSET (1 .. n) /\ T \in SUBSET (1 .. n)
        BY <1>1, <1>2, <3>2
      <4>2. Summable(f, 1 .. n) /\ v \in Int
        BY <3>3 DEF Summable
      <4> HIDE DEF f, P, T, v
      <4> QED
        BY <3>1, <3>4, <3>5, <4>1, <4>2, LargestSum DEF T
    <3>7. SumFunctionOnSet(f, T) < Need(r, Cardinality(T))
      <4>1. ~Covers(r, T)
        OBVIOUS
      <4>2. ~(SumFunctionOnSet(f, T) >= Need(r, Cardinality(T)))
        BY <3>2, <4>1, TrueCovers
      <4>3. SumFunctionOnSet(f, T) \in Int
        BY <3>2, PartialWorth
      <4>4. Need(r, Cardinality(T)) \in Int
        <5>1. I64Max \in Int /\ Cardinality(T) = Cardinality(P)
          BY <3>1, SendAssumption
        <5>2. EstFee(r.kind, Cardinality(T)) \in Nat
          BY <1>3, <5>1
        <5> HIDE DEF T
        <5> QED
          BY <1>1, <5>1, <5>2 DEF Need, SatAdd
      <4> HIDE DEF T, f
      <4> QED
        BY <4>2, <4>3, <4>4
    <3>8. Need(r, Cardinality(T)) <= r.amount + fee(P) /\ Need(r, Cardinality(T)) \in Int
      <4>1. I64Max \in Int /\ EstFee(r.kind, Cardinality(T)) = fee(P)
        BY <3>1, SendAssumption
      <4> HIDE DEF T, fee
      <4> QED
        BY <1>1, <1>3, <4>1 DEF Need, SatAdd
    <3>9. SumFunctionOnSet(f, T) \in Int
      BY <3>2, PartialWorth
    <3> HIDE DEF f, P, T, fee
    <3> QED
      BY <1>1, <1>3, <1>5, <3>6, <3>7, <3>8, <3>9
  <2> QED
    BY <2>1, <2>2
<1> HIDE DEF f, P, fee
<1>7. SumFunctionOnSet(f, pick) < r.amount + fee(pick)
  BY <1>1, <1>3, <1>4, <1>5, <1>6
<1> QED
  BY <1>7 DEF f, fee

\* A refusal for want of money is right when the figures are.
LEMMA BalanceRefusal ==
    ASSUME NEW r \in Requests, NEW fault \in Faults, Hint(r.coins) = Worth(r.coins),
           BuildSignedSend(r, fault) = Refused("balance"),
           NEW pick \in SUBSET DOMAIN r.coins
    PROVE  SumFunctionOnSet(Worth(r.coins), pick)
              < r.amount + EstFee(r.kind, Cardinality(pick))
<1> DEFINE sel == Select(r)
           total == TotalIn(r, sel)
           fee == EstFee(r.kind, Cardinality(sel))
<1>1. sel \in SUBSET DOMAIN r.coins
  BY SelectFacts
<1>2. /\ total = SumFunctionOnSet(Worth(r.coins), sel) /\ total \in 0 .. (I64Max - 1)
      /\ r.amount \in Int /\ fee \in Nat /\ I64Max \in Nat
  BY <1>1, Figures
<1>3. r.amount > 0 /\ total < SatAdd(r.amount, fee)
  <2> HIDE DEF sel, total, fee
  <2>1. \A a, b : Refused(a) = Refused(b) => a = b
    BY DEF Refused
  <2>2. \A a : Refused(a).ok = FALSE
    BY DEF Refused
  <2>3. ~(r.amount <= 0) /\ total < SatAdd(r.amount, fee)
    BY <2>1, <2>2 DEF BuildSignedSend, sel, total, fee
  <2> QED
    BY <1>2, <2>3
<1>4. ~Covers(r, sel)
  <2>1. SatAdd(r.amount, fee) \in Int
    BY <1>2 DEF SatAdd
  <2>2. ~(total >= SatAdd(r.amount, fee))
    <3> HIDE DEF total, fee
    <3> QED
      BY <1>2, <1>3, <2>1
  <2>3. Covers(r, sel) <=> SumFunctionOnSet(Worth(r.coins), sel) >= Need(r, Cardinality(sel))
    BY <1>1, TrueCovers
  <2> QED
    BY <1>2, <2>2, <2>3 DEF Need
<1>5. \A i \in Claimed(r) : ~Covers(r, Down(r, i))
  BY <1>4, SelectFacts
<1> QED
  BY <1>3, <1>5, GreedyIsBest

-----------------------------------------------------------------------------
(* The theorems.                                                           *)

SendInv == request \in Requests /\ NothingBurned /\ RefusalsTrue

\* Nothing is promised before the request is worked on.
LEMMA SendInit == Init => SendInv
<1> SUFFICES ASSUME Init PROVE SendInv
  OBVIOUS
<1>1. result.ok = FALSE /\ result # Refused("balance") /\ result # Refused("outputs")
  BY DEF Init, Refused
<1> QED
  BY <1>1 DEF Init, SendInv, NothingBurned, RefusalsTrue, RefusedOnlyWhenShort, NoInternalError

\* Building a payment keeps every promise.
LEMMA SendNext == SendInv /\ [Next]_vars => SendInv'
<1> SUFFICES ASSUME SendInv, [Next]_vars PROVE SendInv'
  OBVIOUS
<1>1. CASE Build
  <2>1. PICK fault \in Faults : result' = BuildSignedSend(request, fault)
    BY <1>1 DEF Build
  <2>2. request \in Requests /\ request' = request
    BY <1>1 DEF Build, SendInv
  <2>3. NothingBurned'
    BY <2>1, <2>2, BuiltFacts DEF NothingBurned
  <2>4. NoInternalError'
    BY <2>1, <2>2, BuiltFacts DEF NoInternalError
  <2>5. RefusedOnlyWhenShort'
    BY <2>1, <2>2, BalanceRefusal DEF RefusedOnlyWhenShort
  <2> QED
    BY <2>2, <2>3, <2>4, <2>5 DEF SendInv, RefusalsTrue
<1>2. CASE UNCHANGED vars
  BY <1>2 DEF vars, SendInv, NothingBurned, RefusalsTrue, RefusedOnlyWhenShort, NoInternalError
<1> QED
  BY <1>1, <1>2 DEF Next

\* Whatever values the relay reports, a payment burns nothing.
THEOREM NothingBurnedHolds == Spec => []NothingBurned
<1>1. SendInv => NothingBurned
  BY DEF SendInv
<1> QED
  BY <1>1, SendInit, SendNext, PTL DEF Spec

\* The greedy selection never misses a payment that some choice of coins could make,
\* and the internal error is unreachable.
THEOREM RefusalsTrueHolds == Spec => []RefusalsTrue
<1>1. SendInv => RefusalsTrue
  BY DEF SendInv
<1> QED
  BY <1>1, SendInit, SendNext, PTL DEF Spec

-----------------------------------------------------------------------------
(* Numbers as octets.                                                      *)

\* What the assumption on the widths says of each constant.
LEMMA OctetFacts ==
    /\ Octets \in Nat \ {0, 1} /\ HexBase \in Nat \ {0, 1} /\ Octets = HexBase * HexBase
    /\ Octets >= 4 /\ 0 \in Octet /\ Octet \subseteq Nat
    /\ W16 \in Nat \ {0} /\ W32 \in Nat \ {0} /\ W64 \in Nat \ {0} /\ HashLen \in Nat \ {0}
    /\ UsizeOctets \in Nat \ {0}
<1>1. HexBase \in Nat \ {0, 1} /\ Octets = HexBase * HexBase /\ Octets \in Nat
  BY CodecAssumption
<1>2. Octets >= 4
  <2>1. HexBase >= 2
    BY <1>1
  <2> DEFINE h == HexBase - 2
  <2>2. h \in Nat /\ HexBase = h + 2
    BY <1>1
  <2> HIDE DEF h
  <2>3. (h + 2) * (h + 2) = h * h + 4 * h + 4 /\ h * h \in Nat
    BY <2>2
  <2> QED
    BY <1>1, <2>2, <2>3
<1> QED
  BY <1>1, <1>2, CodecAssumption DEF Octet

\* What is left of a number after each of its octets is written.
Rests(rest, n, octets) ==
    /\ rest \in [0 .. Len(octets) -> Int] /\ rest[0] = n
    /\ \A i \in 1 .. Len(octets) : rest[i - 1] = Octets * rest[i] + octets[i]

\* The octets of a number.
LEMMA ToLeOctets ==
    ASSUME NEW n \in Int, NEW w \in Nat
    PROVE  /\ ToLe(n, w) \in Seq(Octet) /\ Len(ToLe(n, w)) = w
           /\ \E rest : Rests(rest, n, ToLe(n, w))
<1> DEFINE F == [iv \in Nat \X Int |-> iv[2] \div Octets]
           Eq(g) == g = [i \in 0 .. w |-> IF i = 0 THEN n ELSE g[i - 1] \div Octets]
           rest == CHOOSE g : Eq(g)
           octets == ToLe(n, w)
<1>1. Octets \in Nat \ {0}
  BY OctetFacts
<1>2. F \in [Nat \X Int -> Int]
  BY <1>1
<1>3. PICK g \in [0 .. w -> Int] : RecursionOn(g, 0 .. w, n, F)
  <2> HIDE DEF F
  <2> QED
    BY <1>2, FiniteRecursion
<1>4. Eq(g)
  <2>1. ASSUME NEW i \in 0 .. w, i # 0 PROVE F[<<i, g[i - 1]>>] = g[i - 1] \div Octets
    <3>1. i \in Nat /\ i - 1 \in 0 .. w
      BY <2>1
    <3>2. g[i - 1] \in Int
      BY <1>3, <3>1
    <3> QED
      BY <3>1, <3>2
  <2> HIDE DEF F
  <2> QED
    BY <1>3, <2>1 DEF RecursionOn
<1>5. Eq(rest)
  <2> HIDE DEF Eq
  <2> QED
    BY <1>4
<1>6. octets = [i \in 1 .. w |-> rest[i - 1] % Octets]
  BY DEF ToLe
<1> HIDE DEF rest, octets, F
<1>7. rest = [i \in 0 .. w |-> rest[i]] /\ rest[0] = n
      /\ \A i \in 1 .. w : rest[i] = rest[i - 1] \div Octets
  <2>1. rest = [i \in 0 .. w |-> IF i = 0 THEN n ELSE rest[i - 1] \div Octets]
    BY <1>5
  <2>2. 0 \in 0 .. w /\ \A i \in 1 .. w : i \in 0 .. w /\ i # 0
    OBVIOUS
  <2>3. rest = [i \in 0 .. w |-> rest[i]]
    BY <2>1
  <2>4. rest[0] = n
    BY <2>1, <2>2
  <2>5. \A i \in 1 .. w : rest[i] = rest[i - 1] \div Octets
    BY <2>1, <2>2
  <2> QED
    BY <2>3, <2>4, <2>5
<1> HIDE DEF Eq
<1>8. \A i \in 0 .. w : rest[i] \in Int
  <2> DEFINE D == {i \in Nat : i <= w => rest[i] \in Int}
  <2>1. 0 \in D
    BY <1>7
  <2>2. ASSUME NEW i \in Nat, i \in D PROVE i + 1 \in D
    <3> SUFFICES ASSUME i + 1 <= w PROVE rest[i + 1] \in Int
      OBVIOUS
    <3>1. i + 1 \in 1 .. w /\ (i + 1) - 1 = i
      OBVIOUS
    <3>2. rest[i + 1] = rest[i] \div Octets
      BY <1>7, <3>1
    <3>3. rest[i] \in Int
      BY <2>2, <3>1
    <3> QED
      BY <1>1, <3>2, <3>3
  <2>3. Nat \subseteq D
    <3> HIDE DEF D
    <3> QED
      BY <2>1, <2>2, SetInduction
  <2> QED
    BY <2>3
<1>9. ASSUME NEW i \in 1 .. w
      PROVE  octets[i] \in Octet /\ rest[i - 1] = Octets * rest[i] + octets[i]
  <2> DEFINE x == rest[i - 1]
  <2>1. x \in Int
    <3>1. i - 1 \in 0 .. w
      OBVIOUS
    <3> QED
      BY <1>8, <3>1
  <2>2. octets[i] = x % Octets /\ rest[i] = x \div Octets
    BY <1>6, <1>7
  <2> HIDE DEF x
  <2>3. x = Octets * (x \div Octets) + (x % Octets) /\ (x % Octets) \in 0 .. Octets - 1
    BY <1>1, <2>1, DivMod
  <2> QED
    BY <2>2, <2>3 DEF x, Octet
<1>10. octets \in Seq(Octet) /\ Len(octets) = w
  <2>1. octets \in [1 .. w -> Octet]
    BY <1>6, <1>9
  <2> QED
    BY <2>1
<1>11. rest \in [0 .. w -> Int]
  BY <1>7, <1>8
<1>12. Rests(rest, n, octets)
  BY <1>7, <1>9, <1>10, <1>11 DEF Rests
<1> QED
  BY <1>10, <1>12 DEF octets

\* What the last octets are worth.
Worths(last, octets) ==
    /\ last \in [0 .. Len(octets) -> Nat] /\ last[0] = 0 /\ FromLe(octets) = last[Len(octets)]
    /\ \A i \in 1 .. Len(octets) :
          last[i] = Octets * last[i - 1] + octets[(Len(octets) - i) + 1]

\* The loop of from_le_bytes, one octet after another from the last one.
LEMMA FromLeOctets ==
    ASSUME NEW octets \in Seq(Octet)
    PROVE  \E last : Worths(last, octets)
<1> DEFINE w == Len(octets)
           octet(i) == IF i \in 1 .. w THEN octets[(w - i) + 1] ELSE 0
           F == [iv \in Nat \X Nat |-> iv[2] * Octets + octet(iv[1])]
           Eq(g) == g = [i \in 0 .. w |-> IF i = 0 THEN 0
                                          ELSE g[i - 1] * Octets + octets[w - i + 1]]
           last == CHOOSE g : Eq(g)
<1>1. Octets \in Nat /\ Octet \subseteq Nat
  BY OctetFacts
<1>2. w \in Nat /\ \A i \in 1 .. w : octets[i] \in Nat
  <2>1. w \in Nat /\ \A i \in 1 .. w : octets[i] \in Octet
    BY SeqFacts
  <2> QED
    BY <1>1, <2>1
<1>3. FromLe(octets) = last[w]
  BY DEF FromLe
<1> HIDE DEF w
<1>4. \A i \in 1 .. w : (w - i) + 1 \in 1 .. w /\ w - i + 1 = (w - i) + 1
  BY <1>2
<1>5. \A i \in Nat : octet(i) \in Nat
  BY <1>2, <1>4
<1>6. ASSUME NEW i \in Nat, NEW x \in Nat PROVE x * Octets + octet(i) \in Nat
  <2> HIDE DEF octet
  <2>1. octet(i) \in Nat
    BY <1>5
  <2> QED
    BY <1>1, <2>1
<1>7. F \in [Nat \X Nat -> Nat]
  <2> HIDE DEF octet
  <2> QED
    BY <1>6
<1>8. PICK g \in [0 .. w -> Nat] : RecursionOn(g, 0 .. w, 0, F)
  <2> HIDE DEF F
  <2> QED
    BY <1>2, <1>7, FiniteRecursion
<1>9. Eq(g)
  <2>1. ASSUME NEW i \in 0 .. w, i # 0
        PROVE  F[<<i, g[i - 1]>>] = g[i - 1] * Octets + octets[w - i + 1]
    <3>1. i \in Nat /\ i - 1 \in 0 .. w /\ i \in 1 .. w
      BY <1>2, <2>1
    <3>2. g[i - 1] \in Nat /\ octet(i) = octets[w - i + 1]
      BY <1>4, <1>8, <3>1
    <3> HIDE DEF octet
    <3> QED
      BY <3>1, <3>2
  <2> HIDE DEF F
  <2> QED
    BY <1>8, <2>1 DEF RecursionOn
<1>10. Eq(last)
  <2> HIDE DEF Eq
  <2> QED
    BY <1>9
<1> HIDE DEF last, F, octet
<1>11. last = [i \in 0 .. w |-> last[i]] /\ last[0] = 0
       /\ \A i \in 1 .. w : last[i] = last[i - 1] * Octets + octets[w - i + 1]
  <2>1. last = [i \in 0 .. w |-> IF i = 0 THEN 0
                                ELSE last[i - 1] * Octets + octets[w - i + 1]]
    BY <1>10
  <2>2. 0 \in 0 .. w /\ \A i \in 1 .. w : i \in 0 .. w /\ i # 0
    BY <1>2
  <2>3. last = [i \in 0 .. w |-> last[i]]
    BY <2>1
  <2>4. last[0] = 0
    BY <2>1, <2>2
  <2>5. \A i \in 1 .. w : last[i] = last[i - 1] * Octets + octets[w - i + 1]
    BY <2>1, <2>2
  <2> QED
    BY <2>3, <2>4, <2>5
<1> HIDE DEF Eq
<1>12. \A i \in 0 .. w : last[i] \in Nat
  <2> DEFINE D == {i \in Nat : i <= w => last[i] \in Nat}
  <2>1. 0 \in D
    BY <1>11
  <2>2. ASSUME NEW i \in Nat, i \in D PROVE i + 1 \in D
    <3> SUFFICES ASSUME i + 1 <= w PROVE last[i + 1] \in Nat
      OBVIOUS
    <3>1. i + 1 \in 1 .. w /\ (i + 1) - 1 = i /\ i <= w
      BY <1>2
    <3>2. octets[w - (i + 1) + 1] \in Nat
      BY <1>2, <1>4, <3>1
    <3>3. last[i + 1] = last[i] * Octets + octets[w - (i + 1) + 1] /\ last[i] \in Nat
      BY <1>11, <2>2, <3>1
    <3> QED
      BY <1>1, <3>2, <3>3, SMTT(20)
  <2>3. Nat \subseteq D
    <3> HIDE DEF D
    <3> QED
      BY <2>1, <2>2, SetInduction
  <2> QED
    BY <2>3
<1>13. ASSUME NEW i \in 1 .. w PROVE last[i] = Octets * last[i - 1] + octets[(w - i) + 1]
  <2>1. i - 1 \in 0 .. w
    BY <1>2
  <2>2. last[i - 1] \in Nat /\ last[i] = last[i - 1] * Octets + octets[(w - i) + 1]
    BY <1>4, <1>11, <1>12, <2>1
  <2>3. last[i - 1] * Octets = Octets * last[i - 1]
    BY <1>1, <2>2
  <2> QED
    BY <2>2, <2>3
<1>14. last \in [0 .. w -> Nat]
  BY <1>11, <1>12
<1> QED
  BY <1>3, <1>11, <1>13, <1>14 DEF Worths, w

\* So many octets hold a number below a power of their values.
LEMMA FromLeRange ==
    ASSUME NEW octets \in Seq(Octet)
    PROVE  FromLe(octets) \in 0 .. Power(Octets, Len(octets)) - 1
<1> DEFINE w == Len(octets)
           P(i) == Power(Octets, i)
<1>1. PICK last : Worths(last, octets)
  BY FromLeOctets
<1>2. w \in Nat /\ \A i \in 1 .. w : octets[i] \in Octet
  BY SeqFacts
<1>3. /\ last \in [0 .. w -> Nat] /\ last[0] = 0 /\ FromLe(octets) = last[w]
      /\ \A i \in 1 .. w : last[i] = Octets * last[i - 1] + octets[(w - i) + 1]
  BY <1>1 DEF Worths
<1> HIDE DEF w
<1>4. Octets \in Nat \ {0}
  BY OctetFacts
<1>5. P(0) = 1 /\ \A i \in Nat : P(i) \in Nat \ {0} /\ P(i + 1) = Octets * P(i)
  BY <1>4, PowerFacts
<1> HIDE DEF P
<1> DEFINE D == {i \in Nat : i <= w => last[i] <= P(i) - 1}
<1>6. 0 \in D
  BY <1>3, <1>5
<1>7. ASSUME NEW i \in Nat, i \in D PROVE i + 1 \in D
  <2> SUFFICES ASSUME i + 1 <= w PROVE last[i + 1] <= P(i + 1) - 1
    OBVIOUS
  <2> DEFINE x == last[i]
             o == octets[(w - (i + 1)) + 1]
             p == P(i)
  <2>1. i + 1 \in 1 .. w /\ (i + 1) - 1 = i /\ i <= w /\ i \in 0 .. w /\ (w - (i + 1)) + 1 \in 1 .. w
    BY <1>2
  <2>2. last[i + 1] = Octets * x + o
    BY <1>3, <2>1
  <2>3. x \in Nat /\ x <= p - 1 /\ p \in Nat /\ P(i + 1) = Octets * p
    BY <1>3, <1>5, <1>7, <2>1
  <2>4. o \in Nat /\ o <= Octets - 1
    BY <1>2, <1>4, <2>1 DEF Octet
  <2> HIDE DEF x, o, p
  <2>5. Octets * x <= Octets * (p - 1) /\ Octets * (p - 1) = Octets * p - Octets
        /\ Octets * x \in Nat /\ Octets * p \in Nat
    BY <1>4, <2>3
  <2> QED
    BY <1>4, <2>2, <2>3, <2>4, <2>5
<1> HIDE DEF D
<1>8. w \in D
  BY <1>2, <1>6, <1>7, SetInduction
<1>9. last[w] \in Nat /\ last[w] <= P(w) - 1 /\ P(w) \in Nat
  <2>1. w \in 0 .. w
    BY <1>2
  <2> QED
    BY <1>2, <1>3, <1>5, <1>8, <2>1 DEF D
<1> QED
  BY <1>3, <1>9 DEF P, w

\* The octets of a number are worth the number, but for what does not fit.
LEMMA ToLeValue ==
    ASSUME NEW n \in Int, NEW w \in Nat
    PROVE  \E k \in Int : n = FromLe(ToLe(n, w)) + Power(Octets, w) * k
<1> DEFINE octets == ToLe(n, w)
           P(i) == Power(Octets, i)
<1>1. octets \in Seq(Octet) /\ Len(octets) = w
  BY ToLeOctets
<1>2. PICK rest : Rests(rest, n, octets)
  BY ToLeOctets
<1> HIDE DEF octets
<1>3. PICK last : Worths(last, octets)
  BY <1>1, FromLeOctets
<1>4. \A i \in 1 .. w : octets[i] \in Nat
  <2>1. \A i \in 1 .. w : octets[i] \in Octet
    BY <1>1, SeqFacts
  <2> QED
    BY <2>1, OctetFacts
<1>5. /\ last \in [0 .. w -> Nat] /\ last[0] = 0 /\ FromLe(octets) = last[w]
      /\ \A i \in 1 .. w : last[i] = Octets * last[i - 1] + octets[(w - i) + 1]
  BY <1>1, <1>3 DEF Worths
<1>6. /\ rest \in [0 .. w -> Int] /\ rest[0] = n
      /\ \A i \in 1 .. w : rest[i - 1] = Octets * rest[i] + octets[i]
  BY <1>1, <1>2 DEF Rests
<1>7. Octets \in Nat \ {0}
  BY OctetFacts
<1>8. P(0) = 1 /\ \A i \in Nat : P(i) \in Nat \ {0} /\ P(i + 1) = Octets * P(i)
  BY <1>7, PowerFacts
<1> HIDE DEF P
<1> DEFINE k == rest[w]
           D == {i \in Nat : i <= w => rest[w - i] = last[i] + P(i) * k}
<1>9. k \in Int
  BY <1>6
<1>10. 0 \in D
  <2>1. w - 0 = w /\ 0 <= w /\ 0 + 1 * k = k
    BY <1>9
  <2>2. last[0] = 0 /\ P(0) = 1
    BY <1>5, <1>8
  <2>3. rest[w - 0] = last[0] + P(0) * k
    BY <2>1, <2>2
  <2> QED
    BY <2>3
<1>11. ASSUME NEW i \in Nat, i \in D PROVE i + 1 \in D
  <2> SUFFICES ASSUME i + 1 <= w PROVE rest[w - (i + 1)] = last[i + 1] + P(i + 1) * k
    OBVIOUS
  <2> DEFINE j == w - i
             x == last[i]
             o == octets[j]
             p == P(i)
  <2>1. /\ i + 1 \in 1 .. w /\ (i + 1) - 1 = i /\ i \in 0 .. w /\ j \in 1 .. w /\ i <= w
        /\ (w - (i + 1)) + 1 = j /\ w - (i + 1) = j - 1
    OBVIOUS
  <2>2. rest[j] = x + p * k
    BY <1>11, <2>1
  <2>3. rest[j - 1] = Octets * rest[j] + o
    BY <1>6, <2>1
  <2>4. last[i + 1] = Octets * x + o
    BY <1>5, <2>1
  <2>5. P(i + 1) = Octets * p /\ p \in Nat
    BY <1>8
  <2>6. x \in Nat /\ o \in Nat
    BY <1>4, <1>5, <2>1
  <2> HIDE DEF x, o, p, k
  <2>7. Octets * (x + p * k) = Octets * x + (Octets * p) * k
    <3> DEFINE y == p * k
    <3>1. y \in Int /\ Octets * y = (Octets * p) * k
      BY <1>7, <1>9, <2>5
    <3> HIDE DEF y
    <3>2. Octets * (x + y) = Octets * x + Octets * y
      BY <1>7, <2>6, <3>1
    <3> QED
      BY <3>1, <3>2 DEF y
  <2>8. rest[j - 1] = Octets * (x + p * k) + o
    BY <2>2, <2>3
  <2>9. Octets * x \in Int /\ (Octets * p) * k \in Int
    BY <1>7, <1>9, <2>5, <2>6
  <2>10. rest[j - 1] = (Octets * x + o) + (Octets * p) * k
    <3> DEFINE a == Octets * x
               c == (Octets * p) * k
               e == Octets * (x + p * k)
    <3>1. e = a + c /\ rest[j - 1] = e + o /\ a \in Int /\ c \in Int
      BY <2>7, <2>8, <2>9
    <3> HIDE DEF a, c, e
    <3>2. rest[j - 1] = (a + o) + c
      BY <2>6, <3>1
    <3> QED
      BY <3>2 DEF a, c
  <2> HIDE DEF j
  <2> QED
    BY <2>1, <2>4, <2>5, <2>10
<1> HIDE DEF D, k
<1>12. w \in D
  BY <1>10, <1>11, SetInduction
<1>13. rest[w - w] = last[w] + P(w) * k
  BY <1>12 DEF D
<1>14. n = FromLe(octets) + P(w) * k
  BY <1>5, <1>6, <1>13
<1> QED
  BY <1>9, <1>14 DEF octets, P

\* from_le_bytes undoes to_le_bytes.
LEMMA UnsignedReadsBack ==
    ASSUME NEW w \in Nat, NEW n \in 0 .. Power(Octets, w) - 1
    PROVE  FromLe(ToLe(n, w)) = n
<1> DEFINE octets == ToLe(n, w)
           m == FromLe(octets)
           p == Power(Octets, w)
<1>1. Octets \in Nat \ {0}
  BY OctetFacts
<1>2. p \in Nat \ {0}
  BY <1>1, PowerFacts
<1>3. n \in Nat /\ n < p
  BY <1>2
<1>4. octets \in Seq(Octet) /\ Len(octets) = w
  BY <1>3, ToLeOctets
<1>5. PICK k \in Int : n = m + p * k
  BY <1>3, ToLeValue
<1> HIDE DEF octets
<1>6. m \in Nat /\ m < p
  BY <1>2, <1>4, FromLeRange
<1> HIDE DEF m, p
<1>7. k = 0
  <2>1. ~(k >= 1)
    <3>1. k >= 1 => p * k >= p
      BY <1>2
    <3> QED
      BY <1>2, <1>3, <1>5, <1>6, <3>1
  <2>2. ~(k <= -1)
    <3>1. k <= -1 => p * k <= -p
      BY <1>2
    <3> QED
      BY <1>2, <1>3, <1>5, <1>6, <3>1
  <2> QED
    BY <2>1, <2>2
<1>8. m = n
  BY <1>2, <1>5, <1>6, <1>7
<1> QED
  BY <1>8 DEF m, octets

\* A signed number in range reads back from its octets.
LEMMA SignedReadsBack ==
    ASSUME NEW w \in Nat, NEW n \in Int, -Power(Octets, w) <= 2 * n, 2 * n < Power(Octets, w)
    PROVE  FromLeSigned(ToLe(n, w)) = n
<1> DEFINE octets == ToLe(n, w)
           m == FromLe(octets)
           p == Power(Octets, w)
<1>1. Octets \in Nat \ {0}
  BY OctetFacts
<1>2. p \in Nat \ {0} /\ -p <= 2 * n /\ 2 * n < p
  BY <1>1, PowerFacts
<1>4. octets \in Seq(Octet) /\ Len(octets) = w
  BY ToLeOctets
<1>5. PICK k \in Int : n = m + p * k
  BY ToLeValue
<1> HIDE DEF octets
<1>6. m \in Nat /\ m < p
  BY <1>2, <1>4, FromLeRange
<1>7. FromLeSigned(octets) = IF 2 * m >= p THEN m - p ELSE m
  BY <1>4 DEF FromLeSigned
<1> HIDE DEF m, p
<1> DEFINE y == p * k
<1>8. /\ y \in Int /\ (k >= 1 => y >= p) /\ (k <= -1 => y <= -p) /\ (k <= -2 => y <= -(2 * p))
      /\ (k = 0 => y = 0) /\ (k = -1 => y = -p)
  BY <1>2
<1>9. n = m + y
  BY <1>5
<1> HIDE DEF y
<1>10. k \in {-1, 0}
  BY <1>2, <1>6, <1>8, <1>9
<1>11. CASE 2 * m >= p
  <2>1. k = -1
    BY <1>2, <1>6, <1>8, <1>9, <1>10, <1>11
  <2> QED
    BY <1>2, <1>6, <1>7, <1>8, <1>9, <1>11, <2>1 DEF octets
<1>12. CASE ~(2 * m >= p)
  <2>1. k = 0
    BY <1>2, <1>6, <1>8, <1>9, <1>10, <1>12
  <2> QED
    BY <1>2, <1>6, <1>7, <1>8, <1>9, <1>12, <2>1 DEF octets
<1> QED
  BY <1>11, <1>12

\* to_le_bytes undoes from_le_bytes.
LEMMA OctetsReadBack ==
    ASSUME NEW octets \in Seq(Octet)
    PROVE  ToLe(FromLe(octets), Len(octets)) = octets
<1> DEFINE w == Len(octets)
           n == FromLe(octets)
           o == ToLe(n, w)
<1>1. w \in Nat /\ \A i \in 1 .. w : octets[i] \in Octet
  BY SeqFacts
<1>2. PICK last : Worths(last, octets)
  BY FromLeOctets
<1>3. /\ last \in [0 .. w -> Nat] /\ last[0] = 0 /\ n = last[w]
      /\ \A i \in 1 .. w : last[i] = Octets * last[i - 1] + octets[(w - i) + 1]
  BY <1>2 DEF Worths
<1>4. n \in Int
  <2>1. w \in 0 .. w
    BY <1>1
  <2> QED
    BY <1>3, <2>1
<1> HIDE DEF n, w
<1>5. o \in Seq(Octet) /\ Len(o) = w
  BY <1>1, <1>4, ToLeOctets
<1>6. PICK rest : Rests(rest, n, o)
  BY <1>1, <1>4, ToLeOctets
<1> HIDE DEF o
<1>7. /\ rest \in [0 .. w -> Int] /\ rest[0] = n
      /\ \A i \in 1 .. w : rest[i - 1] = Octets * rest[i] + o[i]
  BY <1>5, <1>6 DEF Rests
<1>8. \A i \in 1 .. w : o[i] \in Octet
  BY <1>5, SeqFacts
<1>9. ASSUME NEW i \in Nat, i + 1 <= w, rest[i] = last[w - i]
      PROVE  rest[i + 1] = last[w - (i + 1)] /\ o[i + 1] = octets[i + 1]
  <2> DEFINE j == w - i
             x == rest[i + 1]
             y == last[j - 1]
             c == o[i + 1]
             e == octets[i + 1]
  <2>1. /\ i + 1 \in 1 .. w /\ (i + 1) - 1 = i /\ j \in 1 .. w /\ (w - j) + 1 = i + 1
        /\ j - 1 = w - (i + 1) /\ j - 1 \in 0 .. w /\ i + 1 \in 0 .. w
    BY <1>1, <1>9
  <2>2. rest[i] = Octets * x + c
    BY <1>7, <2>1
  <2>3. last[j] = Octets * y + e
    BY <1>3, <2>1
  <2>4. x \in Int /\ y \in Int /\ c \in 0 .. Octets - 1 /\ e \in 0 .. Octets - 1
    BY <1>1, <1>3, <1>7, <1>8, <2>1 DEF Octet
  <2>5. Octets \in Nat \ {0}
    BY OctetFacts
  <2>6. Octets * x + c = Octets * y + e
    BY <1>9, <2>2, <2>3
  <2> HIDE DEF x, y, c, e, j
  <2>7. (Octets * x + c) \div Octets = x /\ (Octets * x + c) % Octets = c
        /\ (Octets * y + e) \div Octets = y /\ (Octets * y + e) % Octets = e
    BY <2>4, <2>5, DivUnique
  <2>8. x = y /\ c = e
    BY <2>6, <2>7
  <2> QED
    BY <2>1, <2>8 DEF x, y, c, e
<1> DEFINE D == {i \in Nat : i <= w => rest[i] = last[w - i]}
<1>10. Nat \subseteq D
  <2>1. 0 \in D
    BY <1>1, <1>3, <1>7
  <2>2. ASSUME NEW i \in Nat, i \in D PROVE i + 1 \in D
    <3> SUFFICES ASSUME i + 1 <= w PROVE rest[i + 1] = last[w - (i + 1)]
      OBVIOUS
    <3>1. i <= w
      BY <1>1
    <3>2. rest[i] = last[w - i]
      BY <2>2, <3>1
    <3> QED
      BY <1>9, <3>2
  <2> HIDE DEF D
  <2> QED
    BY <2>1, <2>2, SetInduction
<1>11. ASSUME NEW i \in 1 .. w PROVE o[i] = octets[i]
  <2>1. i - 1 \in Nat /\ (i - 1) + 1 = i /\ i <= w /\ i - 1 <= w
    BY <1>1
  <2>2. rest[i - 1] = last[w - (i - 1)]
    BY <1>10, <2>1
  <2>3. o[(i - 1) + 1] = octets[(i - 1) + 1]
    BY <1>9, <2>1, <2>2
  <2> QED
    BY <2>1, <2>3
<1>12. o = octets
  BY <1>5, <1>11, SeqEqual DEF w
<1> QED
  BY <1>12 DEF o, n, w

-----------------------------------------------------------------------------
(* Hashes and modifiers as text.                                           *)

\* The elements of a sequence read backwards.
LEMMA ReverseFacts ==
    ASSUME NEW S, NEW s \in Seq(S)
    PROVE  /\ Reverse(s) \in Seq(S) /\ Len(Reverse(s)) = Len(s)
           /\ \A i \in 1 .. Len(s) : Reverse(s)[i] = s[(Len(s) - i) + 1]
           /\ Reverse(Reverse(s)) = s
<1> DEFINE w == Len(s)
           r == Reverse(s)
<1>1. w \in Nat /\ \A i \in 1 .. w : s[i] \in S /\ (w - i) + 1 \in 1 .. w
  <2>1. w \in Nat /\ \A i \in 1 .. w : s[i] \in S
    BY SeqFacts
  <2> QED
    BY <2>1
<1>2. r = [i \in 1 .. w |-> s[(w - i) + 1]]
  BY DEF Reverse
<1> HIDE DEF w, r
<1>3. r \in Seq(S) /\ Len(r) = w
  <2>1. r \in [1 .. w -> S]
    BY <1>1, <1>2
  <2> QED
    BY <1>1, <2>1
<1>4. \A i \in 1 .. w : r[i] = s[(w - i) + 1]
  BY <1>2
<1>5. Reverse(r) = [i \in 1 .. w |-> r[(w - i) + 1]]
  BY <1>3 DEF Reverse
<1>6. \A i \in 1 .. w : r[(w - i) + 1] = s[i] /\ r[(w - i) + 1] \in S
  <2> SUFFICES ASSUME NEW i \in 1 .. w PROVE r[(w - i) + 1] = s[i]
    BY <1>1
  <2>1. (w - ((w - i) + 1)) + 1 = i
    BY <1>1
  <2> QED
    BY <1>1, <1>4, <2>1
<1>7. Reverse(r) \in Seq(S) /\ Len(Reverse(r)) = w /\ \A i \in 1 .. w : Reverse(r)[i] = s[i]
  <2>1. Reverse(r) \in [1 .. w -> S]
    BY <1>1, <1>5, <1>6
  <2>2. \A i \in 1 .. w : Reverse(r)[i] = s[i]
    BY <1>5, <1>6
  <2> QED
    BY <1>1, <2>1, <2>2
<1>8. Reverse(r) = s
  BY <1>7, SeqEqual DEF w
<1> QED
  BY <1>3, <1>4, <1>8 DEF w, r

\* Each octet is two digits, which are worth it.
LEMMA HexPairs ==
    ASSUME NEW octets \in Seq(Octet)
    PROVE  /\ ToHex(octets) \in Seq(Nat) /\ Len(ToHex(octets)) = 2 * Len(octets)
           /\ \A i \in 1 .. Len(octets) :
                 ToHex(octets)[2 * i - 1] * HexBase + ToHex(octets)[2 * i] = octets[i]
           /\ FromHex(ToHex(octets)) = octets
<1> DEFINE w == Len(octets)
           t == ToHex(octets)
<1>1. w \in Nat /\ \A i \in 1 .. w : octets[i] \in Octet
  BY SeqFacts
<1>2. HexBase \in Nat \ {0} /\ Octet \subseteq Nat
  BY OctetFacts
<1>3. t = [d \in 1 .. 2 * w |-> IF d % 2 = 1 THEN octets[(d + 1) \div 2] \div HexBase
                                ELSE octets[(d + 1) \div 2] % HexBase]
  BY DEF ToHex
<1> HIDE DEF w, t
<1>4. \A d \in 1 .. 2 * w : (d + 1) \div 2 \in 1 .. w
  BY <1>1
<1>5. t \in [1 .. 2 * w -> Nat]
  <2>1. ASSUME NEW d \in 1 .. 2 * w
        PROVE  /\ octets[(d + 1) \div 2] \div HexBase \in Nat
               /\ octets[(d + 1) \div 2] % HexBase \in Nat
    <3> DEFINE x == octets[(d + 1) \div 2]
    <3>1. x \in Nat
      BY <1>1, <1>2, <1>4
    <3> HIDE DEF x
    <3>2. x \div HexBase \in Nat
      BY <1>2, <3>1, DivNat
    <3>3. x % HexBase \in 0 .. HexBase - 1
      <4>1. x \in Int
        BY <3>1
      <4> QED
        BY <1>2, <4>1, DivMod
    <3> QED
      BY <1>2, <3>2, <3>3 DEF x
  <2> QED
    BY <1>3, <2>1
<1>6. t \in Seq(Nat) /\ Len(t) = 2 * w
  BY <1>1, <1>5
<1>7. ASSUME NEW i \in 1 .. w PROVE t[2 * i - 1] * HexBase + t[2 * i] = octets[i]
  <2> DEFINE x == octets[i]
  <2>1. /\ 2 * i - 1 \in 1 .. 2 * w /\ (2 * i - 1) % 2 = 1 /\ ((2 * i - 1) + 1) \div 2 = i
        /\ 2 * i \in 1 .. 2 * w /\ (2 * i) % 2 = 0 /\ (2 * i + 1) \div 2 = i
    BY <1>1
  <2>2. t[2 * i - 1] = x \div HexBase
    BY <1>3, <2>1
  <2>3. t[2 * i] = x % HexBase
    BY <1>3, <2>1
  <2>4. x \in Int
    <3>1. x \in Octet
      BY <1>1
    <3> HIDE DEF x
    <3> QED
      BY <1>2, <3>1
  <2> HIDE DEF x
  <2>5. x \div HexBase \in Int /\ x = HexBase * (x \div HexBase) + (x % HexBase)
    BY <1>2, <2>4, DivMod
  <2>6. HexBase * (x \div HexBase) = (x \div HexBase) * HexBase
    BY <1>2, <2>5
  <2> QED
    BY <2>2, <2>3, <2>5, <2>6 DEF x
<1>8. FromHex(t) = [i \in 1 .. w |-> t[2 * i - 1] * HexBase + t[2 * i]]
  <2>1. (2 * w) % 2 = 0 /\ (2 * w) \div 2 = w
    BY <1>1
  <2> QED
    BY <1>6, <2>1 DEF FromHex
<1>9. FromHex(t) = [i \in 1 .. w |-> octets[i]]
  BY <1>7, <1>8
<1>10. FromHex(t) = octets
  <2>1. octets = [i \in 1 .. w |-> octets[i]]
    BY SeqFacts DEF w
  <2> QED
    BY <1>9, <2>1
<1> QED
  BY <1>6, <1>7, <1>10 DEF w, t

\* Every way to show a hash and to read it gives it back.
LEMMA HashTextsAgree ==
    ASSUME NEW hash \in Hashes
    PROVE  /\ \A text \in {DisplayHex(hash), RelayDisplayHex(hash)} :
                 HashFromDisplayHex(text) = hash /\ RelayHashFromDisplayHex(text) = hash
           /\ FromHex(ToHex(hash)) = hash
<1> DEFINE r == Reverse(hash)
           t == ToHex(r)
<1>1. HashLen \in Nat
  BY OctetFacts
<1>2. hash \in Seq(Octet) /\ Len(hash) = HashLen /\ hash = [k \in 1 .. HashLen |-> hash[k]]
  BY <1>1 DEF Hashes
<1>3. /\ r \in Seq(Octet) /\ Len(r) = HashLen /\ Reverse(r) = hash
      /\ \A i \in 1 .. HashLen : r[i] = hash[(HashLen - i) + 1]
  BY <1>2, ReverseFacts
<1> HIDE DEF r
<1>4. /\ Len(t) = 2 * HashLen /\ FromHex(t) = r
      /\ \A i \in 1 .. HashLen : t[2 * i - 1] * HexBase + t[2 * i] = r[i]
  BY <1>3, HexPairs
<1> HIDE DEF t
<1>5. RelayHashFromDisplayHex(t) = hash
  BY <1>3, <1>4 DEF RelayHashFromDisplayHex
<1>6. HashFromDisplayHex(t) = hash
  <2>1. ASSUME NEW k \in 1 .. HashLen
        PROVE  t[2 * (HashLen + 1 - k) - 1] * HexBase + t[2 * (HashLen + 1 - k)] = hash[k]
    <3> DEFINE i == HashLen + 1 - k
    <3>1. i \in 1 .. HashLen /\ (HashLen - i) + 1 = k
      BY <1>1
    <3> HIDE DEF i
    <3>2. t[2 * i - 1] * HexBase + t[2 * i] = r[i] /\ r[i] = hash[k]
      BY <1>3, <1>4, <3>1
    <3> QED
      BY <3>2 DEF i
  <2>2. HashFromDisplayHex(t)
            = [k \in 1 .. HashLen |-> t[2 * (HashLen + 1 - k) - 1] * HexBase
                                          + t[2 * (HashLen + 1 - k)]]
    BY <1>4 DEF HashFromDisplayHex
  <2>3. HashFromDisplayHex(t) = [k \in 1 .. HashLen |-> hash[k]]
    BY <2>1, <2>2
  <2> QED
    BY <1>2, <2>3
<1>7. DisplayHex(hash) = t /\ RelayDisplayHex(hash) = t
  BY DEF DisplayHex, RelayDisplayHex, t, r
<1>8. FromHex(ToHex(hash)) = hash
  BY <1>2, HexPairs
<1> QED
  BY <1>5, <1>6, <1>7, <1>8

\* A stake modifier written with its most significant octet first reads back.
LEMMA ModifierReadsBack ==
    ASSUME NEW n \in 0 .. Power(Octets, W64) - 1
    PROVE  ParseModifierHex(ToHex(Reverse(ToLe(n, W64)))) = n
<1> DEFINE octets == ToLe(n, W64)
           r == Reverse(octets)
           t == ToHex(r)
<1>1. W64 \in Nat /\ n \in Int
  <2>1. W64 \in Nat /\ Octets \in Nat \ {0}
    BY OctetFacts
  <2>2. Power(Octets, W64) \in Nat
    BY <2>1, PowerFacts
  <2> QED
    BY <2>1, <2>2
<1>2. octets \in Seq(Octet) /\ Len(octets) = W64
  BY <1>1, ToLeOctets
<1>3. FromLe(octets) = n
  BY <1>1, UnsignedReadsBack
<1> HIDE DEF octets
<1>4. r \in Seq(Octet) /\ Len(r) = W64 /\ Reverse(r) = octets
  BY <1>2, ReverseFacts
<1> HIDE DEF r
<1>5. Len(t) = 2 * W64 /\ FromHex(t) = r
  BY <1>4, HexPairs
<1> HIDE DEF t
<1>6. ParseModifierHex(t) = n
  BY <1>3, <1>4, <1>5 DEF ParseModifierHex
<1> QED
  BY <1>6 DEF t, r, octets

\* HexCopiesAgree, for every width of a hash and of a modifier.
THEOREM HexCopiesAgreeHolds == FormatSpec => []HexCopiesAgree
<1> DEFINE Valid == item \in Inputs
<1>1. FormatInit => Valid
  BY DEF FormatInit
<1>2. Valid /\ [UNCHANGED item]_item => Valid'
  OBVIOUS
<1>3. Valid => HexCopiesAgree
  <2> SUFFICES ASSUME Valid PROVE HexCopiesAgree
    OBVIOUS
  <2>1. item.kind = "hash" => item.it \in Hashes
    BY DEF Inputs, Of
  <2>2. item.kind = "modifier" => item.it \in 0 .. Power(Octets, W64) - 1
    <3>1. item.kind = "modifier" => item.it \in Modifiers
      BY DEF Inputs, Of
    <3>2. Modifiers \subseteq 0 .. Power(Octets, W64) - 1
      BY FormatsAssumption
    <3> QED
      BY <3>1, <3>2
  <2> QED
    BY <2>1, <2>2, HashTextsAgree, ModifierReadsBack DEF HexCopiesAgree
<1> QED
  BY <1>1, <1>2, <1>3, PTL DEF FormatSpec

-----------------------------------------------------------------------------
(* Block headers.                                                          *)

\* A header in its range.
TypedHeader(h) ==
    /\ h \in [version : Int, prev_block : Hashes, merkle_root : Hashes,
              time : 0 .. MaxU32, bits : 0 .. MaxU32, nonce : 0 .. MaxU32,
              accumulator_checkpoint : Hashes]
    /\ -(MaxU32 + 1) <= 2 * h.version /\ 2 * h.version <= MaxU32

\* The parts of a header's octets.
HeaderParts(h, p1, p2, p3, p4, p5, p6) ==
    /\ p1 = ToLe(h.version, W32) /\ p2 = p1 \o h.prev_block /\ p3 = p2 \o h.merkle_root
    /\ p4 = p3 \o ToLe(h.time, W32) /\ p5 = p4 \o ToLe(h.bits, W32)
    /\ p6 = p5 \o ToLe(h.nonce, W32)
    /\ {p1, p2, p3, p4, p5, p6} \subseteq Seq(Octet)

\* The hash of a header of a hashable version is its parts, one after another.
LEMMA HeaderSplits ==
    ASSUME NEW h, TypedHeader(h), h.version > 3
    PROVE  /\ \E p1, p2, p3, p4, p5, p6 :
                  /\ HeaderParts(h, p1, p2, p3, p4, p5, p6)
                  /\ HeaderHash(h) = p6 \o h.accumulator_checkpoint
           /\ HeaderHash(h) # <<>>
<1> DEFINE p1 == ToLe(h.version, W32)
           p2 == p1 \o h.prev_block
           p3 == p2 \o h.merkle_root
           p4 == p3 \o ToLe(h.time, W32)
           p5 == p4 \o ToLe(h.bits, W32)
           p6 == p5 \o ToLe(h.nonce, W32)
<1>1. W32 \in Nat \ {0} /\ HashLen \in Nat \ {0} /\ MaxU32 \in Nat
  <2>1. W32 \in Nat \ {0} /\ HashLen \in Nat \ {0} /\ Octets \in Nat \ {0}
    BY OctetFacts
  <2>2. Power(Octets, W32) \in Nat \ {0}
    BY <2>1, PowerFacts
  <2> QED
    BY <2>1, <2>2 DEF MaxU32
<1>2. h.version \in Int /\ h.time \in Int /\ h.bits \in Int /\ h.nonce \in Int
  BY <1>1 DEF TypedHeader
<1>3. h.prev_block \in Seq(Octet) /\ h.merkle_root \in Seq(Octet)
      /\ h.accumulator_checkpoint \in Seq(Octet) /\ Len(h.accumulator_checkpoint) = HashLen
  <2>1. h.prev_block \in Hashes /\ h.merkle_root \in Hashes
        /\ h.accumulator_checkpoint \in Hashes
    BY DEF TypedHeader
  <2> QED
    BY <1>1, <2>1 DEF Hashes
<1>4. p1 \in Seq(Octet) /\ ToLe(h.time, W32) \in Seq(Octet)
      /\ ToLe(h.bits, W32) \in Seq(Octet) /\ ToLe(h.nonce, W32) \in Seq(Octet)
  BY <1>1, <1>2, ToLeOctets
<1>5. p2 \in Seq(Octet)
  BY <1>3, <1>4, ConcatFacts
<1>6. p3 \in Seq(Octet)
  BY <1>3, <1>5, ConcatFacts
<1>7. p4 \in Seq(Octet)
  BY <1>4, <1>6, ConcatFacts
<1>8. p5 \in Seq(Octet)
  BY <1>4, <1>7, ConcatFacts
<1>9. p6 \in Seq(Octet)
  BY <1>4, <1>8, ConcatFacts
<1>10. HeaderHash(h) = p6 \o h.accumulator_checkpoint
  <2>1. ~(h.version < 4)
    BY <1>2
  <2> QED
    BY <2>1 DEF HeaderHash, HeaderBytes
<1>11. HeaderParts(h, p1, p2, p3, p4, p5, p6)
  BY <1>4, <1>5, <1>6, <1>7, <1>8, <1>9 DEF HeaderParts
<1> HIDE DEF p1, p2, p3, p4, p5, p6
<1>12. HeaderHash(h) # <<>>
  <2>1. Len(HeaderHash(h)) = Len(p6) + HashLen
    BY <1>3, <1>9, <1>10, ConcatFacts
  <2>2. Len(p6) \in Nat
    BY <1>9
  <2>3. Len(HeaderHash(h)) # 0
    BY <1>1, <2>1, <2>2
  <2> QED
    BY <2>3
<1> QED
  BY <1>10, <1>11, <1>12

\* Two headers of hashable versions with the same hash are one.
LEMMA HeaderUnique ==
    ASSUME NEW h, TypedHeader(h), h.version > 3, NEW g, TypedHeader(g), g.version > 3,
           HeaderHash(g) = HeaderHash(h)
    PROVE  g = h
<1>1. PICK p1, p2, p3, p4, p5, p6 : /\ HeaderParts(h, p1, p2, p3, p4, p5, p6)
                                    /\ HeaderHash(h) = p6 \o h.accumulator_checkpoint
  BY HeaderSplits
<1>2. PICK q1, q2, q3, q4, q5, q6 : /\ HeaderParts(g, q1, q2, q3, q4, q5, q6)
                                    /\ HeaderHash(g) = q6 \o g.accumulator_checkpoint
  BY HeaderSplits
<1>3. W32 \in Nat \ {0} /\ HashLen \in Nat \ {0} /\ MaxU32 \in Nat
      /\ Power(Octets, W32) = MaxU32 + 1
  <2>1. W32 \in Nat \ {0} /\ HashLen \in Nat \ {0} /\ Octets \in Nat \ {0}
    BY OctetFacts
  <2>2. Power(Octets, W32) \in Nat \ {0}
    BY <2>1, PowerFacts
  <2> QED
    BY <2>1, <2>2 DEF MaxU32
<1>4. \A x \in Hashes : x \in Seq(Octet) /\ Len(x) = HashLen
  BY <1>3 DEF Hashes
<1>5. \A n \in Int : ToLe(n, W32) \in Seq(Octet) /\ Len(ToLe(n, W32)) = W32
  BY <1>3, ToLeOctets
<1>6. \A n \in 0 .. MaxU32 : n \in Int /\ FromLe(ToLe(n, W32)) = n
  <2> SUFFICES ASSUME NEW n \in 0 .. MaxU32 PROVE n \in Int /\ FromLe(ToLe(n, W32)) = n
    OBVIOUS
  <2>1. n \in 0 .. Power(Octets, W32) - 1
    BY <1>3
  <2> QED
    BY <1>3, <2>1, UnsignedReadsBack
<1>7. /\ h.prev_block \in Hashes /\ h.merkle_root \in Hashes
      /\ h.accumulator_checkpoint \in Hashes /\ h.version \in Int
      /\ h.time \in 0 .. MaxU32 /\ h.bits \in 0 .. MaxU32 /\ h.nonce \in 0 .. MaxU32
  BY DEF TypedHeader
<1>8. /\ g.prev_block \in Hashes /\ g.merkle_root \in Hashes
      /\ g.accumulator_checkpoint \in Hashes /\ g.version \in Int
      /\ g.time \in 0 .. MaxU32 /\ g.bits \in 0 .. MaxU32 /\ g.nonce \in 0 .. MaxU32
  BY DEF TypedHeader
<1>9. /\ p1 \in Seq(Octet) /\ p2 \in Seq(Octet) /\ p3 \in Seq(Octet)
      /\ p4 \in Seq(Octet) /\ p5 \in Seq(Octet) /\ p6 \in Seq(Octet)
      /\ q1 \in Seq(Octet) /\ q2 \in Seq(Octet) /\ q3 \in Seq(Octet)
      /\ q4 \in Seq(Octet) /\ q5 \in Seq(Octet) /\ q6 \in Seq(Octet)
  BY <1>1, <1>2 DEF HeaderParts
<1>10. p6 = q6 /\ h.accumulator_checkpoint = g.accumulator_checkpoint
  <2>1. p6 \o h.accumulator_checkpoint = q6 \o g.accumulator_checkpoint
    BY <1>1, <1>2
  <2>2. /\ h.accumulator_checkpoint \in Seq(Octet) /\ g.accumulator_checkpoint \in Seq(Octet)
        /\ Len(h.accumulator_checkpoint) = Len(g.accumulator_checkpoint)
    BY <1>4, <1>7, <1>8
  <2>3. p6 \in Seq(Octet) /\ q6 \in Seq(Octet)
    BY <1>9
  <2> QED
    BY <2>1, <2>2, <2>3, SplitEqual, ZenonT(30)
<1>11. p5 = q5 /\ ToLe(h.nonce, W32) = ToLe(g.nonce, W32)
  <2>1. p6 = p5 \o ToLe(h.nonce, W32) /\ q6 = q5 \o ToLe(g.nonce, W32)
    BY <1>1, <1>2 DEF HeaderParts
  <2>2. h.nonce \in Int /\ g.nonce \in Int
    BY <1>6, <1>7, <1>8
  <2> DEFINE x == ToLe(h.nonce, W32)
             y == ToLe(g.nonce, W32)
  <2>3. p5 \o x = q5 \o y
    BY <1>10, <2>1
  <2>4. /\ x \in Seq(Octet) /\ y \in Seq(Octet)
        /\ Len(x) = Len(y)
    BY <1>5, <2>2
  <2>5. p5 \in Seq(Octet) /\ q5 \in Seq(Octet)
    BY <1>9
  <2> HIDE DEF x, y
  <2>6. p5 = q5 /\ x = y
    <3>1. x \in Seq(Octet)
      BY <2>4
    <3>2. y \in Seq(Octet)
      BY <2>4
    <3>3. Len(x) = Len(y)
      BY <2>4
    <3>4. p5 \in Seq(Octet)
      BY <2>5
    <3>5. q5 \in Seq(Octet)
      BY <2>5
    <3>6. p5 \o x = q5 \o y
      BY <2>3
    <3> QED
      BY <3>1, <3>2, <3>3, <3>4, <3>5, <3>6, SplitEqual
  <2> QED
    BY <2>6 DEF x, y
<1>12. p4 = q4 /\ ToLe(h.bits, W32) = ToLe(g.bits, W32)
  <2>1. p5 = p4 \o ToLe(h.bits, W32) /\ q5 = q4 \o ToLe(g.bits, W32)
    BY <1>1, <1>2 DEF HeaderParts
  <2>2. h.bits \in Int /\ g.bits \in Int
    BY <1>6, <1>7, <1>8
  <2> DEFINE x == ToLe(h.bits, W32)
             y == ToLe(g.bits, W32)
  <2>3. p4 \o x = q4 \o y
    BY <1>11, <2>1
  <2>4. /\ x \in Seq(Octet) /\ y \in Seq(Octet)
        /\ Len(x) = Len(y)
    BY <1>5, <2>2
  <2>5. p4 \in Seq(Octet) /\ q4 \in Seq(Octet)
    BY <1>9
  <2> HIDE DEF x, y
  <2>6. p4 = q4 /\ x = y
    <3>1. x \in Seq(Octet)
      BY <2>4
    <3>2. y \in Seq(Octet)
      BY <2>4
    <3>3. Len(x) = Len(y)
      BY <2>4
    <3>4. p4 \in Seq(Octet)
      BY <2>5
    <3>5. q4 \in Seq(Octet)
      BY <2>5
    <3> QED
      BY <2>3, <3>1, <3>2, <3>3, <3>4, <3>5, SplitEqual, ZenonT(30)
  <2> QED
    BY <2>6 DEF x, y
<1>13. p3 = q3 /\ ToLe(h.time, W32) = ToLe(g.time, W32)
  <2>1. p4 = p3 \o ToLe(h.time, W32) /\ q4 = q3 \o ToLe(g.time, W32)
    BY <1>1, <1>2 DEF HeaderParts
  <2>2. h.time \in Int /\ g.time \in Int
    BY <1>6, <1>7, <1>8
  <2> DEFINE x == ToLe(h.time, W32)
             y == ToLe(g.time, W32)
  <2>3. p3 \o x = q3 \o y
    BY <1>12, <2>1
  <2>4. /\ x \in Seq(Octet) /\ y \in Seq(Octet)
        /\ Len(x) = Len(y)
    BY <1>5, <2>2
  <2>5. p3 \in Seq(Octet) /\ q3 \in Seq(Octet)
    BY <1>9
  <2> HIDE DEF x, y
  <2>6. p3 = q3 /\ x = y
    <3>1. x \in Seq(Octet)
      BY <2>4
    <3>2. y \in Seq(Octet)
      BY <2>4
    <3>3. Len(x) = Len(y)
      BY <2>4
    <3>4. p3 \in Seq(Octet)
      BY <2>5
    <3>5. q3 \in Seq(Octet)
      BY <2>5
    <3> QED
      BY <2>3, <3>1, <3>2, <3>3, <3>4, <3>5, SplitEqual, ZenonT(30)
  <2> QED
    BY <2>6 DEF x, y
<1>14. p2 = q2 /\ h.merkle_root = g.merkle_root
  <2>1. p3 = p2 \o h.merkle_root /\ q3 = q2 \o g.merkle_root
    BY <1>1, <1>2 DEF HeaderParts
  <2>3. p2 \o h.merkle_root = q2 \o g.merkle_root
    BY <1>13, <2>1
  <2>4. /\ h.merkle_root \in Seq(Octet) /\ g.merkle_root \in Seq(Octet) /\ Len(h.merkle_root) = Len(g.merkle_root)
    BY <1>4, <1>7, <1>8
  <2>5. p2 \in Seq(Octet) /\ q2 \in Seq(Octet)
    BY <1>9
  <2> QED
    BY <2>3, <2>4, <2>5, SplitEqual, ZenonT(30)
<1>15. p1 = q1 /\ h.prev_block = g.prev_block
  <2>1. p2 = p1 \o h.prev_block /\ q2 = q1 \o g.prev_block
    BY <1>1, <1>2 DEF HeaderParts
  <2>3. p1 \o h.prev_block = q1 \o g.prev_block
    BY <1>14, <2>1
  <2>4. /\ h.prev_block \in Seq(Octet) /\ g.prev_block \in Seq(Octet) /\ Len(h.prev_block) = Len(g.prev_block)
    BY <1>4, <1>7, <1>8
  <2>5. p1 \in Seq(Octet) /\ q1 \in Seq(Octet)
    BY <1>9
  <2> QED
    BY <2>3, <2>4, <2>5, SplitEqual, ZenonT(30)
<1>16. h.version = g.version
  <2>1. ToLe(h.version, W32) = ToLe(g.version, W32)
    BY <1>1, <1>2, <1>15 DEF HeaderParts
  <2>2. /\ -Power(Octets, W32) <= 2 * h.version /\ 2 * h.version < Power(Octets, W32)
        /\ -Power(Octets, W32) <= 2 * g.version /\ 2 * g.version < Power(Octets, W32)
    <3>1. /\ -(MaxU32 + 1) <= 2 * h.version /\ 2 * h.version <= MaxU32
          /\ -(MaxU32 + 1) <= 2 * g.version /\ 2 * g.version <= MaxU32
      BY DEF TypedHeader
    <3> QED
      BY <1>3, <1>7, <1>8, <3>1
  <2>3. FromLeSigned(ToLe(h.version, W32)) = h.version
    BY <1>3, <1>7, <2>2, SignedReadsBack
  <2>4. FromLeSigned(ToLe(g.version, W32)) = g.version
    BY <1>3, <1>8, <2>2, SignedReadsBack
  <2> QED
    BY <2>1, <2>3, <2>4
<1>17. h.nonce = g.nonce /\ h.bits = g.bits /\ h.time = g.time
  BY <1>6, <1>7, <1>8, <1>11, <1>12, <1>13
<1> QED
  BY <1>10, <1>14, <1>15, <1>16, <1>17 DEF TypedHeader

\* HeaderCommits, for every header of the set.
LEMMA HeaderCommitsHolds ==
    ASSUME item \in Inputs
    PROVE  HeaderCommits
<1> SUFFICES ASSUME item.kind = "header" PROVE HeaderCommits
  BY DEF HeaderCommits
<1> DEFINE h == item.it
<1>1. \A x \in Headers : TypedHeader(x)
  BY FormatsAssumption DEF TypedHeader
<1>2. h \in Headers
  BY DEF Inputs, Of
<1>3. \A x \in Headers : x.version \in Int
  BY <1>1 DEF TypedHeader
<1> HIDE DEF h
<1>4. h.version <= 3 => HeaderHash(h) = <<>>
  BY <1>2, <1>3 DEF HeaderHash
<1>5. ASSUME ~(h.version <= 3), NEW g \in Headers, HeaderHash(g) = HeaderHash(h) PROVE g = h
  <2>1. h.version > 3
    BY <1>2, <1>3, <1>5
  <2>2. HeaderHash(h) # <<>>
    BY <1>1, <1>2, <2>1, HeaderSplits
  <2>3. g.version > 3
    <3>1. ~(g.version < 4)
      BY <1>5, <2>2 DEF HeaderHash
    <3> QED
      BY <1>3, <3>1
  <2> QED
    BY <1>1, <1>2, <1>5, <2>1, <2>3, HeaderUnique
<1> QED
  BY <1>4, <1>5 DEF HeaderCommits, h

-----------------------------------------------------------------------------
(* The coinbase's height.                                                  *)

\* What is left of a number after its first octets lies between two multiples of a power.
LEMMA RestBounds ==
    ASSUME NEW octets \in Seq(Octet), NEW n \in Nat, NEW rest, Rests(rest, n, octets),
           NEW i \in 0 .. Len(octets)
    PROVE  Power(Octets, i) * rest[i] <= n /\ n < Power(Octets, i) * (rest[i] + 1)
<1> DEFINE w == Len(octets)
           P(k) == Power(Octets, k)
<1>1. w \in Nat /\ \A k \in 1 .. w : octets[k] \in Octet
  BY SeqFacts
<1>2. /\ rest \in [0 .. w -> Int] /\ rest[0] = n
      /\ \A k \in 1 .. w : rest[k - 1] = Octets * rest[k] + octets[k]
  BY DEF Rests
<1>3. Octets \in Nat \ {0}
  BY OctetFacts
<1>4. P(0) = 1 /\ \A k \in Nat : P(k) \in Nat \ {0} /\ P(k + 1) = Octets * P(k)
  BY <1>3, PowerFacts
<1>5. i \in 0 .. w
  OBVIOUS
<1> HIDE DEF w, P
<1> DEFINE D == {k \in Nat : k <= w => P(k) * rest[k] <= n /\ n < P(k) * (rest[k] + 1)}
<1>6. 0 \in D
  <2>1. 1 * n <= n /\ n < 1 * (n + 1)
    OBVIOUS
  <2>2. P(0) * rest[0] <= n /\ n < P(0) * (rest[0] + 1)
    BY <1>2, <1>4, <2>1
  <2> QED
    BY <2>2
<1>7. ASSUME NEW k \in Nat, k \in D PROVE k + 1 \in D
  <2> SUFFICES ASSUME k + 1 <= w
               PROVE  P(k + 1) * rest[k + 1] <= n /\ n < P(k + 1) * (rest[k + 1] + 1)
    OBVIOUS
  <2> DEFINE x == rest[k]
             y == rest[k + 1]
             o == octets[k + 1]
             p == P(k)
  <2>1. k + 1 \in 1 .. w /\ (k + 1) - 1 = k /\ k <= w /\ k \in 0 .. w /\ k + 1 \in 0 .. w
    BY <1>1
  <2>2. x = Octets * y + o
    BY <1>2, <2>1
  <2>3. x \in Int /\ y \in Int
    BY <1>2, <2>1
  <2>4. o \in 0 .. Octets - 1
    BY <1>1, <2>1 DEF Octet
  <2>5. p \in Nat \ {0} /\ P(k + 1) = Octets * p
    BY <1>4
  <2>6. p * x <= n /\ n < p * (x + 1)
    BY <1>7, <2>1
  <2> HIDE DEF x, y, o, p
  <2> DEFINE z == Octets * y
  <2>7. z \in Int /\ z <= x /\ x + 1 <= z + Octets
    BY <1>3, <2>2, <2>3, <2>4
  <2>8. (Octets * p) * y = p * z /\ (Octets * p) * (y + 1) = p * (z + Octets)
    BY <1>3, <2>3, <2>5
  <2> HIDE DEF z
  <2>9. p * z <= p * x /\ p * (x + 1) <= p * (z + Octets)
        /\ p * z \in Int /\ p * x \in Int /\ p * (x + 1) \in Int /\ p * (z + Octets) \in Int
    BY <1>3, <2>3, <2>5, <2>7
  <2>10. p * z <= n /\ n < p * (z + Octets)
    BY <2>6, <2>9
  <2> QED
    BY <2>5, <2>8, <2>10 DEF y
<1>8. i \in D
  <2> HIDE DEF D
  <2>1. Nat \subseteq D
    BY <1>6, <1>7, SetInduction
  <2> QED
    BY <1>1, <1>5, <2>1
<1> QED
  BY <1>1, <1>5, <1>8 DEF w, P

\* A number below a power and not below the one before has a last octet that is not zero.
LEMMA TopOctet ==
    ASSUME NEW w \in Nat \ {0}, NEW n \in Nat, n < Power(Octets, w), n >= Power(Octets, w - 1)
    PROVE  ToLe(n, w)[w] # 0
<1> DEFINE octets == ToLe(n, w)
           p == Power(Octets, w)
           q == Power(Octets, w - 1)
<1>1. octets \in Seq(Octet) /\ Len(octets) = w
  BY ToLeOctets
<1>2. PICK rest : Rests(rest, n, octets)
  BY ToLeOctets
<1>3. Octets \in Nat \ {0}
  BY OctetFacts
<1>4. p \in Nat \ {0} /\ q \in Nat \ {0}
  BY <1>3, PowerFacts
<1> HIDE DEF octets
<1>5. p * rest[w] <= n /\ n < p * (rest[w] + 1)
  BY <1>1, <1>2, RestBounds
<1>6. n < q * (rest[w - 1] + 1)
  <2>1. w - 1 \in 0 .. Len(octets)
    BY <1>1
  <2> QED
    BY <1>1, <1>2, <2>1, RestBounds
<1>7. /\ rest[w] \in Int /\ rest[w - 1] \in Int
      /\ rest[w - 1] = Octets * rest[w] + octets[w]
  <2>1. w \in 1 .. Len(octets) /\ w - 1 \in 0 .. Len(octets) /\ w \in 0 .. Len(octets)
    BY <1>1
  <2>2. /\ rest \in [0 .. Len(octets) -> Int]
        /\ \A i \in 1 .. Len(octets) : rest[i - 1] = Octets * rest[i] + octets[i]
    BY <1>2 DEF Rests
  <2> QED
    BY <2>1, <2>2
<1>8. n < p /\ n >= q
  OBVIOUS
<1> DEFINE x == rest[w]
           y == rest[w - 1]
<1> HIDE DEF p, q, x, y
<1>9. x = 0
  <2>1. x \in Int /\ p * x <= n /\ n < p * (x + 1)
    BY <1>5, <1>7 DEF x
  <2>2. ~(x >= 1)
    <3> SUFFICES ASSUME x >= 1 PROVE FALSE
      OBVIOUS
    <3>1. p * x >= p
      BY <1>4, <2>1
    <3> QED
      BY <1>4, <1>8, <2>1, <3>1
  <2>3. ~(x <= -1)
    <3> SUFFICES ASSUME x <= -1 PROVE FALSE
      OBVIOUS
    <3>1. p * (x + 1) <= 0
      BY <1>4, <2>1
    <3> QED
      BY <1>4, <2>1, <3>1
  <2> QED
    BY <2>1, <2>2, <2>3
<1>10. y >= 1
  <2>1. y \in Int /\ n < q * (y + 1)
    BY <1>6, <1>7 DEF y
  <2> SUFFICES ASSUME y <= 0 PROVE FALSE
    BY <2>1
  <2>2. q * (y + 1) <= q /\ q * (y + 1) \in Int
    BY <1>4, <2>1
  <2> QED
    BY <1>4, <1>8, <2>1, <2>2
<1>11. octets[w] = y
  <2>1. w \in 1 .. Len(octets)
    BY <1>1
  <2>2. octets[w] \in Octet
    BY <1>1, <2>1, SeqFacts
  <2>3. octets[w] \in Nat
    BY <2>2, OctetFacts
  <2>4. y = Octets * 0 + octets[w]
    BY <1>7, <1>9 DEF x, y
  <2> QED
    BY <1>3, <2>3, <2>4
<1>12. y \in Int
  BY <1>7 DEF y
<1> QED
  BY <1>10, <1>11, <1>12 DEF octets

\* A zero octet at the end changes nothing.
LEMMA ZeroAtEnd ==
    ASSUME NEW octets \in Seq(Octet)
    PROVE  FromLe(Append(octets, 0)) = FromLe(octets)
<1> DEFINE w == Len(octets)
           long == Append(octets, 0)
<1>1. w \in Nat /\ 0 \in Octet
  BY OctetFacts
<1>2. /\ long \in Seq(Octet) /\ Len(long) = w + 1 /\ long[w + 1] = 0
      /\ \A i \in 1 .. w : long[i] = octets[i]
  BY <1>1
<1>3. PICK last : Worths(last, octets)
  BY FromLeOctets
<1> HIDE DEF long
<1>4. PICK more : Worths(more, long)
  BY <1>2, FromLeOctets
<1>5. /\ last \in [0 .. w -> Nat] /\ last[0] = 0 /\ FromLe(octets) = last[w]
      /\ \A i \in 1 .. w : last[i] = Octets * last[i - 1] + octets[(w - i) + 1]
  BY <1>3 DEF Worths
<1> HIDE DEF w
<1>6. /\ more \in [0 .. w + 1 -> Nat] /\ more[0] = 0 /\ FromLe(long) = more[w + 1]
      /\ \A i \in 1 .. w + 1 : more[i] = Octets * more[i - 1] + long[((w + 1) - i) + 1]
  BY <1>2, <1>4 DEF Worths
<1>7. Octets \in Nat
  BY OctetFacts
<1> DEFINE D == {i \in Nat : i <= w => more[i + 1] = last[i]}
<1>8. 0 \in D
  <2>1. 1 \in 1 .. w + 1 /\ 1 - 1 = 0 /\ ((w + 1) - 1) + 1 = w + 1 /\ 0 + 1 = 1
    BY <1>1
  <2>2. more[1] = Octets * 0 + 0
    BY <1>2, <1>6, <2>1
  <2>3. more[0 + 1] = last[0]
    BY <1>5, <1>7, <2>1, <2>2
  <2> QED
    BY <2>3
<1>9. ASSUME NEW i \in Nat, i \in D PROVE i + 1 \in D
  <2> SUFFICES ASSUME i + 1 <= w PROVE more[(i + 1) + 1] = last[i + 1]
    OBVIOUS
  <2>1. /\ i <= w /\ (i + 1) + 1 \in 1 .. w + 1 /\ ((i + 1) + 1) - 1 = i + 1
        /\ ((w + 1) - ((i + 1) + 1)) + 1 = (w - (i + 1)) + 1
        /\ i + 1 \in 1 .. w /\ (i + 1) - 1 = i /\ (w - (i + 1)) + 1 \in 1 .. w
    BY <1>1
  <2>2. more[(i + 1) + 1] = Octets * more[i + 1] + long[(w - (i + 1)) + 1]
    BY <1>6, <2>1
  <2>3. last[i + 1] = Octets * last[i] + octets[(w - (i + 1)) + 1]
    BY <1>5, <2>1
  <2>4. more[i + 1] = last[i] /\ long[(w - (i + 1)) + 1] = octets[(w - (i + 1)) + 1]
    BY <1>2, <1>9, <2>1
  <2> QED
    BY <2>2, <2>3, <2>4
<1>10. w \in D
  <2> HIDE DEF D
  <2> QED
    BY <1>1, <1>8, <1>9, SetInduction
<1>11. more[w + 1] = last[w]
  BY <1>1, <1>10
<1> QED
  BY <1>5, <1>6, <1>11 DEF long

\* The least width that holds a height.
LEMMA HeightWidth ==
    ASSUME NEW n \in Nat
    PROVE  \E w \in Nat : /\ HeightOctets(n) = ToLe(n, w) /\ n < Power(Octets, w)
                          /\ w > 0 => n >= Power(Octets, w - 1)
<1> DEFINE P(i) == Power(Octets, i)
           Fits(w) == n < P(w) /\ \A v \in 0 .. w - 1 : n >= P(v)
           width == CHOOSE w \in 0 .. n : Fits(w)
           S == {w \in Nat : n < P(w)}
           D == {i \in Nat : i < P(i)}
<1>1. Octets \in Nat \ {0} /\ Octets >= 4
  BY OctetFacts
<1>2. P(0) = 1 /\ \A i \in Nat : P(i) \in Nat \ {0} /\ P(i + 1) = Octets * P(i)
  BY <1>1, PowerFacts
<1>3. HeightOctets(n) = ToLe(n, width)
  BY DEF HeightOctets
<1> HIDE DEF P
<1>4. 0 \in D
  BY <1>2
<1>5. ASSUME NEW i \in Nat, i \in D PROVE i + 1 \in D
  <2>1. i < P(i) /\ P(i) \in Nat /\ P(i + 1) = Octets * P(i)
    BY <1>2, <1>5
  <2>2. Octets * P(i) >= 4 * P(i) /\ Octets * P(i) \in Nat
    BY <1>1, <2>1
  <2> QED
    BY <2>1, <2>2
<1>6. n \in S
  <2> HIDE DEF D
  <2>1. n \in D
    BY <1>4, <1>5, SetInduction
  <2> QED
    BY <2>1 DEF D
<1>7. PICK m \in S : \A k \in S : m <= k
  <2>1. S \subseteq Nat /\ S # {}
    BY <1>6
  <2> HIDE DEF S
  <2> QED
    BY <2>1, LeastNat
<1>8. m \in 0 .. n /\ Fits(m)
  <2>1. m \in Nat /\ n < P(m) /\ m <= n
    BY <1>6, <1>7
  <2>2. ASSUME NEW v \in 0 .. m - 1 PROVE n >= P(v)
    <3>1. v \in Nat /\ ~(m <= v)
      BY <2>1
    <3>2. v \notin S
      BY <1>7, <3>1
    <3>3. ~(n < P(v)) /\ P(v) \in Nat
      BY <1>2, <3>1, <3>2
    <3> QED
      BY <3>3
  <2> QED
    BY <2>1, <2>2
<1>9. width \in 0 .. n /\ Fits(width)
  <2> HIDE DEF Fits
  <2> QED
    BY <1>8
<1> HIDE DEF width
<1>10. width \in Nat /\ n < P(width) /\ (width > 0 => n >= P(width - 1))
  <2>1. width \in Nat
    BY <1>9
  <2>2. width > 0 => width - 1 \in 0 .. width - 1
    BY <2>1
  <2> QED
    BY <1>9, <2>1, <2>2
<1> QED
  BY <1>3, <1>10 DEF P

\* A script number of a height is minimal and is not negative.
ScriptNumber(number, n) ==
    /\ FromLe(number) = n
    /\ number # <<>> => 2 * Last(number) < Octets
    /\ number # <<>> /\ Last(number) = 0 =>
          Len(number) > 1 /\ 2 * number[Len(number) - 1] >= Octets

\* The number that deterministic_coinbase pushes.
Pushed(n) == LET h == HeightOctets(n)
             IN  IF h # <<>> /\ 2 * Last(h) >= Octets THEN Append(h, 0) ELSE h

\* What deterministic_coinbase pushes is the minimal script number of the height.
LEMMA PushedNumber ==
    ASSUME NEW n \in Nat
    PROVE  Pushed(n) \in Seq(Nat) /\ ScriptNumber(Pushed(n), n)
<1> DEFINE h == HeightOctets(n)
<1>1. PICK w \in Nat : /\ h = ToLe(n, w) /\ n < Power(Octets, w)
                       /\ w > 0 => n >= Power(Octets, w - 1)
  BY HeightWidth
<1>2. h \in Seq(Octet) /\ Len(h) = w
  BY <1>1, ToLeOctets
<1>3. FromLe(h) = n
  <2>1. Power(Octets, w) \in Nat
    BY OctetFacts, PowerFacts
  <2>2. n \in 0 .. Power(Octets, w) - 1
    BY <1>1, <2>1
  <2> QED
    BY <1>1, <2>2, UnsignedReadsBack
<1>4. w # 0 => h[w] # 0
  BY <1>1, TopOctet
<1>5. Octet \subseteq Nat /\ 0 \in Octet /\ Octets \in Nat /\ Octets > 0
  BY OctetFacts
<1>6. Pushed(n) = IF h # <<>> /\ 2 * Last(h) >= Octets THEN Append(h, 0) ELSE h
  BY DEF Pushed
<1> HIDE DEF h
<1>7. w # 0 => h[w] \in Nat
  <2>1. w # 0 => w \in 1 .. Len(h)
    BY <1>2
  <2>2. w # 0 => h[w] \in Octet
    BY <1>2, <2>1, SeqFacts
  <2> QED
    BY <1>5, <2>2
<1>8. Last(h) = h[w]
  BY <1>2 DEF Last
<1>9. h # <<>> <=> w # 0
  BY <1>2
<1>10. h \in Seq(Nat)
  <2>1. Len(h) \in Nat /\ h = [i \in 1 .. Len(h) |-> h[i]] /\ \A i \in 1 .. Len(h) : h[i] \in Octet
    BY <1>2, SeqFacts
  <2>2. h \in [1 .. Len(h) -> Nat]
    BY <1>5, <2>1
  <2> QED
    BY <2>1, <2>2
<1>11. CASE h # <<>> /\ 2 * Last(h) >= Octets
  <2> DEFINE long == Append(h, 0)
  <2>1. Pushed(n) = long
    BY <1>6, <1>11
  <2>2. long \in Seq(Nat) /\ Len(long) = w + 1 /\ long[w + 1] = 0 /\ long[w] = h[w]
    BY <1>2, <1>9, <1>10, <1>11
  <2>3. FromLe(long) = n
    BY <1>2, <1>3, ZeroAtEnd
  <2> HIDE DEF long
  <2>4. Last(long) = 0
    BY <2>2 DEF Last
  <2>5. Len(long) > 1 /\ (w + 1) - 1 = w
    BY <1>9, <1>11, <2>2
  <2>6. 2 * long[Len(long) - 1] >= Octets
    BY <1>8, <1>11, <2>2, <2>5
  <2>7. 2 * Last(long) < Octets
    BY <1>5, <2>4
  <2> QED
    BY <2>1, <2>2, <2>3, <2>5, <2>6, <2>7 DEF ScriptNumber
<1>12. CASE h = <<>>
  <2>1. Pushed(n) = <<>>
    BY <1>6, <1>12
  <2> QED
    BY <1>3, <1>10, <1>12, <2>1 DEF ScriptNumber
<1>13. CASE h # <<>> /\ ~(2 * Last(h) >= Octets)
  <2>1. Pushed(n) = h
    BY <1>6, <1>13
  <2>2. Last(h) # 0 /\ 2 * Last(h) < Octets
    BY <1>4, <1>5, <1>7, <1>8, <1>9, <1>13
  <2> QED
    BY <1>3, <1>10, <2>1, <2>2 DEF ScriptNumber
<1> QED
  BY <1>11, <1>12, <1>13

\* The script is the number's length, the number, and two octets more.
LEMMA CoinbaseScriptParts ==
    ASSUME NEW n \in Nat
    PROVE  /\ Len(CoinbaseScript(n)) = CoinbaseScript(n)[1] + 3
           /\ SubSeq(CoinbaseScript(n), 2, CoinbaseScript(n)[1] + 1) = Pushed(n)
<1> DEFINE number == Pushed(n)
           m == Len(number)
           head == <<m>>
           tail == <<1, 1>>
           script == CoinbaseScript(n)
<1>1. number \in Seq(Nat) /\ m \in Nat
  BY PushedNumber
<1>2. script = (head \o number) \o tail
  BY DEF CoinbaseScript, Pushed
<1> HIDE DEF number, script
<1>3. head \in Seq(Nat) /\ Len(head) = 1 /\ head[1] = m /\ tail \in Seq(Nat) /\ Len(tail) = 2
  BY <1>1
<1> HIDE DEF head, tail
<1> DEFINE start == head \o number
<1>4. /\ start \in Seq(Nat) /\ Len(start) = 1 + m
      /\ \A i \in 1 .. 1 + m : start[i] = IF i <= 1 THEN head[i] ELSE number[i - 1]
  <2>1. /\ start \in Seq(Nat) /\ Len(start) = Len(head) + Len(number)
        /\ \A i \in 1 .. Len(head) + Len(number) :
              start[i] = IF i <= Len(head) THEN head[i] ELSE number[i - Len(head)]
    BY <1>1, <1>3, ConcatFacts
  <2> HIDE DEF start
  <2> QED
    BY <1>3, <2>1
<1> HIDE DEF start
<1>5. /\ script \in Seq(Nat) /\ Len(script) = (1 + m) + 2
      /\ \A i \in 1 .. (1 + m) + 2 :
            script[i] = IF i <= 1 + m THEN start[i] ELSE tail[i - (1 + m)]
  <2>1. script = start \o tail
    BY <1>2 DEF start
  <2>2. /\ start \o tail \in Seq(Nat) /\ Len(start \o tail) = Len(start) + Len(tail)
        /\ \A i \in 1 .. Len(start) + Len(tail) :
              (start \o tail)[i] = IF i <= Len(start) THEN start[i] ELSE tail[i - Len(start)]
    <3>1. start \in Seq(Nat)
      BY <1>4
    <3>2. tail \in Seq(Nat)
      BY <1>3
    <3> QED
      BY <3>1, <3>2, ConcatFacts
  <2> HIDE DEF m
  <2> QED
    BY <1>3, <1>4, <2>1, <2>2
<1> HIDE DEF m
<1>6. script[1] = m
  <2>1. 1 \in 1 .. 1 + m /\ 1 \in 1 .. (1 + m) + 2 /\ 1 <= 1 + m
    BY <1>1
  <2> QED
    BY <1>3, <1>4, <1>5, <2>1
<1> DEFINE part == SubSeq(script, 2, m + 1)
<1>7. /\ part \in Seq(Nat) /\ Len(part) = m
      /\ \A i \in 1 .. m : part[i] = script[(2 + i) - 1]
  <2>1. 2 <= (m + 1) + 1 /\ m + 1 <= Len(script) /\ m + 1 \in Nat /\ ((m + 1) + 1) - 2 = m
    BY <1>1, <1>5
  <2> QED
    BY <1>5, <2>1, SubSeqFacts, SMTT(20)
<1> HIDE DEF part
<1>8. ASSUME NEW i \in 1 .. m PROVE part[i] = number[i]
  <2>1. /\ (2 + i) - 1 = i + 1 /\ i + 1 \in 1 .. 1 + m /\ i + 1 \in 1 .. (1 + m) + 2
        /\ i + 1 <= 1 + m /\ ~(i + 1 <= 1) /\ (i + 1) - 1 = i
    BY <1>1
  <2>2. script[i + 1] = start[i + 1]
    BY <1>5, <2>1
  <2>3. start[i + 1] = number[i]
    BY <1>4, <2>1
  <2> QED
    BY <1>7, <2>1, <2>2, <2>3
<1>9. part = number
  BY <1>1, <1>7, <1>8, SeqEqual DEF m
<1>10. Len(script) = script[1] + 3
  BY <1>1, <1>5, <1>6
<1> QED
  BY <1>6, <1>9, <1>10 DEF script, part, number

\* CoinbaseHeightExact, for every height.
LEMMA CoinbaseHeightExactHolds ==
    ASSUME item \in Inputs
    PROVE  CoinbaseHeightExact
<1> SUFFICES ASSUME item.kind = "height" PROVE CoinbaseHeightExact
  BY DEF CoinbaseHeightExact
<1>1. item.it \in Nat
  <2>1. item.it \in Heights
    BY DEF Inputs, Of
  <2>2. Heights \subseteq Nat
    BY FormatsAssumption
  <2> QED
    BY <2>1, <2>2
<1>2. ScriptNumber(Pushed(item.it), item.it)
  BY <1>1, PushedNumber
<1> QED
  BY <1>1, <1>2, CoinbaseScriptParts DEF CoinbaseHeightExact, ScriptNumber

-----------------------------------------------------------------------------
(* Merkle roots.                                                           *)

\* L is a level of m nodes over txids; each holds M of them, in their order, and what
\* goes past the last one repeats some.
IsLevel(L, M, m, txids) ==
    /\ M \in Nat \ {0} /\ m \in Nat \ {0} /\ m * M >= Len(txids)
    /\ L \in Seq(Seq(Range(txids))) /\ Len(L) = m
    /\ \A j \in 1 .. m : Len(L[j]) = M
    /\ \A j \in 1 .. m, k \in 1 .. M :
          (j - 1) * M + k <= Len(txids) => L[j][k] = txids[(j - 1) * M + k]

\* A level of an odd length is prolonged by its last node.
LEMMA EvenLevel ==
    ASSUME NEW S, NEW txids \in Seq(S), NEW L, NEW M, NEW m, IsLevel(L, M, m, txids),
           m % 2 = 1
    PROVE  IsLevel(Append(L, Last(L)), M, m + 1, txids)
<1> DEFINE n == Len(txids)
           R == Seq(Range(txids))
           E == Append(L, Last(L))
<1>1. /\ M \in Nat \ {0} /\ m \in Nat \ {0} /\ m * M >= n /\ L \in Seq(R) /\ Len(L) = m
      /\ \A j \in 1 .. m : Len(L[j]) = M
      /\ \A j \in 1 .. m, k \in 1 .. M : (j - 1) * M + k <= n => L[j][k] = txids[(j - 1) * M + k]
  BY DEF IsLevel
<1>2. n \in Nat
  BY SeqFacts
<1> HIDE DEF n, R, E
<1>3. Last(L) = L[m] /\ L[m] \in R
  <2>1. m \in 1 .. m
    BY <1>1
  <2>2. L[m] \in R
    BY <1>1, <2>1, SeqFacts
  <2> QED
    BY <1>1, <2>2 DEF Last
<1>4. E \in Seq(R) /\ Len(E) = m + 1 /\ (\A j \in 1 .. m : E[j] = L[j]) /\ E[m + 1] = L[m]
  BY <1>1, <1>3 DEF E
<1>5. (m + 1) * M >= n
  <2>1. (m + 1) * M = m * M + M /\ m * M \in Nat
    BY <1>1
  <2> QED
    BY <1>1, <1>2, <2>1
<1>6. ASSUME NEW j \in 1 .. m + 1 PROVE Len(E[j]) = M
  <2>1. m \in 1 .. m /\ (j \in 1 .. m \/ j = m + 1)
    BY <1>1
  <2> QED
    BY <1>1, <1>4, <2>1
<1>7. ASSUME NEW j \in 1 .. m + 1, NEW k \in 1 .. M, (j - 1) * M + k <= n
      PROVE  E[j][k] = txids[(j - 1) * M + k]
  <2>1. j # m + 1
    <3> SUFFICES ASSUME j = m + 1 PROVE FALSE
      OBVIOUS
    <3>1. (j - 1) * M = m * M /\ m * M \in Nat
      BY <1>1
    <3> QED
      BY <1>1, <1>2, <1>7, <3>1
  <2>2. j \in 1 .. m
    BY <1>1, <2>1
  <2> QED
    BY <1>1, <1>4, <1>7, <2>2
<1>8. m + 1 \in Nat \ {0}
  BY <1>1
<1> QED
  BY <1>1, <1>4, <1>5, <1>6, <1>7, <1>8 DEF IsLevel, n, R, E

\* The hashes of the pairs of a level.
Paired(E) == [i \in 1 .. Len(E) \div 2 |-> MerkleNode(E[2 * i - 1], E[2 * i])]

\* Pairing the nodes of a level makes a level of half as many, twice as long.
LEMMA PairedLevel ==
    ASSUME NEW S, NEW txids \in Seq(S), NEW E, NEW M, NEW h \in Nat \ {0},
           IsLevel(E, M, 2 * h, txids)
    PROVE  IsLevel(Paired(E), 2 * M, h, txids)
<1> DEFINE n == Len(txids)
           Q == Range(txids)
           m == 2 * h
           P == Paired(E)
<1>1. /\ M \in Nat \ {0} /\ m * M >= n /\ E \in Seq(Seq(Q)) /\ Len(E) = m
      /\ \A j \in 1 .. m : Len(E[j]) = M
      /\ \A j \in 1 .. m, k \in 1 .. M : (j - 1) * M + k <= n => E[j][k] = txids[(j - 1) * M + k]
  BY DEF IsLevel
<1>2. n \in Nat
  BY SeqFacts
<1>3. P = [i \in 1 .. h |-> E[2 * i - 1] \o E[2 * i]]
  <2>1. (2 * h) \div 2 = h
    OBVIOUS
  <2> QED
    BY <1>1, <2>1 DEF Paired, MerkleNode
<1> HIDE DEF n, Q, P
<1>4. \A i \in 1 .. h : 2 * i - 1 \in 1 .. m /\ 2 * i \in 1 .. m
  OBVIOUS
<1>5. \A j \in 1 .. m : E[j] \in Seq(Q)
  BY <1>1, SeqFacts
<1> HIDE DEF m
<1>6. ASSUME NEW i \in 1 .. h
      PROVE  /\ P[i] \in Seq(Q) /\ Len(P[i]) = M + M
             /\ \A k \in 1 .. M + M : P[i][k] = IF k <= M THEN E[2 * i - 1][k] ELSE E[2 * i][k - M]
  <2> DEFINE a == E[2 * i - 1]
             b == E[2 * i]
  <2>1. P[i] = a \o b
    BY <1>3
  <2>2. a \in Seq(Q) /\ Len(a) = M
    BY <1>1, <1>4, <1>5
  <2>3. b \in Seq(Q) /\ Len(b) = M
    BY <1>1, <1>4, <1>5
  <2> HIDE DEF a, b
  <2>4. /\ a \o b \in Seq(Q) /\ Len(a \o b) = Len(a) + Len(b)
        /\ \A k \in 1 .. Len(a) + Len(b) :
              (a \o b)[k] = IF k <= Len(a) THEN a[k] ELSE b[k - Len(a)]
    BY <2>2, <2>3, ConcatFacts
  <2>5. /\ P[i] \in Seq(Q) /\ Len(P[i]) = M + M
        /\ \A k \in 1 .. M + M : P[i][k] = IF k <= M THEN a[k] ELSE b[k - M]
    BY <2>1, <2>2, <2>3, <2>4
  <2> QED
    BY <2>5 DEF a, b
<1>7. P \in Seq(Seq(Q)) /\ Len(P) = h
  <2>1. P \in [1 .. h -> Seq(Q)]
    BY <1>3, <1>6
  <2> QED
    BY <2>1
<1>8. h * (2 * M) >= n /\ 2 * M \in Nat \ {0} /\ M + M = 2 * M
  <2>1. h * (2 * M) = (2 * h) * M
    BY <1>1
  <2> QED
    BY <1>1, <1>2, <2>1 DEF m
<1>9. ASSUME NEW i \in 1 .. h, NEW k \in 1 .. 2 * M, (i - 1) * (2 * M) + k <= n
      PROVE  P[i][k] = txids[(i - 1) * (2 * M) + k]
  <2>1. k \in 1 .. M + M
    BY <1>1
  <2>2. CASE k <= M
    <3>1. k \in 1 .. M /\ 2 * i - 1 \in 1 .. m
      BY <1>1, <1>4, <2>2
    <3>2. ((2 * i - 1) - 1) * M = (i - 1) * (2 * M)
      BY <1>1
    <3>3. E[2 * i - 1][k] = txids[((2 * i - 1) - 1) * M + k]
      BY <1>1, <1>9, <3>1, <3>2
    <3> QED
      BY <1>6, <2>1, <2>2, <3>2, <3>3
  <2>3. CASE ~(k <= M)
    <3>1. k - M \in 1 .. M /\ 2 * i \in 1 .. m
      BY <1>1, <1>4, <2>1, <2>3
    <3>2. (2 * i - 1) * M + (k - M) = (i - 1) * (2 * M) + k
      BY <1>1
    <3>3. E[2 * i][k - M] = txids[(2 * i - 1) * M + (k - M)]
      BY <1>1, <1>9, <3>1, <3>2
    <3> QED
      BY <1>6, <2>1, <2>3, <3>2, <3>3
  <2> QED
    BY <2>2, <2>3
<1> QED
  BY <1>6, <1>7, <1>8, <1>9 DEF IsLevel, P, Q, n

\* A turn of merkle_root's loop makes a level of a level, a shorter one.
LEMMA NextLevel ==
    ASSUME NEW S, NEW txids \in Seq(S), NEW L, NEW M, NEW m, IsLevel(L, M, m, txids), m > 1
    PROVE  IsLevel(MerkleLevel(L), 2 * M, (m + 1) \div 2, txids)
           /\ (m + 1) \div 2 <= m - 1
<1>1. m \in Nat /\ L \in Seq(Seq(Range(txids))) /\ Len(L) = m
  BY DEF IsLevel
<1> DEFINE E == IF m % 2 = 1 THEN Append(L, Last(L)) ELSE L
           h == (m + 1) \div 2
<1>2. MerkleLevel(L) = Paired(E)
  BY <1>1 DEF MerkleLevel, Paired
<1>3. h \in Nat \ {0} /\ h <= m - 1 /\ (2 * h = IF m % 2 = 1 THEN m + 1 ELSE m)
  BY <1>1
<1>4. IsLevel(E, M, 2 * h, txids)
  BY <1>3, EvenLevel
<1> HIDE DEF E, h
<1>5. IsLevel(Paired(E), 2 * M, h, txids)
  BY <1>3, <1>4, PairedLevel
<1> QED
  BY <1>2, <1>3, <1>5 DEF h

\* A turn of the loop makes nodes of nodes.
LEMMA MerkleLevelType ==
    ASSUME NEW Q, NEW L \in Seq(Seq(Q)), Len(L) > 1
    PROVE  MerkleLevel(L) \in Seq(Seq(Q))
<1> DEFINE R == Seq(Q)
           m == Len(L)
           E == IF m % 2 = 1 THEN Append(L, Last(L)) ELSE L
           h == (m + 1) \div 2
           P == MerkleLevel(L)
<1>1. m \in Nat /\ m > 1 /\ \A j \in 1 .. m : L[j] \in R
  <2> HIDE DEF R
  <2> QED
    BY SeqFacts DEF R
<1>2. h \in Nat /\ (2 * h = IF m % 2 = 1 THEN m + 1 ELSE m)
  BY <1>1
<1>3. P = [i \in 1 .. Len(E) \div 2 |-> E[2 * i - 1] \o E[2 * i]]
  BY DEF MerkleLevel, MerkleNode
<1>4. Last(L) \in R
  <2>1. m \in 1 .. m
    BY <1>1
  <2> QED
    BY <1>1, <2>1 DEF Last
<1> HIDE DEF P, R
<1>5. E \in Seq(R) /\ Len(E) = 2 * h
  <2>1. L \in Seq(R)
    BY DEF R
  <2> QED
    BY <1>1, <1>2, <1>4, <2>1
<1> HIDE DEF E, h, m
<1>6. (2 * h) \div 2 = h
  BY <1>2
<1>7. ASSUME NEW i \in 1 .. h PROVE E[2 * i - 1] \o E[2 * i] \in R
  <2>1. 2 * i - 1 \in 1 .. 2 * h /\ 2 * i \in 1 .. 2 * h
    BY <1>2
  <2>2. E[2 * i - 1] \in Seq(Q)
    BY <1>5, <2>1, SeqFacts DEF R
  <2>3. E[2 * i] \in Seq(Q)
    BY <1>5, <2>1, SeqFacts DEF R
  <2> DEFINE a == E[2 * i - 1]
             b == E[2 * i]
  <2> HIDE DEF a, b
  <2>4. a \o b \in Seq(Q)
    BY <2>2, <2>3, ConcatFacts DEF a, b
  <2> QED
    BY <2>4 DEF a, b, R
<1>8. P \in [1 .. h -> R]
  BY <1>3, <1>5, <1>6, <1>7
<1> QED
  BY <1>2, <1>8 DEF P, R

\* The levels of the tree, turn by turn.
Turns(level, txids) ==
    /\ level[0] = [i \in DOMAIN txids |-> <<txids[i]>>]
    /\ \A t \in 1 .. Len(txids) :
          level[t] = IF Len(level[t - 1]) > 1 THEN MerkleLevel(level[t - 1]) ELSE level[t - 1]
    /\ MerkleRoot(txids) = level[Len(txids)][1]

\* The loop of merkle_root, turn by turn.
LEMMA TurnsExist ==
    ASSUME NEW S, NEW txids \in Seq(S), txids # <<>>
    PROVE  \E level : Turns(level, txids)
<1> DEFINE n == Len(txids)
           Q == Range(txids)
           V == Seq(Seq(Q))
           base == [i \in DOMAIN txids |-> <<txids[i]>>]
           F == [iv \in Nat \X V |-> IF Len(iv[2]) > 1 THEN MerkleLevel(iv[2]) ELSE iv[2]]
           Eq(g) == g = [turn \in 0 .. n |->
                            IF turn = 0 THEN base
                            ELSE IF Len(g[turn - 1]) > 1 THEN MerkleLevel(g[turn - 1])
                            ELSE g[turn - 1]]
           level == CHOOSE g : Eq(g)
<1>1. n \in Nat /\ DOMAIN txids = 1 .. n
  BY SeqFacts
<1>2. base \in V
  <2>1. \A i \in 1 .. n : <<txids[i]>> \in Seq(Q)
    BY <1>1 DEF Range
  <2>2. base \in [1 .. n -> Seq(Q)]
    BY <1>1, <2>1
  <2> QED
    BY <1>1, <2>2
<1>3. \A v \in V : Len(v) > 1 => MerkleLevel(v) \in V
  BY MerkleLevelType
<1>4. MerkleRoot(txids) = level[n][1]
  BY DEF MerkleRoot
<1> HIDE DEF V, base, n
<1>5. F \in [Nat \X V -> V]
  BY <1>3
<1>6. PICK g \in [0 .. n -> V] : RecursionOn(g, 0 .. n, base, F)
  <2> HIDE DEF F
  <2> QED
    BY <1>1, <1>2, <1>5, FiniteRecursion
<1>7. Eq(g)
  <2>1. ASSUME NEW i \in 0 .. n, i # 0
        PROVE  F[<<i, g[i - 1]>>] = IF Len(g[i - 1]) > 1 THEN MerkleLevel(g[i - 1]) ELSE g[i - 1]
    <3>1. i \in Nat /\ i - 1 \in 0 .. n
      BY <1>1, <2>1
    <3>2. g[i - 1] \in V
      BY <1>6, <3>1
    <3> QED
      BY <3>1, <3>2
  <2> HIDE DEF F
  <2> QED
    BY <1>6, <2>1 DEF RecursionOn
<1>8. Eq(level)
  <2> HIDE DEF Eq
  <2> QED
    BY <1>7
<1> HIDE DEF level, F
<1>9. /\ level[0] = base
      /\ \A t \in 1 .. n :
            level[t] = IF Len(level[t - 1]) > 1 THEN MerkleLevel(level[t - 1]) ELSE level[t - 1]
  <2>1. 0 \in 0 .. n /\ \A i \in 1 .. n : i \in 0 .. n /\ i # 0
    BY <1>1
  <2>2. level[0] = base
    BY <1>8, <2>1
  <2>3. \A t \in 1 .. n :
            level[t] = IF Len(level[t - 1]) > 1 THEN MerkleLevel(level[t - 1]) ELSE level[t - 1]
    BY <1>8, <2>1
  <2> QED
    BY <2>2, <2>3
<1>10. Turns(level, txids)
  BY <1>4, <1>9 DEF Turns, base, n
<1> QED
  BY <1>10

\* The first level has each transaction in a node of its own.
LEMMA FirstLevel ==
    ASSUME NEW S, NEW txids \in Seq(S), txids # <<>>
    PROVE  IsLevel([i \in DOMAIN txids |-> <<txids[i]>>], 1, Len(txids), txids)
<1> DEFINE n == Len(txids)
           Q == Range(txids)
           base == [i \in DOMAIN txids |-> <<txids[i]>>]
<1>1. n \in Nat \ {0} /\ DOMAIN txids = 1 .. n
  BY SeqFacts
<1>2. \A i \in 1 .. n : <<txids[i]>> \in Seq(Q) /\ Len(<<txids[i]>>) = 1 /\ <<txids[i]>>[1] = txids[i]
  BY <1>1 DEF Range
<1>3. base = [i \in 1 .. n |-> <<txids[i]>>]
  BY <1>1
<1> HIDE DEF n, Q, base
<1>4. base \in [1 .. n -> Seq(Q)]
  BY <1>2, <1>3
<1>5. base \in Seq(Seq(Q)) /\ Len(base) = n
  BY <1>1, <1>4
<1>6. \A j \in 1 .. n : Len(base[j]) = 1 /\ base[j][1] = txids[j]
  BY <1>2, <1>3
<1>7. ASSUME NEW j \in 1 .. n, NEW k \in 1 .. 1
      PROVE  base[j][k] = txids[(j - 1) * 1 + k]
  <2>1. k = 1 /\ (j - 1) * 1 + 1 = j
    BY <1>1
  <2> QED
    BY <1>6, <2>1
<1>8. n * 1 >= n
  BY <1>1
<1> QED
  BY <1>1, <1>5, <1>6, <1>7, <1>8 DEF IsLevel, n, Q, base

\* What a root says of the transactions it was made from.
IsRoot(root, txids) ==
    /\ root \in Seq(Range(txids)) /\ Len(root) >= Len(txids) /\ Len(root) \in Nat
    /\ \A k \in 1 .. Len(txids) : root[k] = txids[k]

\* A root starts with the transactions in their order and repeats only them.
LEMMA RootFacts ==
    ASSUME NEW S, NEW txids \in Seq(S), txids # <<>>
    PROVE  IsRoot(MerkleRoot(txids), txids)
<1> DEFINE n == Len(txids)
<1>1. n \in Nat \ {0}
  BY SeqFacts
<1>2. PICK level : Turns(level, txids)
  BY TurnsExist
<1>3. /\ level[0] = [i \in DOMAIN txids |-> <<txids[i]>>]
      /\ \A t \in 1 .. n :
            level[t] = IF Len(level[t - 1]) > 1 THEN MerkleLevel(level[t - 1]) ELSE level[t - 1]
      /\ MerkleRoot(txids) = level[n][1]
  BY <1>2 DEF Turns
<1> DEFINE Good(t) == \E M, m \in Nat : IsLevel(level[t], M, m, txids) /\ (m = 1 \/ m + t <= n)
           D == {t \in Nat : t <= n => Good(t)}
<1>4. 0 \in D
  <2>1. IsLevel(level[0], 1, n, txids)
    BY <1>3, FirstLevel
  <2>2. n + 0 <= n
    BY <1>1
  <2>3. Good(0)
    BY <1>1, <2>1, <2>2
  <2> QED
    BY <2>3
<1> HIDE DEF n
<1>5. ASSUME NEW t \in Nat, t \in D PROVE t + 1 \in D
  <2> SUFFICES ASSUME t + 1 <= n PROVE Good(t + 1)
    OBVIOUS
  <2>1. t <= n /\ t + 1 \in 1 .. n /\ (t + 1) - 1 = t
    BY <1>1
  <2>2. PICK M, m \in Nat : IsLevel(level[t], M, m, txids) /\ (m = 1 \/ m + t <= n)
    BY <1>5, <2>1
  <2>3. level[t + 1] = IF Len(level[t]) > 1 THEN MerkleLevel(level[t]) ELSE level[t]
    BY <1>3, <2>1
  <2>4. Len(level[t]) = m /\ m # 0
    BY <2>2 DEF IsLevel
  <2>5. CASE m > 1
    <3> DEFINE h == (m + 1) \div 2
    <3>1. IsLevel(MerkleLevel(level[t]), 2 * M, h, txids) /\ h <= m - 1
      BY <2>2, <2>5, NextLevel
    <3>2. level[t + 1] = MerkleLevel(level[t])
      BY <2>3, <2>4, <2>5
    <3>3. h \in Nat /\ 2 * M \in Nat
      OBVIOUS
    <3> HIDE DEF h
    <3>4. h + (t + 1) <= n
      BY <1>1, <2>2, <2>5, <3>1, <3>3
    <3>5. IsLevel(level[t + 1], 2 * M, h, txids)
      BY <3>1, <3>2
    <3> QED
      BY <3>3, <3>4, <3>5
  <2>6. CASE m = 1
    <3>1. level[t + 1] = level[t]
      BY <2>3, <2>4, <2>6
    <3> QED
      BY <2>2, <2>6, <3>1
  <2> QED
    BY <2>4, <2>5, <2>6
<1>6. Good(n)
  <2> HIDE DEF D
  <2>1. n \in D
    BY <1>1, <1>4, <1>5, SetInduction
  <2> QED
    BY <1>1, <2>1 DEF D
<1>7. PICK M, m \in Nat : IsLevel(level[n], M, m, txids) /\ (m = 1 \/ m + n <= n)
  BY <1>6
<1> DEFINE L == level[n]
<1>8. IsLevel(L, M, m, txids)
  BY <1>7
<1> HIDE DEF L
<1>9. m = 1
  <2>1. m # 0
    BY <1>8 DEF IsLevel
  <2> QED
    BY <1>1, <1>7, <2>1
<1>10. /\ M \in Nat /\ 1 * M >= n /\ L \in Seq(Seq(Range(txids))) /\ Len(L) = 1
       /\ Len(L[1]) = M /\ \A k \in 1 .. M : (1 - 1) * M + k <= n => L[1][k] = txids[(1 - 1) * M + k]
  BY <1>8, <1>9 DEF IsLevel, n
<1>11. L[1] \in Seq(Range(txids))
  <2>1. 1 \in 1 .. Len(L)
    BY <1>10
  <2> QED
    BY <1>10, <2>1, SeqFacts
<1>12. ASSUME NEW k \in 1 .. n PROVE L[1][k] = txids[k]
  <2>1. k \in 1 .. M /\ (1 - 1) * M + k = k /\ k <= n
    BY <1>1, <1>10
  <2> QED
    BY <1>10, <2>1
<1>13. MerkleRoot(txids) = L[1]
  BY <1>3 DEF L
<1>14. Len(L[1]) \in Nat /\ Len(L[1]) >= n
  BY <1>1, <1>10
<1> QED
  BY <1>11, <1>12, <1>13, <1>14 DEF IsRoot, n

\* Of two lists with one root, the longer one repeats members of the shorter one.
LEMMA RootBinds ==
    ASSUME NEW S, NEW a \in Seq(S), NEW b \in Seq(S), MerkleRoot(a) = MerkleRoot(b),
           Len(b) >= Len(a)
    PROVE  /\ IsPrefix(a, b)
           /\ \A i \in Len(a) + 1 .. Len(b) : b[i] \in {a[j] : j \in DOMAIN a}
<1> DEFINE m == Len(a)
           n == Len(b)
           root == MerkleRoot(b)
<1>1. m \in Nat /\ n \in Nat /\ n >= m /\ DOMAIN a = 1 .. m
  BY SeqFacts
<1>2. CASE a # <<>>
  <2>1. b # <<>>
    BY <1>1, <1>2
  <2>2. IsRoot(root, a) /\ IsRoot(root, b)
    BY <1>2, <2>1, RootFacts
  <2> HIDE DEF root, m, n
  <2>3. \A k \in 1 .. m : root[k] = a[k]
    BY <2>2 DEF IsRoot, m
  <2>4. \A k \in 1 .. n : root[k] = b[k]
    BY <2>2 DEF IsRoot, n
  <2>5. Len(root) >= n /\ root \in Seq(Range(a)) /\ Len(root) \in Nat
    BY <2>2 DEF IsRoot, n
  <2>6. \A k \in 1 .. m : a[k] = b[k]
    BY <1>1, <2>3, <2>4
  <2>7. IsPrefix(a, b)
    <3>1. SubSeq(a, 1, m) \in Seq(S) /\ Len(SubSeq(a, 1, m)) = m
          /\ \A i \in 1 .. m : SubSeq(a, 1, m)[i] = a[i]
      <4>1. 1 <= m + 1 /\ m <= Len(a) /\ (m + 1) - 1 = m /\ \A i \in 1 .. m : (1 + i) - 1 = i
        BY <1>1 DEF m
      <4> QED
        BY <1>1, <4>1, SubSeqFacts
    <3>2. SubSeq(b, 1, m) \in Seq(S) /\ Len(SubSeq(b, 1, m)) = m
          /\ \A i \in 1 .. m : SubSeq(b, 1, m)[i] = b[i]
      <4>1. 1 <= m + 1 /\ m <= Len(b) /\ (m + 1) - 1 = m /\ \A i \in 1 .. m : (1 + i) - 1 = i
        BY <1>1 DEF n
      <4> QED
        BY <1>1, <4>1, SubSeqFacts
    <3>3. SubSeq(a, 1, m) = SubSeq(b, 1, m)
      BY <2>6, <3>1, <3>2, SeqEqual
    <3> QED
      BY <1>1, <3>3 DEF IsPrefix, m, n
  <2>8. ASSUME NEW i \in m + 1 .. n PROVE b[i] \in {a[j] : j \in DOMAIN a}
    <3>1. i \in 1 .. Len(root) /\ i \in 1 .. n
      BY <1>1, <2>5
    <3>2. root[i] \in Range(a)
      BY <2>5, <3>1, SeqFacts
    <3> QED
      BY <2>4, <3>1, <3>2 DEF Range
  <2> QED
    BY <2>7, <2>8 DEF m, n
<1>3. CASE a = <<>>
  <2>1. MerkleRoot(a) = <<>>
    BY <1>3 DEF MerkleRoot
  <2>2. b = <<>>
    <3> SUFFICES ASSUME b # <<>> PROVE FALSE
      OBVIOUS
    <3>1. IsRoot(root, b)
      BY RootFacts
    <3>2. Len(root) >= n
      BY <3>1 DEF IsRoot
    <3>3. n # 0
      OBVIOUS
    <3> QED
      BY <1>1, <2>1, <3>2, <3>3
  <2>3. IsPrefix(a, b)
    BY <1>3, <2>2 DEF IsPrefix
  <2> QED
    BY <1>3, <2>2, <2>3
<1> QED
  BY <1>2, <1>3

\* MerkleBinds, for all lists of transactions.
LEMMA MerkleBindsHolds ==
    ASSUME item \in Inputs
    PROVE  MerkleBinds
<1> SUFFICES ASSUME item.kind = "txids" PROVE MerkleBinds
  BY DEF MerkleBinds
<1>1. item.it \in TxidLists
  BY DEF Inputs, Of
<1>2. \A list \in TxidLists : list \in Seq(Txids)
  BY FormatsAssumption DEF TxidLists
<1>3. \A list \in TxidLists : Roots[list] = MerkleRoot(list)
  BY DEF Roots
<1> QED
  BY <1>1, <1>2, <1>3, RootBinds DEF MerkleBinds

\* BlockCommits, for every width, header, list of transactions and height.
THEOREM BlockCommitsHolds == FormatSpec => []BlockCommits
<1> DEFINE Valid == item \in Inputs
<1>1. FormatInit => Valid
  BY DEF FormatInit
<1>2. Valid /\ [UNCHANGED item]_item => Valid'
  OBVIOUS
<1>3. Valid => BlockCommits
  BY HeaderCommitsHolds, MerkleBindsHolds, CoinbaseHeightExactHolds DEF BlockCommits
<1> QED
  BY <1>1, <1>2, <1>3, PTL DEF FormatSpec

-----------------------------------------------------------------------------
(* Octets at a place of a sequence.                                        *)

\* The elements of e are those of s after the first `at` ones.
Lies(e, s, at) == at + Len(e) <= Len(s) /\ \A k \in 1 .. Len(e) : s[at + k] = e[k]

\* Sequences of one length at one place are equal.
LEMMA LiesUnique ==
    ASSUME NEW S, NEW s, NEW at, NEW a \in Seq(S), NEW b \in Seq(S), Len(a) = Len(b),
           Lies(a, s, at), Lies(b, s, at)
    PROVE  a = b
<1>1. \A k \in 1 .. Len(a) : a[k] = b[k]
  BY DEF Lies
<1> QED
  BY <1>1, SeqEqual

\* A concatenation lies where its parts lie behind each other.
LEMMA LiesConcat ==
    ASSUME NEW S, NEW s \in Seq(S), NEW a \in Seq(S), NEW b \in Seq(S), NEW at \in Nat
    PROVE  Lies(a \o b, s, at) <=> Lies(a, s, at) /\ Lies(b, s, at + Len(a))
<1> DEFINE c == a \o b
           m == Len(a)
           n == Len(b)
<1>1. m \in Nat /\ n \in Nat /\ Len(s) \in Nat
  OBVIOUS
<1>2. Len(c) = m + n /\ \A i \in 1 .. m + n : c[i] = IF i <= m THEN a[i] ELSE b[i - m]
  BY ConcatFacts
<1> HIDE DEF c, m, n
<1>3. ASSUME Lies(c, s, at) PROVE Lies(a, s, at) /\ Lies(b, s, at + m)
  <2>1. at + (m + n) <= Len(s) /\ \A k \in 1 .. m + n : s[at + k] = c[k]
    BY <1>2, <1>3 DEF Lies
  <2>2. ASSUME NEW k \in 1 .. m PROVE s[at + k] = a[k]
    <3>1. k \in 1 .. m + n /\ k <= m
      BY <1>1
    <3> QED
      BY <1>2, <2>1, <3>1
  <2>3. ASSUME NEW k \in 1 .. n PROVE s[(at + m) + k] = b[k]
    <3>1. m + k \in 1 .. m + n /\ ~(m + k <= m) /\ (m + k) - m = k /\ at + (m + k) = (at + m) + k
      BY <1>1
    <3>2. s[at + (m + k)] = c[m + k] /\ c[m + k] = b[(m + k) - m]
      BY <1>2, <2>1, <3>1
    <3> QED
      BY <3>1, <3>2
  <2> QED
    BY <1>1, <2>1, <2>2, <2>3 DEF Lies, m, n
<1>4. ASSUME Lies(a, s, at), Lies(b, s, at + m) PROVE Lies(c, s, at)
  <2>1. /\ (at + m) + n <= Len(s) /\ \A k \in 1 .. m : s[at + k] = a[k]
        /\ \A k \in 1 .. n : s[(at + m) + k] = b[k]
    BY <1>4 DEF Lies, m, n
  <2>2. ASSUME NEW k \in 1 .. m + n PROVE s[at + k] = c[k]
    <3>1. CASE k <= m
      <4>1. k \in 1 .. m
        BY <1>1, <3>1
      <4> QED
        BY <1>2, <2>1, <3>1, <4>1
    <3>2. CASE ~(k <= m)
      <4>1. k - m \in 1 .. n /\ (at + m) + (k - m) = at + k
        BY <1>1, <3>2
      <4>2. s[(at + m) + (k - m)] = b[k - m]
        BY <2>1, <4>1
      <4> QED
        BY <1>2, <3>2, <4>1, <4>2
    <3> QED
      BY <3>1, <3>2
  <2> QED
    BY <1>1, <1>2, <2>1, <2>2 DEF Lies
<1> QED
  BY <1>3, <1>4 DEF c, m

\* A part of a sequence lies where it was taken.
LEMMA LiesPart ==
    ASSUME NEW S, NEW s \in Seq(S), NEW at \in Nat, NEW n \in Nat, at + n <= Len(s)
    PROVE  /\ SubSeq(s, at + 1, at + n) \in Seq(S) /\ Len(SubSeq(s, at + 1, at + n)) = n
           /\ Lies(SubSeq(s, at + 1, at + n), s, at)
<1> DEFINE e == SubSeq(s, at + 1, at + n)
<1>1. /\ at + 1 \in Nat \ {0} /\ at + n \in Nat /\ at + 1 <= (at + n) + 1 /\ at + n <= Len(s)
      /\ ((at + n) + 1) - (at + 1) = n
  OBVIOUS
<1>2. /\ e \in Seq(S) /\ Len(e) = ((at + n) + 1) - (at + 1)
      /\ \A i \in 1 .. ((at + n) + 1) - (at + 1) : e[i] = s[((at + 1) + i) - 1]
  BY <1>1, SubSeqFacts
<1> HIDE DEF e
<1>3. ASSUME NEW k \in 1 .. n PROVE s[at + k] = e[k]
  <2>1. ((at + 1) + k) - 1 = at + k
    OBVIOUS
  <2> QED
    BY <1>1, <1>2, <2>1
<1>4. Lies(e, s, at)
  BY <1>1, <1>2, <1>3 DEF Lies
<1> QED
  BY <1>1, <1>2, <1>4 DEF e

\* A sequence lies at its own start, and nothing else of its length does.
LEMMA LiesWhole ==
    ASSUME NEW S, NEW s \in Seq(S)
    PROVE  Lies(s, s, 0)
BY DEF Lies

\* What lies in a part of a sequence lies in the sequence.
LEMMA LiesWithin ==
    ASSUME NEW S, NEW s \in Seq(S), NEW f \in Seq(S), NEW e \in Seq(S), NEW at \in Nat, NEW o \in Nat,
           Lies(f, s, at), Lies(e, f, o)
    PROVE  Lies(e, s, at + o)
<1>1. Len(e) \in Nat /\ Len(f) \in Nat /\ Len(s) \in Nat
  OBVIOUS
<1>2. at + Len(f) <= Len(s) /\ \A k \in 1 .. Len(f) : s[at + k] = f[k]
  BY DEF Lies
<1>3. o + Len(e) <= Len(f) /\ \A k \in 1 .. Len(e) : f[o + k] = e[k]
  BY DEF Lies
<1>4. ASSUME NEW k \in 1 .. Len(e) PROVE s[(at + o) + k] = e[k]
  <2>1. o + k \in 1 .. Len(f) /\ at + (o + k) = (at + o) + k
    BY <1>1, <1>3
  <2>2. s[at + (o + k)] = f[o + k]
    BY <1>2, <2>1
  <2> QED
    BY <1>3, <2>1, <2>2
<1>5. (at + o) + Len(e) <= Len(s)
  BY <1>1, <1>2, <1>3
<1> QED
  BY <1>4, <1>5 DEF Lies

-----------------------------------------------------------------------------
(* What the cursor reads.                                                  *)

\* A read that has failed fails on.
LEMMA TakeFailed ==
    ASSUME NEW data, NEW n
    PROVE  Take(data, Failed, n) = [at |-> Failed, got |-> <<>>]
BY DEF Take

\* Octets that are there are taken.
LEMMA TakeGets ==
    ASSUME NEW data \in Seq(Octet), NEW at \in Nat, NEW e \in Seq(Octet), Lies(e, data, at)
    PROVE  Take(data, at, Len(e)) = [at |-> at + Len(e), got |-> e]
<1> DEFINE n == Len(e)
           p == SubSeq(data, at + 1, at + n)
<1>1. n \in Nat /\ Len(data) \in Nat /\ at + n <= Len(data)
  BY DEF Lies
<1>2. p \in Seq(Octet) /\ Len(p) = n /\ Lies(p, data, at)
  <2> HIDE DEF n
  <2> QED
    BY <1>1, LiesPart
<1>3. p = e
  BY <1>2, LiesUnique
<1>4. at # Failed /\ ~(Len(data) - at < n)
  BY <1>1 DEF Failed
<1> QED
  BY <1>3, <1>4 DEF Take

\* What is taken was there.
LEMMA TakeFrom ==
    ASSUME NEW data \in Seq(Octet), NEW at \in Nat, NEW n \in Nat,
           Take(data, at, n).at # Failed
    PROVE  \E e \in Seq(Octet) : /\ Len(e) = n /\ Lies(e, data, at)
                                 /\ Take(data, at, n) = [at |-> at + n, got |-> e]
<1> DEFINE p == SubSeq(data, at + 1, at + n)
<1>1. ~(at = Failed \/ Len(data) - at < n)
  BY DEF Take
<1>2. Take(data, at, n) = [at |-> at + n, got |-> p]
  BY <1>1 DEF Take
<1>3. at + n <= Len(data)
  BY <1>1
<1>4. p \in Seq(Octet) /\ Len(p) = n /\ Lies(p, data, at)
  BY <1>3, LiesPart
<1> QED
  BY <1>2, <1>4

\* A number reads back as it was written.
LEMMA UnsignedGets ==
    ASSUME NEW data \in Seq(Octet), NEW at \in Nat, NEW w \in Nat, NEW n \in UnsignedInts(w),
           Lies(ToLe(n, w), data, at)
    PROVE  ReadUnsigned(data, at, w) = [at |-> at + w, got |-> n]
<1> DEFINE e == ToLe(n, w)
<1>1. n \in Int /\ n \in 0 .. Power(Octets, w) - 1
  BY OctetFacts, PowerFacts DEF UnsignedInts
<1>2. e \in Seq(Octet) /\ Len(e) = w
  BY <1>1, ToLeOctets
<1>3. FromLe(e) = n
  BY <1>1, UnsignedReadsBack
<1> HIDE DEF e
<1>4. Take(data, at, Len(e)) = [at |-> at + Len(e), got |-> e]
  BY <1>2, TakeGets DEF e
<1> QED
  BY <1>2, <1>3, <1>4 DEF ReadUnsigned

\* A number that was read is written so.
LEMMA UnsignedFrom ==
    ASSUME NEW data \in Seq(Octet), NEW at \in Nat, NEW w \in Nat,
           ReadUnsigned(data, at, w).at # Failed
    PROVE  \E n \in UnsignedInts(w) : /\ Lies(ToLe(n, w), data, at)
                                      /\ ReadUnsigned(data, at, w) = [at |-> at + w, got |-> n]
<1>1. Take(data, at, w).at # Failed
  BY DEF ReadUnsigned
<1>2. PICK e \in Seq(Octet) : /\ Len(e) = w /\ Lies(e, data, at)
                              /\ Take(data, at, w) = [at |-> at + w, got |-> e]
  BY <1>1, TakeFrom
<1>3. FromLe(e) \in UnsignedInts(w)
  BY <1>2, FromLeRange DEF UnsignedInts
<1>4. ToLe(FromLe(e), w) = e
  BY <1>2, OctetsReadBack
<1>5. ReadUnsigned(data, at, w) = [at |-> at + w, got |-> FromLe(e)]
  BY <1>2 DEF ReadUnsigned
<1> QED
  BY <1>2, <1>3, <1>4, <1>5

\* A signed number reads back as it was written.
LEMMA SignedGets ==
    ASSUME NEW data \in Seq(Octet), NEW at \in Nat, NEW w \in Nat, NEW n \in SignedInts(w),
           Lies(ToLe(n, w), data, at)
    PROVE  ReadSigned(data, at, w) = [at |-> at + w, got |-> n]
<1> DEFINE e == ToLe(n, w)
<1>1. n \in Int /\ -Power(Octets, w) <= 2 * n /\ 2 * n < Power(Octets, w)
  BY DEF SignedInts
<1>2. e \in Seq(Octet) /\ Len(e) = w
  BY <1>1, ToLeOctets
<1>3. FromLeSigned(e) = n
  BY <1>1, SignedReadsBack
<1> HIDE DEF e
<1>4. Take(data, at, Len(e)) = [at |-> at + Len(e), got |-> e]
  BY <1>2, TakeGets DEF e
<1> QED
  BY <1>2, <1>3, <1>4 DEF ReadSigned

\* What octets are worth as a signed number is written as those octets.
LEMMA SignedOctets ==
    ASSUME NEW octets \in Seq(Octet)
    PROVE  /\ FromLeSigned(octets) \in SignedInts(Len(octets))
           /\ ToLe(FromLeSigned(octets), Len(octets)) = octets
<1> DEFINE w == Len(octets)
           p == Power(Octets, w)
           m == FromLe(octets)
           n == FromLeSigned(octets)
           e == ToLe(n, w)
           k == FromLe(e)
<1>1. w \in Nat
  OBVIOUS
<1>2. p \in Nat \ {0}
  BY <1>1, OctetFacts, PowerFacts
<1>3. m \in 0 .. p - 1
  BY FromLeRange
<1>4. n = IF 2 * m >= p THEN m - p ELSE m
  BY DEF FromLeSigned
<1> HIDE DEF w, m, n
<1>5. n \in Int /\ -p <= 2 * n /\ 2 * n < p
  BY <1>2, <1>3, <1>4
<1>6. e \in Seq(Octet) /\ Len(e) = w
  BY <1>1, <1>5, ToLeOctets
<1>7. PICK c \in Int : n = k + p * c
  BY <1>1, <1>5, ToLeValue
<1>8. k \in 0 .. p - 1
  BY <1>6, FromLeRange
<1>9. ToLe(k, w) = e /\ ToLe(m, w) = octets
  BY <1>6, OctetsReadBack DEF w, m
<1> HIDE DEF p, k
<1>10. k = m
  <2> DEFINE y == p * c
  <2>1. /\ y \in Int /\ (c >= 1 => y >= p) /\ (c <= -1 => y <= -p) /\ (c <= -2 => y <= -(2 * p))
        /\ (c = 0 => y = 0) /\ (c = -1 => y = -p)
    BY <1>2
  <2>2. n = k + y
    BY <1>7
  <2> HIDE DEF y
  <2>3. c \in {-1, 0}
    BY <1>2, <1>3, <1>4, <1>8, <2>1, <2>2
  <2> QED
    BY <1>2, <1>3, <1>4, <1>8, <2>1, <2>2, <2>3
<1>11. n \in SignedInts(w)
  BY <1>5 DEF SignedInts, p
<1> QED
  BY <1>9, <1>10, <1>11 DEF n, w, k

\* A signed number that was read is written so.
LEMMA SignedFrom ==
    ASSUME NEW data \in Seq(Octet), NEW at \in Nat, NEW w \in Nat,
           ReadSigned(data, at, w).at # Failed
    PROVE  \E n \in SignedInts(w) : /\ Lies(ToLe(n, w), data, at)
                                    /\ ReadSigned(data, at, w) = [at |-> at + w, got |-> n]
<1>1. Take(data, at, w).at # Failed
  BY DEF ReadSigned
<1>2. PICK e \in Seq(Octet) : /\ Len(e) = w /\ Lies(e, data, at)
                              /\ Take(data, at, w) = [at |-> at + w, got |-> e]
  BY <1>1, TakeFrom
<1>3. FromLeSigned(e) \in SignedInts(w) /\ ToLe(FromLeSigned(e), w) = e
  BY <1>2, SignedOctets
<1>4. ReadSigned(data, at, w) = [at |-> at + w, got |-> FromLeSigned(e)]
  BY <1>2 DEF ReadSigned
<1> QED
  BY <1>2, <1>3, <1>4

\* More octets hold more numbers.
LEMMA PowerGrows ==
    ASSUME NEW m \in Nat, NEW n \in Nat, m <= n
    PROVE  Power(Octets, m) <= Power(Octets, n)
<1> DEFINE P(i) == Power(Octets, i)
           D == {i \in Nat : P(m) <= P(m + i)}
<1>1. Octets \in Nat \ {0}
  BY OctetFacts
<1>2. \A i \in Nat : P(i) \in Nat \ {0} /\ P(i + 1) = Octets * P(i)
  BY <1>1, PowerFacts
<1> HIDE DEF P
<1>3. 0 \in D
  BY <1>2
<1>4. ASSUME NEW i \in Nat, i \in D PROVE i + 1 \in D
  <2> DEFINE p == P(m + i)
  <2>1. m + i \in Nat /\ (m + i) + 1 = m + (i + 1)
    OBVIOUS
  <2>2. p \in Nat /\ P(m + (i + 1)) = Octets * p /\ P(m) <= p /\ P(m) \in Nat
    BY <1>2, <1>4, <2>1
  <2> HIDE DEF p
  <2>3. Octets * p >= p /\ Octets * p \in Nat
    BY <1>1, <2>2
  <2>4. P(m) <= P(m + (i + 1))
    BY <2>2, <2>3
  <2> QED
    BY <2>4
<1> HIDE DEF D
<1>5. n - m \in D
  BY <1>3, <1>4, SetInduction
<1>6. m + (n - m) = n
  OBVIOUS
<1> QED
  BY <1>5, <1>6 DEF D, P

\* So many octets hold some number.
LEMMA OctetPowers == \A w \in Nat : Power(Octets, w) \in Nat \ {0}
<1>1. Octets \in Nat \ {0}
  BY OctetFacts
<1> QED
  BY <1>1, PowerFacts

\* The octets that announce a longer length.
LEMMA MarkFacts ==
    /\ Mark16 \in Octet /\ Mark32 \in Octet /\ Mark64 \in Octet
    /\ Mark16 # Mark32 /\ Mark32 # Mark64 /\ Mark16 # Mark64
    /\ \A n \in Octet : n < Mark16 \/ n \in {Mark16, Mark32, Mark64}
    /\ \A n \in Nat : n < Mark16 => n \in Octet /\ n \notin {Mark16, Mark32, Mark64}
BY OctetFacts DEF Octet, Mark16, Mark32, Mark64

\* A marker and a number behind it are read as such.
LEMMA MarkedGets ==
    ASSUME NEW data \in Seq(Octet), NEW at \in Nat, NEW w \in Nat, NEW n \in UnsignedInts(w),
           NEW mark \in Octet, Lies(<<mark>> \o ToLe(n, w), data, at)
    PROVE  /\ Take(data, at, 1) = [at |-> at + 1, got |-> <<mark>>]
           /\ ReadUnsigned(data, at + 1, w) = [at |-> (at + 1) + w, got |-> n]
           /\ Len(<<mark>> \o ToLe(n, w)) = 1 + w
<1> DEFINE a == <<mark>>
           b == ToLe(n, w)
<1>1. n \in Int
  BY OctetFacts, OctetPowers DEF UnsignedInts
<1>2. a \in Seq(Octet) /\ Len(a) = 1 /\ b \in Seq(Octet) /\ Len(b) = w
  BY <1>1, ToLeOctets
<1> HIDE DEF a
<1>3. Lies(a, data, at) /\ Lies(b, data, at + 1)
  <2>1. Lies(a \o b, data, at)
    BY DEF a
  <2> HIDE DEF b
  <2> QED
    BY <1>2, <2>1, LiesConcat
<1>4. Take(data, at, Len(a)) = [at |-> at + Len(a), got |-> a]
  BY <1>2, <1>3, TakeGets
<1>5. at + 1 \in Nat
  OBVIOUS
<1>6. ReadUnsigned(data, at + 1, w) = [at |-> (at + 1) + w, got |-> n]
  BY <1>3, <1>5, UnsignedGets
<1>7. Len(a \o b) = 1 + w
  <2> HIDE DEF b
  <2> QED
    BY <1>2, ConcatFacts, SMTT(20)
<1> QED
  BY <1>2, <1>4, <1>6, <1>7 DEF a

\* f writes n behind a marker.
Marked(f, n, mark, w) == f = <<mark>> \o ToLe(n, w) /\ n \in UnsignedInts(w)

\* The forms of a length.
LEMMA FormCases ==
    ASSUME NEW n \in UnsignedInts(W64), NEW f
    PROVE  f \in Forms(n) <=> \/ n < Mark16 /\ f = <<n>>
                              \/ Marked(f, n, Mark16, W16)
                              \/ Marked(f, n, Mark32, W32)
                              \/ Marked(f, n, Mark64, W64)
<1>1. n \in Nat
  BY OctetFacts, OctetPowers DEF UnsignedInts
<1>2. \A w \in Nat : n < Power(Octets, w) <=> n \in UnsignedInts(w)
  BY <1>1, OctetFacts, OctetPowers DEF UnsignedInts
<1>3. W16 \in Nat /\ W32 \in Nat
  BY OctetFacts
<1> QED
  BY <1>2, <1>3 DEF Forms, Marked

\* The case that read_compact_size takes.
LEMMA ReadCases ==
    ASSUME NEW data, NEW at, NEW o \in Octet, NEW next, next # Failed,
           Take(data, at, 1) = [at |-> next, got |-> <<o>>]
    PROVE  /\ o = Mark64 => ReadCompactSize(data, at) = ReadUnsigned(data, next, W64)
           /\ o = Mark32 => ReadCompactSize(data, at) = ReadUnsigned(data, next, W32)
           /\ o = Mark16 => ReadCompactSize(data, at) = ReadUnsigned(data, next, W16)
           /\ o \notin {Mark16, Mark32, Mark64} =>
                 ReadCompactSize(data, at) = [at |-> next, got |-> o]
<1> DEFINE first == Take(data, at, 1)
           got == first.got
<1>1. first.at = next /\ got = <<o>>
  OBVIOUS
<1>2. ReadCompactSize(data, at) =
        CASE got = <<Mark64>> -> ReadUnsigned(data, next, W64)
          [] got = <<Mark32>> -> ReadUnsigned(data, next, W32)
          [] got = <<Mark16>> -> ReadUnsigned(data, next, W16)
          [] OTHER -> [at |-> next, got |-> got[1]]
  BY <1>1 DEF ReadCompactSize
<1>3. \A m : got = <<m>> <=> o = m
  BY <1>1
<1>4. got[1] = o
  BY <1>1
<1>5. Mark16 # Mark32 /\ Mark32 # Mark64 /\ Mark16 # Mark64
  BY MarkFacts
<1> HIDE DEF got, first
<1> QED
  BY <1>2, <1>3, <1>4, <1>5

\* Every form of a length reads as the length.
LEMMA FormGets ==
    ASSUME NEW data \in Seq(Octet), NEW at \in Nat, NEW n \in UnsignedInts(W64),
           NEW f \in Forms(n), Lies(f, data, at)
    PROVE  /\ ReadCompactSize(data, at) = [at |-> at + Len(f), got |-> n]
           /\ f \in Seq(Octet) /\ Len(f) \in Nat \ {0}
<1>1. n \in Nat
  BY OctetFacts, OctetPowers DEF UnsignedInts
<1>2. W16 \in Nat /\ W32 \in Nat /\ W64 \in Nat
  BY OctetFacts
<1>3. at + 1 # Failed
  BY DEF Failed
<1>4. CASE n < Mark16 /\ f = <<n>>
  <2>1. n \in Octet /\ n \notin {Mark16, Mark32, Mark64}
    BY <1>1, <1>4, MarkFacts
  <2>2. f \in Seq(Octet) /\ Len(f) = 1
    BY <1>4, <2>1
  <2>3. Take(data, at, Len(f)) = [at |-> at + Len(f), got |-> f]
    BY <2>2, TakeGets
  <2>4. Take(data, at, 1) = [at |-> at + 1, got |-> <<n>>]
    BY <1>4, <2>2, <2>3
  <2>5. ReadCompactSize(data, at) = [at |-> at + 1, got |-> n]
    BY <1>3, <2>1, <2>4, ReadCases
  <2> QED
    BY <2>2, <2>5
<1>5. ASSUME NEW mark \in Octet, NEW w \in Nat, Marked(f, n, mark, w),
             Take(data, at, 1) = [at |-> at + 1, got |-> <<mark>>] =>
                ReadCompactSize(data, at) = ReadUnsigned(data, at + 1, w)
      PROVE  /\ ReadCompactSize(data, at) = [at |-> at + Len(f), got |-> n]
             /\ f \in Seq(Octet) /\ Len(f) \in Nat \ {0}
  <2>1. n \in UnsignedInts(w) /\ f = <<mark>> \o ToLe(n, w)
    BY <1>5 DEF Marked
  <2>2. Lies(<<mark>> \o ToLe(n, w), data, at)
    BY <2>1
  <2>3. /\ Take(data, at, 1) = [at |-> at + 1, got |-> <<mark>>]
        /\ ReadUnsigned(data, at + 1, w) = [at |-> (at + 1) + w, got |-> n]
        /\ Len(f) = 1 + w
    BY <2>1, <2>2, MarkedGets
  <2>4. f \in Seq(Octet)
    <3>1. <<mark>> \in Seq(Octet) /\ ToLe(n, w) \in Seq(Octet)
      BY <1>1, ToLeOctets
    <3> QED
      BY <2>1, <3>1, ConcatFacts
  <2>5. (at + 1) + w = at + Len(f) /\ Len(f) \in Nat \ {0}
    BY <2>3
  <2> QED
    BY <1>5, <2>3, <2>4, <2>5
<1>6. CASE Marked(f, n, Mark16, W16)
  BY <1>2, <1>3, <1>5, <1>6, MarkFacts, ReadCases
<1>7. CASE Marked(f, n, Mark32, W32)
  BY <1>2, <1>3, <1>5, <1>7, MarkFacts, ReadCases
<1>8. CASE Marked(f, n, Mark64, W64)
  BY <1>2, <1>3, <1>5, <1>8, MarkFacts, ReadCases
<1> QED
  BY <1>4, <1>6, <1>7, <1>8, FormCases

\* A length that was read stands there in one of its forms.
LEMMA FormFrom ==
    ASSUME NEW data \in Seq(Octet), NEW at \in Nat, ReadCompactSize(data, at).at # Failed
    PROVE  \E n \in UnsignedInts(W64) : \E f \in Forms(n) :
              Lies(f, data, at) /\ ReadCompactSize(data, at) = [at |-> at + Len(f), got |-> n]
<1> DEFINE first == Take(data, at, 1)
<1>1. first.at # Failed
  BY DEF ReadCompactSize
<1>2. PICK e \in Seq(Octet) : /\ Len(e) = 1 /\ Lies(e, data, at)
                              /\ first = [at |-> at + 1, got |-> e]
  <2>1. 1 \in Nat
    OBVIOUS
  <2> QED
    BY <1>1, <2>1, TakeFrom
<1>3. e[1] \in Octet /\ e = <<e[1]>>
  <2>1. e[1] \in Octet
    <3>1. Len(e) \in Nat /\ \A i \in 1 .. Len(e) : e[i] \in Octet
      BY SeqFacts
    <3>2. 1 \in 1 .. Len(e)
      BY <1>2
    <3> QED
      BY <3>1, <3>2
  <2>2. <<e[1]>> \in Seq(Octet) /\ Len(<<e[1]>>) = 1 /\ <<e[1]>>[1] = e[1]
    BY <2>1
  <2>3. \A i \in 1 .. 1 : e[i] = <<e[1]>>[i]
    BY <2>2
  <2>4. Len(e) = Len(<<e[1]>>) /\ \A i \in 1 .. Len(e) : e[i] = <<e[1]>>[i]
    BY <1>2, <2>2, <2>3
  <2> QED
    BY <2>1, <2>2, <2>4, SeqEqual
<1> DEFINE o == e[1]
<1>4. o \in Octet /\ e = <<o>> /\ first = [at |-> at + 1, got |-> <<o>>]
  BY <1>2, <1>3
<1> HIDE DEF o
<1>5. at + 1 # Failed /\ at + 1 \in Nat
  BY DEF Failed
<1>6. /\ o = Mark64 => ReadCompactSize(data, at) = ReadUnsigned(data, at + 1, W64)
      /\ o = Mark32 => ReadCompactSize(data, at) = ReadUnsigned(data, at + 1, W32)
      /\ o = Mark16 => ReadCompactSize(data, at) = ReadUnsigned(data, at + 1, W16)
      /\ o \notin {Mark16, Mark32, Mark64} =>
            ReadCompactSize(data, at) = [at |-> at + 1, got |-> o]
  BY <1>4, <1>5, ReadCases
<1>7. W16 \in Nat /\ W32 \in Nat /\ W64 \in Nat \ {0} /\ W16 <= W64 /\ W32 <= W64
  BY OctetFacts, CodecAssumption
<1>8. ASSUME NEW w \in Nat, w <= W64, ReadCompactSize(data, at) = ReadUnsigned(data, at + 1, w),
             \A n \in UnsignedInts(W64) : \A f : Marked(f, n, o, w) => f \in Forms(n)
      PROVE  \E n \in UnsignedInts(W64) : \E f \in Forms(n) :
                Lies(f, data, at) /\ ReadCompactSize(data, at) = [at |-> at + Len(f), got |-> n]
  <2>1. PICK n \in UnsignedInts(w) :
             /\ Lies(ToLe(n, w), data, at + 1)
             /\ ReadUnsigned(data, at + 1, w) = [at |-> (at + 1) + w, got |-> n]
    BY <1>5, <1>8, UnsignedFrom
  <2>2. n \in UnsignedInts(W64) /\ n \in Int
    <3>1. Power(Octets, w) <= Power(Octets, W64)
      BY <1>7, <1>8, PowerGrows
    <3>2. Power(Octets, w) \in Nat /\ Power(Octets, W64) \in Nat
      BY <1>7, OctetPowers
    <3> QED
      BY <2>1, <3>1, <3>2 DEF UnsignedInts
  <2> DEFINE a == <<o>>
             b == ToLe(n, w)
             f == a \o b
  <2>3. f \in Forms(n)
    BY <1>8, <2>1, <2>2 DEF Marked
  <2>4. a \in Seq(Octet) /\ Len(a) = 1 /\ b \in Seq(Octet) /\ Len(b) = w
    BY <1>4, <2>2, ToLeOctets
  <2>5. Lies(a, data, at) /\ Lies(b, data, at + 1)
    BY <1>2, <1>4, <2>1
  <2> HIDE DEF a, b
  <2>6. Lies(f, data, at) /\ Len(f) = 1 + w
    <3>1. Lies(b, data, at + Len(a))
      BY <2>4, <2>5
    <3>2. Lies(a \o b, data, at)
      BY <2>4, <2>5, <3>1, LiesConcat
    <3>3. Len(a \o b) = Len(a) + Len(b)
      BY <2>4, ConcatFacts
    <3> QED
      BY <2>4, <3>2, <3>3
  <2>7. (at + 1) + w = at + Len(f)
    BY <2>6
  <2> QED
    BY <1>8, <2>1, <2>2, <2>3, <2>6, <2>7
<1>9. CASE o = Mark64
  <2>1. \A n \in UnsignedInts(W64) : \A f : Marked(f, n, o, W64) => f \in Forms(n)
    BY <1>9, FormCases
  <2> QED
    BY <1>6, <1>7, <1>8, <1>9, <2>1
<1>10. CASE o = Mark32
  <2>1. \A n \in UnsignedInts(W64) : \A f : Marked(f, n, o, W32) => f \in Forms(n)
    BY <1>10, FormCases
  <2> QED
    BY <1>6, <1>7, <1>8, <1>10, <2>1
<1>11. CASE o = Mark16
  <2>1. \A n \in UnsignedInts(W64) : \A f : Marked(f, n, o, W16) => f \in Forms(n)
    BY <1>11, FormCases
  <2> QED
    BY <1>6, <1>7, <1>8, <1>11, <2>1
<1>12. CASE o \notin {Mark16, Mark32, Mark64}
  <2>1. o < Mark16
    BY <1>4, <1>12, MarkFacts
  <2>2. o \in UnsignedInts(W64)
    <3>1. Power(Octets, W64) >= Octets
      <4>1. Octets \in Nat \ {0}
        BY OctetFacts
      <4>2. Power(Octets, 0) = 1 /\ Power(Octets, 0 + 1) = Octets * Power(Octets, 0)
        BY <4>1, PowerFacts
      <4>3. Power(Octets, 1) = Octets
        BY <4>1, <4>2
      <4> QED
        BY <1>7, <4>3, PowerGrows
    <3> QED
      BY <1>4, <1>7, <3>1, OctetFacts, OctetPowers DEF Octet, UnsignedInts
  <2>3. <<o>> \in Forms(o)
    BY <2>1, <2>2, FormCases
  <2>4. ReadCompactSize(data, at) = [at |-> at + Len(<<o>>), got |-> o]
    BY <1>6, <1>12
  <2>5. Lies(<<o>>, data, at)
    BY <1>2, <1>4
  <2> QED
    BY <2>2, <2>3, <2>4, <2>5
<1> QED
  BY <1>9, <1>10, <1>11, <1>12

\* write_compact_size writes the shortest form.
LEMMA ShortestForm ==
    ASSUME NEW n \in UnsignedInts(W64)
    PROVE  WriteCompactSize(n) \in Forms(n)
<1> DEFINE p == Power(Octets, W16)
           q == Power(Octets, W32)
<1>1. n \in Nat
  BY OctetFacts, OctetPowers DEF UnsignedInts
<1>2. Mark16 \in Nat /\ p \in Nat /\ q \in Nat
  BY OctetFacts, OctetPowers, MarkFacts DEF Octet
<1>3. Forms(n) = (IF n < Mark16 THEN {<<n>>} ELSE {})
                    \cup (IF n < p THEN {<<Mark16>> \o ToLe(n, W16)} ELSE {})
                    \cup (IF n < q THEN {<<Mark32>> \o ToLe(n, W32)} ELSE {})
                    \cup {<<Mark64>> \o ToLe(n, W64)}
  BY DEF Forms
<1>4. WriteCompactSize(n) =
         CASE n < Mark16         -> <<n>>
           [] n \in Mark16 .. p - 1 -> <<Mark16>> \o ToLe(n, W16)
           [] n \in p .. q - 1 -> <<Mark32>> \o ToLe(n, W32)
           [] OTHER              -> <<Mark64>> \o ToLe(n, W64)
  BY DEF WriteCompactSize
<1> HIDE DEF p, q
<1>5. CASE n < Mark16
  <2>1. Mark16 < p
    <3>1. Octets \in Nat \ {0} /\ W16 \in Nat \ {0} /\ 1 <= W16
      BY OctetFacts
    <3>2. Power(Octets, 0) = 1 /\ Power(Octets, 0 + 1) = Octets * Power(Octets, 0)
      BY <3>1, PowerFacts
    <3>3. Power(Octets, 1) = Octets /\ Power(Octets, 1) <= Power(Octets, W16)
      BY <3>1, <3>2, PowerGrows
    <3> QED
      BY <1>2, <3>1, <3>3 DEF Mark16, p
  <2>2. ~(n \in Mark16 .. p - 1) /\ ~(n \in p .. q - 1)
    BY <1>1, <1>2, <1>5, <2>1
  <2>3. WriteCompactSize(n) = <<n>>
    BY <1>4, <1>5, <2>2
  <2> QED
    BY <1>3, <1>5, <2>3
<1>6. CASE ~(n < Mark16) /\ n < p
  <2>1. n \in Mark16 .. p - 1 /\ ~(n \in p .. q - 1)
    BY <1>1, <1>2, <1>6
  <2>2. WriteCompactSize(n) = <<Mark16>> \o ToLe(n, W16)
    BY <1>4, <1>6, <2>1
  <2> QED
    BY <1>3, <1>6, <2>2
<1>7. CASE ~(n < Mark16) /\ ~(n < p) /\ n < q
  <2>1. ~(n \in Mark16 .. p - 1) /\ n \in p .. q - 1
    BY <1>1, <1>2, <1>7
  <2>2. WriteCompactSize(n) = <<Mark32>> \o ToLe(n, W32)
    BY <1>4, <1>7, <2>1
  <2> QED
    BY <1>3, <1>7, <2>2
<1>8. CASE ~(n < Mark16) /\ ~(n < p) /\ ~(n < q)
  <2>1. ~(n \in Mark16 .. p - 1) /\ ~(n \in p .. q - 1)
    BY <1>1, <1>2, <1>8
  <2>2. WriteCompactSize(n) = <<Mark64>> \o ToLe(n, W64)
    BY <1>4, <1>8, <2>1
  <2> QED
    BY <1>3, <2>2
<1> QED
  BY <1>5, <1>6, <1>7, <1>8

\* A form of a length is octets.
LEMMA FormType ==
    ASSUME NEW n \in UnsignedInts(W64), NEW f \in Forms(n)
    PROVE  f \in Seq(Octet) /\ Len(f) \in Nat \ {0}
<1>1. n \in Nat /\ W16 \in Nat /\ W32 \in Nat /\ W64 \in Nat
  BY OctetFacts, OctetPowers DEF UnsignedInts
<1>2. CASE n < Mark16 /\ f = <<n>>
  <2>1. n \in Octet
    BY <1>1, <1>2, MarkFacts
  <2> QED
    BY <1>2, <2>1
<1>3. ASSUME NEW mark \in Octet, NEW w \in Nat, Marked(f, n, mark, w)
      PROVE  f \in Seq(Octet) /\ Len(f) \in Nat \ {0}
  <2> DEFINE a == <<mark>>
             b == ToLe(n, w)
  <2>1. a \in Seq(Octet) /\ Len(a) = 1 /\ b \in Seq(Octet) /\ Len(b) = w /\ f = a \o b
    BY <1>1, <1>3, ToLeOctets DEF Marked
  <2> HIDE DEF a, b
  <2>2. a \o b \in Seq(Octet) /\ Len(a \o b) = Len(a) + Len(b)
    BY <2>1, ConcatFacts
  <2> QED
    BY <2>1, <2>2
<1>4. f \in Seq(Octet) /\ Len(f) \in Nat \ {0}
  BY <1>1, <1>2, <1>3, FormCases, MarkFacts
<1> QED
  BY <1>4

\* What a usize counts fits 64 bits.
LEMMA UsizeFits ==
    /\ Power(Octets, UsizeOctets) \in Nat \ {0}
    /\ \A n \in Nat : n < Power(Octets, UsizeOctets) => n \in UnsignedInts(W64)
<1>1. UsizeOctets \in Nat /\ W64 \in Nat /\ UsizeOctets <= W64
  BY OctetFacts, CodecAssumption
<1>2. Power(Octets, UsizeOctets) <= Power(Octets, W64)
  BY <1>1, PowerGrows
<1>3. Power(Octets, UsizeOctets) \in Nat \ {0} /\ Power(Octets, W64) \in Nat
  BY <1>1, OctetPowers
<1> QED
  BY <1>2, <1>3 DEF UnsignedInts

\* Octets b behind a form of their length, from `at` to `end`.
VarSpelled(b, data, at, end) ==
    \E f \in Forms(Len(b)) :
        Lies(f, data, at) /\ Lies(b, data, at + Len(f)) /\ end = (at + Len(f)) + Len(b)

\* They read back.
LEMMA VarGets ==
    ASSUME NEW data \in Seq(Octet), NEW at \in Nat, NEW b \in Script, NEW end,
           VarSpelled(b, data, at, end)
    PROVE  /\ ReadVarBytes(data, at) = [at |-> end, got |-> b]
           /\ end \in Nat /\ at < end /\ end <= Len(data)
<1> DEFINE n == Len(b)
           u == Power(Octets, UsizeOctets)
<1>1. b \in Seq(Octet) /\ n \in Nat /\ n < u /\ u \in Nat \ {0} /\ n \in UnsignedInts(W64)
  BY UsizeFits DEF Script, Vec
<1>2. PICK f \in Forms(n) : Lies(f, data, at) /\ Lies(b, data, at + Len(f)) /\ end = (at + Len(f)) + n
  BY DEF VarSpelled
<1>3. ReadCompactSize(data, at) = [at |-> at + Len(f), got |-> n] /\ Len(f) \in Nat \ {0}
  BY <1>1, <1>2, FormGets
<1> DEFINE next == at + Len(f)
<1>4. next \in Nat /\ next # Failed
  BY <1>3 DEF Failed
<1>5. next + n <= Len(data) /\ Len(data) \in Nat
  BY <1>2 DEF Lies
<1>6. n % u = n
  <2> HIDE DEF n, u
  <2> QED
    BY <1>1
<1>7. Take(data, next, n) = [at |-> next + n, got |-> b]
  BY <1>1, <1>2, <1>4, TakeGets
<1>8. ReadVarBytes(data, at) = Take(data, next, n)
  <2>1. ~(n > Len(data) - next)
    BY <1>1, <1>4, <1>5
  <2> HIDE DEF next, n, u
  <2> QED
    BY <1>3, <1>6, <2>1 DEF ReadVarBytes, next, u
<1> QED
  BY <1>1, <1>2, <1>3, <1>5, <1>7, <1>8

\* What is read stands there so.
LEMMA VarFrom ==
    ASSUME NEW data \in Seq(Octet), Len(data) < Power(Octets, UsizeOctets), NEW at \in Nat,
           ReadVarBytes(data, at).at # Failed
    PROVE  \E b \in Script : \E end \in Nat :
              VarSpelled(b, data, at, end) /\ ReadVarBytes(data, at) = [at |-> end, got |-> b]
<1> DEFINE len == ReadCompactSize(data, at)
           u == Power(Octets, UsizeOctets)
<1>1. len.at # Failed
  BY TakeFailed DEF ReadVarBytes
<1>2. PICK n \in UnsignedInts(W64) : \E f \in Forms(n) :
              Lies(f, data, at) /\ len = [at |-> at + Len(f), got |-> n]
  BY <1>1, FormFrom
<1>3. PICK f \in Forms(n) : Lies(f, data, at) /\ len = [at |-> at + Len(f), got |-> n]
  BY <1>2
<1> DEFINE next == at + Len(f)
<1>4. n \in Nat /\ next \in Nat /\ len.at = next /\ len.got = n
  BY <1>3, FormType, OctetPowers DEF UnsignedInts
<1>5. ~(n > Len(data) - next)
  <2>1. (len.at # Failed /\ len.got > Len(data) - len.at) => ReadVarBytes(data, at).at = Failed
    BY DEF ReadVarBytes
  <2> QED
    BY <1>1, <1>4, <2>1
<1>6. ReadVarBytes(data, at) = Take(data, next, n % u)
  BY <1>4, <1>5 DEF ReadVarBytes
<1>7. next + n <= Len(data) /\ Len(data) \in Nat
  BY <1>4, <1>5
<1>8. n % u = n /\ n < u
  <2>1. u \in Nat \ {0}
    BY UsizeFits
  <2>2. n < u
    BY <1>4, <1>7, <2>1
  <2> HIDE DEF u
  <2> QED
    BY <1>4, <2>1, <2>2
<1>9. Take(data, next, n).at # Failed
  BY <1>6, <1>8
<1> HIDE DEF next
<1>10. PICK b \in Seq(Octet) : /\ Len(b) = n /\ Lies(b, data, next)
                               /\ Take(data, next, n) = [at |-> next + n, got |-> b]
  BY <1>4, <1>9, TakeFrom
<1>11. b \in Script
  BY <1>8, <1>10 DEF Script, Vec
<1>12. VarSpelled(b, data, at, next + n)
  BY <1>3, <1>10 DEF VarSpelled, next
<1> QED
  BY <1>4, <1>6, <1>8, <1>10, <1>11, <1>12

\* A read that has failed fails on.
LEMMA VarFailed ==
    ASSUME NEW data
    PROVE  ReadVarBytes(data, Failed).at = Failed
<1>1. ReadCompactSize(data, Failed) = [at |-> Failed, got |-> 0]
  BY TakeFailed DEF ReadCompactSize
<1> QED
  BY <1>1, TakeFailed DEF ReadVarBytes

\* write_var_bytes spells its octets.
LEMMA VarWritten ==
    ASSUME NEW b \in Script
    PROVE  /\ WriteVarBytes(b) \in Seq(Octet)
           /\ \A data \in Seq(Octet), at \in Nat :
                 Lies(WriteVarBytes(b), data, at) =>
                     VarSpelled(b, data, at, at + Len(WriteVarBytes(b)))
<1> DEFINE f == WriteCompactSize(Len(b))
<1>1. b \in Seq(Octet) /\ Len(b) \in UnsignedInts(W64)
  BY UsizeFits DEF Script, Vec
<1>2. f \in Forms(Len(b)) /\ f \in Seq(Octet) /\ Len(f) \in Nat
  BY <1>1, ShortestForm, FormType
<1>3. WriteVarBytes(b) = f \o b
  BY DEF WriteVarBytes
<1> HIDE DEF f
<1>4. f \o b \in Seq(Octet) /\ Len(f \o b) = Len(f) + Len(b)
  BY <1>1, <1>2, ConcatFacts
<1>5. ASSUME NEW data \in Seq(Octet), NEW at \in Nat, Lies(f \o b, data, at)
      PROVE  VarSpelled(b, data, at, at + Len(f \o b))
  <2>1. Lies(f, data, at) /\ Lies(b, data, at + Len(f))
    BY <1>1, <1>2, <1>5, LiesConcat
  <2>2. at + Len(f \o b) = (at + Len(f)) + Len(b)
    BY <1>1, <1>2, <1>4
  <2> QED
    BY <1>2, <2>1, <2>2 DEF VarSpelled
<1> QED
  BY <1>3, <1>4, <1>5

\* An input from `at` to `end`.
InSpelled(x, data, at, end) ==
    \E mid \in Nat :
        /\ Lies(x.prevout.hash, data, at) /\ Lies(ToLe(x.prevout.n, W32), data, at + HashLen)
        /\ VarSpelled(x.script_sig, data, (at + HashLen) + W32, mid)
        /\ Lies(ToLe(x.sequence, W32), data, mid) /\ end = mid + W32

\* It reads back.
LEMMA InGets ==
    ASSUME NEW data \in Seq(Octet), NEW at \in Nat, NEW x \in TxIn, NEW end,
           InSpelled(x, data, at, end)
    PROVE  ReadTxIn(data, at) = [at |-> end, got |-> x] /\ end \in Nat
<1>1. HashLen \in Nat /\ W32 \in Nat
  BY OctetFacts
<1>2. PICK mid \in Nat :
        /\ Lies(x.prevout.hash, data, at) /\ Lies(ToLe(x.prevout.n, W32), data, at + HashLen)
        /\ VarSpelled(x.script_sig, data, (at + HashLen) + W32, mid)
        /\ Lies(ToLe(x.sequence, W32), data, mid) /\ end = mid + W32
  BY DEF InSpelled
<1>3. /\ x.prevout.hash \in [1 .. HashLen -> Octet] /\ x.prevout.n \in UnsignedInts(W32)
      /\ x.script_sig \in Script /\ x.sequence \in UnsignedInts(W32)
      /\ x.prevout = [hash |-> x.prevout.hash, n |-> x.prevout.n]
      /\ x = [prevout |-> x.prevout, script_sig |-> x.script_sig, sequence |-> x.sequence]
  BY DEF TxIn
<1>4. x.prevout.hash \in Seq(Octet) /\ Len(x.prevout.hash) = HashLen
  BY <1>1, <1>3
<1>5. Take(data, at, HashLen) = [at |-> at + HashLen, got |-> x.prevout.hash]
  BY <1>2, <1>4, TakeGets
<1> DEFINE a == at + HashLen
<1>6. a \in Nat /\ a + W32 \in Nat
  BY <1>1
<1>7. ReadUnsigned(data, a, W32) = [at |-> a + W32, got |-> x.prevout.n]
  BY <1>1, <1>2, <1>3, <1>6, UnsignedGets
<1>8. ReadVarBytes(data, a + W32) = [at |-> mid, got |-> x.script_sig]
  BY <1>2, <1>3, <1>6, VarGets
<1>9. ReadUnsigned(data, mid, W32) = [at |-> mid + W32, got |-> x.sequence]
  BY <1>1, <1>2, <1>3, UnsignedGets
<1> HIDE DEF a
<1>10. ReadTxIn(data, at) =
          [at |-> mid + W32,
           got |-> [prevout |-> [hash |-> x.prevout.hash, n |-> x.prevout.n],
                    script_sig |-> x.script_sig, sequence |-> x.sequence]]
  BY <1>5, <1>7, <1>8, <1>9 DEF ReadTxIn, a
<1> QED
  BY <1>1, <1>2, <1>3, <1>10

\* An input that was read stands there so.
LEMMA InFrom ==
    ASSUME NEW data \in Seq(Octet), Len(data) < Power(Octets, UsizeOctets), NEW at \in Nat,
           ReadTxIn(data, at).at # Failed
    PROVE  \E x \in TxIn : \E end \in Nat :
              InSpelled(x, data, at, end) /\ ReadTxIn(data, at) = [at |-> end, got |-> x]
<1> DEFINE hash == Take(data, at, HashLen)
           n == ReadUnsigned(data, hash.at, W32)
           script == ReadVarBytes(data, n.at)
           sequence == ReadUnsigned(data, script.at, W32)
<1>1. HashLen \in Nat /\ W32 \in Nat
  BY OctetFacts
<1>2. ReadTxIn(data, at) = [at |-> sequence.at,
         got |-> [prevout |-> [hash |-> hash.got, n |-> n.got],
                  script_sig |-> script.got, sequence |-> sequence.got]]
  BY DEF ReadTxIn
<1>3. sequence.at # Failed
  BY <1>2
<1>4. script.at # Failed
  BY <1>3, TakeFailed DEF ReadUnsigned
<1>5. n.at # Failed
  BY <1>4, VarFailed
<1>6. hash.at # Failed
  BY <1>5, TakeFailed DEF ReadUnsigned
<1>7. PICK h \in Seq(Octet) : /\ Len(h) = HashLen /\ Lies(h, data, at)
                              /\ hash = [at |-> at + HashLen, got |-> h]
  BY <1>1, <1>6, TakeFrom
<1> DEFINE a == at + HashLen
<1>8. a \in Nat /\ a + W32 \in Nat /\ hash.at = a /\ hash.got = h
  BY <1>1, <1>7
<1>9. n = ReadUnsigned(data, a, W32)
  BY <1>8
<1> HIDE DEF a, hash
<1>10. ReadUnsigned(data, a, W32).at # Failed
  BY <1>5, <1>9
<1>11. PICK m \in UnsignedInts(W32) : /\ Lies(ToLe(m, W32), data, a)
                                      /\ n = [at |-> a + W32, got |-> m]
  BY <1>1, <1>8, <1>9, <1>10, UnsignedFrom
<1>12. n.at = a + W32 /\ n.got = m
  BY <1>11
<1> HIDE DEF n
<1>13. script = ReadVarBytes(data, a + W32)
  BY <1>12
<1>14. PICK b \in Script : \E mid \in Nat :
          VarSpelled(b, data, a + W32, mid) /\ script = [at |-> mid, got |-> b]
  <2>1. ReadVarBytes(data, a + W32).at # Failed
    BY <1>4, <1>13
  <2> HIDE DEF script
  <2> QED
    BY <1>8, <1>13, <2>1, VarFrom
<1>15. PICK mid \in Nat : VarSpelled(b, data, a + W32, mid) /\ script = [at |-> mid, got |-> b]
  BY <1>14
<1>16. script.at = mid /\ script.got = b
  BY <1>15
<1> HIDE DEF script
<1>17. sequence = ReadUnsigned(data, mid, W32) /\ ReadUnsigned(data, mid, W32).at # Failed
  BY <1>3, <1>16
<1>18. PICK s \in UnsignedInts(W32) : /\ Lies(ToLe(s, W32), data, mid)
                                      /\ ReadUnsigned(data, mid, W32) = [at |-> mid + W32, got |-> s]
  BY <1>1, <1>17, UnsignedFrom
<1>19. sequence.at = mid + W32 /\ sequence.got = s
  BY <1>17, <1>18
<1> HIDE DEF sequence
<1> DEFINE x == [prevout |-> [hash |-> h, n |-> m], script_sig |-> b, sequence |-> s]
           end == mid + W32
<1>20. h \in [1 .. HashLen -> Octet]
  BY <1>7
<1>21. x \in TxIn /\ end \in Nat
  BY <1>1, <1>11, <1>14, <1>18, <1>20 DEF TxIn
<1>22. InSpelled(x, data, at, end)
  <2>1. /\ x.prevout.hash = h /\ x.prevout.n = m /\ x.script_sig = b /\ x.sequence = s
    OBVIOUS
  <2> HIDE DEF x
  <2> QED
    BY <1>7, <1>11, <1>15, <1>18, <2>1 DEF InSpelled, a
<1>23. ReadTxIn(data, at) = [at |-> end, got |-> x]
  BY <1>2, <1>8, <1>12, <1>16, <1>19
<1> QED
  BY <1>21, <1>22, <1>23

\* What Serialize writes of an input spells it.
LEMMA InWritten ==
    ASSUME NEW x \in TxIn
    PROVE  /\ SerializeIn(x) \in Seq(Octet)
           /\ \A data \in Seq(Octet), at \in Nat :
                 Lies(SerializeIn(x), data, at) =>
                     InSpelled(x, data, at, at + Len(SerializeIn(x)))
<1> DEFINE h == x.prevout.hash
           n == ToLe(x.prevout.n, W32)
           b == WriteVarBytes(x.script_sig)
           s == ToLe(x.sequence, W32)
           hn == h \o n
           hnb == hn \o b
<1>1. HashLen \in Nat /\ W32 \in Nat
  BY OctetFacts
<1>2. /\ h \in [1 .. HashLen -> Octet] /\ x.prevout.n \in UnsignedInts(W32)
      /\ x.script_sig \in Script /\ x.sequence \in UnsignedInts(W32)
  BY DEF TxIn
<1>3. x.prevout.n \in Int /\ x.sequence \in Int
  <2>1. Power(Octets, W32) \in Nat
    BY <1>1, OctetPowers
  <2>2. UnsignedInts(W32) \subseteq Int
    BY <2>1 DEF UnsignedInts
  <2> QED
    BY <1>2, <2>2
<1>4. /\ h \in Seq(Octet) /\ Len(h) = HashLen /\ n \in Seq(Octet) /\ Len(n) = W32
      /\ b \in Seq(Octet) /\ s \in Seq(Octet) /\ Len(s) = W32
  <2>1. h \in Seq(Octet) /\ Len(h) = HashLen
    BY <1>1, <1>2
  <2>2. n \in Seq(Octet) /\ Len(n) = W32 /\ s \in Seq(Octet) /\ Len(s) = W32
    BY <1>1, <1>3, ToLeOctets
  <2>3. b \in Seq(Octet)
    BY <1>2, VarWritten
  <2> QED
    BY <2>1, <2>2, <2>3
<1>5. SerializeIn(x) = hnb \o s
  BY DEF SerializeIn
<1>6. \A data \in Seq(Octet), at \in Nat :
         Lies(b, data, at) => VarSpelled(x.script_sig, data, at, at + Len(b))
  BY <1>2, VarWritten
<1> HIDE DEF h, n, b, s
<1>7. hn \in Seq(Octet) /\ Len(hn) = HashLen + W32
  BY <1>4, ConcatFacts
<1> HIDE DEF hn
<1>8. hnb \in Seq(Octet) /\ Len(hnb) = (HashLen + W32) + Len(b)
  BY <1>4, <1>7, ConcatFacts
<1> HIDE DEF hnb
<1>9. hnb \o s \in Seq(Octet) /\ Len(hnb \o s) = ((HashLen + W32) + Len(b)) + W32
  BY <1>4, <1>8, ConcatFacts
<1>10. ASSUME NEW data \in Seq(Octet), NEW at \in Nat, Lies(hnb \o s, data, at)
       PROVE  InSpelled(x, data, at, at + Len(hnb \o s))
  <2> DEFINE a == at + HashLen
             c == a + W32
             mid == c + Len(b)
  <2>1. Lies(hnb, data, at) /\ Lies(s, data, at + Len(hnb))
    BY <1>4, <1>8, <1>10, LiesConcat
  <2>2. Lies(hn, data, at) /\ Lies(b, data, at + Len(hn))
    BY <1>4, <1>7, <2>1, LiesConcat DEF hnb
  <2>3. Lies(h, data, at) /\ Lies(n, data, at + Len(h))
    BY <1>4, <2>2, LiesConcat DEF hn
  <2>4. Len(b) \in Nat /\ at + Len(hnb) = mid /\ at + Len(hn) = c /\ mid \in Nat /\ c \in Nat
        /\ at + Len(hnb \o s) = mid + W32
    BY <1>1, <1>4, <1>7, <1>8, <1>9
  <2>5. VarSpelled(x.script_sig, data, c, mid)
    BY <1>6, <2>2, <2>4
  <2> QED
    BY <1>4, <2>1, <2>3, <2>4, <2>5 DEF InSpelled, h, n, s
<1> QED
  BY <1>5, <1>9, <1>10

\* An output from `at` to `end`.
OutSpelled(x, data, at, end) ==
    /\ Lies(ToLe(x.value, W64), data, at)
    /\ VarSpelled(x.script_pubkey, data, at + W64, end)

\* It reads back.
LEMMA OutGets ==
    ASSUME NEW data \in Seq(Octet), NEW at \in Nat, NEW x \in TxOut, NEW end,
           OutSpelled(x, data, at, end)
    PROVE  ReadTxOut(data, at) = [at |-> end, got |-> x] /\ end \in Nat
<1>1. W64 \in Nat /\ at + W64 \in Nat
  BY OctetFacts
<1>2. /\ x.value \in SignedInts(W64) /\ x.script_pubkey \in Script
      /\ x = [value |-> x.value, script_pubkey |-> x.script_pubkey]
  BY DEF TxOut
<1>3. ReadSigned(data, at, W64) = [at |-> at + W64, got |-> x.value]
  BY <1>1, <1>2, SignedGets DEF OutSpelled
<1>4. ReadVarBytes(data, at + W64) = [at |-> end, got |-> x.script_pubkey] /\ end \in Nat
  BY <1>1, <1>2, VarGets DEF OutSpelled
<1>5. ReadTxOut(data, at) =
          [at |-> end, got |-> [value |-> x.value, script_pubkey |-> x.script_pubkey]]
  BY <1>3, <1>4 DEF ReadTxOut
<1> QED
  BY <1>2, <1>4, <1>5

\* An output that was read stands there so.
LEMMA OutFrom ==
    ASSUME NEW data \in Seq(Octet), Len(data) < Power(Octets, UsizeOctets), NEW at \in Nat,
           ReadTxOut(data, at).at # Failed
    PROVE  \E x \in TxOut : \E end \in Nat :
              OutSpelled(x, data, at, end) /\ ReadTxOut(data, at) = [at |-> end, got |-> x]
<1> DEFINE value == ReadSigned(data, at, W64)
           script == ReadVarBytes(data, value.at)
<1>1. W64 \in Nat /\ at + W64 \in Nat
  BY OctetFacts
<1>2. ReadTxOut(data, at) =
         [at |-> script.at, got |-> [value |-> value.got, script_pubkey |-> script.got]]
  BY DEF ReadTxOut
<1>3. script.at # Failed
  BY <1>2
<1>4. value.at # Failed
  BY <1>3, VarFailed
<1>5. PICK v \in SignedInts(W64) : /\ Lies(ToLe(v, W64), data, at)
                                   /\ value = [at |-> at + W64, got |-> v]
  BY <1>1, <1>4, SignedFrom
<1>6. value.at = at + W64 /\ value.got = v
  BY <1>5
<1> HIDE DEF value
<1>7. script = ReadVarBytes(data, at + W64)
  BY <1>6
<1>8. PICK b \in Script : \E end \in Nat :
          VarSpelled(b, data, at + W64, end) /\ script = [at |-> end, got |-> b]
  <2>1. ReadVarBytes(data, at + W64).at # Failed
    BY <1>3, <1>7
  <2> HIDE DEF script
  <2> QED
    BY <1>1, <1>7, <2>1, VarFrom
<1>9. PICK end \in Nat : VarSpelled(b, data, at + W64, end) /\ script = [at |-> end, got |-> b]
  BY <1>8
<1>10. script.at = end /\ script.got = b
  BY <1>9
<1> HIDE DEF script
<1> DEFINE x == [value |-> v, script_pubkey |-> b]
<1>11. x \in TxOut
  BY <1>5, <1>8 DEF TxOut
<1>12. OutSpelled(x, data, at, end)
  BY <1>5, <1>9 DEF OutSpelled
<1>13. ReadTxOut(data, at) = [at |-> end, got |-> x]
  BY <1>2, <1>6, <1>10
<1> QED
  BY <1>11, <1>12, <1>13

\* What Serialize writes of an output spells it.
LEMMA OutWritten ==
    ASSUME NEW x \in TxOut
    PROVE  /\ SerializeOut(x) \in Seq(Octet)
           /\ \A data \in Seq(Octet), at \in Nat :
                 Lies(SerializeOut(x), data, at) =>
                     OutSpelled(x, data, at, at + Len(SerializeOut(x)))
<1> DEFINE v == ToLe(x.value, W64)
           b == WriteVarBytes(x.script_pubkey)
<1>1. W64 \in Nat
  BY OctetFacts
<1>2. x.value \in Int /\ x.script_pubkey \in Script
  BY DEF TxOut, SignedInts
<1>3. v \in Seq(Octet) /\ Len(v) = W64 /\ b \in Seq(Octet)
  BY <1>1, <1>2, ToLeOctets, VarWritten
<1>4. SerializeOut(x) = v \o b
  BY DEF SerializeOut
<1>5. \A data \in Seq(Octet), at \in Nat :
         Lies(b, data, at) => VarSpelled(x.script_pubkey, data, at, at + Len(b))
  BY <1>2, VarWritten
<1> HIDE DEF v, b
<1>6. v \o b \in Seq(Octet) /\ Len(v \o b) = W64 + Len(b)
  BY <1>3, ConcatFacts
<1>7. ASSUME NEW data \in Seq(Octet), NEW at \in Nat, Lies(v \o b, data, at)
      PROVE  OutSpelled(x, data, at, at + Len(v \o b))
  <2>1. Lies(v, data, at) /\ Lies(b, data, at + Len(v))
    BY <1>3, <1>7, LiesConcat
  <2>2. at + W64 \in Nat /\ at + Len(v \o b) = (at + W64) + Len(b)
    BY <1>1, <1>3, <1>6
  <2>3. VarSpelled(x.script_pubkey, data, at + W64, at + Len(v \o b))
    BY <1>3, <1>5, <2>1, <2>2
  <2> QED
    BY <2>1, <2>3 DEF OutSpelled, v
<1> QED
  BY <1>4, <1>6, <1>7

-----------------------------------------------------------------------------
(* Sequences one after the other.                                          *)

\* g[i]: the first i sequences of fs, one after the other.
IsFlat(g, fs, S) ==
    /\ g \in [0 .. Len(fs) -> Seq(S)] /\ g[0] = <<>>
    /\ \A i \in 1 .. Len(fs) : g[i] = g[i - 1] \o fs[i]

\* FlattenSeq, sequence by sequence.
LEMMA FlattenSteps ==
    ASSUME NEW S, NEW fs \in Seq(Seq(S))
    PROVE  \E g : IsFlat(g, fs, S) /\ FlattenSeq(fs) = g[Len(fs)]
<1> DEFINE n == Len(fs)
<1>1. n \in Nat /\ \A i \in 1 .. n : fs[i] \in Seq(S)
  BY SeqFacts
<1>2. CASE n = 0
  <2> DEFINE g == [i \in 0 .. 0 |-> <<>>]
  <2>1. FlattenSeq(fs) = fs /\ fs = <<>>
    BY <1>2 DEF FlattenSeq
  <2>2. IsFlat(g, fs, S)
    BY <1>2 DEF IsFlat
  <2>3. FlattenSeq(fs) = g[n]
    BY <1>2, <2>1
  <2> QED
    BY <2>2, <2>3
<1>3. CASE n # 0
  <2> DEFINE part(i) == IF i \in 1 .. n THEN fs[i] ELSE <<>>
             F == [iv \in Nat \X Seq(S) |-> iv[2] \o part(iv[1])]
             Eq(g) == g = [i \in 1 .. n |-> IF i = 1 THEN fs[i] ELSE g[i - 1] \o fs[i]]
             h == CHOOSE g : Eq(g)
             g == [i \in 0 .. n |-> IF i = 0 THEN <<>> ELSE h[i]]
  <2>1. FlattenSeq(fs) = h[n]
    BY <1>3 DEF FlattenSeq
  <2> HIDE DEF n
  <2>2. \A i \in Nat : part(i) \in Seq(S)
    BY <1>1
  <2>3. F \in [Nat \X Seq(S) -> Seq(S)] /\ <<>> \in Seq(S)
    <3> HIDE DEF part
    <3>1. \A i \in Nat, v \in Seq(S) : v \o part(i) \in Seq(S)
      BY <2>2, ConcatFacts
    <3> QED
      BY <3>1
  <2>4. PICK f \in [0 .. n -> Seq(S)] : RecursionOn(f, 0 .. n, <<>>, F)
    <3> HIDE DEF F
    <3> QED
      BY <1>1, <2>3, FiniteRecursion
  <2>5. f[0] = <<>> /\ \A i \in 1 .. n : f[i] = f[i - 1] \o fs[i]
    <3>1. f = [i \in 0 .. n |-> IF i = 0 THEN <<>> ELSE F[<<i, f[i - 1]>>]]
      BY <2>4 DEF RecursionOn
    <3>2. 0 \in 0 .. n
      BY <1>1
    <3>3. f[0] = <<>>
      <4> HIDE DEF F
      <4> QED
        BY <3>1, <3>2
    <3>4. ASSUME NEW i \in 1 .. n PROVE f[i] = f[i - 1] \o fs[i]
      <4>1. i \in 0 .. n /\ i # 0 /\ i \in Nat /\ i - 1 \in 0 .. n
        BY <1>1
      <4>2. f[i] = F[<<i, f[i - 1]>>]
        <5> HIDE DEF F
        <5> QED
          BY <3>1, <4>1
      <4>3. f[i - 1] \in Seq(S) /\ part(i) = fs[i]
        BY <2>4, <4>1
      <4> HIDE DEF part
      <4>4. F[<<i, f[i - 1]>>] = f[i - 1] \o part(i)
        BY <4>1, <4>3
      <4> QED
        BY <4>2, <4>3, <4>4
    <3> QED
      BY <3>3, <3>4
  <2>6. Eq([i \in 1 .. n |-> f[i]])
    <3> DEFINE r == [i \in 1 .. n |-> f[i]]
    <3>1. ASSUME NEW i \in 1 .. n
          PROVE  r[i] = IF i = 1 THEN fs[i] ELSE r[i - 1] \o fs[i]
      <4>1. r[i] = f[i - 1] \o fs[i]
        BY <2>5
      <4>2. CASE i = 1
        <5>1. f[i - 1] = <<>> /\ fs[i] \in Seq(S)
          BY <1>1, <2>5, <4>2
        <5>2. <<>> \o fs[i] = fs[i]
          BY <5>1
        <5> QED
          BY <4>1, <4>2, <5>1, <5>2
      <4>3. CASE i # 1
        <5>1. i - 1 \in 1 .. n
          BY <1>1, <4>3
        <5> QED
          BY <4>1, <4>3, <5>1
      <4> QED
        BY <4>2, <4>3
    <3>2. r = [i \in 1 .. n |-> r[i]]
      OBVIOUS
    <3> HIDE DEF r
    <3>3. Eq(r)
      BY <3>1, <3>2
    <3> QED
      BY <3>3 DEF r
  <2>7. Eq(h)
    <3> HIDE DEF Eq
    <3> QED
      BY <2>6
  <2> HIDE DEF h
  <2>8. \A i \in 1 .. n : h[i] = IF i = 1 THEN fs[i] ELSE h[i - 1] \o fs[i]
    BY <2>7
  <2> HIDE DEF Eq
  <2>9. ASSUME NEW i \in 1 .. n PROVE g[i] = g[i - 1] \o fs[i]
    <3>1. g[i] = h[i] /\ fs[i] \in Seq(S)
      BY <1>1
    <3>2. CASE i = 1
      <4>1. g[i - 1] = <<>>
        BY <1>1, <3>2
      <4>2. <<>> \o fs[i] = fs[i]
        BY <3>1
      <4> QED
        BY <2>8, <3>1, <3>2, <4>1, <4>2
    <3>3. CASE i # 1
      <4>1. i - 1 \in 0 .. n /\ i - 1 # 0
        BY <1>1, <3>3
      <4>2. g[i - 1] = h[i - 1]
        BY <4>1
      <4> QED
        BY <2>8, <3>1, <3>3, <4>2
    <3> QED
      BY <3>2, <3>3
  <2>10. g[0] = <<>> /\ g[n] = h[n] /\ DOMAIN g = 0 .. n /\ g = [i \in 0 .. n |-> g[i]]
    BY <1>1, <1>3 DEF n
  <2> HIDE DEF g
  <2>11. \A i \in 0 .. n : g[i] \in Seq(S)
    <3> DEFINE D == {i \in Nat : i <= n => g[i] \in Seq(S)}
    <3>1. 0 \in D
      <4>1. g[0] \in Seq(S)
        BY <2>10
      <4> QED
        BY <4>1
    <3>2. ASSUME NEW i \in Nat, i \in D PROVE i + 1 \in D
      <4> SUFFICES ASSUME i + 1 <= n PROVE g[i + 1] \in Seq(S)
        OBVIOUS
      <4>1. i + 1 \in 1 .. n /\ (i + 1) - 1 = i /\ i <= n
        BY <1>1
      <4>2. g[i + 1] = g[i] \o fs[i + 1]
        BY <2>9, <4>1
      <4>3. g[i] \in Seq(S) /\ fs[i + 1] \in Seq(S)
        BY <1>1, <3>2, <4>1
      <4> QED
        BY <4>2, <4>3, ConcatFacts
    <3> HIDE DEF D
    <3>3. Nat \subseteq D
      BY <3>1, <3>2, SetInduction
    <3> QED
      BY <3>3 DEF D
  <2>12. IsFlat(g, fs, S)
    BY <2>9, <2>10, <2>11 DEF IsFlat, n
  <2> QED
    BY <2>1, <2>10, <2>12 DEF n
<1> QED
  BY <1>2, <1>3

\* One more sequence goes to the end.
LEMMA FlattenAppend ==
    ASSUME NEW S, NEW fs \in Seq(Seq(S)), NEW e \in Seq(S)
    PROVE  FlattenSeq(Append(fs, e)) = FlattenSeq(fs) \o e /\ FlattenSeq(fs) \in Seq(S)
<1> DEFINE n == Len(fs)
           gs == Append(fs, e)
<1>1. n \in Nat /\ gs \in Seq(Seq(S)) /\ Len(gs) = n + 1 /\ gs[n + 1] = e
      /\ \A i \in 1 .. n : gs[i] = fs[i]
  OBVIOUS
<1>2. PICK f : IsFlat(f, fs, S) /\ FlattenSeq(fs) = f[n]
  BY FlattenSteps
<1>3. PICK g : IsFlat(g, gs, S) /\ FlattenSeq(gs) = g[Len(gs)]
  BY <1>1, FlattenSteps
<1> HIDE DEF gs
<1>4. /\ f \in [0 .. n -> Seq(S)] /\ f[0] = <<>>
      /\ \A i \in 1 .. n : f[i] = f[i - 1] \o fs[i]
  BY <1>2 DEF IsFlat
<1>5. /\ g[0] = <<>>
      /\ \A i \in 1 .. n + 1 : g[i] = g[i - 1] \o gs[i]
  BY <1>1, <1>3 DEF IsFlat
<1> HIDE DEF n
<1> DEFINE D == {i \in Nat : i <= n => f[i] = g[i]}
<1>6. 0 \in D
  BY <1>4, <1>5
<1>7. ASSUME NEW i \in Nat, i \in D PROVE i + 1 \in D
  <2> SUFFICES ASSUME i + 1 <= n PROVE f[i + 1] = g[i + 1]
    OBVIOUS
  <2>1. i + 1 \in 1 .. n /\ i + 1 \in 1 .. n + 1 /\ (i + 1) - 1 = i /\ i <= n
    BY <1>1
  <2>2. f[i + 1] = f[i] \o fs[i + 1] /\ g[i + 1] = g[i] \o gs[i + 1]
    BY <1>4, <1>5, <2>1
  <2>3. f[i] = g[i] /\ fs[i + 1] = gs[i + 1]
    BY <1>1, <1>7, <2>1
  <2> QED
    BY <2>2, <2>3
<1> HIDE DEF D
<1>8. n \in D
  BY <1>1, <1>6, <1>7, SetInduction
<1>9. f[n] = g[n]
  BY <1>1, <1>8 DEF D
<1>10. g[n + 1] = g[n] \o e
  <2>1. n + 1 \in 1 .. n + 1 /\ (n + 1) - 1 = n
    BY <1>1
  <2> QED
    BY <1>1, <1>5, <2>1
<1>11. f[n] \in Seq(S)
  BY <1>1, <1>4
<1> QED
  BY <1>1, <1>2, <1>3, <1>9, <1>10, <1>11 DEF gs

\* No sequences are no elements.
LEMMA FlattenEmpty == FlattenSeq(<<>>) = <<>>
BY DEF FlattenSeq

\* p: where each of fs begins, when they lie one after the other.
Places(p, fs, from) ==
    /\ p \in [0 .. Len(fs) -> Nat] /\ p[0] = from
    /\ \A i \in 1 .. Len(fs) : p[i] = p[i - 1] + Len(fs[i])

\* Where FlattenSeq puts each sequence.
LEMMA FlattenPlaces ==
    ASSUME NEW S, NEW fs \in Seq(Seq(S))
    PROVE  /\ FlattenSeq(fs) \in Seq(S)
           /\ \E p : /\ Places(p, fs, 0) /\ p[Len(fs)] = Len(FlattenSeq(fs))
                     /\ \A i \in 1 .. Len(fs) : Lies(fs[i], FlattenSeq(fs), p[i - 1])
<1> DEFINE n == Len(fs)
<1>1. n \in Nat /\ \A i \in 1 .. n : fs[i] \in Seq(S)
  BY SeqFacts
<1>2. PICK g : IsFlat(g, fs, S) /\ FlattenSeq(fs) = g[n]
  BY FlattenSteps
<1>3. /\ g \in [0 .. n -> Seq(S)] /\ g[0] = <<>>
      /\ \A i \in 1 .. n : g[i] = g[i - 1] \o fs[i]
  BY <1>2 DEF IsFlat
<1> HIDE DEF n
<1> DEFINE p == [i \in 0 .. n |-> Len(g[i])]
<1>4. \A i \in 0 .. n : p[i] = Len(g[i]) /\ p[i] \in Nat /\ g[i] \in Seq(S)
  BY <1>3
<1>5. \A i \in 1 .. n : i - 1 \in 0 .. n /\ i \in 0 .. n
  BY <1>1
<1>6. p \in [0 .. n -> Nat]
  BY <1>4
<1> HIDE DEF p
<1>7. ASSUME NEW i \in 1 .. n
      PROVE  p[i] = p[i - 1] + Len(fs[i]) /\ Lies(fs[i], g[i], p[i - 1])
  <2> DEFINE a == g[i - 1]
             b == fs[i]
  <2>1. a \in Seq(S) /\ b \in Seq(S) /\ p[i - 1] = Len(a) /\ Len(a) \in Nat
    BY <1>1, <1>4, <1>5
  <2>2. g[i] = a \o b /\ p[i] = Len(g[i])
    BY <1>3, <1>4, <1>5
  <2> HIDE DEF a, b
  <2>3. a \o b \in Seq(S) /\ Len(a \o b) = Len(a) + Len(b)
    BY <2>1, ConcatFacts
  <2>4. Lies(a \o b, a \o b, 0)
    BY <2>3, LiesWhole
  <2>5. Lies(b, a \o b, 0 + Len(a))
    <3>1. 0 \in Nat
      OBVIOUS
    <3> QED
      BY <2>1, <2>3, <2>4, <3>1, LiesConcat
  <2>6. 0 + Len(a) = Len(a)
    BY <2>1
  <2> QED
    BY <2>1, <2>2, <2>3, <2>5, <2>6 DEF b
<1>8. ASSUME NEW i \in 1 .. n PROVE Lies(fs[i], g[n], p[i - 1])
  <2> DEFINE D == {k \in Nat : i + k <= n => Lies(fs[i], g[i + k], p[i - 1])}
  <2>1. 0 \in D
    <3>1. i + 0 = i
      BY <1>1
    <3> QED
      BY <1>7, <3>1
  <2>2. ASSUME NEW k \in Nat, k \in D PROVE k + 1 \in D
    <3> SUFFICES ASSUME i + (k + 1) <= n PROVE Lies(fs[i], g[i + (k + 1)], p[i - 1])
      OBVIOUS
    <3> DEFINE j == i + k
               a == g[j]
               b == fs[j + 1]
               o == p[i - 1]
               e == fs[i]
    <3>1. j + 1 \in 1 .. n /\ (j + 1) - 1 = j /\ i + (k + 1) = j + 1 /\ j <= n /\ j \in 0 .. n
          /\ i - 1 \in 0 .. n
      BY <1>1
    <3>2. Lies(e, a, o)
      BY <2>2, <3>1
    <3>3. g[j + 1] = a \o b /\ a \in Seq(S) /\ b \in Seq(S) /\ e \in Seq(S) /\ o \in Nat
      BY <1>1, <1>3, <1>4, <3>1
    <3> HIDE DEF a, b, e, o, j
    <3>4. a \o b \in Seq(S)
      BY <3>3, ConcatFacts
    <3>5. Lies(a \o b, a \o b, 0) /\ 0 \in Nat
      BY <3>4, LiesWhole
    <3>6. Lies(a, a \o b, 0)
      BY <3>3, <3>4, <3>5, LiesConcat
    <3>7. Lies(e, a \o b, 0 + o)
      BY <3>2, <3>3, <3>4, <3>5, <3>6, LiesWithin
    <3>8. Lies(e, g[j + 1], o)
      BY <3>3, <3>7
    <3> QED
      BY <3>1, <3>8 DEF e, o
  <2> HIDE DEF D
  <2>3. n - i \in D
    <3>1. n - i \in Nat
      BY <1>1
    <3> QED
      BY <2>1, <2>2, <3>1, SetInduction
  <2>4. i + (n - i) = n
    BY <1>1
  <2> QED
    BY <1>1, <2>3, <2>4 DEF D
<1>9. p[0] = 0 /\ p[n] = Len(g[n]) /\ g[n] \in Seq(S)
  <2>1. 0 \in 0 .. n /\ n \in 0 .. n
    BY <1>1
  <2> QED
    BY <1>3, <1>4, <2>1
<1>10. Places(p, fs, 0)
  BY <1>6, <1>7, <1>9 DEF Places, n
<1> QED
  BY <1>2, <1>8, <1>9, <1>10 DEF n

-----------------------------------------------------------------------------
(* Transactions as octets.                                                 *)

\* The sequences that FlattenSeq joins lie where the whole lies.
LEMMA PlacesWithin ==
    ASSUME NEW S, NEW fs \in Seq(Seq(S)), NEW s \in Seq(S), NEW at \in Nat,
           Lies(FlattenSeq(fs), s, at)
    PROVE  \E p : /\ Places(p, fs, at) /\ p[Len(fs)] = at + Len(FlattenSeq(fs))
                  /\ \A i \in 1 .. Len(fs) : Lies(fs[i], s, p[i - 1])
<1> DEFINE n == Len(fs)
           all == FlattenSeq(fs)
<1>1. n \in Nat /\ \A i \in 1 .. n : fs[i] \in Seq(S)
  BY SeqFacts
<1>2. all \in Seq(S)
  BY FlattenPlaces
<1>3. PICK r : /\ Places(r, fs, 0) /\ r[n] = Len(all)
               /\ \A i \in 1 .. n : Lies(fs[i], all, r[i - 1])
  BY FlattenPlaces
<1>4. /\ r \in [0 .. n -> Nat] /\ r[0] = 0
      /\ \A i \in 1 .. n : r[i] = r[i - 1] + Len(fs[i])
  BY <1>3 DEF Places
<1> HIDE DEF n, all
<1> DEFINE p == [i \in 0 .. n |-> at + r[i]]
<1>5. p \in [0 .. n -> Nat] /\ p[0] = at /\ p[n] = at + Len(all)
  <2>1. 0 \in 0 .. n /\ n \in 0 .. n
    BY <1>1
  <2>2. p \in [0 .. n -> Nat]
    BY <1>4
  <2>3. p[0] = at + r[0] /\ p[n] = at + r[n]
    BY <2>1
  <2>4. at + 0 = at
    OBVIOUS
  <2> QED
    BY <1>3, <1>4, <2>2, <2>3, <2>4
<1>6. ASSUME NEW i \in 1 .. n
      PROVE  p[i] = p[i - 1] + Len(fs[i]) /\ Lies(fs[i], s, p[i - 1])
  <2>1. i \in 0 .. n /\ i - 1 \in 0 .. n
    BY <1>1
  <2>2. r[i - 1] \in Nat /\ r[i] = r[i - 1] + Len(fs[i]) /\ Len(fs[i]) \in Nat
    BY <1>1, <1>4, <2>1
  <2>3. p[i] = at + r[i] /\ p[i - 1] = at + r[i - 1]
    BY <2>1
  <2>4. Lies(fs[i], s, at + r[i - 1])
    <3>1. fs[i] \in Seq(S) /\ Lies(fs[i], all, r[i - 1]) /\ Lies(all, s, at)
      BY <1>1, <1>3 DEF all
    <3> QED
      BY <1>2, <2>2, <3>1, LiesWithin
  <2> QED
    BY <2>2, <2>3, <2>4
<1> HIDE DEF p
<1>7. Places(p, fs, at)
  BY <1>5, <1>6 DEF Places, n
<1> QED
  BY <1>5, <1>6, <1>7 DEF n, all

\* The version, the number n of inputs, and those in vin, from p[i - 1] to p[i] each.
HeadLaid(v, n, vin, s, p) ==
    /\ Lies(ToLe(v, W32), s, 0) /\ p \in [0 .. Len(vin) -> Nat]
    /\ \E f \in Forms(n) : Lies(f, s, W32) /\ p[0] = W32 + Len(f)
    /\ \A i \in 1 .. Len(vin) : InSpelled(vin[i], s, p[i - 1], p[i])

\* The number n of outputs, and those in vout.
TailLaid(n, vout, s, from, q) ==
    /\ q \in [0 .. Len(vout) -> Nat]
    /\ \E f \in Forms(n) : Lies(f, s, from) /\ q[0] = from + Len(f)
    /\ \A i \in 1 .. Len(vout) : OutSpelled(vout[i], s, q[i - 1], q[i])

\* s spells the transaction t, each length in some form.
Layout(t, s, p, q) ==
    /\ HeadLaid(t.version, Len(t.vin), t.vin, s, p)
    /\ TailLaid(Len(t.vout), t.vout, s, p[Len(t.vin)], q)
    /\ Lies(ToLe(t.lock_time, W32), s, q[Len(t.vout)]) /\ Len(s) = q[Len(t.vout)] + W32

\* The types of a transaction's fields.
LEMMA TransactionFields ==
    ASSUME NEW t \in Transaction
    PROVE  /\ t.version \in SignedInts(W32) /\ t.version \in Int
           /\ t.lock_time \in UnsignedInts(W32) /\ t.lock_time \in Int
           /\ t.vin \in Seq(TxIn) /\ Len(t.vin) \in UnsignedInts(W64) /\ Len(t.vin) \in Nat
           /\ t.vout \in Seq(TxOut) /\ Len(t.vout) \in UnsignedInts(W64) /\ Len(t.vout) \in Nat
           /\ t = [version |-> t.version, vin |-> t.vin, vout |-> t.vout, lock_time |-> t.lock_time]
<1>1. W32 \in Nat /\ Power(Octets, W32) \in Nat
  BY OctetFacts, OctetPowers
<1>2. SignedInts(W32) \subseteq Int /\ UnsignedInts(W32) \subseteq Int
  BY <1>1 DEF SignedInts, UnsignedInts
<1>3. /\ t.version \in SignedInts(W32) /\ t.lock_time \in UnsignedInts(W32)
      /\ t.vin \in Vec(TxIn) /\ t.vout \in Vec(TxOut)
      /\ t = [version |-> t.version, vin |-> t.vin, vout |-> t.vout, lock_time |-> t.lock_time]
  BY DEF Transaction
<1>4. t.vin \in Seq(TxIn) /\ Len(t.vin) \in Nat /\ Len(t.vin) < Power(Octets, UsizeOctets)
  BY <1>3 DEF Vec
<1>5. t.vout \in Seq(TxOut) /\ Len(t.vout) \in Nat /\ Len(t.vout) < Power(Octets, UsizeOctets)
  BY <1>3 DEF Vec
<1> QED
  BY <1>2, <1>3, <1>4, <1>5, UsizeFits

\* The inputs, as Serialize writes them.
LEMMA InsWritten ==
    ASSUME NEW vin \in Seq(TxIn)
    PROVE  LET all == FlattenSeq([i \in DOMAIN vin |-> SerializeIn(vin[i])])
           IN  /\ all \in Seq(Octet)
               /\ \A s \in Seq(Octet), at \in Nat :
                     Lies(all, s, at) =>
                        \E p \in [0 .. Len(vin) -> Nat] :
                           /\ p[0] = at /\ p[Len(vin)] = at + Len(all)
                           /\ \A i \in 1 .. Len(vin) : InSpelled(vin[i], s, p[i - 1], p[i])
<1> DEFINE n == Len(vin)
           fs == [i \in DOMAIN vin |-> SerializeIn(vin[i])]
           all == FlattenSeq(fs)
<1>1. n \in Nat /\ DOMAIN vin = 1 .. n /\ \A i \in 1 .. n : vin[i] \in TxIn
  BY SeqFacts
<1>2. fs \in Seq(Seq(Octet)) /\ Len(fs) = n /\ \A i \in 1 .. n : fs[i] = SerializeIn(vin[i])
  <2>1. \A i \in 1 .. n : SerializeIn(vin[i]) \in Seq(Octet)
    BY <1>1, InWritten
  <2>2. fs \in [1 .. n -> Seq(Octet)] /\ \A i \in 1 .. n : fs[i] = SerializeIn(vin[i])
    BY <1>1, <2>1
  <2> HIDE DEF fs
  <2> QED
    BY <1>1, <2>2
<1> HIDE DEF n, fs
<1>3. all \in Seq(Octet)
  BY <1>2, FlattenPlaces
<1>4. ASSUME NEW s \in Seq(Octet), NEW at \in Nat, Lies(all, s, at)
      PROVE  \E p \in [0 .. n -> Nat] :
                /\ p[0] = at /\ p[n] = at + Len(all)
                /\ \A i \in 1 .. n : InSpelled(vin[i], s, p[i - 1], p[i])
  <2>1. PICK p : /\ Places(p, fs, at) /\ p[Len(fs)] = at + Len(all)
                 /\ \A i \in 1 .. Len(fs) : Lies(fs[i], s, p[i - 1])
    BY <1>2, <1>4, PlacesWithin
  <2>2. /\ p \in [0 .. n -> Nat] /\ p[0] = at
        /\ \A i \in 1 .. n : p[i] = p[i - 1] + Len(fs[i])
    BY <1>2, <2>1 DEF Places
  <2>3. ASSUME NEW i \in 1 .. n PROVE InSpelled(vin[i], s, p[i - 1], p[i])
    <3>1. p[i - 1] \in Nat /\ vin[i] \in TxIn
      BY <1>1, <2>2
    <3>2. Lies(SerializeIn(vin[i]), s, p[i - 1]) /\ p[i] = p[i - 1] + Len(SerializeIn(vin[i]))
      BY <1>2, <2>1, <2>2
    <3> QED
      BY <3>1, <3>2, InWritten
  <2> QED
    BY <1>2, <2>1, <2>2, <2>3
<1> QED
  BY <1>3, <1>4 DEF n, fs

\* The outputs, as Serialize writes them.
LEMMA OutsWritten ==
    ASSUME NEW vout \in Seq(TxOut)
    PROVE  LET all == FlattenSeq([i \in DOMAIN vout |-> SerializeOut(vout[i])])
           IN  /\ all \in Seq(Octet)
               /\ \A s \in Seq(Octet), at \in Nat :
                     Lies(all, s, at) =>
                        \E q \in [0 .. Len(vout) -> Nat] :
                           /\ q[0] = at /\ q[Len(vout)] = at + Len(all)
                           /\ \A i \in 1 .. Len(vout) : OutSpelled(vout[i], s, q[i - 1], q[i])
<1> DEFINE n == Len(vout)
           fs == [i \in DOMAIN vout |-> SerializeOut(vout[i])]
           all == FlattenSeq(fs)
<1>1. n \in Nat /\ DOMAIN vout = 1 .. n /\ \A i \in 1 .. n : vout[i] \in TxOut
  BY SeqFacts
<1>2. fs \in Seq(Seq(Octet)) /\ Len(fs) = n /\ \A i \in 1 .. n : fs[i] = SerializeOut(vout[i])
  <2>1. \A i \in 1 .. n : SerializeOut(vout[i]) \in Seq(Octet)
    BY <1>1, OutWritten
  <2>2. fs \in [1 .. n -> Seq(Octet)] /\ \A i \in 1 .. n : fs[i] = SerializeOut(vout[i])
    BY <1>1, <2>1
  <2> HIDE DEF fs
  <2> QED
    BY <1>1, <2>2
<1> HIDE DEF n, fs
<1>3. all \in Seq(Octet)
  BY <1>2, FlattenPlaces
<1>4. ASSUME NEW s \in Seq(Octet), NEW at \in Nat, Lies(all, s, at)
      PROVE  \E q \in [0 .. n -> Nat] :
                /\ q[0] = at /\ q[n] = at + Len(all)
                /\ \A i \in 1 .. n : OutSpelled(vout[i], s, q[i - 1], q[i])
  <2>1. PICK q : /\ Places(q, fs, at) /\ q[Len(fs)] = at + Len(all)
                 /\ \A i \in 1 .. Len(fs) : Lies(fs[i], s, q[i - 1])
    BY <1>2, <1>4, PlacesWithin
  <2>2. /\ q \in [0 .. n -> Nat] /\ q[0] = at
        /\ \A i \in 1 .. n : q[i] = q[i - 1] + Len(fs[i])
    BY <1>2, <2>1 DEF Places
  <2>3. ASSUME NEW i \in 1 .. n PROVE OutSpelled(vout[i], s, q[i - 1], q[i])
    <3>1. q[i - 1] \in Nat /\ vout[i] \in TxOut
      BY <1>1, <2>2
    <3>2. Lies(SerializeOut(vout[i]), s, q[i - 1]) /\ q[i] = q[i - 1] + Len(SerializeOut(vout[i]))
      BY <1>2, <2>1, <2>2
    <3> QED
      BY <3>1, <3>2, OutWritten
  <2> QED
    BY <1>2, <2>1, <2>2, <2>3
<1> QED
  BY <1>3, <1>4 DEF n, fs

\* Transaction::serialize spells its transaction.
LEMMA SerializeLaid ==
    ASSUME NEW t \in Transaction
    PROVE  Serialize(t) \in Seq(Octet) /\ \E p, q : Layout(t, Serialize(t), p, q)
<1> DEFINE m == Len(t.vin)
           n == Len(t.vout)
           v == ToLe(t.version, W32)
           a == WriteCompactSize(m)
           ins == FlattenSeq([i \in DOMAIN t.vin |-> SerializeIn(t.vin[i])])
           b == WriteCompactSize(n)
           outs == FlattenSeq([i \in DOMAIN t.vout |-> SerializeOut(t.vout[i])])
           l == ToLe(t.lock_time, W32)
           c1 == v \o a
           c2 == c1 \o ins
           c3 == c2 \o b
           c4 == c3 \o outs
           s == c4 \o l
<1>1. /\ t.version \in Int /\ t.lock_time \in Int
      /\ t.vin \in Seq(TxIn) /\ m \in UnsignedInts(W64)
      /\ t.vout \in Seq(TxOut) /\ n \in UnsignedInts(W64)
  BY TransactionFields
<1>2. W32 \in Nat
  BY OctetFacts
<1>3. v \in Seq(Octet) /\ Len(v) = W32 /\ l \in Seq(Octet) /\ Len(l) = W32
  BY <1>1, <1>2, ToLeOctets
<1>4. a \in Forms(m) /\ a \in Seq(Octet) /\ b \in Forms(n) /\ b \in Seq(Octet)
  BY <1>1, ShortestForm, FormType
<1>5. /\ ins \in Seq(Octet)
      /\ \A d \in Seq(Octet), at \in Nat :
            Lies(ins, d, at) => \E p \in [0 .. m -> Nat] :
               /\ p[0] = at /\ p[m] = at + Len(ins)
               /\ \A i \in 1 .. m : InSpelled(t.vin[i], d, p[i - 1], p[i])
  BY <1>1, InsWritten
<1>6. /\ outs \in Seq(Octet)
      /\ \A d \in Seq(Octet), at \in Nat :
            Lies(outs, d, at) => \E q \in [0 .. n -> Nat] :
               /\ q[0] = at /\ q[n] = at + Len(outs)
               /\ \A i \in 1 .. n : OutSpelled(t.vout[i], d, q[i - 1], q[i])
  BY <1>1, OutsWritten
<1>7. Serialize(t) = s
  BY DEF Serialize
<1> HIDE DEF v, a, ins, b, outs, l
<1>8. c1 \in Seq(Octet) /\ Len(c1) = W32 + Len(a)
  BY <1>3, <1>4, ConcatFacts
<1> HIDE DEF c1
<1>9. c2 \in Seq(Octet) /\ Len(c2) = Len(c1) + Len(ins)
  BY <1>5, <1>8, ConcatFacts
<1> HIDE DEF c2
<1>10. c3 \in Seq(Octet) /\ Len(c3) = Len(c2) + Len(b)
  BY <1>4, <1>9, ConcatFacts
<1> HIDE DEF c3
<1>11. c4 \in Seq(Octet) /\ Len(c4) = Len(c3) + Len(outs)
  BY <1>6, <1>10, ConcatFacts
<1> HIDE DEF c4
<1>12. s \in Seq(Octet) /\ Len(s) = Len(c4) + W32
  <2>1. c4 \o l \in Seq(Octet) /\ Len(c4 \o l) = Len(c4) + Len(l)
    BY <1>3, <1>11, ConcatFacts
  <2> QED
    BY <1>3, <2>1
<1>13. Lies(c4, s, 0) /\ Lies(l, s, Len(c4))
  <2>1. Lies(s, s, 0)
    BY <1>12, LiesWhole
  <2>2. Lies(c4, s, 0) /\ Lies(l, s, 0 + Len(c4))
    BY <1>3, <1>11, <1>12, <2>1, LiesConcat
  <2>3. 0 + Len(c4) = Len(c4)
    BY <1>11
  <2> QED
    BY <2>2, <2>3
<1> HIDE DEF s
<1>14. Lies(c3, s, 0) /\ Lies(outs, s, Len(c3))
  <2>1. Lies(c3, s, 0) /\ Lies(outs, s, 0 + Len(c3))
    BY <1>6, <1>10, <1>12, <1>13, LiesConcat DEF c4
  <2>2. 0 + Len(c3) = Len(c3)
    BY <1>10
  <2> QED
    BY <2>1, <2>2
<1>15. Lies(c2, s, 0) /\ Lies(b, s, Len(c2))
  <2>1. Lies(c2, s, 0) /\ Lies(b, s, 0 + Len(c2))
    BY <1>4, <1>9, <1>12, <1>14, LiesConcat DEF c3
  <2>2. 0 + Len(c2) = Len(c2)
    BY <1>9
  <2> QED
    BY <2>1, <2>2
<1>16. Lies(c1, s, 0) /\ Lies(ins, s, Len(c1))
  <2>1. Lies(c1, s, 0) /\ Lies(ins, s, 0 + Len(c1))
    BY <1>5, <1>8, <1>12, <1>15, LiesConcat DEF c2
  <2>2. 0 + Len(c1) = Len(c1)
    BY <1>8
  <2> QED
    BY <2>1, <2>2
<1>17. Lies(v, s, 0) /\ Lies(a, s, W32)
  <2>1. Lies(v, s, 0) /\ Lies(a, s, 0 + Len(v))
    BY <1>3, <1>4, <1>12, <1>16, LiesConcat DEF c1
  <2>2. 0 + Len(v) = W32
    BY <1>2, <1>3
  <2> QED
    BY <2>1, <2>2
<1>18. Len(c1) \in Nat /\ Len(c2) \in Nat /\ Len(c3) \in Nat /\ Len(c4) \in Nat
  BY <1>8, <1>9, <1>10, <1>11
<1>19. PICK p \in [0 .. m -> Nat] :
          /\ p[0] = Len(c1) /\ p[m] = Len(c1) + Len(ins)
          /\ \A i \in 1 .. m : InSpelled(t.vin[i], s, p[i - 1], p[i])
  BY <1>5, <1>12, <1>16, <1>18
<1>20. PICK q \in [0 .. n -> Nat] :
          /\ q[0] = Len(c3) /\ q[n] = Len(c3) + Len(outs)
          /\ \A i \in 1 .. n : OutSpelled(t.vout[i], s, q[i - 1], q[i])
  BY <1>6, <1>12, <1>14, <1>18
<1>21. HeadLaid(t.version, m, t.vin, s, p)
  BY <1>4, <1>8, <1>17, <1>19 DEF HeadLaid, v, m
<1>22. TailLaid(n, t.vout, s, p[m], q)
  BY <1>4, <1>9, <1>10, <1>15, <1>19, <1>20 DEF TailLaid, n
<1>23. Layout(t, s, p, q)
  BY <1>11, <1>12, <1>13, <1>20, <1>21, <1>22 DEF Layout, l, m, n
<1> QED
  BY <1>7, <1>12, <1>23

\* Two sequences, and where their elements begin and end, agree as far as both go.
Agree(xs, ys, p, a) ==
    \A i \in Nat : i <= Len(xs) /\ i <= Len(ys) => p[i] = a[i] /\ (i # 0 => xs[i] = ys[i])

\* What spells two transactions' heads spells the same one, as far as both go.
LEMMA HeadsAgree ==
    ASSUME NEW s \in Seq(Octet), NEW v \in SignedInts(W32), NEW u \in SignedInts(W32),
           NEW n \in UnsignedInts(W64), NEW m \in UnsignedInts(W64),
           NEW xs \in Seq(TxIn), NEW ys \in Seq(TxIn), NEW p, NEW a,
           HeadLaid(v, n, xs, s, p), HeadLaid(u, m, ys, s, a)
    PROVE  v = u /\ n = m /\ Agree(xs, ys, p, a)
<1>1. W32 \in Nat /\ 0 \in Nat
  BY OctetFacts
<1>2. v = u
  <2>1. /\ ReadSigned(s, 0, W32) = [at |-> 0 + W32, got |-> v]
        /\ ReadSigned(s, 0, W32) = [at |-> 0 + W32, got |-> u]
    BY <1>1, SignedGets DEF HeadLaid
  <2> QED
    BY <2>1
<1>3. PICK f \in Forms(n) : Lies(f, s, W32) /\ p[0] = W32 + Len(f)
  BY DEF HeadLaid
<1>4. PICK g \in Forms(m) : Lies(g, s, W32) /\ a[0] = W32 + Len(g)
  BY DEF HeadLaid
<1>5. n = m /\ p[0] = a[0]
  <2>1. ReadCompactSize(s, W32) = [at |-> W32 + Len(f), got |-> n]
    BY <1>1, <1>3, FormGets
  <2>2. ReadCompactSize(s, W32) = [at |-> W32 + Len(g), got |-> m]
    BY <1>1, <1>4, FormGets
  <2> QED
    BY <1>3, <1>4, <2>1, <2>2
<1> DEFINE Ok(i) == i <= Len(xs) /\ i <= Len(ys) => p[i] = a[i] /\ (i # 0 => xs[i] = ys[i])
           I == {i \in Nat : Ok(i)}
<1>6. 0 \in I
  BY <1>5
<1>7. ASSUME NEW i \in Nat, i \in I PROVE i + 1 \in I
  <2> SUFFICES ASSUME i + 1 <= Len(xs), i + 1 <= Len(ys)
               PROVE  p[i + 1] = a[i + 1] /\ xs[i + 1] = ys[i + 1]
    OBVIOUS
  <2>1. Len(xs) \in Nat /\ Len(ys) \in Nat
    OBVIOUS
  <2>2. i + 1 \in 1 .. Len(xs) /\ i + 1 \in 1 .. Len(ys) /\ (i + 1) - 1 = i
    BY <2>1
  <2>3. p[i] = a[i]
    BY <1>7, <2>1
  <2>4. p[i] \in Nat
    BY <2>1 DEF HeadLaid
  <2>5. InSpelled(xs[i + 1], s, p[i], p[i + 1]) /\ InSpelled(ys[i + 1], s, a[i], a[i + 1])
    BY <2>2 DEF HeadLaid
  <2>6. xs[i + 1] \in TxIn /\ ys[i + 1] \in TxIn
    BY <2>2
  <2>7. ReadTxIn(s, p[i]) = [at |-> p[i + 1], got |-> xs[i + 1]]
    BY <2>4, <2>5, <2>6, InGets
  <2>8. ReadTxIn(s, p[i]) = [at |-> a[i + 1], got |-> ys[i + 1]]
    BY <2>3, <2>4, <2>5, <2>6, InGets
  <2> QED
    BY <2>7, <2>8
<1>8. Nat \subseteq I
  <2> HIDE DEF I
  <2> QED
    BY <1>6, <1>7, SetInduction
<1> QED
  BY <1>2, <1>5, <1>8 DEF Agree

\* What spells two transactions' tails spells the same one, as far as both go.
LEMMA TailsAgree ==
    ASSUME NEW s \in Seq(Octet), NEW from \in Nat,
           NEW n \in UnsignedInts(W64), NEW m \in UnsignedInts(W64),
           NEW xs \in Seq(TxOut), NEW ys \in Seq(TxOut), NEW p, NEW a,
           TailLaid(n, xs, s, from, p), TailLaid(m, ys, s, from, a)
    PROVE  n = m /\ Agree(xs, ys, p, a)
<1>1. PICK f \in Forms(n) : Lies(f, s, from) /\ p[0] = from + Len(f)
  BY DEF TailLaid
<1>2. PICK g \in Forms(m) : Lies(g, s, from) /\ a[0] = from + Len(g)
  BY DEF TailLaid
<1>3. n = m /\ p[0] = a[0]
  <2>1. ReadCompactSize(s, from) = [at |-> from + Len(f), got |-> n]
    BY <1>1, FormGets
  <2>2. ReadCompactSize(s, from) = [at |-> from + Len(g), got |-> m]
    BY <1>2, FormGets
  <2> QED
    BY <1>1, <1>2, <2>1, <2>2
<1> DEFINE Ok(i) == i <= Len(xs) /\ i <= Len(ys) => p[i] = a[i] /\ (i # 0 => xs[i] = ys[i])
           I == {i \in Nat : Ok(i)}
<1>4. 0 \in I
  BY <1>3
<1>5. ASSUME NEW i \in Nat, i \in I PROVE i + 1 \in I
  <2> SUFFICES ASSUME i + 1 <= Len(xs), i + 1 <= Len(ys)
               PROVE  p[i + 1] = a[i + 1] /\ xs[i + 1] = ys[i + 1]
    OBVIOUS
  <2>1. Len(xs) \in Nat /\ Len(ys) \in Nat
    OBVIOUS
  <2>2. i + 1 \in 1 .. Len(xs) /\ i + 1 \in 1 .. Len(ys) /\ (i + 1) - 1 = i
    BY <2>1
  <2>3. p[i] = a[i]
    BY <1>5, <2>1
  <2>4. p[i] \in Nat
    BY <2>1, SMTT(20) DEF TailLaid
  <2>5. OutSpelled(xs[i + 1], s, p[i], p[i + 1]) /\ OutSpelled(ys[i + 1], s, a[i], a[i + 1])
    BY <2>2 DEF TailLaid
  <2>6. xs[i + 1] \in TxOut /\ ys[i + 1] \in TxOut
    BY <2>2
  <2>7. ReadTxOut(s, p[i]) = [at |-> p[i + 1], got |-> xs[i + 1]]
    BY <2>4, <2>5, <2>6, OutGets
  <2>8. ReadTxOut(s, p[i]) = [at |-> a[i + 1], got |-> ys[i + 1]]
    BY <2>3, <2>4, <2>5, <2>6, OutGets
  <2> QED
    BY <2>7, <2>8
<1>6. Nat \subseteq I
  <2> HIDE DEF I
  <2> QED
    BY <1>4, <1>5, SetInduction
<1> QED
  BY <1>3, <1>6 DEF Agree

\* Octets spell one transaction at most.
LEMMA LayoutUnique ==
    ASSUME NEW s \in Seq(Octet), NEW t \in Transaction, NEW u \in Transaction,
           NEW p, NEW q, NEW a, NEW b, Layout(t, s, p, q), Layout(u, s, a, b)
    PROVE  t = u
<1>1. /\ t.version \in SignedInts(W32) /\ t.lock_time \in UnsignedInts(W32)
      /\ t.vin \in Seq(TxIn) /\ Len(t.vin) \in UnsignedInts(W64) /\ Len(t.vin) \in Nat
      /\ t.vout \in Seq(TxOut) /\ Len(t.vout) \in UnsignedInts(W64) /\ Len(t.vout) \in Nat
      /\ t = [version |-> t.version, vin |-> t.vin, vout |-> t.vout, lock_time |-> t.lock_time]
  BY TransactionFields
<1>2. /\ u.version \in SignedInts(W32) /\ u.lock_time \in UnsignedInts(W32)
      /\ u.vin \in Seq(TxIn) /\ Len(u.vin) \in UnsignedInts(W64) /\ Len(u.vin) \in Nat
      /\ u.vout \in Seq(TxOut) /\ Len(u.vout) \in UnsignedInts(W64) /\ Len(u.vout) \in Nat
      /\ u = [version |-> u.version, vin |-> u.vin, vout |-> u.vout, lock_time |-> u.lock_time]
  BY TransactionFields
<1>3. /\ HeadLaid(t.version, Len(t.vin), t.vin, s, p)
      /\ TailLaid(Len(t.vout), t.vout, s, p[Len(t.vin)], q)
      /\ Lies(ToLe(t.lock_time, W32), s, q[Len(t.vout)])
  BY DEF Layout
<1>4. /\ HeadLaid(u.version, Len(u.vin), u.vin, s, a)
      /\ TailLaid(Len(u.vout), u.vout, s, a[Len(u.vin)], b)
      /\ Lies(ToLe(u.lock_time, W32), s, b[Len(u.vout)])
  BY DEF Layout
<1>5. t.version = u.version /\ Len(t.vin) = Len(u.vin) /\ Agree(t.vin, u.vin, p, a)
  BY <1>1, <1>2, <1>3, <1>4, HeadsAgree
<1>6. t.vin = u.vin /\ p[Len(t.vin)] = a[Len(u.vin)] /\ p[Len(t.vin)] \in Nat
  <2>1. \A i \in 1 .. Len(t.vin) : t.vin[i] = u.vin[i]
    BY <1>1, <1>5 DEF Agree
  <2>2. t.vin = u.vin
    BY <1>1, <1>2, <1>5, <2>1, SeqEqual
  <2>3. p[Len(t.vin)] \in Nat
    BY <1>1, <1>3, SMTT(20) DEF HeadLaid
  <2> QED
    BY <1>1, <1>5, <2>2, <2>3 DEF Agree
<1>7. Len(t.vout) = Len(u.vout) /\ Agree(t.vout, u.vout, q, b)
  BY <1>1, <1>2, <1>3, <1>4, <1>6, TailsAgree, ZenonT(30)
<1>8. t.vout = u.vout /\ q[Len(t.vout)] = b[Len(u.vout)] /\ q[Len(t.vout)] \in Nat
  <2>1. \A i \in 1 .. Len(t.vout) : t.vout[i] = u.vout[i]
    BY <1>1, <1>7 DEF Agree
  <2>2. t.vout = u.vout
    BY <1>1, <1>2, <1>7, <2>1, SeqEqual
  <2>3. q[Len(t.vout)] \in Nat
    BY <1>1, <1>3 DEF TailLaid
  <2> QED
    BY <1>1, <1>7, <2>2, <2>3 DEF Agree
<1>9. t.lock_time = u.lock_time
  <2> DEFINE at == q[Len(t.vout)]
  <2>1. W32 \in Nat /\ at \in Nat
    BY <1>8, OctetFacts
  <2>2. Lies(ToLe(t.lock_time, W32), s, at) /\ Lies(ToLe(u.lock_time, W32), s, at)
    BY <1>3, <1>4, <1>8
  <2> HIDE DEF at
  <2>3. /\ ReadUnsigned(s, at, W32) = [at |-> at + W32, got |-> t.lock_time]
        /\ ReadUnsigned(s, at, W32) = [at |-> at + W32, got |-> u.lock_time]
    BY <1>1, <1>2, <2>1, <2>2, UnsignedGets
  <2> QED
    BY <2>3
<1> QED
  BY <1>1, <1>2, <1>5, <1>6, <1>8, <1>9

-----------------------------------------------------------------------------
(* What can arrive.                                                        *)

Digit == 0 .. HexBase - 1

\* Two digits are an octet, and an octet is two digits.
LEMMA DigitPairs ==
    /\ \A x \in Octet : x \div HexBase \in Digit /\ x % HexBase \in Digit
    /\ \A h \in Digit, l \in Digit : h * HexBase + l \in Octet
<1>1. /\ HexBase \in Nat \ {0} /\ Octets = HexBase * HexBase /\ Octets \in Nat
      /\ Octet \subseteq Nat
  BY OctetFacts
<1>2. ASSUME NEW x \in Octet PROVE x \div HexBase \in Digit /\ x % HexBase \in Digit
  <2>1. x \in Nat /\ x < HexBase * HexBase
    BY <1>1 DEF Octet
  <2> DEFINE d == x \div HexBase
             r == x % HexBase
  <2>2. d \in Nat
    BY <1>1, <2>1, DivNat
  <2>3. r \in 0 .. HexBase - 1 /\ x = HexBase * d + r
    <3>1. x \in Int
      BY <2>1
    <3> QED
      BY <1>1, <3>1, DivMod
  <2> HIDE DEF d, r
  <2>4. d < HexBase
    <3> SUFFICES ASSUME d >= HexBase PROVE FALSE
      BY <1>1, <2>2
    <3>1. HexBase * d >= HexBase * HexBase
      <4> DEFINE e == d - HexBase
      <4>1. e \in Nat /\ d = HexBase + e
        BY <1>1, <2>2
      <4> HIDE DEF e
      <4>2. HexBase * (HexBase + e) = HexBase * HexBase + HexBase * e /\ HexBase * e \in Nat
        BY <1>1, <4>1
      <4> QED
        BY <1>1, <4>1, <4>2
    <3> QED
      BY <1>1, <2>1, <2>2, <2>3, <3>1
  <2>5. d \in Digit /\ r \in Digit
    BY <1>1, <2>2, <2>3, <2>4 DEF Digit
  <2> QED
    BY <2>5 DEF d, r
<1>3. ASSUME NEW h \in Digit, NEW l \in Digit PROVE h * HexBase + l \in Octet
  <2>1. h \in Nat /\ l \in Nat /\ h <= HexBase - 1 /\ l <= HexBase - 1
    BY <1>1 DEF Digit
  <2> DEFINE e == (HexBase - 1) - h
  <2>2. e \in Nat /\ HexBase = (h + 1) + e
    BY <1>1, <2>1
  <2> HIDE DEF e
  <2>3. /\ HexBase * HexBase = h * HexBase + HexBase + e * HexBase
        /\ h * HexBase \in Nat /\ e * HexBase \in Nat
    <3>1. ((h + 1) + e) * HexBase = h * HexBase + HexBase + e * HexBase
      BY <1>1, <2>1, <2>2
    <3> QED
      BY <1>1, <2>1, <2>2, <3>1
  <2> QED
    BY <1>1, <2>1, <2>3 DEF Octet
<1> QED
  BY <1>2, <1>3

\* Octets as digits.
LEMMA HexDigits ==
    ASSUME NEW octets \in Seq(Octet)
    PROVE  ToHex(octets) \in Seq(Digit)
<1> DEFINE w == Len(octets)
<1>1. w \in Nat /\ \A i \in 1 .. w : octets[i] \in Octet
  BY SeqFacts
<1>2. ASSUME NEW d \in 1 .. 2 * w
      PROVE  (IF d % 2 = 1 THEN octets[(d + 1) \div 2] \div HexBase
                           ELSE octets[(d + 1) \div 2] % HexBase) \in Digit
  <2>1. (d + 1) \div 2 \in 1 .. w
    BY <1>1
  <2>2. octets[(d + 1) \div 2] \in Octet
    BY <1>1, <2>1
  <2> QED
    BY <2>2, DigitPairs
<1>3. ToHex(octets) = [d \in 1 .. 2 * w |-> IF d % 2 = 1 THEN octets[(d + 1) \div 2] \div HexBase
                                            ELSE octets[(d + 1) \div 2] % HexBase]
  BY DEF ToHex
<1>4. ToHex(octets) \in [1 .. 2 * w -> Digit]
  BY <1>2, <1>3
<1> HIDE DEF w
<1> QED
  BY <1>1, <1>4

\* Digits as octets.
LEMMA HexOctets ==
    ASSUME NEW text \in Seq(Digit), FromHex(text) # Malformed
    PROVE  FromHex(text) \in Seq(Octet)
<1> DEFINE n == Len(text) \div 2
<1>1. Len(text) \in Nat /\ Len(text) % 2 = 0 /\ \A d \in 1 .. Len(text) : text[d] \in Digit
  BY DEF FromHex
<1>2. n \in Nat /\ Len(text) = 2 * n
  BY <1>1
<1>3. FromHex(text) = [i \in 1 .. n |-> text[2 * i - 1] * HexBase + text[2 * i]]
  BY <1>1 DEF FromHex
<1> HIDE DEF n
<1>4. ASSUME NEW i \in 1 .. n PROVE text[2 * i - 1] * HexBase + text[2 * i] \in Octet
  <2>1. 2 * i - 1 \in 1 .. Len(text) /\ 2 * i \in 1 .. Len(text)
    BY <1>2
  <2>2. text[2 * i - 1] \in Digit /\ text[2 * i] \in Digit
    BY <1>1, <2>1
  <2> QED
    BY <2>2, DigitPairs
<1> QED
  BY <1>2, <1>3, <1>4

\* Digits cut, lengthened, changed or left out on the way are digits.
LEMMA ChangedDigits ==
    ASSUME NEW sent \in Seq(Digit)
    PROVE  /\ Cut(sent) \subseteq Seq(Digit) /\ Longer(sent) \subseteq Seq(Digit)
           /\ Flipped(sent) \subseteq Seq(Digit) /\ Dropped(sent) \subseteq Seq(Digit)
<1>1. HexBase \in Nat \ {0, 1} /\ Len(sent) \in Nat
  BY OctetFacts
<1>2. 0 \in Digit /\ 1 \in Digit
  BY <1>1 DEF Digit
<1>3. Cut(sent) \subseteq Seq(Digit)
  <2>1. ASSUME NEW k \in 0 .. Len(sent) - 1 PROVE SubSeq(sent, 1, k) \in Seq(Digit)
    BY <1>1
  <2> QED
    BY <2>1 DEF Cut
<1>4. Longer(sent) \subseteq Seq(Digit)
  <2> DEFINE extra == {<<0>>, <<0, 0>>, <<1, 1>>}
  <2>1. extra \subseteq Seq(Digit)
    BY <1>2
  <2>2. Longer(sent) = {sent \o more : more \in extra}
    BY DEF Longer
  <2> HIDE DEF extra
  <2>3. ASSUME NEW more \in extra PROVE sent \o more \in Seq(Digit)
    <3>1. more \in Seq(Digit)
      BY <2>1
    <3> HIDE DEF Digit
    <3> QED
      BY <3>1, ConcatFacts
  <2> QED
    BY <2>2, <2>3
<1>5. Flipped(sent) \subseteq Seq(Digit)
  <2>1. ASSUME NEW k \in DOMAIN sent PROVE [sent EXCEPT ![k] = (sent[k] + 1) % HexBase] \in Seq(Digit)
    <3> DEFINE x == (sent[k] + 1) % HexBase
    <3>1. sent[k] \in Digit
      OBVIOUS
    <3>2. x \in Digit
      BY <1>1, <3>1 DEF Digit
    <3> HIDE DEF x
    <3>3. [sent EXCEPT ![k] = x] \in [1 .. Len(sent) -> Digit]
      <4>1. sent \in [1 .. Len(sent) -> Digit] /\ k \in 1 .. Len(sent)
        OBVIOUS
      <4> QED
        BY <3>2, <4>1
    <3>4. [sent EXCEPT ![k] = x] \in Seq(Digit)
      BY <1>1, <3>3
    <3> QED
      BY <3>4 DEF x
  <2> QED
    BY <2>1 DEF Flipped
<1>6. Dropped(sent) \subseteq Seq(Digit)
  <2>1. ASSUME NEW k \in 1 .. Len(sent) - 1
        PROVE  SubSeq(sent, 1, k - 1) \o SubSeq(sent, k + 2, Len(sent)) \in Seq(Digit)
    <3>1. SubSeq(sent, 1, k - 1) \in Seq(Digit)
      BY <1>1
    <3>2. SubSeq(sent, k + 2, Len(sent)) \in Seq(Digit)
      BY <1>1
    <3> QED
      BY <3>1, <3>2
  <2> QED
    BY <2>1 DEF Dropped
<1> QED
  BY <1>3, <1>4, <1>5, <1>6

-----------------------------------------------------------------------------
(* A transaction as fields.                                                *)

Field == [bytes : Seq(Octet), length : {FALSE}]
            \cup [bytes : Seq(Octet), length : {TRUE}, n : UnsignedInts(W64)]

\* Octets and lengths as fields.
LEMMA FieldTypes ==
    /\ \A o \in Seq(Octet) : Bytes(o) \in Field /\ Spellings(Bytes(o)) = {o}
    /\ \A n \in UnsignedInts(W64) : Size(n) \in Field /\ Spellings(Size(n)) = Forms(n)
    /\ \A f \in Field : /\ f.bytes \in Seq(Octet) /\ Spellings(f) \subseteq Seq(Octet)
                        /\ f.length => f.n \in UnsignedInts(W64)
<1>1. ASSUME NEW o \in Seq(Octet) PROVE Bytes(o) \in Field /\ Spellings(Bytes(o)) = {o}
  BY DEF Bytes, Field, Spellings
<1>2. ASSUME NEW n \in UnsignedInts(W64)
      PROVE  Size(n) \in Field /\ Spellings(Size(n)) = Forms(n)
  <2>1. WriteCompactSize(n) \in Seq(Octet)
    BY ShortestForm, FormType
  <2> QED
    BY <2>1 DEF Size, Field, Spellings
<1>3. ASSUME NEW f \in Field
      PROVE  /\ f.bytes \in Seq(Octet) /\ Spellings(f) \subseteq Seq(Octet)
             /\ f.length => f.n \in UnsignedInts(W64)
  <2>1. CASE f \in [bytes : Seq(Octet), length : {FALSE}]
    BY <2>1 DEF Spellings
  <2>2. CASE f \in [bytes : Seq(Octet), length : {TRUE}, n : UnsignedInts(W64)]
    <3>1. f.bytes \in Seq(Octet) /\ f.length = TRUE /\ f.n \in UnsignedInts(W64)
      BY <2>2
    <3>2. Forms(f.n) \subseteq Seq(Octet)
      BY <3>1, FormType
    <3> QED
      BY <3>1, <3>2 DEF Spellings
  <2> QED
    BY <2>1, <2>2 DEF Field
<1> QED
  BY <1>1, <1>2, <1>3

\* An input's fields.
LEMMA InTypes ==
    ASSUME NEW x \in TxIn
    PROVE  /\ x.prevout.hash \in Seq(Octet) /\ Len(x.prevout.hash) = HashLen
           /\ ToLe(x.prevout.n, W32) \in Seq(Octet) /\ Len(ToLe(x.prevout.n, W32)) = W32
           /\ Len(x.script_sig) \in UnsignedInts(W64) /\ x.script_sig \in Seq(Octet)
           /\ ToLe(x.sequence, W32) \in Seq(Octet) /\ Len(ToLe(x.sequence, W32)) = W32
           /\ InFields(x) \in Seq(Field)
<1>1. HashLen \in Nat /\ W32 \in Nat /\ UnsignedInts(W32) \subseteq Int
  BY OctetFacts, OctetPowers DEF UnsignedInts
<1>2. /\ x.prevout.hash \in [1 .. HashLen -> Octet] /\ x.prevout.n \in UnsignedInts(W32)
      /\ x.script_sig \in Script /\ x.sequence \in UnsignedInts(W32)
  BY DEF TxIn
<1>3. x.prevout.hash \in Seq(Octet) /\ Len(x.prevout.hash) = HashLen
  BY <1>1, <1>2
<1>4. x.prevout.n \in Int /\ x.sequence \in Int
  BY <1>1, <1>2
<1>5. /\ ToLe(x.prevout.n, W32) \in Seq(Octet) /\ Len(ToLe(x.prevout.n, W32)) = W32
      /\ ToLe(x.sequence, W32) \in Seq(Octet) /\ Len(ToLe(x.sequence, W32)) = W32
  BY <1>1, <1>4, ToLeOctets
<1>6. Len(x.script_sig) \in UnsignedInts(W64) /\ x.script_sig \in Seq(Octet)
  <2>1. x.script_sig \in Seq(Octet) /\ Len(x.script_sig) < Power(Octets, UsizeOctets)
    BY <1>2 DEF Script, Vec
  <2>2. Len(x.script_sig) \in Nat
    BY <2>1
  <2> QED
    BY <2>1, <2>2, UsizeFits
<1>7. /\ Bytes(x.prevout.hash) \in Field /\ Bytes(ToLe(x.prevout.n, W32)) \in Field
      /\ Size(Len(x.script_sig)) \in Field /\ Bytes(x.script_sig) \in Field
      /\ Bytes(ToLe(x.sequence, W32)) \in Field
  BY <1>3, <1>5, <1>6, FieldTypes
<1>8. InFields(x) \in Seq(Field)
  <2>1. \A f1 \in Field, f2 \in Field, f3 \in Field, f4 \in Field, f5 \in Field :
           <<f1, f2, f3, f4, f5>> \in Seq(Field)
    OBVIOUS
  <2> QED
    BY <1>7, <2>1 DEF InFields
<1> QED
  BY <1>3, <1>5, <1>6, <1>8

\* An output's fields.
LEMMA OutTypes ==
    ASSUME NEW x \in TxOut
    PROVE  /\ ToLe(x.value, W64) \in Seq(Octet) /\ Len(ToLe(x.value, W64)) = W64
           /\ Len(x.script_pubkey) \in UnsignedInts(W64) /\ x.script_pubkey \in Seq(Octet)
           /\ OutFields(x) \in Seq(Field)
<1>1. W64 \in Nat /\ SignedInts(W64) \subseteq Int
  BY OctetFacts DEF SignedInts
<1>2. x.value \in SignedInts(W64) /\ x.script_pubkey \in Script
  BY DEF TxOut
<1>3. x.value \in Int
  BY <1>1, <1>2
<1>4. ToLe(x.value, W64) \in Seq(Octet) /\ Len(ToLe(x.value, W64)) = W64
  BY <1>1, <1>3, ToLeOctets
<1>5. Len(x.script_pubkey) \in UnsignedInts(W64) /\ x.script_pubkey \in Seq(Octet)
  <2>1. x.script_pubkey \in Seq(Octet) /\ Len(x.script_pubkey) < Power(Octets, UsizeOctets)
    BY <1>2 DEF Script, Vec
  <2>2. Len(x.script_pubkey) \in Nat
    BY <2>1
  <2> QED
    BY <2>1, <2>2, UsizeFits
<1>6. /\ Bytes(ToLe(x.value, W64)) \in Field /\ Size(Len(x.script_pubkey)) \in Field
      /\ Bytes(x.script_pubkey) \in Field
  BY <1>4, <1>5, FieldTypes
<1>7. OutFields(x) \in Seq(Field)
  <2>1. \A f1 \in Field, f2 \in Field, f3 \in Field : <<f1, f2, f3>> \in Seq(Field)
    OBVIOUS
  <2> QED
    BY <1>6, <2>1 DEF OutFields
<1> QED
  BY <1>4, <1>5, <1>7

\* A transaction's fields, part by part.
LEMMA FieldParts ==
    ASSUME NEW t \in Transaction
    PROVE  LET ins == [i \in DOMAIN t.vin |-> InFields(t.vin[i])]
               outs == [i \in DOMAIN t.vout |-> OutFields(t.vout[i])]
           IN  /\ ins \in Seq(Seq(Field)) /\ Len(ins) = Len(t.vin)
               /\ outs \in Seq(Seq(Field)) /\ Len(outs) = Len(t.vout)
               /\ FlattenSeq(ins) \in Seq(Field) /\ FlattenSeq(outs) \in Seq(Field)
               /\ Bytes(ToLe(t.version, W32)) \in Field /\ Size(Len(t.vin)) \in Field
               /\ Size(Len(t.vout)) \in Field /\ Bytes(ToLe(t.lock_time, W32)) \in Field
               /\ Fields(t) \in Seq(Field)
<1> DEFINE ins == [i \in DOMAIN t.vin |-> InFields(t.vin[i])]
           outs == [i \in DOMAIN t.vout |-> OutFields(t.vout[i])]
<1>1. /\ t.version \in Int /\ t.lock_time \in Int
      /\ t.vin \in Seq(TxIn) /\ Len(t.vin) \in UnsignedInts(W64) /\ Len(t.vin) \in Nat
      /\ t.vout \in Seq(TxOut) /\ Len(t.vout) \in UnsignedInts(W64) /\ Len(t.vout) \in Nat
  BY TransactionFields
<1>2. ins \in Seq(Seq(Field)) /\ Len(ins) = Len(t.vin)
  <2>1. ins \in [1 .. Len(t.vin) -> Seq(Field)]
    BY <1>1, InTypes
  <2> HIDE DEF ins
  <2> QED
    BY <1>1, <2>1
<1>3. outs \in Seq(Seq(Field)) /\ Len(outs) = Len(t.vout)
  <2>1. outs \in [1 .. Len(t.vout) -> Seq(Field)]
    BY <1>1, OutTypes
  <2> HIDE DEF outs
  <2> QED
    BY <1>1, <2>1
<1>4. FlattenSeq(ins) \in Seq(Field) /\ FlattenSeq(outs) \in Seq(Field)
  <2> HIDE DEF ins, outs
  <2> QED
    BY <1>2, <1>3, FlattenPlaces
<1>5. /\ Bytes(ToLe(t.version, W32)) \in Field /\ Size(Len(t.vin)) \in Field
      /\ Size(Len(t.vout)) \in Field /\ Bytes(ToLe(t.lock_time, W32)) \in Field
  <2>1. W32 \in Nat
    BY OctetFacts
  <2>2. ToLe(t.version, W32) \in Seq(Octet) /\ ToLe(t.lock_time, W32) \in Seq(Octet)
    BY <1>1, <2>1, ToLeOctets
  <2> QED
    BY <1>1, <2>2, FieldTypes
<1>6. Fields(t) \in Seq(Field)
  <2> DEFINE a == <<Bytes(ToLe(t.version, W32)), Size(Len(t.vin))>>
             b == <<Size(Len(t.vout))>>
             c == <<Bytes(ToLe(t.lock_time, W32))>>
             is == FlattenSeq(ins)
             os == FlattenSeq(outs)
  <2>1. a \in Seq(Field) /\ b \in Seq(Field) /\ c \in Seq(Field)
    BY <1>5
  <2>2. Fields(t) = a \o is \o b \o os \o c
    BY DEF Fields
  <2>3. is \in Seq(Field) /\ os \in Seq(Field)
    BY <1>4
  <2> HIDE DEF a, b, c, is, os
  <2> QED
    BY <2>1, <2>2, <2>3
<1> QED
  BY <1>2, <1>3, <1>4, <1>5, <1>6

\* However large the number, its forms are octets.
LEMMA FormOctets ==
    ASSUME NEW n \in Nat
    PROVE  Forms(n) \subseteq Seq(Octet)
<1>1. W16 \in Nat /\ W32 \in Nat /\ W64 \in Nat /\ n \in Int
  BY OctetFacts
<1>2. ASSUME NEW mark \in Octet, NEW w \in Nat PROVE <<mark>> \o ToLe(n, w) \in Seq(Octet)
  <2>1. <<mark>> \in Seq(Octet) /\ ToLe(n, w) \in Seq(Octet)
    BY <1>1, ToLeOctets
  <2> QED
    BY <2>1, ConcatFacts
<1>3. n < Mark16 => <<n>> \in Seq(Octet)
  BY MarkFacts
<1>4. /\ <<Mark16>> \o ToLe(n, W16) \in Seq(Octet) /\ <<Mark32>> \o ToLe(n, W32) \in Seq(Octet)
      /\ <<Mark64>> \o ToLe(n, W64) \in Seq(Octet)
  BY <1>1, <1>2, MarkFacts
<1> QED
  BY <1>3, <1>4 DEF Forms

\* Fields written with one of them in another form are digits.
LEMMA ReframedDigits ==
    ASSUME NEW t \in Transaction
    PROVE  Reframed(t) \subseteq Seq(Digit)
<1> DEFINE fields == Fields(t)
           Framed(i, form) == [j \in DOMAIN fields |-> IF j = i THEN form ELSE fields[j].bytes]
           Write(i, form) == ToHex(FlattenSeq(Framed(i, form)))
           Larger(n) == {n + k * Power(Octets, UsizeOctets) :
                            k \in 0 .. Power(Octets, W64 - UsizeOctets) - 1}
<1>1. fields \in Seq(Field)
  BY FieldParts
<1>2. ASSUME NEW i, NEW form \in Seq(Octet) PROVE Write(i, form) \in Seq(Digit)
  <2> DEFINE w == Framed(i, form)
  <2>1. Len(fields) \in Nat /\ DOMAIN fields = 1 .. Len(fields)
        /\ \A j \in 1 .. Len(fields) : fields[j] \in Field
    BY <1>1
  <2>2. \A j \in 1 .. Len(fields) : fields[j].bytes \in Seq(Octet)
    BY <2>1, FieldTypes
  <2> HIDE DEF fields
  <2>3. w \in [1 .. Len(fields) -> Seq(Octet)]
    BY <2>1, <2>2
  <2> HIDE DEF w
  <2>4. w \in Seq(Seq(Octet))
    BY <2>1, <2>3
  <2>5. FlattenSeq(w) \in Seq(Octet)
    BY <2>4, FlattenPlaces
  <2>6. ToHex(FlattenSeq(w)) \in Seq(Digit)
    BY <2>5, HexDigits
  <2> QED
    BY <2>6 DEF w
<1>3. ASSUME NEW i \in DOMAIN fields, fields[i].length, NEW n \in Larger(fields[i].n)
      PROVE  Forms(n) \subseteq Seq(Octet)
  <2>1. fields[i] \in Field
    BY <1>1
  <2>2. fields[i].n \in UnsignedInts(W64)
    BY <1>3, <2>1, FieldTypes
  <2>3. fields[i].n \in Nat
    BY <2>2, OctetFacts, OctetPowers DEF UnsignedInts
  <2>4. PICK k \in 0 .. Power(Octets, W64 - UsizeOctets) - 1 :
           n = fields[i].n + k * Power(Octets, UsizeOctets)
    BY <1>3
  <2>5. k \in Nat /\ Power(Octets, UsizeOctets) \in Nat
    BY <2>4, UsizeFits
  <2>6. k * Power(Octets, UsizeOctets) \in Nat
    BY <2>5
  <2>7. n \in Nat
    BY <2>3, <2>4, <2>6
  <2> QED
    BY <2>7, FormOctets
<1>4. Reframed(t) = UNION {{Write(i, form) : form \in UNION {Forms(n) : n \in Larger(fields[i].n)}} :
                              i \in {j \in DOMAIN fields : fields[j].length}}
  BY DEF Reframed
<1> HIDE DEF fields, Write, Larger
<1> QED
  BY <1>2, <1>3, <1>4

\* What is sent comes back when nothing changed it, and what arrives changed is
\* octets or refused.
LEMMA Arrives ==
    ASSUME NEW t \in Transaction
    PROVE  LET sent == ToHex(Serialize(t))
           IN  /\ FromHex(sent) = Serialize(t)
               /\ \A text \in {sent} \cup Cut(sent) \cup Longer(sent) \cup Flipped(sent)
                                     \cup Dropped(sent) \cup Reframed(t) :
                     FromHex(text) # Malformed => FromHex(text) \in Seq(Octet)
<1> DEFINE sent == ToHex(Serialize(t))
<1>1. Serialize(t) \in Seq(Octet)
  BY SerializeLaid
<1>2. FromHex(sent) = Serialize(t) /\ sent \in Seq(Digit)
  BY <1>1, HexPairs, HexDigits
<1>3. Reframed(t) \subseteq Seq(Digit)
  BY ReframedDigits
<1> HIDE DEF sent
<1>4. /\ Cut(sent) \subseteq Seq(Digit) /\ Longer(sent) \subseteq Seq(Digit)
      /\ Flipped(sent) \subseteq Seq(Digit) /\ Dropped(sent) \subseteq Seq(Digit)
  BY <1>2, ChangedDigits
<1>5. \A text \in Seq(Digit) : FromHex(text) # Malformed => FromHex(text) \in Seq(Octet)
  BY HexOctets
<1> QED
  BY <1>2, <1>3, <1>4, <1>5 DEF sent

-----------------------------------------------------------------------------
(* Fields one after the other.                                             *)

\* The fields fs from `from` to `end`, each in one of its spellings; r[i]: where the
\* first i of them end.
Ends(r, fs, s) ==
    /\ r \in [0 .. Len(fs) -> Nat]
    /\ \A i \in 1 .. Len(fs) : \E o \in Spellings(fs[i]) :
          Lies(o, s, r[i - 1]) /\ r[i] = r[i - 1] + Len(o)
Spelled(fs, s, from, end) == \E r : Ends(r, fs, s) /\ r[0] = from /\ r[Len(fs)] = end

\* One field.
LEMMA SpelledOne ==
    ASSUME NEW f \in Field, NEW s, NEW from \in Nat, NEW o \in Spellings(f), Lies(o, s, from)
    PROVE  Spelled(<<f>>, s, from, from + Len(o))
<1> DEFINE end == from + Len(o)
           fs == <<f>>
           r == [i \in 0 .. 1 |-> IF i = 0 THEN from ELSE end]
<1>1. end \in Nat
  <2>1. o \in Seq(Octet)
    BY FieldTypes
  <2>2. Len(o) \in Nat
    BY <2>1
  <2> QED
    BY <2>2
<1>2. Len(fs) = 1 /\ fs[1] = f
  OBVIOUS
<1>3. r \in [0 .. 1 -> Nat] /\ r[0] = from /\ r[1] = end
  <2> HIDE DEF end
  <2> QED
    BY <1>1
<1> HIDE DEF r, fs
<1>4. ASSUME NEW i \in 1 .. Len(fs)
      PROVE  \E oo \in Spellings(fs[i]) : Lies(oo, s, r[i - 1]) /\ r[i] = r[i - 1] + Len(oo)
  <2>1. i = 1 /\ i - 1 = 0
    BY <1>2
  <2>2. r[i] = r[i - 1] + Len(o) /\ Lies(o, s, r[i - 1]) /\ o \in Spellings(fs[i])
    BY <1>2, <1>3, <2>1
  <2> QED
    BY <2>2
<1>5. Ends(r, fs, s)
  BY <1>2, <1>3, <1>4 DEF Ends
<1>6. Spelled(fs, s, from, end)
  <2> HIDE DEF end
  <2> QED
    BY <1>2, <1>3, <1>5 DEF Spelled
<1> QED
  BY <1>6 DEF fs

\* Fields behind fields.
LEMMA SpelledConcat ==
    ASSUME NEW a \in Seq(Field), NEW b \in Seq(Field), NEW s, NEW from, NEW mid, NEW end,
           Spelled(a, s, from, mid), Spelled(b, s, mid, end)
    PROVE  Spelled(a \o b, s, from, end)
<1> DEFINE m == Len(a)
           n == Len(b)
           fs == a \o b
<1>1. m \in Nat /\ n \in Nat
  OBVIOUS
<1>2. Len(fs) = m + n /\ \A i \in 1 .. m + n : fs[i] = IF i <= m THEN a[i] ELSE b[i - m]
  BY ConcatFacts
<1>3. PICK p : Ends(p, a, s) /\ p[0] = from /\ p[m] = mid
  BY DEF Spelled
<1>4. PICK q : Ends(q, b, s) /\ q[0] = mid /\ q[n] = end
  BY DEF Spelled
<1>5. p \in [0 .. m -> Nat] /\ q \in [0 .. n -> Nat]
  BY <1>3, <1>4 DEF Ends
<1> DEFINE r == [i \in 0 .. m + n |-> IF i <= m THEN p[i] ELSE q[i - m]]
<1>6. /\ r \in [0 .. m + n -> Nat]
      /\ \A i \in 0 .. m : r[i] = p[i]
      /\ \A i \in 0 .. n : r[m + i] = q[i]
  <2>1. \A i \in 0 .. m + n : r[i] = IF i <= m THEN p[i] ELSE q[i - m]
    OBVIOUS
  <2>2. ASSUME NEW i \in 0 .. m + n PROVE (IF i <= m THEN p[i] ELSE q[i - m]) \in Nat
    <3>1. CASE i <= m
      <4>1. i \in 0 .. m
        BY <1>1, <3>1
      <4> QED
        BY <1>5, <3>1, <4>1
    <3>2. CASE ~(i <= m)
      <4>1. i - m \in 0 .. n
        BY <1>1, <3>2
      <4> QED
        BY <1>5, <3>2, <4>1
    <3> QED
      BY <3>1, <3>2
  <2>3. r \in [0 .. m + n -> Nat]
    BY <2>2
  <2> HIDE DEF r, m, n
  <2>4. \A i \in 0 .. m : i \in 0 .. m + n /\ i <= m
    BY <1>1
  <2>5. ASSUME NEW i \in 0 .. n PROVE r[m + i] = q[i]
    <3>1. m + i \in 0 .. m + n /\ (m + i) - m = i /\ (m + i <= m => i = 0) /\ (i = 0 => m + i = m)
      BY <1>1
    <3>2. CASE i = 0
      <4>1. r[m + i] = p[m]
        BY <1>1, <2>1, <3>1, <3>2
      <4> QED
        BY <1>3, <1>4, <3>2, <4>1
    <3>3. CASE i # 0
      BY <2>1, <3>1, <3>3
    <3> QED
      BY <3>2, <3>3
  <2> QED
    BY <2>1, <2>3, <2>4, <2>5
<1> HIDE DEF r, m, n, fs
<1>7. ASSUME NEW i \in 1 .. m + n
      PROVE  \E o \in Spellings(fs[i]) : Lies(o, s, r[i - 1]) /\ r[i] = r[i - 1] + Len(o)
  <2>1. CASE i <= m
    <3>1. i \in 1 .. m /\ i \in 0 .. m /\ i - 1 \in 0 .. m
      BY <1>1, <2>1
    <3>2. PICK o \in Spellings(a[i]) : Lies(o, s, p[i - 1]) /\ p[i] = p[i - 1] + Len(o)
      BY <1>3, <3>1 DEF Ends, m
    <3> QED
      BY <1>2, <1>6, <2>1, <3>1, <3>2
  <2>2. CASE ~(i <= m)
    <3> DEFINE k == i - m
    <3>1. k \in 1 .. n /\ k \in 0 .. n /\ k - 1 \in 0 .. n /\ i = m + k /\ i - 1 = m + (k - 1)
      BY <1>1, <2>2
    <3>2. fs[i] = b[k]
      BY <1>2, <2>2
    <3> HIDE DEF k
    <3>3. PICK o \in Spellings(b[k]) : Lies(o, s, q[k - 1]) /\ q[k] = q[k - 1] + Len(o)
      BY <1>4, <3>1 DEF Ends, n
    <3>4. r[i] = q[k] /\ r[i - 1] = q[k - 1]
      BY <1>6, <3>1
    <3> QED
      BY <3>2, <3>3, <3>4
  <2> QED
    BY <2>1, <2>2
<1>8. Ends(r, fs, s)
  BY <1>2, <1>6, <1>7 DEF Ends
<1>9. r[0] = from /\ r[m + n] = end
  <2>1. 0 \in 0 .. m /\ n \in 0 .. n
    BY <1>1
  <2> QED
    BY <1>3, <1>4, <1>6, <2>1
<1>10. Spelled(fs, s, from, end)
  BY <1>2, <1>8, <1>9 DEF Spelled
<1> QED
  BY <1>10 DEF fs

\* Several lists of fields, each where the one before it ends.
LEMMA SpelledFlatten ==
    ASSUME NEW gs \in Seq(Seq(Field)), NEW s, NEW p \in [0 .. Len(gs) -> Nat],
           \A i \in 1 .. Len(gs) : Spelled(gs[i], s, p[i - 1], p[i])
    PROVE  Spelled(FlattenSeq(gs), s, p[0], p[Len(gs)])
<1> DEFINE n == Len(gs)
<1>1. n \in Nat /\ \A i \in 1 .. n : gs[i] \in Seq(Field)
  BY SeqFacts
<1>2. PICK g : IsFlat(g, gs, Field) /\ FlattenSeq(gs) = g[n]
  BY FlattenSteps
<1>3. /\ g \in [0 .. n -> Seq(Field)] /\ g[0] = <<>>
      /\ \A i \in 1 .. n : g[i] = g[i - 1] \o gs[i]
  BY <1>2 DEF IsFlat
<1> DEFINE I == {i \in Nat : i <= n => Spelled(g[i], s, p[0], p[i])}
<1>4. 0 \in I
  <2> DEFINE r == [i \in 0 .. 0 |-> p[0]]
  <2>1. r \in [0 .. 0 -> Nat] /\ r[0] = p[0]
    BY <1>1
  <2> HIDE DEF r
  <2>2. Len(<<>>) = 0 /\ \A i \in 1 .. 0 : FALSE
    OBVIOUS
  <2>3. Ends(r, <<>>, s)
    BY <2>1, <2>2 DEF Ends
  <2>4. Spelled(<<>>, s, p[0], p[0])
    BY <2>1, <2>2, <2>3 DEF Spelled
  <2> QED
    BY <1>3, <2>4
<1>5. ASSUME NEW i \in Nat, i \in I PROVE i + 1 \in I
  <2> SUFFICES ASSUME i + 1 <= n PROVE Spelled(g[i + 1], s, p[0], p[i + 1])
    OBVIOUS
  <2>1. i \in 0 .. n /\ i + 1 \in 1 .. n /\ (i + 1) - 1 = i
    BY <1>1
  <2>2. Spelled(g[i], s, p[0], p[i])
    BY <1>1, <1>5, <2>1
  <2>3. Spelled(gs[i + 1], s, p[i], p[i + 1])
    BY <2>1
  <2>4. g[i] \in Seq(Field) /\ gs[i + 1] \in Seq(Field) /\ g[i + 1] = g[i] \o gs[i + 1]
    BY <1>1, <1>3, <2>1
  <2> QED
    BY <2>2, <2>3, <2>4, SpelledConcat
<1>6. Nat \subseteq I
  <2> HIDE DEF I
  <2> QED
    BY <1>4, <1>5, SetInduction
<1>7. Spelled(g[n], s, p[0], p[n])
  BY <1>1, <1>6
<1> QED
  BY <1>2, <1>7

\* One more element at the end.
LEMMA OneMore ==
    ASSUME NEW S, NEW s \in Seq(S), NEW e \in S, NEW t \in Seq(S), Len(t) = Len(s) + 1,
           t[Len(s) + 1] = e, \A i \in 1 .. Len(s) : t[i] = s[i]
    PROVE  s \o <<e>> = t
<1> DEFINE o == <<e>>
<1>1. o \in Seq(S) /\ Len(o) = 1 /\ o[1] = e /\ Len(s) \in Nat
  OBVIOUS
<1> HIDE DEF o
<1>2. /\ s \o o \in Seq(S) /\ Len(s \o o) = Len(s) + 1
      /\ \A i \in 1 .. Len(s) + 1 : (s \o o)[i] = IF i <= Len(s) THEN s[i] ELSE o[i - Len(s)]
  <2>1. /\ s \o o \in Seq(S) /\ Len(s \o o) = Len(s) + Len(o)
        /\ \A i \in 1 .. Len(s) + Len(o) :
              (s \o o)[i] = IF i <= Len(s) THEN s[i] ELSE o[i - Len(s)]
    BY <1>1, ConcatFacts
  <2> QED
    BY <1>1, <2>1
<1>3. \A i \in 1 .. Len(s) + 1 : (s \o o)[i] = t[i]
  <2>1. ASSUME NEW i \in 1 .. Len(s) + 1 PROVE (s \o o)[i] = t[i]
    <3>1. CASE i <= Len(s)
      <4>1. i \in 1 .. Len(s)
        BY <1>1, <3>1
      <4> QED
        BY <1>2, <3>1, <4>1
    <3>2. CASE ~(i <= Len(s))
      <4>1. i = Len(s) + 1 /\ i - Len(s) = 1
        BY <1>1, <3>2
      <4> QED
        BY <1>1, <1>2, <3>2, <4>1
    <3> QED
      BY <3>1, <3>2
  <2> QED
    BY <2>1
<1>4. s \o o = t
  BY <1>2, <1>3, SeqEqual
<1> QED
  BY <1>4 DEF o

\* Tuples, element by element.
LEMMA TupleGrows ==
    ASSUME NEW S, NEW a \in S, NEW b \in S, NEW c \in S, NEW d \in S, NEW e \in S
    PROVE  /\ <<a>> \o <<b>> = <<a, b>> /\ <<a, b>> \o <<c>> = <<a, b, c>>
           /\ <<a, b, c>> \o <<d>> = <<a, b, c, d>>
           /\ <<a, b, c, d>> \o <<e>> = <<a, b, c, d, e>>
<1> DEFINE t1 == <<a>>
           t2 == <<a, b>>
           t3 == <<a, b, c>>
           t4 == <<a, b, c, d>>
           t5 == <<a, b, c, d, e>>
<1>1. t1 \in Seq(S) /\ Len(t1) = 1 /\ t1[1] = a
  OBVIOUS
<1>2. t2 \in Seq(S) /\ Len(t2) = 2 /\ t2[1] = a /\ t2[2] = b
  OBVIOUS
<1>3. t3 \in Seq(S) /\ Len(t3) = 3 /\ t3[1] = a /\ t3[2] = b /\ t3[3] = c
  OBVIOUS
<1>4. t4 \in Seq(S) /\ Len(t4) = 4 /\ t4[1] = a /\ t4[2] = b /\ t4[3] = c /\ t4[4] = d
  OBVIOUS
<1>5. t5 \in Seq(S) /\ Len(t5) = 5 /\ t5[1] = a /\ t5[2] = b /\ t5[3] = c /\ t5[4] = d /\ t5[5] = e
  OBVIOUS
<1> HIDE DEF t1, t2, t3, t4, t5
<1>6. t1 \o <<b>> = t2
  <2>1. \A i \in 1 .. 1 : t2[i] = t1[i]
    BY <1>1, <1>2
  <2>2. Len(t1) + 1 = 2 /\ b \in S
    BY <1>1
  <2> QED
    BY <1>1, <1>2, <2>1, <2>2, OneMore
<1>7. t2 \o <<c>> = t3
  <2>1. \A i \in 1 .. 2 : t3[i] = t2[i]
    BY <1>2, <1>3
  <2>2. Len(t2) + 1 = 3 /\ c \in S
    BY <1>2
  <2> QED
    BY <1>2, <1>3, <2>1, <2>2, OneMore
<1>8. t3 \o <<d>> = t4
  <2>1. \A i \in 1 .. 3 : t4[i] = t3[i]
    BY <1>3, <1>4
  <2>2. Len(t3) + 1 = 4 /\ d \in S
    BY <1>3
  <2> QED
    BY <1>3, <1>4, <2>1, <2>2, OneMore, ZenonT(30)
<1>9. t4 \o <<e>> = t5
  <2>1. \A i \in 1 .. 4 : t5[i] = t4[i]
    BY <1>4, <1>5
  <2>2. Len(t4) + 1 = 5 /\ e \in S
    BY <1>4
  <2> QED
    BY <1>4, <1>5, <2>1, <2>2, OneMore, ZenonT(30)
<1> QED
  BY <1>6, <1>7, <1>8, <1>9 DEF t1, t2, t3, t4, t5

\* An input lies as its fields do.
LEMMA InLies ==
    ASSUME NEW s \in Seq(Octet), NEW at \in Nat, NEW x \in TxIn, NEW end, InSpelled(x, s, at, end)
    PROVE  Spelled(InFields(x), s, at, end)
<1> DEFINE hash == x.prevout.hash
           n == ToLe(x.prevout.n, W32)
           sig == x.script_sig
           seq == ToLe(x.sequence, W32)
           a == at + HashLen
           b == a + W32
<1>1. /\ hash \in Seq(Octet) /\ Len(hash) = HashLen /\ n \in Seq(Octet) /\ Len(n) = W32
      /\ Len(sig) \in UnsignedInts(W64) /\ sig \in Seq(Octet)
      /\ seq \in Seq(Octet) /\ Len(seq) = W32
  BY InTypes
<1>2. PICK mid \in Nat :
        /\ Lies(hash, s, at) /\ Lies(n, s, a) /\ VarSpelled(sig, s, b, mid)
        /\ Lies(seq, s, mid) /\ end = mid + W32
  BY DEF InSpelled
<1> DEFINE f1 == Bytes(hash)
           f2 == Bytes(n)
           f3 == Size(Len(sig))
           f4 == Bytes(sig)
           f5 == Bytes(seq)
<1>3. InFields(x) = <<f1, f2, f3, f4, f5>>
  BY DEF InFields
<1>4. a \in Nat /\ b \in Nat
  BY OctetFacts
<1> HIDE DEF hash, n, sig, seq, b
<1>5. PICK f \in Forms(Len(sig)) :
         Lies(f, s, b) /\ Lies(sig, s, b + Len(f)) /\ mid = (b + Len(f)) + Len(sig)
  BY <1>2 DEF VarSpelled
<1>6. Len(f) \in Nat /\ Len(sig) \in Nat
  <2>1. Len(f) \in Nat
    BY <1>1, FormType
  <2> QED
    BY <1>1, <2>1
<1>7. /\ f1 \in Field /\ hash \in Spellings(f1) /\ f2 \in Field /\ n \in Spellings(f2)
      /\ f3 \in Field /\ f \in Spellings(f3) /\ f4 \in Field /\ sig \in Spellings(f4)
      /\ f5 \in Field /\ seq \in Spellings(f5)
  BY <1>1, FieldTypes
<1> HIDE DEF f1, f2, f3, f4, f5
<1>8. Spelled(<<f1>>, s, at, at + Len(hash))
  BY <1>2, <1>7, SpelledOne
<1>9. Spelled(<<f2>>, s, a, a + Len(n))
  BY <1>2, <1>4, <1>7, SpelledOne
<1> DEFINE c == b + Len(f)
<1>10. Spelled(<<f3>>, s, b, c)
  BY <1>4, <1>5, <1>7, SpelledOne
<1>11. Spelled(<<f4>>, s, c, mid)
  <2>1. c \in Nat
    BY <1>4, <1>6
  <2>2. Lies(sig, s, c) /\ mid = c + Len(sig)
    BY <1>5
  <2> HIDE DEF c
  <2>3. Spelled(<<f4>>, s, c, c + Len(sig))
    BY <1>7, <2>1, <2>2, SpelledOne
  <2> QED
    BY <2>2, <2>3
<1>12. Spelled(<<f5>>, s, mid, end)
  <2>1. Spelled(<<f5>>, s, mid, mid + Len(seq))
    BY <1>2, <1>7, SpelledOne
  <2> QED
    BY <1>1, <1>2, <2>1
<1>13. Spelled(<<f1>>, s, at, a) /\ Spelled(<<f2>>, s, a, b)
  BY <1>1, <1>8, <1>9 DEF b
<1> HIDE DEF a, c
<1>14. /\ <<f1>> \in Seq(Field) /\ <<f2>> \in Seq(Field) /\ <<f3>> \in Seq(Field)
       /\ <<f4>> \in Seq(Field) /\ <<f5>> \in Seq(Field)
  BY <1>7
<1> DEFINE g2 == <<f1>> \o <<f2>>
           g3 == g2 \o <<f3>>
           g4 == g3 \o <<f4>>
           g5 == g4 \o <<f5>>
<1>15. /\ g2 \in Seq(Field) /\ g3 \in Seq(Field) /\ g4 \in Seq(Field)
       /\ g5 = <<f1, f2, f3, f4, f5>>
  <2>1. g5 = <<f1, f2, f3, f4, f5>>
    <3>4. /\ <<f1>> \o <<f2>> = <<f1, f2>> /\ <<f1, f2>> \o <<f3>> = <<f1, f2, f3>>
          /\ <<f1, f2, f3>> \o <<f4>> = <<f1, f2, f3, f4>>
          /\ <<f1, f2, f3, f4>> \o <<f5>> = <<f1, f2, f3, f4, f5>>
      <4>1. f1 \in Field /\ f2 \in Field /\ f3 \in Field /\ f4 \in Field /\ f5 \in Field
        BY <1>7
      <4> HIDE DEF g2, g3, g4, g5
      <4> QED
        BY <4>1, TupleGrows
    <3>1. g2 = <<f1, f2>>
      BY <3>4
    <3>2. g3 = <<f1, f2, f3>>
      BY <3>4, <3>1
    <3> HIDE DEF g3
    <3>3. g4 = <<f1, f2, f3, f4>>
      BY <3>4, <3>2
    <3> HIDE DEF g4
    <3> QED
      BY <3>4, <3>3
  <2>2. g2 \in Seq(Field)
    BY <1>14, ConcatFacts
  <2> HIDE DEF g2
  <2>3. g3 \in Seq(Field)
    BY <1>14, <2>2, ConcatFacts
  <2> HIDE DEF g3
  <2>4. g4 \in Seq(Field)
    BY <1>14, <2>3, ConcatFacts
  <2> QED
    BY <2>1, <2>2, <2>3, <2>4
<1>16. Spelled(g2, s, at, b)
  BY <1>13, <1>14, SpelledConcat
<1> HIDE DEF g2
<1>17. Spelled(g3, s, at, c)
  BY <1>10, <1>14, <1>15, <1>16, SpelledConcat
<1> HIDE DEF g3
<1>18. Spelled(g4, s, at, mid)
  BY <1>11, <1>14, <1>15, <1>17, SpelledConcat
<1> HIDE DEF g4
<1>19. Spelled(g5, s, at, end)
  BY <1>12, <1>14, <1>15, <1>18, SpelledConcat
<1> QED
  BY <1>3, <1>15, <1>19

\* An output lies as its fields do.
LEMMA OutLies ==
    ASSUME NEW s \in Seq(Octet), NEW at \in Nat, NEW x \in TxOut, NEW end, OutSpelled(x, s, at, end)
    PROVE  Spelled(OutFields(x), s, at, end)
<1> DEFINE value == ToLe(x.value, W64)
           script == x.script_pubkey
           b == at + W64
<1>1. /\ value \in Seq(Octet) /\ Len(value) = W64
      /\ Len(script) \in UnsignedInts(W64) /\ script \in Seq(Octet)
  BY OutTypes
<1>2. Lies(value, s, at) /\ VarSpelled(script, s, b, end)
  BY DEF OutSpelled
<1> DEFINE f1 == Bytes(value)
           f2 == Size(Len(script))
           f3 == Bytes(script)
<1>3. OutFields(x) = <<f1, f2, f3>>
  BY DEF OutFields
<1>4. b \in Nat
  BY OctetFacts
<1> HIDE DEF value, script
<1>5. PICK f \in Forms(Len(script)) :
         Lies(f, s, b) /\ Lies(script, s, b + Len(f)) /\ end = (b + Len(f)) + Len(script)
  BY <1>2 DEF VarSpelled
<1>6. Len(f) \in Nat
  BY <1>1, FormType
<1>7. /\ f1 \in Field /\ value \in Spellings(f1) /\ f2 \in Field /\ f \in Spellings(f2)
      /\ f3 \in Field /\ script \in Spellings(f3)
  BY <1>1, FieldTypes
<1> HIDE DEF f1, f2, f3
<1>8. Spelled(<<f1>>, s, at, b)
  <2>1. Spelled(<<f1>>, s, at, at + Len(value))
    BY <1>2, <1>7, SpelledOne
  <2> QED
    BY <1>1, <2>1
<1> HIDE DEF b
<1> DEFINE c == b + Len(f)
<1>9. Spelled(<<f2>>, s, b, c)
  BY <1>4, <1>5, <1>7, SpelledOne
<1>10. Spelled(<<f3>>, s, c, end)
  <2>1. c \in Nat
    BY <1>4, <1>6
  <2>2. Lies(script, s, c) /\ end = c + Len(script)
    BY <1>5
  <2> HIDE DEF c
  <2>3. Spelled(<<f3>>, s, c, c + Len(script))
    BY <1>7, <2>1, <2>2, SpelledOne
  <2> QED
    BY <2>2, <2>3
<1> HIDE DEF c
<1>11. <<f1>> \in Seq(Field) /\ <<f2>> \in Seq(Field) /\ <<f3>> \in Seq(Field)
  BY <1>7
<1> DEFINE g2 == <<f1>> \o <<f2>>
           g3 == g2 \o <<f3>>
<1>12. g2 \in Seq(Field) /\ g3 = <<f1, f2, f3>>
  <2>1. g3 = <<f1, f2, f3>>
    <3>1. g2 = <<f1, f2>>
      BY <1>7, TupleGrows
    <3> HIDE DEF g2
    <3> QED
      BY <1>7, <3>1, TupleGrows, ZenonT(30)
  <2>2. g2 \in Seq(Field)
    BY <1>11, ConcatFacts
  <2> QED
    BY <2>1, <2>2
<1>13. Spelled(g2, s, at, c)
  BY <1>8, <1>9, <1>11, SpelledConcat
<1> HIDE DEF g2
<1>14. Spelled(g3, s, at, end)
  BY <1>10, <1>11, <1>12, <1>13, SpelledConcat
<1> QED
  BY <1>3, <1>12, <1>14

\* A transaction lies as its fields do.
LEMMA LayoutSpelled ==
    ASSUME NEW s \in Seq(Octet), NEW t \in Transaction, NEW p, NEW q, Layout(t, s, p, q)
    PROVE  Spelled(Fields(t), s, 0, Len(s))
<1> DEFINE m == Len(t.vin)
           n == Len(t.vout)
           v == ToLe(t.version, W32)
           l == ToLe(t.lock_time, W32)
           ins == [i \in DOMAIN t.vin |-> InFields(t.vin[i])]
           outs == [i \in DOMAIN t.vout |-> OutFields(t.vout[i])]
           is == FlattenSeq(ins)
           os == FlattenSeq(outs)
           f1 == Bytes(v)
           f2 == Size(m)
           f3 == Size(n)
           f4 == Bytes(l)
<1>1. /\ t.version \in Int /\ t.lock_time \in Int
      /\ t.vin \in Seq(TxIn) /\ m \in UnsignedInts(W64) /\ m \in Nat
      /\ t.vout \in Seq(TxOut) /\ n \in UnsignedInts(W64) /\ n \in Nat
  BY TransactionFields
<1>2. /\ ins \in Seq(Seq(Field)) /\ Len(ins) = m /\ outs \in Seq(Seq(Field)) /\ Len(outs) = n
      /\ is \in Seq(Field) /\ os \in Seq(Field)
      /\ f1 \in Field /\ f2 \in Field /\ f3 \in Field /\ f4 \in Field
  BY FieldParts
<1>3. Fields(t) = <<f1, f2>> \o is \o <<f3>> \o os \o <<f4>>
  BY DEF Fields
<1>4. W32 \in Nat
  BY OctetFacts
<1>5. v \in Seq(Octet) /\ Len(v) = W32 /\ l \in Seq(Octet) /\ Len(l) = W32
  BY <1>1, <1>4, ToLeOctets
<1>6. HeadLaid(t.version, m, t.vin, s, p) /\ TailLaid(n, t.vout, s, p[m], q)
      /\ Lies(l, s, q[n]) /\ Len(s) = q[n] + W32
  BY DEF Layout
<1>7. PICK f \in Forms(m) : Lies(f, s, W32) /\ p[0] = W32 + Len(f)
  BY <1>6 DEF HeadLaid
<1>8. PICK g \in Forms(n) : Lies(g, s, p[m]) /\ q[0] = p[m] + Len(g)
  BY <1>6 DEF TailLaid
<1>9. /\ p \in [0 .. m -> Nat] /\ q \in [0 .. n -> Nat] /\ Lies(v, s, 0)
      /\ \A i \in 1 .. m : InSpelled(t.vin[i], s, p[i - 1], p[i])
      /\ \A i \in 1 .. n : OutSpelled(t.vout[i], s, q[i - 1], q[i])
  BY <1>6 DEF HeadLaid, TailLaid
<1>10. /\ \A i \in 1 .. m : ins[i] = InFields(t.vin[i]) /\ t.vin[i] \in TxIn
       /\ \A i \in 1 .. n : outs[i] = OutFields(t.vout[i]) /\ t.vout[i] \in TxOut
  BY <1>1
<1>11. /\ v \in Spellings(f1) /\ f \in Spellings(f2) /\ g \in Spellings(f3)
       /\ l \in Spellings(f4)
  BY <1>1, <1>5, FieldTypes
<1> HIDE DEF m, n, v, l, ins, outs, f1, f2, f3, f4
<1>12. p[m] \in Nat /\ q[n] \in Nat
  BY <1>1, <1>9
<1>13. Spelled(<<f1>>, s, 0, W32)
  <2>1. Spelled(<<f1>>, s, 0, 0 + Len(v))
    BY <1>2, <1>9, <1>11, SpelledOne
  <2>2. 0 + Len(v) = W32
    BY <1>4, <1>5
  <2> QED
    BY <2>1, <2>2
<1>14. Spelled(<<f2>>, s, W32, p[0])
  <2>1. Spelled(<<f2>>, s, W32, W32 + Len(f))
    BY <1>2, <1>4, <1>7, <1>11, SpelledOne
  <2> QED
    BY <1>7, <2>1
<1>15. Spelled(is, s, p[0], p[m])
  <2>1. ASSUME NEW i \in 1 .. m PROVE Spelled(ins[i], s, p[i - 1], p[i])
    <3>1. p[i - 1] \in Nat
      BY <1>1, <1>9
    <3>2. t.vin[i] \in TxIn /\ InSpelled(t.vin[i], s, p[i - 1], p[i])
      BY <1>9, <1>10
    <3>3. Spelled(InFields(t.vin[i]), s, p[i - 1], p[i])
      BY <3>1, <3>2, InLies
    <3> QED
      BY <1>10, <3>3
  <2> QED
    BY <1>2, <1>9, <2>1, SpelledFlatten
<1>16. Spelled(<<f3>>, s, p[m], q[0])
  <2>1. Spelled(<<f3>>, s, p[m], p[m] + Len(g))
    BY <1>2, <1>8, <1>11, <1>12, SpelledOne
  <2> QED
    BY <1>8, <2>1
<1>17. Spelled(os, s, q[0], q[n])
  <2>1. ASSUME NEW i \in 1 .. n PROVE Spelled(outs[i], s, q[i - 1], q[i])
    <3>1. q[i - 1] \in Nat
      BY <1>1, <1>9
    <3>2. t.vout[i] \in TxOut /\ OutSpelled(t.vout[i], s, q[i - 1], q[i])
      BY <1>9, <1>10
    <3>3. Spelled(OutFields(t.vout[i]), s, q[i - 1], q[i])
      BY <3>1, <3>2, OutLies
    <3> QED
      BY <1>10, <3>3
  <2> QED
    BY <1>2, <1>9, <2>1, SpelledFlatten
<1>18. Spelled(<<f4>>, s, q[n], Len(s))
  <2>1. Spelled(<<f4>>, s, q[n], q[n] + Len(l))
    BY <1>2, <1>6, <1>11, <1>12, SpelledOne
  <2> QED
    BY <1>5, <1>6, <2>1
<1> HIDE DEF is, os
<1>19. <<f1>> \in Seq(Field) /\ <<f2>> \in Seq(Field) /\ <<f3>> \in Seq(Field)
       /\ <<f4>> \in Seq(Field)
  BY <1>2
<1> DEFINE g2 == <<f1>> \o <<f2>>
           g3 == g2 \o is
           g4 == g3 \o <<f3>>
           g5 == g4 \o os
           g6 == g5 \o <<f4>>
<1>20. g2 \in Seq(Field) /\ g2 = <<f1, f2>>
  <2>1. g2 = <<f1, f2>>
    BY <1>2, TupleGrows
  <2>2. g2 \in Seq(Field)
    BY <1>19, ConcatFacts
  <2> QED
    BY <2>1, <2>2
<1>21. Spelled(g2, s, 0, p[0])
  BY <1>13, <1>14, <1>19, SpelledConcat
<1>22. Fields(t) = g6
  BY <1>3, <1>20
<1> HIDE DEF g2
<1>23. g3 \in Seq(Field) /\ Spelled(g3, s, 0, p[m])
  <2>1. g3 \in Seq(Field)
    BY <1>2, <1>20, ConcatFacts
  <2>2. Spelled(g3, s, 0, p[m])
    BY <1>2, <1>15, <1>20, <1>21, SpelledConcat
  <2> QED
    BY <2>1, <2>2
<1> HIDE DEF g3
<1>24. g4 \in Seq(Field) /\ Spelled(g4, s, 0, q[0])
  <2>1. g4 \in Seq(Field)
    BY <1>19, <1>23, ConcatFacts
  <2>2. Spelled(g4, s, 0, q[0])
    BY <1>16, <1>19, <1>23, SpelledConcat
  <2> QED
    BY <2>1, <2>2
<1> HIDE DEF g4
<1>25. g5 \in Seq(Field) /\ Spelled(g5, s, 0, q[n])
  <2>1. g5 \in Seq(Field)
    BY <1>2, <1>24, ConcatFacts
  <2>2. Spelled(g5, s, 0, q[n])
    BY <1>2, <1>17, <1>24, SpelledConcat
  <2> QED
    BY <2>1, <2>2
<1> HIDE DEF g5
<1>26. Spelled(g6, s, 0, Len(s))
  BY <1>18, <1>19, <1>25, SpelledConcat
<1> QED
  BY <1>22, <1>26

\* Fields that are spelled one after the other can end where they do.
LEMMA EndsReached ==
    ASSUME NEW fs \in Seq(Field), NEW s \in Seq(Octet), NEW end, Spelled(fs, s, 0, end)
    PROVE  LET Here(start, field) ==
                   {f \in Spellings(field) : /\ start + Len(f) <= Len(s)
                                            /\ f = SubSeq(s, start + 1, start + Len(f))}
               ends[i \in 0 .. Len(fs)] ==
                   IF i = 0 THEN {0}
                   ELSE UNION {{start + Len(f) : f \in Here(start, fs[i])} :
                                  start \in ends[i - 1]}
           IN  end \in ends[Len(fs)]
<1> DEFINE n == Len(fs)
           Here(start, field) ==
               {f \in Spellings(field) : /\ start + Len(f) <= Len(s)
                                        /\ f = SubSeq(s, start + 1, start + Len(f))}
           After(i, S) == UNION {{start + Len(f) : f \in Here(start, fs[i])} : start \in S}
           Eq(e) == e = [i \in 0 .. n |->
                           IF i = 0 THEN {0}
                           ELSE UNION {{start + Len(f) : f \in Here(start, fs[i])} :
                                          start \in e[i - 1]}]
           ends == CHOOSE e : Eq(e)
           F == [iv \in Nat \X SUBSET Nat |-> IF iv[1] \in 1 .. n THEN After(iv[1], iv[2]) ELSE {}]
<1>1. n \in Nat /\ \A i \in 1 .. n : fs[i] \in Field
  BY SeqFacts
<1>2. F \in [Nat \X SUBSET Nat -> SUBSET Nat]
  <2>1. ASSUME NEW i \in 1 .. n, NEW S \in SUBSET Nat PROVE After(i, S) \in SUBSET Nat
    <3>1. ASSUME NEW start \in Nat, NEW f \in Here(start, fs[i]) PROVE start + Len(f) \in Nat
      <4>1. f \in Spellings(fs[i])
        BY <3>1
      <4>2. f \in Seq(Octet)
        BY <1>1, <4>1, FieldTypes
      <4>3. Len(f) \in Nat
        BY <4>2
      <4> QED
        BY <4>3
    <3> HIDE DEF Here
    <3> QED
      BY <3>1
  <2> HIDE DEF After, n
  <2> QED
    BY <2>1
<1>3. {0} \in SUBSET Nat
  OBVIOUS
<1>4. PICK g \in [0 .. n -> SUBSET Nat] : RecursionOn(g, 0 .. n, {0}, F)
  <2> HIDE DEF F, n
  <2> QED
    BY <1>1, <1>2, <1>3, FiniteRecursion
<1>5. Eq(g)
  <2>1. ASSUME NEW i \in 0 .. n
        PROVE  g[i] = IF i = 0 THEN {0} ELSE After(i, g[i - 1])
    <3>1. CASE i = 0
      <4> HIDE DEF F
      <4> QED
        BY <1>4, <3>1 DEF RecursionOn
    <3>2. CASE i # 0
      <4>1. i \in 1 .. n /\ i \in Nat /\ i - 1 \in 0 .. n
        BY <1>1, <3>2
      <4>2. g[i] = F[<<i, g[i - 1]>>]
        <5> HIDE DEF F
        <5> QED
          BY <1>4, <3>2 DEF RecursionOn
      <4>3. g[i - 1] \in SUBSET Nat
        BY <1>4, <4>1
      <4> HIDE DEF After
      <4>4. F[<<i, g[i - 1]>>] = After(i, g[i - 1])
        BY <4>1, <4>3
      <4> QED
        BY <3>2, <4>2, <4>4
    <3> QED
      BY <3>1, <3>2
  <2>2. g = [i \in 0 .. n |-> g[i]]
    BY <1>4
  <2> HIDE DEF F
  <2> HIDE DEF Here, n
  <2> QED
    BY <2>1, <2>2
<1>6. Eq(ends)
  <2> HIDE DEF Eq
  <2> QED
    BY <1>5
<1> HIDE DEF ends
<1>7. \A i \in 0 .. n : ends[i] = IF i = 0 THEN {0} ELSE After(i, ends[i - 1])
  <2> HIDE DEF Here, n
  <2> QED
    BY <1>6
<1> HIDE DEF Eq, F
<1>8. PICK r : Ends(r, fs, s) /\ r[0] = 0 /\ r[n] = end
  BY DEF Spelled
<1>9. /\ r \in [0 .. n -> Nat]
      /\ \A i \in 1 .. n : \E o \in Spellings(fs[i]) :
            Lies(o, s, r[i - 1]) /\ r[i] = r[i - 1] + Len(o)
  BY <1>8 DEF Ends
<1> HIDE DEF n
<1> DEFINE I == {i \in Nat : i <= n => r[i] \in ends[i]}
<1>10. 0 \in I
  <2>1. 0 \in 0 .. n
    BY <1>1
  <2> QED
    BY <1>7, <1>8, <2>1
<1>11. ASSUME NEW i \in Nat, i \in I PROVE i + 1 \in I
  <2> SUFFICES ASSUME i + 1 <= n PROVE r[i + 1] \in ends[i + 1]
    OBVIOUS
  <2> DEFINE j == i + 1
  <2>1. j \in 1 .. n /\ j \in 0 .. n /\ i \in 0 .. n /\ j - 1 = i /\ j # 0 /\ i <= n
    BY <1>1
  <2>2. r[i] \in ends[i] /\ r[i] \in Nat
    BY <1>9, <1>11, <2>1
  <2> HIDE DEF j
  <2>3. PICK o \in Spellings(fs[j]) : Lies(o, s, r[i]) /\ r[j] = r[i] + Len(o)
    BY <1>9, <2>1
  <2>4. o \in Seq(Octet)
    BY <1>1, <2>1, FieldTypes
  <2>5. o \in Here(r[i], fs[j])
    <3>1. r[i] + Len(o) <= Len(s) /\ Len(o) \in Nat
      BY <2>3, <2>4 DEF Lies
    <3> DEFINE part == SubSeq(s, r[i] + 1, r[i] + Len(o))
    <3>2. part \in Seq(Octet) /\ Len(part) = Len(o) /\ Lies(part, s, r[i])
      BY <2>2, <3>1, LiesPart
    <3> HIDE DEF part
    <3>3. o = part
      BY <2>3, <2>4, <3>2, LiesUnique
    <3> QED
      BY <3>1, <3>3 DEF part
  <2> HIDE DEF Here
  <2>6. r[j] \in After(j, ends[i])
    BY <2>2, <2>3, <2>5
  <2>7. ends[j] = After(j, ends[i])
    <3> HIDE DEF After
    <3> QED
      BY <1>7, <2>1
  <2>8. r[j] \in ends[j]
    BY <2>6, <2>7
  <2> QED
    BY <2>8 DEF j
<1>12. Nat \subseteq I
  <2> HIDE DEF I
  <2> QED
    BY <1>10, <1>11, SetInduction
<1>13. r[n] \in ends[n]
  BY <1>1, <1>12
<1>14. end \in ends[n]
  BY <1>8, <1>13
<1> QED
  BY <1>14 DEF ends, n, Eq

-----------------------------------------------------------------------------
(* The parse, read by read.                                                *)

\* A transaction as far as it was read.
PartRead ==
    [version : SignedInts(W32), vin : Seq(TxIn), vout : Seq(TxOut), lock_time : UnsignedInts(W32)]

\* s spells the version of t, the number n of inputs and those that t has, up to `at`.
HeadRead(n, t, s, at) ==
    /\ n \in UnsignedInts(W64)
    /\ \E p : HeadLaid(t.version, n, t.vin, s, p) /\ at = p[Len(t.vin)]

\* And then all of its inputs, the number n of outputs and those that t has.
TailRead(n, t, s, at) ==
    /\ n \in UnsignedInts(W64) /\ Len(t.vin) \in UnsignedInts(W64)
    /\ \E p, q : /\ HeadLaid(t.version, Len(t.vin), t.vin, s, p)
                 /\ TailLaid(n, t.vout, s, p[Len(t.vin)], q) /\ at = q[Len(t.vout)]

\* What follows the version.
LEMMA CountRead ==
    ASSUME NEW s \in Seq(Octet), NEW t \in PartRead, t.vin = <<>>, Lies(ToLe(t.version, W32), s, 0),
           ReadCompactSize(s, W32).at # Failed
    PROVE  LET count == ReadCompactSize(s, W32)
           IN  /\ HeadRead(count.got, t, s, count.at) /\ count.at \in W32 .. Len(s)
               /\ count.got \in Nat
<1> DEFINE count == ReadCompactSize(s, W32)
<1>1. W32 \in Nat
  BY OctetFacts
<1>2. PICK n \in UnsignedInts(W64) : \E f \in Forms(n) :
         Lies(f, s, W32) /\ count = [at |-> W32 + Len(f), got |-> n]
  BY <1>1, FormFrom
<1>3. PICK f \in Forms(n) : Lies(f, s, W32) /\ count = [at |-> W32 + Len(f), got |-> n]
  BY <1>2
<1>4. Len(f) \in Nat /\ n \in Nat
  <2>1. f \in Seq(Octet)
    BY FormType
  <2>2. Len(f) \in Nat
    BY <2>1
  <2> QED
    BY <2>2, OctetFacts, OctetPowers DEF UnsignedInts
<1>5. count.got = n /\ count.at = W32 + Len(f)
  BY <1>3
<1> HIDE DEF count
<1> DEFINE p == [i \in 0 .. 0 |-> W32 + Len(f)]
<1>6. p \in [0 .. 0 -> Nat] /\ p[0] = W32 + Len(f) /\ Len(t.vin) = 0
  BY <1>1, <1>4
<1> HIDE DEF p
<1>7. \A i \in 1 .. Len(t.vin) : InSpelled(t.vin[i], s, p[i - 1], p[i])
  BY <1>6
<1>8. HeadLaid(t.version, n, t.vin, s, p)
  BY <1>3, <1>6, <1>7 DEF HeadLaid
<1>9. HeadRead(n, t, s, W32 + Len(f))
  BY <1>6, <1>8 DEF HeadRead
<1>10. count.at \in W32 .. Len(s)
  BY <1>1, <1>3, <1>4, <1>5 DEF Lies
<1> QED
  BY <1>4, <1>5, <1>9, <1>10 DEF count

\* An input takes more octets than its fields of one size.
LEMMA InRoom ==
    ASSUME NEW s \in Seq(Octet), NEW at \in Nat, NEW x \in TxIn, NEW end,
           InSpelled(x, s, at, end)
    PROVE  end \in Nat /\ at + (HashLen + 2 * W32 + 1) <= end /\ end <= Len(s)
<1>1. PICK mid \in Nat : /\ VarSpelled(x.script_sig, s, (at + HashLen) + W32, mid)
                         /\ Lies(ToLe(x.sequence, W32), s, mid) /\ end = mid + W32
  BY DEF InSpelled
<1>2. HashLen \in Nat /\ W32 \in Nat /\ x.script_sig \in Script
  BY OctetFacts DEF TxIn
<1>3. (at + HashLen) + W32 < mid
  <2> DEFINE a == (at + HashLen) + W32
  <2>1. a \in Nat
    BY <1>2
  <2> HIDE DEF a
  <2>2. a < mid
    BY <1>1, <1>2, <2>1, VarGets DEF a
  <2> QED
    BY <2>2 DEF a
<1>4. mid + W32 <= Len(s)
  <2>1. Len(ToLe(x.sequence, W32)) = W32
    BY InTypes
  <2> QED
    BY <1>1, <2>1 DEF Lies
<1> QED
  BY <1>1, <1>2, <1>3, <1>4

\* One more input.
LEMMA InputRead ==
    ASSUME NEW s \in Seq(Octet), Len(s) < Power(Octets, UsizeOctets), NEW t \in PartRead,
           NEW n, NEW at, HeadRead(n, t, s, at), ReadTxIn(s, at).at # Failed
    PROVE  LET input == ReadTxIn(s, at)
           IN  /\ input.got \in TxIn /\ input.at \in Nat /\ input.at <= Len(s) /\ at \in Nat
               /\ at + (HashLen + 2 * W32 + 1) <= input.at
               /\ HeadRead(n, [t EXCEPT !.vin = Append(@, input.got)], s, input.at)
<1> DEFINE input == ReadTxIn(s, at)
           m == Len(t.vin)
<1>1. t.vin \in Seq(TxIn) /\ m \in Nat
  BY DEF PartRead
<1>2. PICK p : HeadLaid(t.version, n, t.vin, s, p) /\ at = p[m]
  BY DEF HeadRead
<1>3. p \in [0 .. m -> Nat] /\ \A i \in 1 .. m : InSpelled(t.vin[i], s, p[i - 1], p[i])
  BY <1>2 DEF HeadLaid
<1>4. at \in Nat
  BY <1>1, <1>2, <1>3
<1>5. PICK x \in TxIn : \E end \in Nat :
         InSpelled(x, s, at, end) /\ input = [at |-> end, got |-> x]
  BY <1>4, InFrom
<1>6. PICK end \in Nat : InSpelled(x, s, at, end) /\ input = [at |-> end, got |-> x]
  BY <1>5
<1>7. at + (HashLen + 2 * W32 + 1) <= end /\ end <= Len(s)
  BY <1>4, <1>6, InRoom
<1>8. input.got = x /\ input.at = end
  BY <1>6
<1> HIDE DEF input
<1> DEFINE u == [t EXCEPT !.vin = Append(@, x)]
           r == [i \in 0 .. m + 1 |-> IF i <= m THEN p[i] ELSE end]
<1>9. u.vin = Append(t.vin, x) /\ u.version = t.version
  BY DEF PartRead
<1>10. /\ Len(u.vin) = m + 1 /\ u.vin[m + 1] = x /\ \A i \in 1 .. m : u.vin[i] = t.vin[i]
  BY <1>1, <1>9
<1> HIDE DEF u, m
<1>11. r \in [0 .. m + 1 -> Nat] /\ r[m + 1] = end /\ \A i \in 0 .. m : r[i] = p[i]
  BY <1>1, <1>3
<1> HIDE DEF r
<1>12. ASSUME NEW i \in 1 .. m + 1 PROVE InSpelled(u.vin[i], s, r[i - 1], r[i])
  <2>1. CASE i <= m
    <3>1. i \in 1 .. m /\ i \in 0 .. m /\ i - 1 \in 0 .. m
      BY <1>1, <2>1
    <3> QED
      BY <1>3, <1>10, <1>11, <3>1
  <2>2. CASE ~(i <= m)
    <3>1. i = m + 1 /\ i - 1 = m /\ m \in 0 .. m
      BY <1>1, <2>2
    <3> QED
      BY <1>2, <1>6, <1>10, <1>11, <3>1
  <2> QED
    BY <2>1, <2>2
<1>13. HeadLaid(u.version, n, u.vin, s, r)
  <2>1. Lies(ToLe(u.version, W32), s, 0) /\ \E f \in Forms(n) : Lies(f, s, W32) /\ p[0] = W32 + Len(f)
    BY <1>2, <1>9 DEF HeadLaid
  <2>2. r[0] = p[0]
    BY <1>1, <1>11
  <2> QED
    BY <1>10, <1>11, <1>12, <2>1, <2>2 DEF HeadLaid
<1>14. HeadRead(n, u, s, end)
  BY <1>10, <1>11, <1>13 DEF HeadRead
<1> QED
  BY <1>4, <1>7, <1>8, <1>14 DEF input, u

\* What follows the inputs.
LEMMA OutCountRead ==
    ASSUME NEW s \in Seq(Octet), NEW t \in PartRead, t.vout = <<>>, NEW at,
           HeadRead(Len(t.vin), t, s, at), ReadCompactSize(s, at).at # Failed
    PROVE  LET count == ReadCompactSize(s, at)
           IN  /\ TailRead(count.got, t, s, count.at) /\ at \in Nat /\ count.at \in at .. Len(s)
               /\ count.got \in Nat
<1> DEFINE count == ReadCompactSize(s, at)
           m == Len(t.vin)
<1>1. t.vin \in Seq(TxIn) /\ m \in Nat
  BY DEF PartRead
<1>2. PICK p : HeadLaid(t.version, m, t.vin, s, p) /\ at = p[m]
  BY DEF HeadRead
<1>3. at \in Nat
  BY <1>1, <1>2 DEF HeadLaid
<1>4. PICK n \in UnsignedInts(W64) : \E f \in Forms(n) :
         Lies(f, s, at) /\ count = [at |-> at + Len(f), got |-> n]
  BY <1>3, FormFrom
<1>5. PICK f \in Forms(n) : Lies(f, s, at) /\ count = [at |-> at + Len(f), got |-> n]
  BY <1>4
<1>6. Len(f) \in Nat /\ n \in Nat
  <2>1. f \in Seq(Octet)
    BY FormType
  <2>2. Len(f) \in Nat
    BY <2>1
  <2> QED
    BY <2>2, OctetFacts, OctetPowers DEF UnsignedInts
<1>7. count.got = n /\ count.at = at + Len(f)
  BY <1>5
<1> HIDE DEF count
<1> DEFINE q == [i \in 0 .. 0 |-> at + Len(f)]
<1>8. q \in [0 .. 0 -> Nat] /\ q[0] = at + Len(f) /\ Len(t.vout) = 0
  BY <1>3, <1>6
<1> HIDE DEF q
<1>9. \A i \in 1 .. Len(t.vout) : OutSpelled(t.vout[i], s, q[i - 1], q[i])
  BY <1>8
<1>10. TailLaid(n, t.vout, s, p[m], q)
  BY <1>2, <1>5, <1>8, <1>9 DEF TailLaid
<1>11. TailRead(n, t, s, at + Len(f))
  <2>1. m \in UnsignedInts(W64)
    BY DEF HeadRead
  <2> QED
    BY <1>2, <1>8, <1>10, <2>1 DEF TailRead
<1>12. count.at \in at .. Len(s)
  BY <1>3, <1>5, <1>6, <1>7 DEF Lies
<1> QED
  BY <1>3, <1>6, <1>7, <1>11, <1>12 DEF count

\* An output takes more octets than its value.
LEMMA OutRoom ==
    ASSUME NEW s \in Seq(Octet), NEW at \in Nat, NEW x \in TxOut, NEW end,
           OutSpelled(x, s, at, end)
    PROVE  end \in Nat /\ at + (W64 + 1) <= end /\ end <= Len(s)
<1>1. W64 \in Nat /\ x.script_pubkey \in Script
  BY OctetFacts DEF TxOut
<1> DEFINE a == at + W64
<1>2. a \in Nat /\ VarSpelled(x.script_pubkey, s, a, end)
  BY <1>1 DEF OutSpelled
<1> HIDE DEF a
<1>3. end \in Nat /\ a < end /\ end <= Len(s)
  BY <1>1, <1>2, VarGets
<1> QED
  BY <1>1, <1>2, <1>3 DEF a

\* One more output.
LEMMA OutputRead ==
    ASSUME NEW s \in Seq(Octet), Len(s) < Power(Octets, UsizeOctets), NEW t \in PartRead,
           NEW n, NEW at, TailRead(n, t, s, at), ReadTxOut(s, at).at # Failed
    PROVE  LET output == ReadTxOut(s, at)
           IN  /\ output.got \in TxOut /\ output.at \in Nat /\ output.at <= Len(s) /\ at \in Nat
               /\ at + (W64 + 1) <= output.at
               /\ TailRead(n, [t EXCEPT !.vout = Append(@, output.got)], s, output.at)
<1> DEFINE output == ReadTxOut(s, at)
           m == Len(t.vout)
<1>1. t.vout \in Seq(TxOut) /\ m \in Nat
  BY DEF PartRead
<1>2. PICK p, q : /\ HeadLaid(t.version, Len(t.vin), t.vin, s, p)
                  /\ TailLaid(n, t.vout, s, p[Len(t.vin)], q) /\ at = q[m]
  BY DEF TailRead
<1>3. q \in [0 .. m -> Nat] /\ \A i \in 1 .. m : OutSpelled(t.vout[i], s, q[i - 1], q[i])
  BY <1>2 DEF TailLaid
<1>4. at \in Nat
  BY <1>1, <1>2, <1>3
<1>5. PICK x \in TxOut : \E end \in Nat :
         OutSpelled(x, s, at, end) /\ output = [at |-> end, got |-> x]
  BY <1>4, OutFrom
<1>6. PICK end \in Nat : OutSpelled(x, s, at, end) /\ output = [at |-> end, got |-> x]
  BY <1>5
<1>7. at + (W64 + 1) <= end /\ end <= Len(s)
  BY <1>4, <1>6, OutRoom
<1>8. output.got = x /\ output.at = end
  BY <1>6
<1> HIDE DEF output
<1> DEFINE u == [t EXCEPT !.vout = Append(@, x)]
           r == [i \in 0 .. m + 1 |-> IF i <= m THEN q[i] ELSE end]
           from == p[Len(t.vin)]
<1>9. u.vout = Append(t.vout, x) /\ u.version = t.version /\ u.vin = t.vin
  BY DEF PartRead
<1>10. /\ Len(u.vout) = m + 1 /\ u.vout[m + 1] = x /\ \A i \in 1 .. m : u.vout[i] = t.vout[i]
  BY <1>1, <1>9
<1> HIDE DEF u, m
<1>11. r \in [0 .. m + 1 -> Nat] /\ r[m + 1] = end /\ \A i \in 0 .. m : r[i] = q[i]
  BY <1>1, <1>3
<1> HIDE DEF r
<1>12. ASSUME NEW i \in 1 .. m + 1 PROVE OutSpelled(u.vout[i], s, r[i - 1], r[i])
  <2>1. CASE i <= m
    <3>1. i \in 1 .. m /\ i \in 0 .. m /\ i - 1 \in 0 .. m
      BY <1>1, <2>1
    <3> QED
      BY <1>3, <1>10, <1>11, <3>1
  <2>2. CASE ~(i <= m)
    <3>1. i = m + 1 /\ i - 1 = m /\ m \in 0 .. m
      BY <1>1, <2>2
    <3> QED
      BY <1>2, <1>6, <1>10, <1>11, <3>1
  <2> QED
    BY <2>1, <2>2
<1>13. TailLaid(n, u.vout, s, from, r)
  <2>1. \E f \in Forms(n) : Lies(f, s, from) /\ q[0] = from + Len(f)
    BY <1>2 DEF TailLaid
  <2>2. r[0] = q[0]
    BY <1>1, <1>11
  <2> QED
    BY <1>10, <1>11, <1>12, <2>1, <2>2 DEF TailLaid
<1>14. TailRead(n, u, s, end)
  <2>1. n \in UnsignedInts(W64) /\ Len(u.vin) \in UnsignedInts(W64)
    BY <1>9 DEF TailRead
  <2>2. HeadLaid(u.version, Len(u.vin), u.vin, s, p) /\ from = p[Len(u.vin)]
    BY <1>2, <1>9
  <2> QED
    BY <1>10, <1>11, <1>13, <2>1, <2>2 DEF TailRead
<1> QED
  BY <1>4, <1>7, <1>8, <1>14 DEF output, u

\* The last field.
LEMMA LockRead ==
    ASSUME NEW s \in Seq(Octet), NEW t \in PartRead, NEW at, TailRead(Len(t.vout), t, s, at),
           ReadUnsigned(s, at, W32).at = Len(s)
    PROVE  LET lock == ReadUnsigned(s, at, W32)
           IN  /\ lock.got \in UnsignedInts(W32) /\ at \in Nat /\ at <= Len(s)
               /\ \E p, q : Layout([t EXCEPT !.lock_time = lock.got], s, p, q)
<1> DEFINE lock == ReadUnsigned(s, at, W32)
           m == Len(t.vin)
           n == Len(t.vout)
<1>1. n \in Nat /\ W32 \in Nat
  BY OctetFacts DEF PartRead
<1>2. PICK p, q : /\ HeadLaid(t.version, m, t.vin, s, p)
                  /\ TailLaid(n, t.vout, s, p[m], q) /\ at = q[n]
  BY DEF TailRead
<1>3. at \in Nat
  BY <1>1, <1>2 DEF TailLaid
<1>4. lock.at # Failed
  <2>1. Len(s) \in Nat
    OBVIOUS
  <2> QED
    BY <2>1 DEF Failed
<1>5. PICK l \in UnsignedInts(W32) : /\ Lies(ToLe(l, W32), s, at)
                                     /\ lock = [at |-> at + W32, got |-> l]
  BY <1>1, <1>3, <1>4, UnsignedFrom
<1>6. lock.got = l /\ at + W32 = Len(s)
  BY <1>5
<1> HIDE DEF lock
<1> DEFINE u == [t EXCEPT !.lock_time = l]
<1>7. u.version = t.version /\ u.vin = t.vin /\ u.vout = t.vout /\ u.lock_time = l
  BY DEF PartRead
<1> HIDE DEF u
<1>8. Layout(u, s, p, q)
  BY <1>2, <1>5, <1>6, <1>7 DEF Layout
<1> QED
  BY <1>1, <1>3, <1>6, <1>8 DEF lock, u

\* Where s spells the transaction u, the version and the number of inputs are read.
LEMMA StartReads ==
    ASSUME NEW s \in Seq(Octet), NEW u \in Transaction, NEW a, NEW b, Layout(u, s, a, b)
    PROVE  ReadSigned(s, 0, W32).at # Failed /\ ReadCompactSize(s, W32).at # Failed
<1>1. W32 \in Nat /\ 0 \in Nat
  BY OctetFacts
<1>2. /\ u.version \in SignedInts(W32) /\ Len(u.vin) \in UnsignedInts(W64)
  BY TransactionFields
<1>3. HeadLaid(u.version, Len(u.vin), u.vin, s, a)
  BY DEF Layout
<1>4. ReadSigned(s, 0, W32) = [at |-> 0 + W32, got |-> u.version]
  BY <1>1, <1>2, <1>3, SignedGets DEF HeadLaid
<1>5. PICK f \in Forms(Len(u.vin)) : Lies(f, s, W32)
  BY <1>3 DEF HeadLaid
<1>6. /\ ReadCompactSize(s, W32) = [at |-> W32 + Len(f), got |-> Len(u.vin)]
      /\ Len(f) \in Nat
  BY <1>1, <1>2, <1>5, FormGets
<1> QED
  BY <1>1, <1>4, <1>6 DEF Failed

\* What was read of the inputs is what u has, and so is what is read next.
LEMMA InputReads ==
    ASSUME NEW s \in Seq(Octet), NEW u \in Transaction, NEW a, NEW b, Layout(u, s, a, b),
           NEW t \in PartRead, NEW k \in Nat, NEW at, HeadRead(Len(t.vin) + k, t, s, at)
    PROVE  /\ k # 0 => ReadTxIn(s, at).at # Failed
           /\ k = 0 => ReadCompactSize(s, at).at # Failed
<1> DEFINE m == Len(t.vin)
<1>1. t.vin \in Seq(TxIn) /\ m \in Nat /\ t.version \in SignedInts(W32)
  BY DEF PartRead
<1>2. /\ u.version \in SignedInts(W32) /\ u.vin \in Seq(TxIn)
      /\ Len(u.vin) \in UnsignedInts(W64) /\ Len(u.vin) \in Nat
      /\ Len(u.vout) \in UnsignedInts(W64)
  BY TransactionFields
<1>3. /\ HeadLaid(u.version, Len(u.vin), u.vin, s, a)
      /\ TailLaid(Len(u.vout), u.vout, s, a[Len(u.vin)], b)
  BY DEF Layout
<1>4. PICK p : HeadLaid(t.version, m + k, t.vin, s, p) /\ at = p[m]
  BY DEF HeadRead
<1>5. m + k \in UnsignedInts(W64)
  BY DEF HeadRead
<1>6. m + k = Len(u.vin) /\ Agree(t.vin, u.vin, p, a)
  BY <1>1, <1>2, <1>3, <1>4, <1>5, HeadsAgree
<1>7. at = a[m] /\ at \in Nat
  <2>1. p[m] = a[m]
    BY <1>1, <1>6 DEF Agree
  <2>2. p \in [0 .. m -> Nat] /\ m \in 0 .. m
    BY <1>1, <1>4 DEF HeadLaid
  <2>3. p[m] \in Nat
    BY <2>2
  <2> QED
    BY <1>4, <2>1, <2>3
<1>8. CASE k # 0
  <2>1. m + 1 \in 1 .. Len(u.vin) /\ (m + 1) - 1 = m
    BY <1>1, <1>6, <1>8
  <2>2. InSpelled(u.vin[m + 1], s, a[m], a[m + 1])
    BY <1>3, <2>1 DEF HeadLaid
  <2>3. u.vin[m + 1] \in TxIn
    BY <1>2, <2>1
  <2>4. ReadTxIn(s, at) = [at |-> a[m + 1], got |-> u.vin[m + 1]] /\ a[m + 1] \in Nat
    BY <1>7, <2>2, <2>3, InGets
  <2> QED
    BY <1>8, <2>4 DEF Failed
<1>9. CASE k = 0
  <2>1. a[Len(u.vin)] = at
    BY <1>1, <1>6, <1>7, <1>9
  <2>2. PICK f \in Forms(Len(u.vout)) : Lies(f, s, at)
    BY <1>3, <2>1 DEF TailLaid
  <2>3. /\ ReadCompactSize(s, at) = [at |-> at + Len(f), got |-> Len(u.vout)]
        /\ Len(f) \in Nat
    BY <1>2, <1>7, <2>2, FormGets
  <2> QED
    BY <1>7, <1>9, <2>3 DEF Failed
<1> QED
  BY <1>8, <1>9

\* The same for the outputs and the lock time.
LEMMA OutputReads ==
    ASSUME NEW s \in Seq(Octet), NEW u \in Transaction, NEW a, NEW b, Layout(u, s, a, b),
           NEW t \in PartRead, NEW k \in Nat, NEW at, TailRead(Len(t.vout) + k, t, s, at)
    PROVE  /\ k # 0 => ReadTxOut(s, at).at # Failed
           /\ k = 0 => ReadUnsigned(s, at, W32).at = Len(s)
<1> DEFINE m == Len(t.vin)
           n == Len(t.vout)
<1>1. /\ t.vin \in Seq(TxIn) /\ m \in Nat /\ t.version \in SignedInts(W32)
      /\ t.vout \in Seq(TxOut) /\ n \in Nat
  BY DEF PartRead
<1>2. /\ u.version \in SignedInts(W32) /\ u.vin \in Seq(TxIn)
      /\ Len(u.vin) \in UnsignedInts(W64) /\ Len(u.vin) \in Nat
      /\ u.vout \in Seq(TxOut) /\ Len(u.vout) \in UnsignedInts(W64) /\ Len(u.vout) \in Nat
      /\ u.lock_time \in UnsignedInts(W32)
  BY TransactionFields
<1>3. /\ HeadLaid(u.version, Len(u.vin), u.vin, s, a)
      /\ TailLaid(Len(u.vout), u.vout, s, a[Len(u.vin)], b)
      /\ Lies(ToLe(u.lock_time, W32), s, b[Len(u.vout)]) /\ Len(s) = b[Len(u.vout)] + W32
  BY DEF Layout
<1>4. PICK p, q : /\ HeadLaid(t.version, m, t.vin, s, p)
                  /\ TailLaid(n + k, t.vout, s, p[m], q) /\ at = q[n]
  BY DEF TailRead
<1>5. m \in UnsignedInts(W64) /\ n + k \in UnsignedInts(W64)
  BY DEF TailRead
<1>6. m = Len(u.vin) /\ Agree(t.vin, u.vin, p, a)
  BY <1>1, <1>2, <1>3, <1>4, <1>5, HeadsAgree
<1> DEFINE from == p[m]
<1>7. from = a[Len(u.vin)] /\ from \in Nat
  <2>1. p[m] = a[m]
    BY <1>1, <1>6 DEF Agree
  <2>2. p[m] \in Nat
    BY <1>1, <1>4 DEF HeadLaid
  <2> QED
    BY <1>6, <2>1, <2>2
<1>8. TailLaid(n + k, t.vout, s, from, q) /\ TailLaid(Len(u.vout), u.vout, s, from, b)
  BY <1>3, <1>4, <1>7
<1> HIDE DEF from
<1>9. n + k = Len(u.vout) /\ Agree(t.vout, u.vout, q, b)
  BY <1>1, <1>2, <1>5, <1>7, <1>8, TailsAgree
<1>10. at = b[n] /\ at \in Nat
  <2>1. q[n] = b[n]
    BY <1>1, <1>9 DEF Agree
  <2>2. q[n] \in Nat
    BY <1>1, <1>8 DEF TailLaid
  <2> QED
    BY <1>4, <2>1, <2>2
<1>11. CASE k # 0
  <2>1. n + 1 \in 1 .. Len(u.vout) /\ (n + 1) - 1 = n
    BY <1>1, <1>9, <1>11
  <2>2. OutSpelled(u.vout[n + 1], s, b[n], b[n + 1])
    BY <1>8, <2>1 DEF TailLaid
  <2>3. u.vout[n + 1] \in TxOut
    BY <1>2, <2>1
  <2>4. ReadTxOut(s, at) = [at |-> b[n + 1], got |-> u.vout[n + 1]] /\ b[n + 1] \in Nat
    BY <1>10, <2>2, <2>3, OutGets
  <2> QED
    BY <1>11, <2>4 DEF Failed
<1>12. CASE k = 0
  <2>1. b[Len(u.vout)] = at
    BY <1>1, <1>9, <1>10, <1>12
  <2>2. W32 \in Nat /\ Lies(ToLe(u.lock_time, W32), s, at) /\ Len(s) = at + W32
    BY <1>3, <2>1, OctetFacts
  <2>3. ReadUnsigned(s, at, W32) = [at |-> at + W32, got |-> u.lock_time]
    BY <1>2, <1>10, <2>2, UnsignedGets
  <2> QED
    BY <1>12, <2>2, <2>3
<1> QED
  BY <1>11, <1>12

-----------------------------------------------------------------------------
(* What was signed.                                                        *)

\* The transaction that is hashed for the signature of input n.
Blanked(t, n, code) ==
    [t EXCEPT !.vin = [i \in DOMAIN t.vin |->
        [t.vin[i] EXCEPT !.script_sig = IF i = n THEN code ELSE <<>>]]]

\* It is a transaction.
LEMMA BlankedType ==
    ASSUME NEW t \in Transaction, NEW n, NEW code \in Script
    PROVE  Blanked(t, n, code) \in Transaction
<1>1. /\ t.vin \in Seq(TxIn) /\ Len(t.vin) \in Nat /\ t.vin \in Vec(TxIn)
      /\ Len(t.vin) < Power(Octets, UsizeOctets)
  BY DEF Transaction, Vec
<1> DEFINE vin == [i \in DOMAIN t.vin |->
                      [t.vin[i] EXCEPT !.script_sig = IF i = n THEN code ELSE <<>>]]
<1>2. <<>> \in Script
  <2>1. Len(<<>>) = 0 /\ <<>> \in Seq(Octet)
    OBVIOUS
  <2>2. Power(Octets, UsizeOctets) \in Nat \ {0}
    BY UsizeFits
  <2>3. 0 < Power(Octets, UsizeOctets)
    BY <2>2
  <2> QED
    BY <2>1, <2>3 DEF Script, Vec
<1>3. vin \in [1 .. Len(t.vin) -> TxIn]
  <2>1. ASSUME NEW i \in 1 .. Len(t.vin)
        PROVE  [t.vin[i] EXCEPT !.script_sig = IF i = n THEN code ELSE <<>>] \in TxIn
    <3>1. t.vin[i] \in TxIn
      BY <1>1
    <3>2. (IF i = n THEN code ELSE <<>>) \in Script
      BY <1>2
    <3> QED
      BY <3>1, <3>2 DEF TxIn
  <2> QED
    BY <1>1, <2>1
<1> HIDE DEF vin
<1>4. vin \in Seq(TxIn) /\ Len(vin) = Len(t.vin)
  BY <1>1, <1>3
<1>5. vin \in Vec(TxIn)
  BY <1>1, <1>4 DEF Vec
<1>6. [t EXCEPT !.vin = vin] \in Transaction
  BY <1>5 DEF Transaction
<1> QED
  BY <1>6 DEF Blanked, vin

\* A script that is filled in is not part of what is hashed.
LEMMA BlankedStable ==
    ASSUME NEW t \in Transaction, NEW m \in 1 .. Len(t.vin), NEW script \in Script
    PROVE  /\ [t EXCEPT !.vin[m].script_sig = script] \in Transaction
           /\ DOMAIN [t EXCEPT !.vin[m].script_sig = script].vin = DOMAIN t.vin
           /\ \A n, code : Blanked([t EXCEPT !.vin[m].script_sig = script], n, code)
                               = Blanked(t, n, code)
<1> DEFINE x == [t.vin[m] EXCEPT !.script_sig = script]
           vin == [t.vin EXCEPT ![m] = x]
           u == [t EXCEPT !.vin = vin]
<1>1. /\ t.vin \in Seq(TxIn) /\ Len(t.vin) \in Nat /\ t.vin \in Vec(TxIn)
      /\ Len(t.vin) < Power(Octets, UsizeOctets)
  BY DEF Transaction, Vec
<1>2. u = [t EXCEPT !.vin[m].script_sig = script]
  BY DEF Transaction
<1>3. x \in TxIn /\ t.vin[m] \in TxIn
  <2>1. t.vin[m] \in TxIn
    BY <1>1
  <2> QED
    BY <2>1 DEF TxIn
<1>4. \A v : [x EXCEPT !.script_sig = v] = [t.vin[m] EXCEPT !.script_sig = v]
  BY <1>3 DEF TxIn
<1> HIDE DEF x
<1>5. vin \in [1 .. Len(t.vin) -> TxIn] /\ vin[m] = x
      /\ \A i \in 1 .. Len(t.vin) : i # m => vin[i] = t.vin[i]
  BY <1>1, <1>3
<1> HIDE DEF vin
<1>6. vin \in Seq(TxIn) /\ Len(vin) = Len(t.vin) /\ DOMAIN vin = DOMAIN t.vin
  BY <1>1, <1>5
<1>7. vin \in Vec(TxIn)
  BY <1>1, <1>6 DEF Vec
<1>8. u \in Transaction /\ u.vin = vin
  BY <1>7 DEF Transaction
<1>9. ASSUME NEW n, NEW code PROVE Blanked(u, n, code) = Blanked(t, n, code)
  <2> DEFINE F(w) == [i \in DOMAIN w |-> [w[i] EXCEPT !.script_sig = IF i = n THEN code ELSE <<>>]]
  <2>1. F(vin) = F(t.vin)
    <3>1. ASSUME NEW i \in 1 .. Len(t.vin), NEW v
          PROVE  [vin[i] EXCEPT !.script_sig = v] = [t.vin[i] EXCEPT !.script_sig = v]
      BY <1>4, <1>5
    <3>2. DOMAIN t.vin = 1 .. Len(t.vin) /\ DOMAIN vin = 1 .. Len(t.vin)
      BY <1>1, <1>6
    <3> QED
      BY <3>1, <3>2
  <2>2. Blanked(t, n, code) = [t EXCEPT !.vin = F(t.vin)]
    BY DEF Blanked
  <2>3. Blanked(u, n, code) = [u EXCEPT !.vin = F(u.vin)]
    BY DEF Blanked
  <2>4. \A w : [u EXCEPT !.vin = w] = [t EXCEPT !.vin = w]
    BY DEF Transaction
  <2> HIDE DEF F, u
  <2> QED
    BY <1>8, <2>1, <2>2, <2>3, <2>4
<1> QED
  BY <1>2, <1>6, <1>8, <1>9

\* Without its scripts, a transaction is what was hashed without them.
LEMMA BlankedCommits ==
    ASSUME NEW t \in Transaction, NEW u \in Transaction, NEW code \in Script, code # <<>>,
           NEW i \in DOMAIN t.vin, NEW j \in DOMAIN u.vin, Blanked(t, i, code) = Blanked(u, j, code)
    PROVE  i = j /\ Unsigned(t) = Unsigned(u)
<1> DEFINE F(w, n) == [k \in DOMAIN w |-> [w[k] EXCEPT !.script_sig = IF k = n THEN code ELSE <<>>]]
           G(w) == [k \in DOMAIN w |-> [w[k] EXCEPT !.script_sig = <<>>]]
<1>1. /\ t.vin \in Seq(TxIn) /\ u.vin \in Seq(TxIn)
      /\ t = [version |-> t.version, vin |-> t.vin, vout |-> t.vout, lock_time |-> t.lock_time]
      /\ u = [version |-> u.version, vin |-> u.vin, vout |-> u.vout, lock_time |-> u.lock_time]
  BY TransactionFields
<1>2. [t EXCEPT !.vin = F(t.vin, i)] = [u EXCEPT !.vin = F(u.vin, j)]
  BY DEF Blanked
<1>3. /\ F(t.vin, i) = F(u.vin, j) /\ t.version = u.version
      /\ t.vout = u.vout /\ t.lock_time = u.lock_time
  <2> HIDE DEF F
  <2>1. ASSUME NEW w
        PROVE  /\ [t EXCEPT !.vin = w] = [version |-> t.version, vin |-> w, vout |-> t.vout,
                                           lock_time |-> t.lock_time]
               /\ [u EXCEPT !.vin = w] = [version |-> u.version, vin |-> w, vout |-> u.vout,
                                           lock_time |-> u.lock_time]
    BY DEF Transaction
  <2>2. [version |-> t.version, vin |-> F(t.vin, i), vout |-> t.vout, lock_time |-> t.lock_time]
          = [version |-> u.version, vin |-> F(u.vin, j), vout |-> u.vout, lock_time |-> u.lock_time]
    BY <1>2, <2>1
  <2> QED
    BY <2>2
<1>4. DOMAIN t.vin = DOMAIN u.vin
  <2>1. DOMAIN F(t.vin, i) = DOMAIN t.vin /\ DOMAIN F(u.vin, j) = DOMAIN u.vin
    OBVIOUS
  <2> QED
    BY <1>3, <2>1
<1>5. ASSUME NEW k \in DOMAIN t.vin
      PROVE  [t.vin[k] EXCEPT !.script_sig = IF k = i THEN code ELSE <<>>]
               = [u.vin[k] EXCEPT !.script_sig = IF k = j THEN code ELSE <<>>]
  <2>1. F(t.vin, i)[k] = F(u.vin, j)[k]
    BY <1>3
  <2> QED
    BY <1>4, <2>1
<1>6. \A k \in DOMAIN t.vin : t.vin[k] \in TxIn /\ u.vin[k] \in TxIn
  BY <1>1, <1>4
<1>7. i = j
  <2>1. t.vin[i] \in TxIn /\ u.vin[i] \in TxIn
    BY <1>6
  <2>2. [t.vin[i] EXCEPT !.script_sig = code]
          = [u.vin[i] EXCEPT !.script_sig = IF i = j THEN code ELSE <<>>]
    BY <1>5
  <2>3. ASSUME NEW x \in TxIn, NEW v PROVE [x EXCEPT !.script_sig = v].script_sig = v
    BY DEF TxIn
  <2>4. code = IF i = j THEN code ELSE <<>>
    <3>1. [t.vin[i] EXCEPT !.script_sig = code].script_sig = code
      BY <2>1, <2>3
    <3>2. [u.vin[i] EXCEPT !.script_sig = IF i = j THEN code ELSE <<>>].script_sig
             = IF i = j THEN code ELSE <<>>
      BY <2>1, <2>3
    <3> QED
      BY <2>2, <3>1, <3>2
  <2> QED
    BY <2>4
<1>8. G(t.vin) = G(u.vin)
  <2>1. ASSUME NEW x \in TxIn, NEW y \in TxIn, NEW v,
               [x EXCEPT !.script_sig = v] = [y EXCEPT !.script_sig = v]
        PROVE  [x EXCEPT !.script_sig = <<>>] = [y EXCEPT !.script_sig = <<>>]
    <3>1. ASSUME NEW z \in TxIn, NEW w
          PROVE  [z EXCEPT !.script_sig = w] =
                    [prevout |-> z.prevout, script_sig |-> w, sequence |-> z.sequence]
      BY DEF TxIn
    <3>2. [prevout |-> x.prevout, script_sig |-> v, sequence |-> x.sequence]
            = [prevout |-> y.prevout, script_sig |-> v, sequence |-> y.sequence]
      BY <2>1, <3>1
    <3>3. x.prevout = y.prevout /\ x.sequence = y.sequence
      BY <3>2
    <3> QED
      BY <3>1, <3>3
  <2>2. ASSUME NEW k \in DOMAIN t.vin
        PROVE  [t.vin[k] EXCEPT !.script_sig = <<>>] = [u.vin[k] EXCEPT !.script_sig = <<>>]
    <3> DEFINE v == IF k = i THEN code ELSE <<>>
    <3>1. [t.vin[k] EXCEPT !.script_sig = v] = [u.vin[k] EXCEPT !.script_sig = v]
      BY <1>5, <1>7
    <3> HIDE DEF v
    <3> QED
      BY <1>6, <2>1, <3>1
  <2> QED
    BY <1>4, <2>2
<1>9. Unsigned(t) = [t EXCEPT !.vin = G(t.vin)] /\ Unsigned(u) = [u EXCEPT !.vin = G(u.vin)]
  BY DEF Unsigned
<1>10. ASSUME NEW w PROVE [t EXCEPT !.vin = w] = [u EXCEPT !.vin = w]
  BY <1>1, <1>3
<1> HIDE DEF G
<1> QED
  BY <1>7, <1>8, <1>9, <1>10

-----------------------------------------------------------------------------
(* The inductive invariant.                                                *)

Stages ==
    {"sign", "version", "vin_count", "vin", "vout_count", "vout", "lock_time", "done", "failed"}

WireTyped ==
    /\ tx \in Transaction /\ stage \in Stages /\ parsed \in PartRead
    /\ wire \in Seq(Octet) /\ Len(wire) < Power(Octets, UsizeOctets)
    /\ cursor \in Nat /\ cursor <= Len(wire)

\* What was read so far stands on the wire up to the cursor.
ReadSoFar ==
    /\ stage \in {"sign", "version"} => parsed = Nothing /\ cursor = 0
    /\ stage = "sign" => wire = <<>>
    /\ stage = "vin_count" =>
          parsed.vin = <<>> /\ cursor = W32 /\ Lies(ToLe(parsed.version, W32), wire, 0)
    /\ stage \in {"vin_count", "vin", "vout_count"} => parsed.vout = <<>>
    /\ stage = "vin" =>
          left \in Nat \ {0} /\ HeadRead(Len(parsed.vin) + left, parsed, wire, cursor)
    /\ stage = "vout_count" => HeadRead(Len(parsed.vin), parsed, wire, cursor)
    /\ stage = "vout" =>
          left \in Nat \ {0} /\ TailRead(Len(parsed.vout) + left, parsed, wire, cursor)
    /\ stage = "lock_time" => TailRead(Len(parsed.vout), parsed, wire, cursor)
    /\ stage = "done" => parsed \in Transaction /\ \E p, q : Layout(parsed, wire, p, q)

\* The first n octets can carry what t holds.
Carries(t, n) ==
    W32 + Len(t.vin) * (HashLen + 2 * W32 + 1) + Len(t.vout) * (W64 + 1) <= n

Carried ==
    /\ stage \notin {"sign", "version", "failed"} => Carries(parsed, cursor)
    /\ stage = "failed" => parsed = Nothing \/ Carries(parsed, cursor)

\* What was delivered as it was sent is not refused.
Accepted == stage # "sign" /\ wire = Serialize(tx) => stage # "failed"

SignedRight == SighashStable /\ \E S : signed \in Seq(S)

WireInv == WireTyped /\ ReadSoFar /\ Carried /\ Accepted /\ SignedRight

\* Nothing was read of it.
LEMMA NothingType == Nothing \in PartRead
<1>1. W32 \in Nat /\ Power(Octets, W32) \in Nat \ {0}
  BY OctetFacts, OctetPowers
<1>2. 0 \in SignedInts(W32) /\ 0 \in UnsignedInts(W32)
  <2> DEFINE top == Power(Octets, W32)
  <2>1. 0 \in Int /\ -top <= 2 * 0 /\ 2 * 0 < top /\ 0 \in 0 .. top - 1
    BY <1>1
  <2> QED
    BY <2>1 DEF SignedInts, UnsignedInts
<1> QED
  BY <1>2 DEF Nothing, PartRead

\* Nothing is signed, sent or read at first.
LEMMA WireInitHolds == WireInit => WireInv
<1> SUFFICES ASSUME WireInit PROVE WireInv
  OBVIOUS
<1> USE DEF WireInit
<1>1. WireTyped
  <2>1. tx \in Transaction
    BY WireAssumption
  <2>2. wire \in Seq(Octet) /\ Len(wire) = 0
    OBVIOUS
  <2>3. 0 < Power(Octets, UsizeOctets)
    BY UsizeFits
  <2> QED
    BY <2>1, <2>2, <2>3, NothingType DEF WireTyped, Stages
<1>2. SignedRight
  <2>1. signed \in Seq({}) /\ DOMAIN signed = {}
    OBVIOUS
  <2>2. SighashStable
    BY <2>1 DEF SighashStable
  <2> QED
    BY <2>1, <2>2 DEF SignedRight
<1> QED
  BY <1>1, <1>2 DEF WireInv, ReadSoFar, Carried, Accepted

\* What is signed, and what it is hashed from.
LEMMA PreimageOf ==
    ASSUME NEW t, NEW n \in DOMAIN t.vin, NEW code
    PROVE  SignaturePreimage(t, n, code, SighashAll) =
              Serialize(Blanked(t, n, code)) \o ToLe(SighashAll, W32)
BY DEF SignaturePreimage, Blanked

\* One more signature leaves the earlier ones right.
LEMMA SignInputStep == WireInv /\ SignInput => WireInv'
<1> SUFFICES ASSUME WireInv, SignInput PROVE WireInv'
  OBVIOUS
<1> DEFINE n == Len(signed) + 1
           new == SignaturePreimage(tx, n, ScriptOf[n], SighashAll)
<1>1. PICK S : signed \in Seq(S)
  BY DEF WireInv, SignedRight
<1>2. tx \in Transaction /\ tx.vin \in Seq(TxIn) /\ Len(tx.vin) \in Nat
  BY TransactionFields DEF WireInv, WireTyped
<1>3. Len(signed) \in Nat /\ n \in 1 .. Len(tx.vin) /\ DOMAIN tx.vin = 1 .. Len(tx.vin)
  BY <1>1, <1>2 DEF SignInput
<1>4. PICK script \in SigScripts : tx' = [tx EXCEPT !.vin[n].script_sig = script]
  BY DEF SignInput
<1>5. script \in Script
  BY WireAssumption
<1>6. stage = "sign" /\ signed' = Append(signed, new)
      /\ UNCHANGED <<wire, stage, cursor, left, parsed>>
  BY DEF SignInput
<1> HIDE DEF n
<1> DEFINE u == [tx EXCEPT !.vin[n].script_sig = script]
<1>7. /\ u \in Transaction /\ DOMAIN u.vin = DOMAIN tx.vin
      /\ \A m, code : Blanked(u, m, code) = Blanked(tx, m, code)
  BY <1>2, <1>3, <1>5, BlankedStable
<1>8. tx' = u
  BY <1>4
<1> HIDE DEF u
<1>9. ASSUME NEW m, NEW code
      PROVE  SignaturePreimage(u, m, code, SighashAll) = SignaturePreimage(tx, m, code, SighashAll)
  <2>1. CASE m \in DOMAIN tx.vin
    BY <1>7, <2>1, PreimageOf
  <2>2. CASE m \notin DOMAIN tx.vin
    BY <1>7, <2>2 DEF SignaturePreimage
  <2> QED
    BY <2>1, <2>2
<1>10. (WireTyped /\ ReadSoFar /\ Carried /\ Accepted)'
  <2>1. WireTyped'
    BY <1>6, <1>7, <1>8 DEF WireInv, WireTyped
  <2>2. ReadSoFar' /\ Carried'
    BY <1>6 DEF WireInv, ReadSoFar, Carried
  <2>3. Accepted'
    BY <1>6 DEF Accepted
  <2> QED
    BY <2>1, <2>2, <2>3
<1>11. SignedRight'
  <2> HIDE DEF new
  <2>1. signed' \in Seq(S \cup {new})
    BY <1>1, <1>6
  <2>2. ASSUME NEW m \in DOMAIN signed'
        PROVE  signed'[m] = SignaturePreimage(u, m, ScriptOf[m], SighashAll)
    <3>1. CASE m \in DOMAIN signed
      <4>1. signed'[m] = signed[m]
        BY <1>1, <1>6, <3>1
      <4>2. signed[m] = SignaturePreimage(tx, m, ScriptOf[m], SighashAll)
        BY <3>1 DEF WireInv, SignedRight, SighashStable
      <4> QED
        BY <1>9, <4>1, <4>2
    <3>2. CASE m \notin DOMAIN signed
      <4>1. m = n /\ signed'[m] = new
        BY <1>1, <1>3, <1>6, <3>2 DEF n
      <4> QED
        BY <1>9, <4>1 DEF new
    <3> QED
      BY <3>1, <3>2
  <2>3. SighashStable'
    BY <1>8, <2>2 DEF SighashStable
  <2> QED
    BY <2>1, <2>3 DEF SignedRight
<1> QED
  BY <1>10, <1>11 DEF WireInv

\* No transaction is written as nothing.
LEMMA NotEmpty ==
    ASSUME NEW t \in Transaction
    PROVE  Serialize(t) # <<>>
<1>1. PICK p, q : Layout(t, Serialize(t), p, q)
  BY SerializeLaid
<1>2. Len(t.vout) \in Nat /\ q \in [0 .. Len(t.vout) -> Nat]
  BY <1>1, TransactionFields DEF Layout, TailLaid
<1>3. q[Len(t.vout)] \in Nat /\ W32 \in Nat \ {0}
  BY <1>2, OctetFacts
<1>4. Len(Serialize(t)) = q[Len(t.vout)] + W32
  BY <1>1 DEF Layout
<1>5. Len(Serialize(t)) # 0
  BY <1>3, <1>4
<1> QED
  BY <1>5

\* Octets arrive, or are refused as no hex.
LEMMA DeliverStep == WireInv /\ Deliver => WireInv'
<1> SUFFICES ASSUME WireInv, Deliver PROVE WireInv'
  OBVIOUS
<1>1. tx \in Transaction /\ wire = <<>> /\ parsed = Nothing /\ cursor = 0 /\ wire \in Seq(Octet)
      /\ Len(wire) < Power(Octets, UsizeOctets) /\ stage = "sign"
  BY DEF WireInv, WireTyped, ReadSoFar, Deliver
<1> DEFINE sent == ToHex(Serialize(tx))
           texts == {sent} \cup Cut(sent) \cup Longer(sent) \cup Flipped(sent)
                           \cup Dropped(sent) \cup Reframed(tx)
<1>2. PICK text \in texts :
         LET octets == FromHex(text)
         IN  IF octets = Malformed THEN stage' = "failed" /\ UNCHANGED wire
             ELSE /\ Len(octets) < Power(Octets, UsizeOctets)
                  /\ stage' = "version" /\ wire' = octets
  BY DEF Deliver
<1>3. UNCHANGED <<tx, signed, cursor, left, parsed>>
  BY DEF Deliver
<1>4. FromHex(text) # Malformed => FromHex(text) \in Seq(Octet)
  BY <1>1, Arrives
<1> HIDE DEF texts
<1>5. SignedRight'
  BY <1>3 DEF WireInv, SignedRight, SighashStable
<1>6. CASE FromHex(text) = Malformed
  <2>1. stage' = "failed" /\ wire' = wire
    BY <1>2, <1>6
  <2>2. WireTyped'
    BY <1>1, <1>3, <2>1, NothingType DEF WireTyped, Stages
  <2>3. ReadSoFar' /\ Carried'
    BY <1>1, <1>3, <2>1 DEF ReadSoFar, Carried
  <2>4. Accepted'
    BY <1>1, <1>3, <2>1, NotEmpty DEF Accepted
  <2> QED
    BY <1>5, <2>2, <2>3, <2>4 DEF WireInv
<1>7. CASE FromHex(text) # Malformed
  <2>1. /\ stage' = "version" /\ wire' \in Seq(Octet)
        /\ Len(wire') < Power(Octets, UsizeOctets)
    BY <1>2, <1>4, <1>7
  <2>2. WireTyped'
    <3>1. Len(wire') \in Nat
      BY <2>1
    <3>2. cursor' = 0 /\ parsed' \in PartRead /\ tx' \in Transaction
      BY <1>1, <1>3, NothingType
    <3> QED
      BY <2>1, <3>1, <3>2 DEF WireTyped, Stages
  <2>3. ReadSoFar' /\ Carried' /\ Accepted'
    BY <1>1, <1>3, <2>1 DEF ReadSoFar, Carried, Accepted
  <2> QED
    BY <1>5, <2>2, <2>3 DEF WireInv
<1> QED
  BY <1>6, <1>7

\* A read that succeeded is what happens to a transaction that arrived as sent.
Succeeds(at) == wire = Serialize(tx) => at # Failed

\* A read that ends at `at`.
LEMMA Ended ==
    ASSUME WireInv, stage \notin {"sign", "done", "failed"}, NEW at, NEW next, NEW done,
           Go(at, next, done), Succeeds(at), at = Failed
    PROVE  WireInv'
<1>1. /\ stage' = "failed" /\ UNCHANGED <<cursor, parsed, tx, signed, wire>>
  BY DEF Go
<1>2. WireTyped'
  BY <1>1 DEF WireInv, WireTyped, Stages
<1>3. ReadSoFar' /\ SignedRight'
  BY <1>1 DEF WireInv, ReadSoFar, SignedRight, SighashStable
<1>4. Carried'
  <2>1. parsed = Nothing \/ Carries(parsed, cursor)
    BY DEF WireInv, ReadSoFar, Carried
  <2> QED
    BY <1>1, <2>1 DEF Carried
<1>5. Accepted'
  BY <1>1 DEF Accepted, Succeeds
<1> QED
  BY <1>2, <1>3, <1>4, <1>5 DEF WireInv

\* A read that got further.
LEMMA Advanced ==
    ASSUME WireInv, NEW at, NEW next, NEW done, Go(at, next, done), at # Failed,
           next \in Stages \ {"sign", "version", "failed"}, done \in PartRead,
           at \in Nat, at <= Len(wire), Carries(done, at)
    PROVE  /\ stage' = next /\ cursor' = at /\ parsed' = done /\ UNCHANGED <<tx, signed, wire>>
           /\ ReadSoFar' => WireInv'
<1>1. stage' = next /\ cursor' = at /\ parsed' = done /\ UNCHANGED <<tx, signed, wire>>
  BY DEF Go
<1>2. WireTyped'
  BY <1>1 DEF WireInv, WireTyped
<1>3. SignedRight' /\ Carried' /\ Accepted'
  BY <1>1 DEF WireInv, SignedRight, SighashStable, Carried, Carries, Accepted
<1> QED
  BY <1>1, <1>2, <1>3 DEF WireInv

\* Where the transaction that was sent lies, when it arrived so.
LEMMA SentLies ==
    ASSUME WireInv, wire = Serialize(tx)
    PROVE  \E a, b : Layout(tx, wire, a, b)
BY SerializeLaid DEF WireInv, WireTyped

\* The sizes of what was read.
LEMMA Sizes ==
    ASSUME NEW t \in PartRead
    PROVE  /\ t.vin \in Seq(TxIn) /\ Len(t.vin) \in Nat /\ t.vout \in Seq(TxOut) /\ Len(t.vout) \in Nat
           /\ W32 \in Nat /\ HashLen + 2 * W32 + 1 \in Nat /\ W64 + 1 \in Nat
           /\ Len(t.vin) * (HashLen + 2 * W32 + 1) \in Nat /\ Len(t.vout) * (W64 + 1) \in Nat
<1> DEFINE a == HashLen + 2 * W32 + 1
           b == W64 + 1
           m == Len(t.vin)
           n == Len(t.vout)
<1>1. W32 \in Nat /\ a \in Nat /\ b \in Nat
  BY OctetFacts
<1>2. t.vin \in Seq(TxIn) /\ t.vout \in Seq(TxOut)
  BY DEF PartRead
<1>3. m \in Nat /\ n \in Nat
  BY <1>2
<1> HIDE DEF a, b, m, n
<1>4. m * a \in Nat /\ n * b \in Nat
  BY <1>1, <1>3
<1> QED
  BY <1>1, <1>2, <1>3, <1>4 DEF a, b, m, n

\* The reads, one after another.
LEMMA ReadVersionStep == WireInv /\ ReadVersion => WireInv'
<1> SUFFICES ASSUME WireInv, ReadVersion PROVE WireInv'
  OBVIOUS
<1> DEFINE v == ReadSigned(wire, cursor, W32)
           done == [parsed EXCEPT !.version = v.got]
<1>1. /\ tx \in Transaction /\ wire \in Seq(Octet) /\ cursor = 0 /\ parsed = Nothing
      /\ stage = "version" /\ Go(v.at, "vin_count", done)
  BY DEF WireInv, WireTyped, ReadSoFar, ReadVersion
<1>2. Succeeds(v.at)
  BY <1>1, SentLies, StartReads DEF Succeeds
<1>3. W32 \in Nat /\ HashLen \in Nat /\ W64 \in Nat
  BY OctetFacts
<1>4. CASE v.at = Failed
  BY <1>1, <1>2, <1>4, Ended
<1>5. CASE v.at # Failed
  <2>1. PICK n \in SignedInts(W32) : Lies(ToLe(n, W32), wire, 0) /\ v = [at |-> 0 + W32, got |-> n]
    <3>1. v = ReadSigned(wire, 0, W32)
      BY <1>1
    <3>2. ReadSigned(wire, 0, W32).at # Failed /\ 0 \in Nat
      BY <1>5, <3>1
    <3> HIDE DEF v
    <3> QED
      BY <1>1, <1>3, <3>1, <3>2, SignedFrom
  <2>2. v.at = W32 /\ v.got = n
    BY <1>3, <2>1
  <2> DEFINE u == [parsed EXCEPT !.version = n]
  <2>3. /\ u \in PartRead /\ u.version = n /\ u.vin = <<>> /\ u.vout = <<>>
    BY <1>1, NothingType DEF PartRead, Nothing
  <2>4. done = u
    BY <2>2
  <2> HIDE DEF u, done, v
  <2>5. W32 <= Len(wire)
    <3>1. n \in Int
      BY <1>3 DEF SignedInts
    <3>2. Len(ToLe(n, W32)) = W32
      BY <1>3, <3>1, ToLeOctets
    <3> QED
      BY <1>3, <2>1, <3>2 DEF Lies
  <2>6. Carries(u, W32)
    BY <1>3, <2>3 DEF Carries
  <2>7. Go(W32, "vin_count", u) /\ W32 # Failed
    BY <1>1, <1>3, <2>2, <2>4 DEF Failed
  <2>8. "vin_count" \in Stages \ {"sign", "version", "failed"}
    BY DEF Stages
  <2>9. /\ stage' = "vin_count" /\ cursor' = W32 /\ parsed' = u /\ UNCHANGED <<tx, signed, wire>>
        /\ ReadSoFar' => WireInv'
    BY <1>3, <2>3, <2>5, <2>6, <2>7, <2>8, Advanced
  <2>10. ReadSoFar'
    BY <2>1, <2>3, <2>9 DEF ReadSoFar
  <2> QED
    BY <2>9, <2>10
<1> QED
  BY <1>4, <1>5

\* The count of the inputs: a head that stands there, or the end.
LEMMA ReadVinCountStep == WireInv /\ ReadVinCount => WireInv'
<1> SUFFICES ASSUME WireInv, ReadVinCount PROVE WireInv'
  OBVIOUS
<1> DEFINE count == ReadCompactSize(wire, cursor)
           next == IF count.got = 0 THEN "vout_count" ELSE "vin"
<1>1. /\ tx \in Transaction /\ wire \in Seq(Octet) /\ cursor = W32 /\ parsed \in PartRead
      /\ parsed.vin = <<>> /\ parsed.vout = <<>> /\ Lies(ToLe(parsed.version, W32), wire, 0)
      /\ stage = "vin_count" /\ Go(count.at, next, parsed) /\ left' = count.got
      /\ Carries(parsed, cursor)
  BY DEF WireInv, WireTyped, ReadSoFar, Carried, ReadVinCount
<1>2. Succeeds(count.at)
  BY <1>1, SentLies, StartReads DEF Succeeds
<1>3. CASE count.at = Failed
  <2> HIDE DEF count, next
  <2> QED
    BY <1>1, <1>2, <1>3, Ended
<1>4. CASE count.at # Failed
  <2>1. HeadRead(count.got, parsed, wire, count.at) /\ count.at \in W32 .. Len(wire)
        /\ count.got \in Nat
    BY <1>1, <1>4, CountRead
  <2> HIDE DEF count
  <2>2. W32 \in Nat /\ HashLen \in Nat /\ W64 \in Nat /\ Len(wire) \in Nat
    BY <1>1, OctetFacts
  <2>3. count.at \in Nat /\ count.at <= Len(wire) /\ W32 <= count.at
    BY <2>1, <2>2
  <2>4. Len(parsed.vin) = 0 /\ Len(parsed.vout) = 0
    BY <1>1
  <2>5. Carries(parsed, count.at)
    BY <2>2, <2>3, <2>4 DEF Carries
  <2>6. next \in Stages \ {"sign", "version", "failed"}
    BY DEF Stages
  <2>7. /\ stage' = next /\ cursor' = count.at /\ parsed' = parsed /\ UNCHANGED <<tx, signed, wire>>
        /\ ReadSoFar' => WireInv'
    <3> HIDE DEF next
    <3> QED
      BY <1>1, <1>4, <2>3, <2>5, <2>6, Advanced
  <2>8. ReadSoFar'
    <3>1. CASE count.got = 0
      <4>1. next = "vout_count" /\ HeadRead(Len(parsed.vin), parsed, wire, count.at)
        BY <2>1, <2>4, <3>1
      <4> QED
        BY <1>1, <2>7, <4>1 DEF ReadSoFar
    <3>2. CASE count.got # 0
      <4>1. Len(parsed.vin) + count.got = count.got
        BY <2>1, <2>4
      <4>2. /\ next = "vin" /\ HeadRead(Len(parsed.vin) + count.got, parsed, wire, count.at)
            /\ count.got \in Nat \ {0}
        BY <2>1, <3>2, <4>1
      <4> QED
        BY <1>1, <2>7, <4>2 DEF ReadSoFar
    <3> QED
      BY <3>1, <3>2
  <2> QED
    BY <2>7, <2>8
<1> QED
  BY <1>3, <1>4

\* One turn of the first loop: one more input stands there, and one is left less.
LEMMA ReadInputStep == WireInv /\ ReadInput => WireInv'
<1> SUFFICES ASSUME WireInv, ReadInput PROVE WireInv'
  OBVIOUS
<1> DEFINE input == ReadTxIn(wire, cursor)
           next == IF left = 1 THEN "vout_count" ELSE "vin"
           done == [parsed EXCEPT !.vin = Append(@, input.got)]
           m == Len(parsed.vin)
           n == m + left
           size == HashLen + 2 * W32 + 1
<1>1. /\ tx \in Transaction /\ wire \in Seq(Octet) /\ Len(wire) < Power(Octets, UsizeOctets)
      /\ parsed \in PartRead /\ parsed.vout = <<>>
      /\ left \in Nat \ {0} /\ HeadRead(n, parsed, wire, cursor)
      /\ stage = "vin" /\ Go(input.at, next, done) /\ left' = left - 1
      /\ Carries(parsed, cursor)
  BY DEF WireInv, WireTyped, ReadSoFar, Carried, ReadInput
<1>2. Succeeds(input.at)
  BY <1>1, SentLies, InputReads DEF Succeeds
<1>3. CASE input.at = Failed
  <2> HIDE DEF input, next, done
  <2> QED
    BY <1>1, <1>2, <1>3, Ended
<1>4. CASE input.at # Failed
  <2>1. /\ input.got \in TxIn /\ input.at \in Nat /\ input.at <= Len(wire) /\ cursor \in Nat
        /\ cursor + size <= input.at
        /\ HeadRead(n, done, wire, input.at)
    <3> HIDE DEF n
    <3> QED
      BY <1>1, <1>4, InputRead
  <2>2. parsed.vin \in Seq(TxIn) /\ m \in Nat /\ W32 \in Nat /\ size \in Nat /\ W64 \in Nat
    <3>1. W64 \in Nat
      BY OctetFacts
    <3> QED
      BY <1>1, <3>1, Sizes
  <2>3. done \in PartRead /\ done.vin = Append(parsed.vin, input.got) /\ done.vout = <<>>
    <3> HIDE DEF input
    <3>1. Append(parsed.vin, input.got) \in Seq(TxIn)
      BY <2>1, <2>2
    <3> QED
      BY <1>1, <3>1 DEF PartRead
  <2>4. Len(done.vin) = m + 1 /\ Len(done.vout) = 0 /\ Len(parsed.vout) = 0
    BY <1>1, <2>2, <2>3
  <2> HIDE DEF input, done, m, size
  <2>5. Carries(done, input.at)
    <3>1. (m + 1) * size = m * size + size /\ m * size \in Nat
      BY <2>2
    <3>2. W32 + m * size + 0 * (W64 + 1) <= cursor
      BY <1>1, <2>4 DEF Carries, m, size
    <3>3. 0 * (W64 + 1) = 0
      BY <2>2
    <3>4. W32 + (m + 1) * size + 0 * (W64 + 1) <= input.at
      BY <2>1, <2>2, <3>1, <3>2, <3>3
    <3> QED
      BY <2>4, <3>4 DEF Carries, size
  <2>6. next \in Stages \ {"sign", "version", "failed"}
    BY DEF Stages
  <2>7. /\ stage' = next /\ cursor' = input.at /\ parsed' = done /\ UNCHANGED <<tx, signed, wire>>
        /\ ReadSoFar' => WireInv'
    <3> HIDE DEF next
    <3> QED
      BY <1>1, <1>4, <2>1, <2>3, <2>5, <2>6, Advanced
  <2>8. ReadSoFar'
    <3>1. CASE left = 1
      <4>1. next = "vout_count" /\ n = Len(done.vin)
        BY <2>4, <3>1
      <4> QED
        BY <2>1, <2>3, <2>7, <4>1 DEF ReadSoFar
    <3>2. CASE left # 1
      <4>1. /\ next = "vin" /\ left' \in Nat \ {0} /\ n = Len(done.vin) + left'
        BY <1>1, <2>2, <2>4, <3>2
      <4>2. HeadRead(Len(done.vin) + left', done, wire, input.at)
        BY <2>1, <4>1
      <4> QED
        BY <2>3, <2>7, <4>1, <4>2 DEF ReadSoFar
    <3> QED
      BY <3>1, <3>2
  <2> QED
    BY <2>7, <2>8
<1> QED
  BY <1>3, <1>4

\* The count of the outputs, after as many inputs as were announced.
LEMMA ReadVoutCountStep == WireInv /\ ReadVoutCount => WireInv'
<1> SUFFICES ASSUME WireInv, ReadVoutCount PROVE WireInv'
  OBVIOUS
<1> DEFINE count == ReadCompactSize(wire, cursor)
           next == IF count.got = 0 THEN "lock_time" ELSE "vout"
<1>1. /\ tx \in Transaction /\ wire \in Seq(Octet) /\ parsed \in PartRead
      /\ parsed.vout = <<>> /\ HeadRead(Len(parsed.vin), parsed, wire, cursor)
      /\ stage = "vout_count" /\ Go(count.at, next, parsed) /\ left' = count.got
      /\ Carries(parsed, cursor)
  BY DEF WireInv, WireTyped, ReadSoFar, Carried, ReadVoutCount
<1>2. Succeeds(count.at)
  <2>1. Len(parsed.vin) + 0 = Len(parsed.vin)
    BY <1>1 DEF PartRead
  <2>2. HeadRead(Len(parsed.vin) + 0, parsed, wire, cursor)
    BY <1>1, <2>1
  <2> QED
    BY <1>1, <2>2, SentLies, InputReads DEF Succeeds
<1>3. CASE count.at = Failed
  <2> HIDE DEF count, next
  <2> QED
    BY <1>1, <1>2, <1>3, Ended
<1>4. CASE count.at # Failed
  <2>1. /\ TailRead(count.got, parsed, wire, count.at)
        /\ cursor \in Nat /\ count.at \in cursor .. Len(wire) /\ count.got \in Nat
    BY <1>1, <1>4, OutCountRead
  <2> HIDE DEF count
  <2>2. W32 \in Nat /\ HashLen \in Nat /\ W64 \in Nat /\ Len(wire) \in Nat
        /\ parsed.vin \in Seq(TxIn) /\ Len(parsed.vin) \in Nat
    BY <1>1, OctetFacts DEF PartRead
  <2>3. count.at \in Nat /\ count.at <= Len(wire) /\ cursor <= count.at
    BY <2>1, <2>2
  <2>4. Len(parsed.vout) = 0
    BY <1>1
  <2>5. Carries(parsed, count.at)
    <3> DEFINE x == Len(parsed.vin) * (HashLen + 2 * W32 + 1)
               y == Len(parsed.vout) * (W64 + 1)
    <3>1. x \in Nat /\ y \in Nat
      BY <1>1, Sizes
    <3>2. W32 + x + y <= cursor
      BY <1>1 DEF Carries
    <3> HIDE DEF x, y
    <3>3. W32 + x + y <= count.at
      BY <2>1, <2>2, <2>3, <3>1, <3>2
    <3> QED
      BY <3>3 DEF Carries, x, y
  <2>6. next \in Stages \ {"sign", "version", "failed"}
    BY DEF Stages
  <2>7. /\ stage' = next /\ cursor' = count.at /\ parsed' = parsed /\ UNCHANGED <<tx, signed, wire>>
        /\ ReadSoFar' => WireInv'
    <3> HIDE DEF next
    <3> QED
      BY <1>1, <1>4, <2>3, <2>5, <2>6, Advanced
  <2>8. ReadSoFar'
    <3>1. CASE count.got = 0
      <4>1. next = "lock_time" /\ TailRead(Len(parsed.vout), parsed, wire, count.at)
        BY <2>1, <2>4, <3>1
      <4> QED
        BY <1>1, <2>7, <4>1 DEF ReadSoFar
    <3>2. CASE count.got # 0
      <4>1. Len(parsed.vout) + count.got = count.got
        BY <2>1, <2>4
      <4>2. /\ next = "vout" /\ TailRead(Len(parsed.vout) + count.got, parsed, wire, count.at)
            /\ count.got \in Nat \ {0}
        BY <2>1, <3>2, <4>1
      <4> QED
        BY <1>1, <2>7, <4>2 DEF ReadSoFar
    <3> QED
      BY <3>1, <3>2
  <2> QED
    BY <2>7, <2>8
<1> QED
  BY <1>3, <1>4

\* One turn of the second loop.
LEMMA ReadOutputStep == WireInv /\ ReadOutput => WireInv'
<1> SUFFICES ASSUME WireInv, ReadOutput PROVE WireInv'
  OBVIOUS
<1> DEFINE output == ReadTxOut(wire, cursor)
           next == IF left = 1 THEN "lock_time" ELSE "vout"
           done == [parsed EXCEPT !.vout = Append(@, output.got)]
           m == Len(parsed.vout)
           n == m + left
           size == W64 + 1
           ins == Len(parsed.vin) * (HashLen + 2 * W32 + 1)
<1>1. /\ tx \in Transaction /\ wire \in Seq(Octet) /\ Len(wire) < Power(Octets, UsizeOctets)
      /\ parsed \in PartRead
      /\ left \in Nat \ {0} /\ TailRead(n, parsed, wire, cursor)
      /\ stage = "vout" /\ Go(output.at, next, done) /\ left' = left - 1
      /\ Carries(parsed, cursor)
  BY DEF WireInv, WireTyped, ReadSoFar, Carried, ReadOutput
<1>2. Succeeds(output.at)
  BY <1>1, SentLies, OutputReads DEF Succeeds
<1>3. CASE output.at = Failed
  <2> HIDE DEF output, next, done
  <2> QED
    BY <1>1, <1>2, <1>3, Ended
<1>4. CASE output.at # Failed
  <2>1. /\ output.got \in TxOut /\ output.at \in Nat /\ output.at <= Len(wire) /\ cursor \in Nat
        /\ cursor + size <= output.at
        /\ TailRead(n, done, wire, output.at)
    <3> HIDE DEF n
    <3> QED
      BY <1>1, <1>4, OutputRead
  <2>2. /\ parsed.vout \in Seq(TxOut) /\ m \in Nat /\ W32 \in Nat /\ size \in Nat /\ ins \in Nat
    BY <1>1, Sizes
  <2>3. done \in PartRead /\ done.vout = Append(parsed.vout, output.got) /\ done.vin = parsed.vin
    <3> HIDE DEF output
    <3>1. Append(parsed.vout, output.got) \in Seq(TxOut)
      BY <2>1, <2>2
    <3> QED
      BY <1>1, <3>1 DEF PartRead
  <2>4. Len(done.vout) = m + 1
    BY <2>2, <2>3
  <2> HIDE DEF output, done, m, size, ins
  <2>5. Carries(done, output.at)
    <3>1. (m + 1) * size = m * size + size /\ m * size \in Nat
      BY <2>2
    <3>2. W32 + ins + m * size <= cursor
      BY <1>1 DEF Carries, m, size, ins
    <3>3. W32 + ins + (m + 1) * size <= output.at
      BY <2>1, <2>2, <3>1, <3>2
    <3> QED
      BY <2>3, <2>4, <3>3 DEF Carries, size, ins
  <2>6. next \in Stages \ {"sign", "version", "failed"}
    BY DEF Stages
  <2>7. /\ stage' = next /\ cursor' = output.at /\ parsed' = done /\ UNCHANGED <<tx, signed, wire>>
        /\ ReadSoFar' => WireInv'
    <3> HIDE DEF next
    <3> QED
      BY <1>1, <1>4, <2>1, <2>3, <2>5, <2>6, Advanced
  <2>8. ReadSoFar'
    <3>1. CASE left = 1
      <4>1. next = "lock_time" /\ n = Len(done.vout)
        BY <2>4, <3>1
      <4> QED
        BY <2>1, <2>3, <2>7, <4>1 DEF ReadSoFar
    <3>2. CASE left # 1
      <4>1. /\ next = "vout" /\ left' \in Nat \ {0} /\ n = Len(done.vout) + left'
        BY <1>1, <2>2, <2>4, <3>2
      <4>2. TailRead(Len(done.vout) + left', done, wire, output.at)
        BY <2>1, <4>1
      <4> QED
        BY <2>3, <2>7, <4>1, <4>2 DEF ReadSoFar
    <3> QED
      BY <3>1, <3>2
  <2> QED
    BY <2>7, <2>8
<1> QED
  BY <1>3, <1>4

\* The last field, up to the last octet of the wire.
LEMMA ReadLockTimeStep == WireInv /\ ReadLockTime => WireInv'
<1> SUFFICES ASSUME WireInv, ReadLockTime PROVE WireInv'
  OBVIOUS
<1> DEFINE lock == ReadUnsigned(wire, cursor, W32)
           at == IF lock.at = Len(wire) THEN lock.at ELSE Failed
           done == [parsed EXCEPT !.lock_time = lock.got]
<1>1. /\ tx \in Transaction /\ wire \in Seq(Octet) /\ Len(wire) < Power(Octets, UsizeOctets)
      /\ parsed \in PartRead /\ TailRead(Len(parsed.vout), parsed, wire, cursor)
      /\ stage = "lock_time" /\ Go(at, "done", done) /\ Carries(parsed, cursor)
      /\ cursor \in Nat /\ cursor <= Len(wire)
  BY DEF WireInv, WireTyped, ReadSoFar, Carried, ReadLockTime
<1>2. Len(wire) \in Nat /\ Len(wire) # Failed
  <2>1. Len(wire) \in Nat
    BY <1>1
  <2> QED
    BY <2>1 DEF Failed
<1>3. Succeeds(at)
  <2> SUFFICES ASSUME wire = Serialize(tx) PROVE at # Failed
    BY DEF Succeeds
  <2>1. Len(parsed.vout) + 0 = Len(parsed.vout)
    BY <1>1, Sizes
  <2>2. TailRead(Len(parsed.vout) + 0, parsed, wire, cursor)
    BY <1>1, <2>1
  <2>3. lock.at = Len(wire)
    BY <1>1, <2>2, SentLies, OutputReads
  <2> QED
    BY <1>2, <2>3
<1>4. CASE at = Failed
  <2> HIDE DEF at, done
  <2> QED
    BY <1>1, <1>3, <1>4, Ended
<1>5. CASE at # Failed
  <2>1. at = Len(wire) /\ lock.at = Len(wire)
    BY <1>5
  <2>2. lock.got \in UnsignedInts(W32) /\ \E p, q : Layout(done, wire, p, q)
    BY <1>1, <2>1, LockRead
  <2>3. /\ parsed.vin \in Seq(TxIn) /\ parsed.vout \in Seq(TxOut)
        /\ done = [version |-> parsed.version, vin |-> parsed.vin, vout |-> parsed.vout,
                   lock_time |-> lock.got]
        /\ done \in PartRead /\ done.vin = parsed.vin /\ done.vout = parsed.vout
    BY <1>1, <2>2 DEF PartRead
  <2> HIDE DEF lock, at, done
  <2> DEFINE a == HashLen + 2 * W32 + 1
             b == W64 + 1
             m == Len(parsed.vin)
             n == Len(parsed.vout)
  <2>4. /\ m \in Nat /\ n \in Nat /\ W32 \in Nat /\ m * a \in Nat /\ n * b \in Nat
        /\ a \in Nat \ {0} /\ b \in Nat \ {0}
    <3>1. /\ m \in Nat /\ n \in Nat /\ W32 \in Nat /\ m * a \in Nat /\ n * b \in Nat
      BY <1>1, Sizes
    <3>2. a \in Nat \ {0} /\ b \in Nat \ {0}
      BY OctetFacts
    <3> QED
      BY <3>1, <3>2
  <2>5. W32 + m * a + n * b <= cursor
    BY <1>1 DEF Carries
  <2>6. Carries(done, at)
    <3>1. W32 + m * a + n * b <= at
      <4> HIDE DEF m, n, a, b
      <4> QED
        BY <1>1, <1>2, <2>1, <2>4, <2>5
    <3> QED
      BY <2>3, <3>1 DEF Carries
  <2> HIDE DEF m, n, a, b
  <2>7. m <= Len(wire) /\ n <= Len(wire)
    <3>1. m <= m * a /\ n <= n * b
      <4>1. ASSUME NEW x \in Nat, NEW y \in Nat \ {0} PROVE x <= x * y
        <5> DEFINE z == y - 1
        <5>1. z \in Nat /\ y = z + 1
          BY <4>1
        <5> HIDE DEF z
        <5>2. x * (z + 1) = x * z + x /\ x * z \in Nat
          BY <5>1
        <5> QED
          BY <5>1, <5>2
      <4> QED
        BY <2>4, <4>1
    <3> QED
      BY <1>1, <1>2, <2>4, <2>5, <3>1
  <2>8. done \in Transaction
    <3>1. Power(Octets, UsizeOctets) \in Nat
      BY UsizeFits
    <3>2. m < Power(Octets, UsizeOctets) /\ n < Power(Octets, UsizeOctets)
      BY <1>1, <1>2, <2>4, <2>7, <3>1
    <3>3. parsed.vin \in Vec(TxIn) /\ parsed.vout \in Vec(TxOut)
      BY <2>3, <3>2 DEF Vec, m, n
    <3>4. parsed.version \in SignedInts(W32)
      BY <1>1 DEF PartRead
    <3> QED
      BY <2>2, <2>3, <3>3, <3>4 DEF Transaction
  <2>9. "done" \in Stages \ {"sign", "version", "failed"}
    BY DEF Stages
  <2>10. /\ stage' = "done" /\ parsed' = done /\ UNCHANGED wire
         /\ ReadSoFar' => WireInv'
    <3>1. at \in Nat /\ at <= Len(wire)
      BY <1>2, <2>1
    <3> QED
      BY <1>1, <1>5, <2>3, <2>6, <2>9, <3>1, Advanced
  <2>11. ReadSoFar'
    BY <2>2, <2>8, <2>10 DEF ReadSoFar
  <2> QED
    BY <2>10, <2>11
<1> QED
  BY <1>4, <1>5

\* Every step keeps the invariant.
LEMMA WireNextStep == WireInv /\ [WireNext]_wireVars => WireInv'
<1> SUFFICES ASSUME WireInv, [WireNext]_wireVars PROVE WireInv'
  OBVIOUS
<1>1. CASE UNCHANGED wireVars
  BY <1>1 DEF wireVars, WireInv, WireTyped, ReadSoFar, Carried, Accepted, SignedRight, SighashStable
<1>2. CASE WireNext
  BY <1>2, SignInputStep, DeliverStep, ReadVersionStep, ReadVinCountStep, ReadInputStep,
     ReadVoutCountStep, ReadOutputStep, ReadLockTimeStep DEF WireNext
<1> QED
  BY <1>1, <1>2

\* An accepted transaction that arrived as sent is the one that was sent.
LEMMA InvRoundTrip == WireInv => RoundTrip
<1> SUFFICES ASSUME WireInv, stage # "sign", wire = Serialize(tx)
             PROVE  stage # "failed" /\ (stage = "done" => parsed = tx)
  BY DEF RoundTrip
<1>1. stage # "failed"
  BY DEF WireInv, Accepted
<1>2. ASSUME stage = "done" PROVE parsed = tx
  <2>1. tx \in Transaction /\ wire \in Seq(Octet) /\ parsed \in Transaction
    BY <1>2 DEF WireInv, WireTyped, ReadSoFar
  <2>2. PICK p, q : Layout(parsed, wire, p, q)
    BY <1>2 DEF WireInv, ReadSoFar
  <2>3. PICK a, b : Layout(tx, wire, a, b)
    BY SentLies
  <2> QED
    BY <2>1, <2>2, <2>3, LayoutUnique
<1> QED
  BY <1>1, <1>2

\* An accepted transaction is what the octets spell.
LEMMA InvAcceptedIsEncoding == WireInv => AcceptedIsEncoding
<1> SUFFICES ASSUME WireInv, stage = "done" PROVE AcceptedIsEncoding
  BY DEF AcceptedIsEncoding
<1>1. wire \in Seq(Octet) /\ parsed \in Transaction
  BY DEF WireInv, WireTyped, ReadSoFar
<1>2. PICK p, q : Layout(parsed, wire, p, q)
  BY DEF WireInv, ReadSoFar
<1>3. Spelled(Fields(parsed), wire, 0, Len(wire))
  BY <1>1, <1>2, LayoutSpelled
<1>4. Fields(parsed) \in Seq(Field)
  BY <1>1, FieldParts
<1> QED
  BY <1>1, <1>3, <1>4, EndsReached DEF AcceptedIsEncoding

\* No more is held than was read.
LEMMA InvCountBounded == WireInv => CountBounded
BY DEF WireInv, WireTyped, ReadSoFar, Carried, Carries, CountBounded

\* Transaction::deserialize returns what was sent when that arrives, accepts nothing
\* else than what spells its result, and never holds more than it has read.
THEOREM ParserExactHolds == WireSpec => []ParserExact
<1>1. WireInv => ParserExact
  BY InvRoundTrip, InvAcceptedIsEncoding, InvCountBounded DEF ParserExact
<1> QED
  BY <1>1, WireInitHolds, WireNextStep, PTL DEF WireSpec

\* What a signature covers tells transactions apart.
LEMMA InvSighashCommits == WireInv => SighashCommits
<1> SUFFICES ASSUME WireInv, stage = "done", NEW i \in DOMAIN tx.vin, NEW j \in DOMAIN parsed.vin,
                    SignaturePreimage(tx, i, ScriptOf[1], SighashAll)
                       = SignaturePreimage(parsed, j, ScriptOf[1], SighashAll)
             PROVE  i = j /\ Unsigned(tx) = Unsigned(parsed)
  BY DEF SighashCommits
<1> DEFINE code == ScriptOf[1]
           t == Blanked(tx, i, code)
           u == Blanked(parsed, j, code)
           tail == ToLe(SighashAll, W32)
<1>1. tx \in Transaction /\ parsed \in Transaction
  BY DEF WireInv, WireTyped, ReadSoFar
<1>2. code \in Script /\ code # <<>>
  <2>1. 1 \in DOMAIN ScriptOf
    BY WireAssumption
  <2> QED
    BY <2>1, WireAssumption
<1>3. t \in Transaction /\ u \in Transaction
  BY <1>1, <1>2, BlankedType
<1>4. Serialize(t) \o tail = Serialize(u) \o tail
  BY PreimageOf
<1>5. tail \in Seq(Octet)
  BY OctetFacts, ToLeOctets DEF SighashAll
<1> HIDE DEF t, u, tail, code
<1>6. Serialize(t) \in Seq(Octet) /\ Serialize(u) \in Seq(Octet)
  BY <1>3, SerializeLaid
<1>7. Serialize(t) = Serialize(u)
  BY <1>4, <1>5, <1>6, SplitEqual
<1>8. t = u
  <2>1. PICK p, q : Layout(t, Serialize(t), p, q)
    BY <1>3, SerializeLaid
  <2>2. PICK a, b : Layout(u, Serialize(t), a, b)
    BY <1>3, <1>7, SerializeLaid
  <2> QED
    BY <1>3, <1>6, <2>1, <2>2, LayoutUnique
<1> QED
  BY <1>1, <1>2, <1>8, BlankedCommits DEF t, u

\* Every signature of the finished transaction is valid, in whatever order they were
\* made, and covers one input of one transaction.
THEOREM SighashExactHolds == WireSpec => []SighashExact
<1>1. WireInv => SighashExact
  BY InvSighashCommits DEF SighashExact, WireInv, SignedRight
<1> QED
  BY <1>1, WireInitHolds, WireNextStep, PTL DEF WireSpec
=============================================================================
