------------------------- MODULE WalletView_proofs -------------------------
(***************************************************************************)
(* The Overview for every wallet, set of transactions, length of the list  *)
(* and chain.                                                              *)
(***************************************************************************)
EXTENDS WalletView, DataLemmas

SatsOf(coins) == [i \in DOMAIN coins |-> coins[i].sats]

\* The transactions that touch the device, by an index state.
Touching(w) == {t \in Known(w) : Own(Txs[t].vin) # {} \/ Own(Txs[t].vout) # {}}

\* The coins of a transaction on watched addresses.
LEMMA CoinFacts ==
    ASSUME NEW coins \in Seq(Coin)
    PROVE  /\ IsFiniteSet(Own(coins))
           /\ \A i \in Own(coins) : i \in DOMAIN coins /\ i \in Nat \ {0}
           /\ \A i \in DOMAIN coins : coins[i].sats \in Int
           /\ \A S \in SUBSET DOMAIN coins : IsFiniteSet(S) /\ Summable(SatsOf(coins), S)
<1>1. /\ DOMAIN coins = 1 .. Len(coins) /\ Len(coins) \in Nat
      /\ \A i \in DOMAIN coins : coins[i].sats \in Int
  <2>1. DOMAIN coins = 1 .. Len(coins) /\ Len(coins) \in Nat
    OBVIOUS
  <2>2. ASSUME NEW i \in 1 .. Len(coins) PROVE coins[i].sats \in Int
    <3>1. coins[i] \in Coin
      OBVIOUS
    <3> QED
      BY <3>1 DEF Coin
  <2> QED
    BY <2>1, <2>2
<1>2. IsFiniteSet(1 .. Len(coins))
  BY <1>1, FS_Interval
<1>3. \A S \in SUBSET DOMAIN coins : IsFiniteSet(S)
  BY <1>1, <1>2, FS_Subset
<1>4. Own(coins) \subseteq DOMAIN coins
  BY DEF Own
<1> QED
  BY <1>1, <1>3, <1>4 DEF Summable, SatsOf

LEMMA TxFacts ==
    /\ TxIds = 1 .. Len(Txs) /\ Len(Txs) \in Nat /\ IsFiniteSet(TxIds)
    /\ \A t \in TxIds : Txs[t].vin \in Seq(Coin) /\ Txs[t].vout \in Seq(Coin)
<1> DEFINE Tx == [vin : Seq(Coin), vout : Seq(Coin),
                  sender : SUBSET Strings, spends : SUBSET TxIds]
<1>1. Len(Txs) \in Nat /\ \A t \in TxIds : Txs[t].vin \in Seq(Coin) /\ Txs[t].vout \in Seq(Coin)
  <2>1. Txs \in Seq(Tx)
    BY ViewAssumption
  <2>2. Len(Txs) \in Nat /\ \A t \in 1 .. Len(Txs) : Txs[t] \in Tx
    <3> HIDE DEF Tx
    <3> QED
      BY <2>1
  <2>3. \A x \in Tx : x.vin \in Seq(Coin) /\ x.vout \in Seq(Coin)
    OBVIOUS
  <2> QED
    BY <2>2, <2>3 DEF TxIds
<1>2. IsFiniteSet(1 .. Len(Txs))
  BY <1>1, FS_Interval
<1> QED
  BY <1>1, <1>2 DEF TxIds

-----------------------------------------------------------------------------
(* The entries of the index.                                               *)

InsOf(t) == {<<t, -i>> : i \in Own(Txs[t].vin)}
OutsOf(t) == {<<t, i>> : i \in Own(Txs[t].vout)}
Amounts(S) == [d \in S |-> Sats(d)]

\* Inputs and outputs have entries of their own, with their values.
LEMMA EntryFacts ==
    ASSUME NEW t \in TxIds
    PROVE  /\ IsFiniteSet(InsOf(t)) /\ IsFiniteSet(OutsOf(t)) /\ InsOf(t) \cap OutsOf(t) = {}
           /\ DeltasOf(t) = InsOf(t) \cup OutsOf(t) /\ IsFiniteSet(DeltasOf(t))
           /\ \A i \in Own(Txs[t].vin) : Sats(<<t, -i>>) = -Txs[t].vin[i].sats
           /\ \A i \in Own(Txs[t].vout) : Sats(<<t, i>>) = Txs[t].vout[i].sats
           /\ \A d \in DeltasOf(t) : d[1] = t /\ Sats(d) \in Int
<1>1. Txs[t].vin \in Seq(Coin) /\ Txs[t].vout \in Seq(Coin)
  BY TxFacts
<1>2. /\ IsFiniteSet(Own(Txs[t].vin)) /\ IsFiniteSet(Own(Txs[t].vout))
      /\ \A i \in Own(Txs[t].vin) : i \in Nat \ {0} /\ i \in DOMAIN Txs[t].vin
      /\ \A i \in Own(Txs[t].vout) : i \in Nat \ {0} /\ i \in DOMAIN Txs[t].vout
  BY <1>1, CoinFacts
<1>3. IsFiniteSet(InsOf(t))
  <2> DEFINE b == [i \in Own(Txs[t].vin) |-> <<t, -i>>]
  <2>1. InsOf(t) = {b[i] : i \in Own(Txs[t].vin)}
    BY DEF InsOf
  <2> HIDE DEF b
  <2> QED
    BY <1>2, <2>1, FiniteImage
<1>4. IsFiniteSet(OutsOf(t))
  <2> DEFINE b == [i \in Own(Txs[t].vout) |-> <<t, i>>]
  <2>1. OutsOf(t) = {b[i] : i \in Own(Txs[t].vout)}
    BY DEF OutsOf
  <2> HIDE DEF b
  <2> QED
    BY <1>2, <2>1, FiniteImage
<1>5. InsOf(t) \cap OutsOf(t) = {}
  <2> SUFFICES ASSUME NEW i \in Own(Txs[t].vin), NEW j \in Own(Txs[t].vout), <<t, -i>> = <<t, j>>
               PROVE  FALSE
    BY DEF InsOf, OutsOf
  <2>1. -i = j /\ i \in Nat \ {0} /\ j \in Nat \ {0}
    BY <1>2
  <2> QED
    BY <2>1
<1>6. ASSUME NEW i \in Own(Txs[t].vin)
      PROVE  Sats(<<t, -i>>) = -Txs[t].vin[i].sats /\ Txs[t].vin[i].sats \in Int
  <2>1. -i < 0 /\ -(-i) = i /\ i \in DOMAIN Txs[t].vin
    BY <1>2
  <2>2. Txs[t].vin[i].sats \in Int
    BY <1>1, <2>1, CoinFacts
  <2> QED
    BY <2>1, <2>2 DEF Sats
<1>7. ASSUME NEW i \in Own(Txs[t].vout)
      PROVE  Sats(<<t, i>>) = Txs[t].vout[i].sats /\ Txs[t].vout[i].sats \in Int
  <2>1. ~(i < 0) /\ i \in DOMAIN Txs[t].vout
    BY <1>2
  <2>2. Txs[t].vout[i].sats \in Int
    BY <1>1, <2>1, CoinFacts
  <2> QED
    BY <2>1, <2>2 DEF Sats
<1>8. DeltasOf(t) = InsOf(t) \cup OutsOf(t)
  BY DEF DeltasOf, InsOf, OutsOf
<1>9. IsFiniteSet(DeltasOf(t))
  BY <1>3, <1>4, <1>8, FS_Union
<1>10. ASSUME NEW d \in DeltasOf(t) PROVE d[1] = t /\ Sats(d) \in Int
  <2>1. CASE d \in InsOf(t)
    <3>1. PICK i \in Own(Txs[t].vin) : d = <<t, -i>>
      BY <2>1 DEF InsOf
    <3> DEFINE v == Txs[t].vin[i].sats
    <3>2. Sats(<<t, -i>>) = -v /\ v \in Int
      BY <1>6
    <3> HIDE DEF v
    <3>3. Sats(<<t, -i>>) \in Int
      BY <3>2
    <3> QED
      BY <3>1, <3>3
  <2>2. CASE d \in OutsOf(t)
    BY <1>7, <2>2 DEF OutsOf
  <2> QED
    BY <1>8, <2>1, <2>2
<1> QED
  BY <1>3, <1>4, <1>5, <1>6, <1>7, <1>8, <1>9, <1>10

\* The entries of a transaction add up to what it moved.
LEMMA EntriesExact ==
    ASSUME NEW t \in TxIds
    PROVE  Moved(DeltasOf(t)) = Net(t) /\ Net(t) \in Int
<1> DEFINE f == Amounts(DeltasOf(t))
           vin == Txs[t].vin
           vout == Txs[t].vout
<1>1. /\ vin \in Seq(Coin) /\ vout \in Seq(Coin)
      /\ Own(vin) \in SUBSET DOMAIN vin /\ Own(vout) \in SUBSET DOMAIN vout
  BY TxFacts DEF Own
<1>2. /\ IsFiniteSet(Own(vin)) /\ Summable(SatsOf(vin), Own(vin))
      /\ IsFiniteSet(Own(vout)) /\ Summable(SatsOf(vout), Own(vout))
  BY <1>1, CoinFacts
<1>3. Summable(f, InsOf(t)) /\ Summable(f, OutsOf(t)) /\ Summable(f, InsOf(t) \cup OutsOf(t))
  BY EntryFacts DEF Summable, Amounts
<1>4. SumFunctionOnSet(f, OutsOf(t)) = SumFunctionOnSet(SatsOf(vout), Own(vout))
  <2> DEFINE b == [i \in Own(vout) |-> <<t, i>>]
  <2>1. /\ b \in [Own(vout) -> OutsOf(t)] /\ \A y \in OutsOf(t) : \E x \in Own(vout) : b[x] = y
        /\ \A x, y \in Own(vout) : b[x] = b[y] => x = y
    BY DEF OutsOf
  <2>2. \A i \in Own(vout) : f[b[i]] = SatsOf(vout)[i]
    <3> TAKE i \in Own(vout)
    <3>1. <<t, i>> \in DeltasOf(t) /\ i \in DOMAIN vout
      BY <1>1 DEF DeltasOf
    <3> QED
      BY <3>1, EntryFacts DEF Amounts, SatsOf
  <2> HIDE DEF b, f, vout
  <2> QED
    BY <1>2, <1>3, <2>1, <2>2, SumReindex
<1>5. SumFunctionOnSet(f, InsOf(t)) = -SumFunctionOnSet(SatsOf(vin), Own(vin))
  <2> DEFINE b == [i \in Own(vin) |-> <<t, -i>>]
             g == [i \in Own(vin) |-> -SatsOf(vin)[i]]
  <2>1. /\ b \in [Own(vin) -> InsOf(t)] /\ \A y \in InsOf(t) : \E x \in Own(vin) : b[x] = y
    BY DEF InsOf
  <2>2. \A x, y \in Own(vin) : b[x] = b[y] => x = y
    <3> TAKE x, y \in Own(vin)
    <3>1. x \in Nat /\ y \in Nat
      BY <1>1, CoinFacts
    <3> QED
      BY <3>1
  <2>3. \A i \in Own(vin) : f[b[i]] = g[i]
    <3> TAKE i \in Own(vin)
    <3>1. <<t, -i>> \in DeltasOf(t) /\ i \in DOMAIN vin
      BY <1>1 DEF DeltasOf
    <3> QED
      BY <3>1, EntryFacts DEF Amounts, SatsOf
  <2>4. \A i \in Own(vin) : g[i] = -SatsOf(vin)[i]
    OBVIOUS
  <2> HIDE DEF b, f, g, vin
  <2>5. SumFunctionOnSet(f, InsOf(t)) = SumFunctionOnSet(g, Own(vin))
    BY <1>2, <1>3, <2>1, <2>2, <2>3, SumReindex
  <2>6. SumFunctionOnSet(g, Own(vin)) = -SumFunctionOnSet(SatsOf(vin), Own(vin))
    BY <1>2, <2>4, SumNegate
  <2> QED
    BY <2>5, <2>6
<1>6. Moved(DeltasOf(t)) = SumFunctionOnSet(f, InsOf(t) \cup OutsOf(t))
  BY EntryFacts DEF Moved, Amounts
<1>7. Net(t) = SumFunctionOnSet(SatsOf(vout), Own(vout)) - SumFunctionOnSet(SatsOf(vin), Own(vin))
  BY DEF Net, Total, SatsOf
<1>8. /\ SumFunctionOnSet(SatsOf(vout), Own(vout)) \in Int
      /\ SumFunctionOnSet(SatsOf(vin), Own(vin)) \in Int
  BY <1>2, SumRemove
<1>9. IsFiniteSet(InsOf(t)) /\ IsFiniteSet(OutsOf(t)) /\ InsOf(t) \cap OutsOf(t) = {}
  BY EntryFacts
<1> HIDE DEF f, vin, vout
<1>10. SumFunctionOnSet(f, InsOf(t) \cup OutsOf(t))
          = SumFunctionOnSet(f, InsOf(t)) + SumFunctionOnSet(f, OutsOf(t))
  BY <1>3, <1>9, SumUnion
<1> QED
  BY <1>4, <1>5, <1>6, <1>7, <1>8, <1>10

\* The index adds up to what the transactions moved that touch the device.
LEMMA IndexExact ==
    ASSUME NEW w \in [TxIds -> -1 .. MaxHeight]
    PROVE  IndexBalance(w) = SumFunctionOnSet([t \in TxIds |-> Net(t)], Touching(w))
<1> DEFINE f == Amounts(Deltas(w))
           P == [t \in Touching(w) |-> DeltasOf(t)]
           h == [t \in TxIds |-> Net(t)]
<1>1. Touching(w) \subseteq TxIds /\ IsFiniteSet(Touching(w))
  BY TxFacts, FS_Subset DEF Touching, Known
<1>2. Deltas(w) = UNION {P[t] : t \in Touching(w)}
  <2>1. \A t \in Known(w) : t \notin Touching(w) => DeltasOf(t) = {}
    BY DEF Touching, DeltasOf
  <2>2. Touching(w) \subseteq Known(w)
    BY DEF Touching
  <2>3. \A d \in Deltas(w) : \E t \in Touching(w) : d \in DeltasOf(t)
    BY <2>1 DEF Deltas
  <2>4. \A t \in Touching(w) : DeltasOf(t) \subseteq Deltas(w)
    BY <2>2 DEF Deltas
  <2> QED
    BY <2>3, <2>4
<1>3. \A t \in Touching(w) : IsFiniteSet(P[t]) /\ Summable(f, P[t])
  <2> TAKE t \in Touching(w)
  <2>1. \A d \in DeltasOf(t) : d \in Deltas(w)
    BY DEF Deltas, Touching
  <2>2. t \in TxIds
    BY <1>1
  <2> QED
    BY <2>1, <2>2, EntryFacts DEF Summable, Amounts
<1>4. \A t, u \in Touching(w) : t # u => P[t] \cap P[u] = {}
  <2> TAKE t, u \in Touching(w)
  <2>1. /\ \A d \in DeltasOf(t) : d[1] = t
        /\ \A d \in DeltasOf(u) : d[1] = u
    BY <1>1, EntryFacts
  <2> QED
    BY <2>1
<1>5. \A t \in Touching(w) : h[t] = SumFunctionOnSet(f, P[t])
  <2> TAKE t \in Touching(w)
  <2>1. t \in TxIds /\ \A d \in DeltasOf(t) : d \in Deltas(w)
    BY <1>1 DEF Deltas, Touching
  <2>2. \A d \in DeltasOf(t) : f[d] = Amounts(DeltasOf(t))[d]
    BY <2>1 DEF Amounts
  <2>3. IsFiniteSet(DeltasOf(t)) /\ Summable(f, DeltasOf(t))
    BY <1>3
  <2>4. SumFunctionOnSet(f, DeltasOf(t)) = SumFunctionOnSet(Amounts(DeltasOf(t)), DeltasOf(t))
    <3> HIDE DEF f
    <3> QED
      BY <2>2, <2>3, SumAgree
  <2>5. h[t] = Moved(DeltasOf(t))
    BY <2>1, EntriesExact
  <2> QED
    BY <2>4, <2>5 DEF Moved, Amounts
<1> HIDE DEF P, f, h
<1>6. SumFunctionOnSet(f, UNION {P[t] : t \in Touching(w)}) = SumFunctionOnSet(h, Touching(w))
  BY <1>1, <1>3, <1>4, <1>5, SumPartition
<1>7. IndexBalance(w) = SumFunctionOnSet(f, Deltas(w))
  BY DEF IndexBalance, Moved, Amounts, f
<1> QED
  BY <1>2, <1>6, <1>7 DEF h

-----------------------------------------------------------------------------
(* The lines, and their order.                                             *)

\* What is needed of a set of lines: one per transaction, each with the height and
\* the net movement of its transaction.
GoodLines(w, L) ==
    /\ IsFiniteSet(L)
    /\ \A l \in L : /\ l.txid \in TxIds /\ l.height = w[l.txid] /\ l.height \in 0 .. MaxHeight
                    /\ l.net = Net(l.txid)
    /\ \A l, m \in L : l.txid = m.txid => l = m

LEMMA LineFacts ==
    ASSUME NEW w \in [TxIds -> -1 .. MaxHeight]
    PROVE  /\ GoodLines(w, Lines(w))
           /\ {l.txid : l \in Lines(w)} = Touching(w)
<1> DEFINE L == {Line(w, t) : t \in Touching(w)}
<1>1. ASSUME NEW t \in Touching(w)
      PROVE  /\ t \in TxIds /\ t \in Known(w) /\ w[t] \in 0 .. MaxHeight
             /\ {d \in Deltas(w) : d[1] = t} = DeltasOf(t) /\ DeltasOf(t) # {}
  <2>1. t \in TxIds /\ t \in Known(w) /\ w[t] \in 0 .. MaxHeight
    BY ViewAssumption DEF Touching, Known
  <2>2. \A u \in Known(w) : \A d \in DeltasOf(u) : d[1] = u
    BY EntryFacts DEF Known
  <2>3. {d \in Deltas(w) : d[1] = t} = DeltasOf(t)
    BY <2>1, <2>2 DEF Deltas
  <2>4. DeltasOf(t) # {}
    BY DEF Touching, DeltasOf
  <2> QED
    BY <2>1, <2>3, <2>4
<1>2. Lines(w) = L
  <2>1. ASSUME NEW d \in Deltas(w) PROVE d[1] \in Touching(w)
    <3>1. PICK t \in Known(w) : d \in DeltasOf(t)
      BY DEF Deltas
    <3>2. d[1] = t
      BY <3>1, EntryFacts DEF Known
    <3>3. t \in Touching(w)
      BY <3>1 DEF Touching, DeltasOf
    <3> QED
      BY <3>2, <3>3
  <2>2. ASSUME NEW t \in Touching(w) PROVE \E d \in Deltas(w) : d[1] = t
    <3>1. PICK d \in DeltasOf(t) : TRUE
      BY <1>1
    <3> QED
      BY <1>1, <3>1
  <2> QED
    BY <2>1, <2>2 DEF Lines
<1>3. ASSUME NEW t \in Touching(w)
      PROVE  Line(w, t).txid = t /\ Line(w, t).height = w[t] /\ Line(w, t).net = Net(t)
  <2>1. NetOf({d \in Deltas(w) : d[1] = t}) = Net(t)
    BY <1>1, EntriesExact DEF NetOf
  <2> QED
    BY <2>1 DEF Line
<1>4. IsFiniteSet(L)
  <2> DEFINE b == [t \in Touching(w) |-> Line(w, t)]
  <2>1. IsFiniteSet(Touching(w))
    BY TxFacts, FS_Subset DEF Touching, Known
  <2>2. L = {b[t] : t \in Touching(w)}
    OBVIOUS
  <2> HIDE DEF b, L
  <2> QED
    BY <2>1, <2>2, FiniteImage
<1>5. \A l \in L : \E t \in Touching(w) : l = Line(w, t)
  OBVIOUS
<1>6. {l.txid : l \in L} = Touching(w)
  BY <1>3
<1>7. GoodLines(w, L)
  <2>1. \A l \in L : /\ l.txid \in TxIds /\ l.height = w[l.txid] /\ l.height \in 0 .. MaxHeight
                     /\ l.net = Net(l.txid)
    BY <1>1, <1>3
  <2>2. \A l, m \in L : l.txid = m.txid => l = m
    BY <1>3
  <2> QED
    BY <1>4, <2>1, <2>2 DEF GoodLines
<1> QED
  BY <1>2, <1>6, <1>7

\* The comparator is a strict total order on the lines.
LEMMA OrderFacts ==
    ASSUME NEW w, NEW L, GoodLines(w, L)
    PROVE  \A a, b \in L :
              /\ Age(a) \in Nat /\ a.txid \in Nat
              /\ Before(a, b) => ~Before(b, a) /\ a # b /\ Age(a) >= Age(b)
              /\ a # b => Before(a, b) \/ Before(b, a)
<1> SUFFICES ASSUME NEW a \in L, NEW b \in L
             PROVE  /\ Age(a) \in Nat /\ a.txid \in Nat
                    /\ Before(a, b) => ~Before(b, a) /\ a # b /\ Age(a) >= Age(b)
                    /\ a # b => Before(a, b) \/ Before(b, a)
  OBVIOUS
<1>1. Age(a) \in Nat /\ Age(b) \in Nat
  BY ViewAssumption DEF GoodLines, Age
<1>2. a.txid \in Nat /\ b.txid \in Nat
  BY TxFacts DEF GoodLines
<1>3. a # b => a.txid # b.txid
  BY DEF GoodLines
<1> QED
  BY <1>1, <1>2, <1>3 DEF Before

\* A set of lines has one that comes last.
LEMMA LastLine ==
    ASSUME NEW w, NEW L, GoodLines(w, L), NEW S \in SUBSET L, S # {}
    PROVE  \E m \in S : \A x \in S \ {m} : Before(x, m)
<1> DEFINE Ages == {Age(l) : l \in S}
<1>1. \A l \in S : Age(l) \in Nat /\ l.txid \in Nat /\ l.txid <= Len(Txs) /\ Len(Txs) \in Nat
  <2>1. \A l \in S : Age(l) \in Nat
    BY OrderFacts
  <2>2. \A l \in S : l.txid \in 1 .. Len(Txs)
    BY TxFacts DEF GoodLines
  <2> QED
    BY <2>1, <2>2, TxFacts
<1>2. PICK old \in S : \A l \in S : Age(old) <= Age(l)
  <2>1. Ages \subseteq Nat /\ Ages # {}
    BY <1>1
  <2>2. PICK g \in Ages : \A k \in Ages : g <= k
    <3> HIDE DEF Ages
    <3> QED
      BY <2>1, LeastNat
  <2> QED
    BY <2>2
<1> DEFINE Oldest == {l \in S : Age(l) = Age(old)}
           Ranks == {Len(Txs) - l.txid : l \in Oldest}
<1>3. PICK m \in Oldest : \A l \in Oldest : l.txid <= m.txid
  <2>1. Ranks \subseteq Nat /\ Ranks # {}
    BY <1>1
  <2>2. PICK g \in Ranks : \A k \in Ranks : g <= k
    <3> HIDE DEF Ranks
    <3> QED
      BY <2>1, LeastNat
  <2>3. PICK m \in Oldest : g = Len(Txs) - m.txid
    BY <2>2
  <2>4. ASSUME NEW l \in Oldest PROVE l.txid <= m.txid
    <3>1. Len(Txs) - m.txid <= Len(Txs) - l.txid
      BY <2>2, <2>3
    <3> QED
      BY <1>1, <3>1
  <2> QED
    BY <2>3, <2>4
<1>4. ASSUME NEW x \in S \ {m} PROVE Before(x, m)
  <2>1. Before(x, m) \/ Before(m, x)
    BY OrderFacts
  <2>2. Age(m) <= Age(x) /\ (Age(x) = Age(m) => x.txid <= m.txid)
    BY <1>2, <1>3
  <2>3. Age(m) \in Nat /\ Age(x) \in Nat /\ m.txid \in Nat /\ x.txid \in Nat
    BY <1>1
  <2> QED
    BY <2>1, <2>2, <2>3 DEF Before
<1> QED
  BY <1>3, <1>4

\* A sorting is a bijection that follows the order.
LEMMA SortingFacts ==
    ASSUME NEW w, NEW L, GoodLines(w, L), NEW s \in Sortings(L)
    PROVE  /\ Cardinality(L) \in Nat /\ Len(s) = Cardinality(L)
           /\ s \in [1 .. Len(s) -> L]
           /\ \A i, j \in 1 .. Len(s) : s[i] = s[j] => i = j
           /\ \A l \in L : \E i \in 1 .. Len(s) : s[i] = l
           /\ \A i, j \in 1 .. Len(s) : i < j => Before(s[i], s[j])
<1> DEFINE n == Cardinality(L)
<1>1. n \in Nat /\ IsFiniteSet(L)
  BY FS_CardinalityType DEF GoodLines
<1>2. s \in [1 .. n -> L] /\ \A i, j \in 1 .. n : i # j => s[i] # s[j]
  BY DEF Sortings, SetToSeqs
<1>3. Len(s) = n
  BY <1>1, <1>2
<1>4. IsFiniteSet(1 .. n) /\ Cardinality(1 .. n) = n
  BY <1>1, FS_Interval
<1>5. s \in Injection(1 .. n, L)
  BY <1>2 DEF Injection, IsInjective
<1>6. s \in Surjection(1 .. n, L)
  <2> HIDE DEF n
  <2> QED
    BY <1>1, <1>4, <1>5, FS_Injection DEF n
<1>7. \A l \in L : \E i \in 1 .. n : s[i] = l
  BY <1>6 DEF Surjection
<1>8. ASSUME NEW i \in 1 .. n, NEW j \in 1 .. n, i < j PROVE Before(s[i], s[j])
  <2>1. s[i] \in L /\ s[j] \in L /\ s[i] # s[j]
    BY <1>2, <1>8
  <2>2. Before(s[i], s[j]) \/ Before(s[j], s[i])
    BY <2>1, OrderFacts
  <2>3. Before(s[j], s[i]) => j < i
    BY <1>3 DEF Sortings
  <2> QED
    BY <1>8, <2>2, <2>3
<1> HIDE DEF n
<1> QED
  BY <1>1, <1>2, <1>3, <1>7, <1>8 DEF n

\* There is only one order.
LEMMA SortingUnique ==
    ASSUME NEW w, NEW L, GoodLines(w, L), NEW r \in Sortings(L), NEW s \in Sortings(L)
    PROVE  r = s
<1>1. /\ Len(r) = Len(s) /\ Len(s) \in Nat
      /\ r \in [1 .. Len(s) -> L] /\ s \in [1 .. Len(s) -> L]
  BY SortingFacts
<1>2. /\ \A i, j \in 1 .. Len(s) : r[i] = r[j] => i = j
      /\ \A l \in L : \E i \in 1 .. Len(s) : r[i] = l
      /\ \A i, j \in 1 .. Len(s) : i < j => Before(r[i], r[j])
  BY <1>1, SortingFacts
<1>3. /\ \A i, j \in 1 .. Len(s) : s[i] = s[j] => i = j
      /\ \A l \in L : \E i \in 1 .. Len(s) : s[i] = l
      /\ \A i, j \in 1 .. Len(s) : i < j => Before(s[i], s[j])
  BY SortingFacts
<1> DEFINE Differ == {i \in 1 .. Len(s) : r[i] # s[i]}
<1>4. Differ = {}
  <2> SUFFICES ASSUME Differ # {} PROVE FALSE
    OBVIOUS
  <2>1. Differ \subseteq Nat
    BY <1>1
  <2>2. PICK m \in Differ : \A k \in Differ : m <= k
    <3> HIDE DEF Differ
    <3> QED
      BY <2>1, LeastNat
  <2>3. m \in 1 .. Len(s) /\ r[m] # s[m] /\ r[m] \in L /\ s[m] \in L
    BY <1>1, <2>2
  <2>4. \A k \in 1 .. Len(s) : k < m => r[k] = s[k]
    BY <2>2
  <2>5. PICK j \in 1 .. Len(s) : s[j] = r[m]
    BY <1>3, <2>3
  <2>6. PICK k \in 1 .. Len(s) : r[k] = s[m]
    BY <1>2, <2>3
  <2>7. m < j
    BY <1>2, <2>3, <2>4, <2>5
  <2>8. m < k
    BY <1>3, <2>3, <2>4, <2>6
  <2>9. Before(s[m], r[m]) /\ Before(r[m], s[m])
    BY <1>2, <1>3, <2>3, <2>5, <2>6, <2>7, <2>8
  <2> QED
    BY <2>3, <2>9, OrderFacts
<1> QED
  BY <1>1, <1>4

\* There is one: the last line is put behind the others, once those are in order.
LEMMA SortingExists ==
    ASSUME NEW w, NEW L, GoodLines(w, L)
    PROVE  Sortings(L) # {}
<1> DEFINE D == {k \in Nat : \A S \in SUBSET L : Cardinality(S) = k => Sortings(S) # {}}
<1>1. \A S \in SUBSET L : GoodLines(w, S) /\ IsFiniteSet(S)
  BY FS_Subset DEF GoodLines
<1>2. 0 \in D
  <2> SUFFICES ASSUME NEW S \in SUBSET L, Cardinality(S) = 0 PROVE Sortings(S) # {}
    OBVIOUS
  <2>1. S = {} /\ Cardinality(S) = 0
    BY <1>1, FS_EmptySet
  <2> DEFINE e == [i \in 1 .. 0 |-> 0]
  <2>2. e \in SetToSeqs(S)
    BY <2>1 DEF SetToSeqs
  <2>3. Len(e) = 0
    OBVIOUS
  <2> HIDE DEF e
  <2>4. e \in Sortings(S)
    BY <2>2, <2>3 DEF Sortings
  <2> QED
    BY <2>4
<1>3. ASSUME NEW k \in Nat, k \in D PROVE k + 1 \in D
  <2> SUFFICES ASSUME NEW S \in SUBSET L, Cardinality(S) = k + 1 PROVE Sortings(S) # {}
    OBVIOUS
  <2>1. IsFiniteSet(S) /\ GoodLines(w, S) /\ S # {}
    <3>1. IsFiniteSet(S) /\ GoodLines(w, S)
      BY <1>1
    <3>2. S # {}
      BY FS_EmptySet
    <3> QED
      BY <3>1, <3>2
  <2>2. PICK m \in S : \A x \in S \ {m} : Before(x, m)
    BY <2>1, LastLine
  <2> DEFINE R == S \ {m}
  <2>3. R \in SUBSET L /\ Cardinality(R) = k
    <3>1. Cardinality(R) = Cardinality(S) - 1
      BY <2>1, <2>2, FS_RemoveElement
    <3> QED
      BY <3>1
  <2>4. PICK r \in Sortings(R) : TRUE
    <3> HIDE DEF R
    <3> QED
      BY <1>3, <2>3
  <2>5. GoodLines(w, R)
    BY <1>1, <2>3
  <2>6. /\ Len(r) = k /\ r \in [1 .. k -> R]
        /\ \A i, j \in 1 .. k : r[i] = r[j] => i = j
        /\ \A i, j \in 1 .. k : i < j => Before(r[i], r[j])
    <3> HIDE DEF R
    <3> QED
      BY <2>3, <2>5, SortingFacts
  <2> DEFINE s == [i \in 1 .. k + 1 |-> IF i = k + 1 THEN m ELSE r[i]]
  <2>7. s \in [1 .. k + 1 -> S] /\ Len(s) = k + 1
    BY <2>6
  <2>8. s[k + 1] = m /\ \A i \in 1 .. k : s[i] = r[i] /\ s[i] \in R
    BY <2>6
  <2>9. \A i \in 1 .. k : s[i] # m /\ Before(s[i], m)
    BY <2>2, <2>8
  <2>10. \A i \in 1 .. k + 1 : i # k + 1 => i \in 1 .. k
    OBVIOUS
  <2> HIDE DEF s, R
  <2>11. ASSUME NEW i \in 1 .. k + 1, NEW j \in 1 .. k + 1, i < j
         PROVE  Before(s[i], s[j]) /\ s[i] # s[j]
    <3>1. i \in 1 .. k /\ (j = k + 1 \/ j \in 1 .. k)
      BY <2>10, <2>11
    <3>2. CASE j = k + 1
      BY <2>8, <2>9, <3>1, <3>2
    <3>3. CASE j \in 1 .. k
      BY <2>6, <2>8, <2>11, <3>1, <3>3
    <3> QED
      BY <3>1, <3>2, <3>3
  <2>12. s \in SetToSeqs(S)
    <3>1. \A i, j \in 1 .. k + 1 : i # j => s[i] # s[j]
      BY <2>11
    <3> QED
      BY <2>7, <3>1 DEF SetToSeqs
  <2>13. ASSUME NEW i \in 1 .. k + 1, NEW j \in 1 .. k + 1, Before(s[j], s[i]) PROVE j < i
    <3>1. s[i] \in L /\ s[j] \in L
      BY <2>7
    <3>2. ~Before(s[i], s[j]) /\ s[i] # s[j]
      BY <2>13, <3>1, OrderFacts
    <3>3. ~(i < j) /\ i # j
      BY <2>11, <3>2
    <3> QED
      BY <3>3
  <2>14. s \in Sortings(S)
    BY <2>7, <2>12, <2>13 DEF Sortings
  <2> QED
    BY <2>14
<1> HIDE DEF D
<1>4. Cardinality(L) \in D
  <2>1. Cardinality(L) \in Nat
    BY <1>1, FS_CardinalityType
  <2> QED
    BY <1>2, <1>3, <2>1, SetInduction
<1> QED
  BY <1>4 DEF D

\* So the Overview's list is determined by the index.
LEMMA OneActivity ==
    ASSUME NEW w \in [TxIds -> -1 .. MaxHeight]
    PROVE  Cardinality(Activities(w)) = 1
<1>1. GoodLines(w, Lines(w))
  BY LineFacts
<1>2. PICK s \in Sortings(Lines(w)) : TRUE
  BY <1>1, SortingExists
<1>3. \A r \in Sortings(Lines(w)) : r = s
  BY <1>1, SortingUnique
<1>4. Activities(w) = {Truncate(s)}
  BY <1>3 DEF Activities
<1> QED
  BY <1>4, FS_Singleton

-----------------------------------------------------------------------------
(* The Overview that a list of lines makes.                                *)

ShownBy(recent) == {recent[i].txid : i \in DOMAIN recent}

\* What is left after the cut: the front of the order, all of it if there is room.
LEMMA ActivityFacts ==
    ASSUME NEW w \in [TxIds -> -1 .. MaxHeight], NEW recent \in Activities(w)
    PROVE  \E s \in Sortings(Lines(w)) :
              /\ Len(recent) \in Nat /\ Len(recent) <= Len(s) /\ Len(recent) <= Limit
              /\ DOMAIN recent = 1 .. Len(recent)
              /\ \A i \in 1 .. Len(recent) : recent[i] = s[i]
              /\ Len(recent) = Len(s) \/ Len(recent) = Limit
              /\ Len(s) <= Limit => recent = s
<1>1. PICK s \in Sortings(Lines(w)) : recent = Truncate(s)
  BY DEF Activities
<1>2. Len(s) \in Nat /\ s \in [1 .. Len(s) -> Lines(w)]
  BY LineFacts, SortingFacts
<1>3. CASE Len(s) <= Limit
  <2>1. recent = s
    BY <1>1, <1>3 DEF Truncate
  <2> QED
    BY <1>2, <1>3, <2>1
<1>4. CASE ~(Len(s) <= Limit)
  <2>1. recent = SubSeq(s, 1, Limit) /\ Limit \in Nat /\ Limit < Len(s)
    BY <1>1, <1>2, <1>4, ViewAssumption DEF Truncate
  <2>2. s \in Seq(Lines(w))
    BY <1>2
  <2>3. Len(recent) = Limit /\ DOMAIN recent = 1 .. Limit
    BY <2>1, <2>2
  <2>4. \A i \in 1 .. Limit : recent[i] = s[i]
    BY <2>1, <2>2
  <2> QED
    BY <1>2, <1>4, <2>1, <2>3, <2>4
<1> QED
  BY <1>3, <1>4

\* Each line shown is of a transaction of its own, and exact.
LEMMA ShownFacts ==
    ASSUME NEW w \in [TxIds -> -1 .. MaxHeight], NEW recent \in Activities(w)
    PROVE  /\ \A i \in DOMAIN recent : /\ recent[i] \in Lines(w)
                                       /\ recent[i].txid \in Touching(w)
                                       /\ recent[i].net = Net(recent[i].txid)
           /\ \A i, j \in DOMAIN recent : recent[i].txid = recent[j].txid => i = j
           /\ DOMAIN recent = 1 .. Len(recent) /\ Len(recent) \in Nat /\ Len(recent) <= Limit
           /\ Cardinality(ShownBy(recent)) = Len(recent)
<1>1. PICK s \in Sortings(Lines(w)) :
          /\ Len(recent) \in Nat /\ Len(recent) <= Len(s) /\ Len(recent) <= Limit
          /\ DOMAIN recent = 1 .. Len(recent)
          /\ \A i \in 1 .. Len(recent) : recent[i] = s[i]
  BY ActivityFacts
<1>2. GoodLines(w, Lines(w)) /\ {l.txid : l \in Lines(w)} = Touching(w)
  BY LineFacts
<1>3. /\ Len(s) \in Nat /\ s \in [1 .. Len(s) -> Lines(w)]
      /\ \A i, j \in 1 .. Len(s) : s[i] = s[j] => i = j
  BY <1>2, SortingFacts
<1>4. \A i \in 1 .. Len(recent) : i \in 1 .. Len(s) /\ recent[i] = s[i] /\ recent[i] \in Lines(w)
  BY <1>1, <1>3
<1>5. \A i \in 1 .. Len(recent) : recent[i].txid \in Touching(w) /\ recent[i].net = Net(recent[i].txid)
  BY <1>2, <1>4 DEF GoodLines
<1>6. \A i, j \in 1 .. Len(recent) : recent[i].txid = recent[j].txid => i = j
  BY <1>2, <1>3, <1>4 DEF GoodLines
<1>7. Cardinality(ShownBy(recent)) = Len(recent)
  <2> DEFINE b == [i \in 1 .. Len(recent) |-> recent[i].txid]
  <2>1. b \in Bijection(1 .. Len(recent), ShownBy(recent))
    BY <1>1, <1>6 DEF Bijection, Injection, Surjection, IsInjective, ShownBy
  <2>2. ExistsBijection(1 .. Len(recent), ShownBy(recent))
    BY <2>1 DEF ExistsBijection
  <2>3. IsFiniteSet(1 .. Len(recent)) /\ Cardinality(1 .. Len(recent)) = Len(recent)
    <3>1. Len(recent) \in Int /\ 1 \in Int
      BY <1>1
    <3>2. IsFiniteSet(1 .. Len(recent)) /\ Cardinality(1 .. Len(recent))
                = IF 1 > Len(recent) THEN 0 ELSE Len(recent) - 1 + 1
      BY <3>1, FS_Interval
    <3> QED
      BY <1>1, <3>2
  <2> QED
    BY <2>2, <2>3, FS_Bijection
<1> QED
  BY <1>1, <1>4, <1>5, <1>6, <1>7

\* There are as many lines as transactions that touch the device.
LEMMA LineCount ==
    ASSUME NEW w \in [TxIds -> -1 .. MaxHeight]
    PROVE  Cardinality(Touching(w)) = Cardinality(Lines(w))
<1> DEFINE b == [l \in Lines(w) |-> l.txid]
<1>1. GoodLines(w, Lines(w)) /\ {l.txid : l \in Lines(w)} = Touching(w)
  BY LineFacts
<1>2. b \in Bijection(Lines(w), Touching(w))
  BY <1>1 DEF Bijection, Injection, Surjection, IsInjective, GoodLines
<1>3. ExistsBijection(Lines(w), Touching(w)) /\ IsFiniteSet(Lines(w))
  BY <1>1, <1>2 DEF ExistsBijection, GoodLines
<1> QED
  BY <1>3, FS_Bijection

\* What is not shown had no room and is no newer.
LEMMA CutFacts ==
    ASSUME NEW w \in [TxIds -> -1 .. MaxHeight], NEW recent \in Activities(w)
    PROVE  /\ ShownBy(recent) \subseteq Touching(w)
           /\ ShownBy(recent) = Touching(w) \/ Cardinality(ShownBy(recent)) = Limit
           /\ Cardinality(Touching(w)) <= Limit => ShownBy(recent) = Touching(w)
           /\ \A t \in ShownBy(recent), u \in Touching(w) \ ShownBy(recent) :
                 (IF w[t] = 0 THEN MaxHeight + 1 ELSE w[t])
                    >= (IF w[u] = 0 THEN MaxHeight + 1 ELSE w[u])
<1>1. PICK s \in Sortings(Lines(w)) :
          /\ Len(recent) \in Nat /\ Len(recent) <= Len(s) /\ Len(recent) <= Limit
          /\ DOMAIN recent = 1 .. Len(recent)
          /\ \A i \in 1 .. Len(recent) : recent[i] = s[i]
          /\ Len(recent) = Len(s) \/ Len(recent) = Limit
          /\ Len(s) <= Limit => recent = s
  BY ActivityFacts
<1>2. GoodLines(w, Lines(w)) /\ {l.txid : l \in Lines(w)} = Touching(w)
  BY LineFacts
<1>3. /\ Len(s) \in Nat /\ s \in [1 .. Len(s) -> Lines(w)] /\ Len(s) = Cardinality(Lines(w))
      /\ \A l \in Lines(w) : \E i \in 1 .. Len(s) : s[i] = l
      /\ \A i, j \in 1 .. Len(s) : i < j => Before(s[i], s[j])
  BY <1>2, SortingFacts
<1>4. ShownBy(recent) \subseteq Touching(w)
  <2>1. \A i \in DOMAIN recent : recent[i].txid \in Touching(w)
    BY ShownFacts
  <2> QED
    BY <2>1 DEF ShownBy
<1>5. ASSUME NEW u \in Touching(w)
      PROVE  \E j \in 1 .. Len(s) : s[j].txid = u /\ (j <= Len(recent) => u \in ShownBy(recent))
  <2>1. PICK l \in Lines(w) : l.txid = u
    BY <1>2
  <2>2. PICK j \in 1 .. Len(s) : s[j] = l
    BY <1>3
  <2>3. ASSUME j <= Len(recent) PROVE u \in ShownBy(recent)
    <3>1. j \in DOMAIN recent /\ recent[j] = l
      BY <1>1, <2>2, <2>3
    <3> QED
      BY <2>1, <3>1 DEF ShownBy
  <2> QED
    BY <2>1, <2>2, <2>3
<1>6. ASSUME Len(recent) = Len(s) PROVE ShownBy(recent) = Touching(w)
  <2>1. ASSUME NEW u \in Touching(w) PROVE u \in ShownBy(recent)
    <3>1. PICK j \in 1 .. Len(s) : j <= Len(recent) => u \in ShownBy(recent)
      BY <1>5
    <3> QED
      BY <1>3, <1>6, <3>1
  <2> QED
    BY <1>4, <2>1
<1>7. Cardinality(ShownBy(recent)) = Len(recent)
  BY ShownFacts
<1>8. ASSUME Cardinality(Touching(w)) <= Limit PROVE ShownBy(recent) = Touching(w)
  <2>1. Len(s) <= Limit
    BY <1>3, <1>8, LineCount
  <2> QED
    BY <1>1, <1>6, <2>1
<1>9. ASSUME NEW t \in ShownBy(recent), NEW u \in Touching(w) \ ShownBy(recent)
      PROVE  (IF w[t] = 0 THEN MaxHeight + 1 ELSE w[t])
                >= (IF w[u] = 0 THEN MaxHeight + 1 ELSE w[u])
  <2>1. PICK i \in 1 .. Len(recent) : recent[i].txid = t
    BY <1>1 DEF ShownBy
  <2>2. PICK j \in 1 .. Len(s) : s[j].txid = u /\ ~(j <= Len(recent))
    BY <1>5
  <2>3. i < j /\ i \in 1 .. Len(s) /\ s[i].txid = t
    BY <1>1, <1>3, <2>1, <2>2
  <2>4. Before(s[i], s[j]) /\ s[i] \in Lines(w) /\ s[j] \in Lines(w)
    BY <1>3, <2>2, <2>3
  <2>5. Age(s[i]) >= Age(s[j])
    BY <1>2, <2>4, OrderFacts
  <2>6. s[i].height = w[t] /\ s[j].height = w[u]
    BY <1>2, <2>2, <2>3, <2>4 DEF GoodLines
  <2> QED
    BY <2>5, <2>6 DEF Age
<1> QED
  BY <1>1, <1>4, <1>6, <1>7, <1>8, <1>9

\* With room for every line, they add up to the index.
LEMMA ListAddsUp ==
    ASSUME NEW w \in [TxIds -> -1 .. MaxHeight], NEW recent \in Activities(w),
           Cardinality(Touching(w)) <= Limit
    PROVE  IndexBalance(w) = SumFunction([i \in DOMAIN recent |-> recent[i].net])
<1> DEFINE f == [i \in DOMAIN recent |-> recent[i].net]
           b == [i \in DOMAIN recent |-> recent[i].txid]
           g == [t \in TxIds |-> Net(t)]
<1>1. /\ DOMAIN recent = 1 .. Len(recent) /\ Len(recent) \in Nat
      /\ \A i \in DOMAIN recent : recent[i].txid \in Touching(w)
                                  /\ recent[i].net = Net(recent[i].txid)
      /\ \A i, j \in DOMAIN recent : recent[i].txid = recent[j].txid => i = j
  BY ShownFacts
<1>2. ShownBy(recent) = Touching(w)
  BY CutFacts
<1>3. Touching(w) \subseteq TxIds
  BY DEF Touching, Known
<1>4. IsFiniteSet(DOMAIN recent)
  BY <1>1, FS_Interval
<1>5. /\ b \in [DOMAIN recent -> Touching(w)]
      /\ \A y \in Touching(w) : \E x \in DOMAIN recent : b[x] = y
      /\ \A x, y \in DOMAIN recent : b[x] = b[y] => x = y
  BY <1>1, <1>2 DEF ShownBy
<1>6. \A x \in DOMAIN recent : g[b[x]] = f[x]
  BY <1>1, <1>3
<1>7. Summable(g, Touching(w))
  BY <1>3, EntriesExact DEF Summable
<1>8. SumFunction(f) = SumFunctionOnSet(f, DOMAIN recent)
  BY DEF SumFunction
<1>9. IndexBalance(w) = SumFunctionOnSet(g, Touching(w))
  BY IndexExact
<1> HIDE DEF f, b, g
<1>10. SumFunctionOnSet(g, Touching(w)) = SumFunctionOnSet(f, DOMAIN recent)
  BY <1>4, <1>5, <1>6, <1>7, SumReindex
<1> QED
  BY <1>8, <1>9, <1>10 DEF f

-----------------------------------------------------------------------------
(* The invariant.                                                          *)

IndexInv ==
    /\ where \in [TxIds -> -1 .. MaxHeight] /\ basis \in [TxIds -> -1 .. MaxHeight]
    /\ height \in 0 .. MaxHeight
    /\ Known(basis) \subseteq Known(where)

\* A balance that has not been overtaken is the one of the index.
BalanceInv == phase = "activity" /\ ~moved => balance = IndexBalance(where)

\* The Overview shown is one of the index it was read from, the balance as well
\* unless the index moved in between.
SummaryInv ==
    view # Unread =>
        /\ view.recent \in Activities(basis)
        /\ ~view.torn => view.balance = IndexBalance(basis)

\* What a call of notify_incoming finds is queued or lost, and not both.
PingInv ==
    /\ DOMAIN pings = TxIds /\ DOMAIN missed = TxIds
    /\ \A t \in TxIds : /\ pings[t] \cap missed[t] = {}
                       /\ pings[t] \cup missed[t] \in {{}, Notices(t)}

ViewInv == IndexInv /\ BalanceInv /\ SummaryInv /\ PingInv

LEMMA ViewInit == Init => ViewInv
<1> SUFFICES ASSUME Init PROVE ViewInv
  OBVIOUS
<1>1. IndexInv
  BY ViewAssumption DEF Init, IndexInv, Known
<1>2. BalanceInv /\ SummaryInv
  BY DEF Init, BalanceInv, SummaryInv
<1>3. PingInv
  BY DEF Init, PingInv
<1> QED
  BY <1>1, <1>2, <1>3 DEF ViewInv

LEMMA ViewNext == ViewInv /\ [Next]_vars => ViewInv'
<1> SUFFICES ASSUME ViewInv, [Next]_vars PROVE ViewInv'
  OBVIOUS
<1> USE DEF ViewInv
<1>1. ASSUME NEW t \in TxIds, Arrives(t) PROVE ViewInv'
  <2>1. /\ where' = [where EXCEPT ![t] = 0] /\ where[t] = -1 /\ moved' = TRUE
        /\ UNCHANGED <<height, phase, balance, view, basis, reads, pings, missed>>
    BY <1>1 DEF Arrives, noticeVars
  <2>2. where' \in [TxIds -> -1 .. MaxHeight]
    BY <2>1, ViewAssumption DEF IndexInv
  <2>3. Known(where') = Known(where) \cup {t}
    BY <2>1 DEF Known, IndexInv
  <2>4. IndexInv'
    BY <2>1, <2>2, <2>3 DEF IndexInv
  <2>5. BalanceInv' /\ SummaryInv'
    BY <2>1 DEF BalanceInv, SummaryInv
  <2>6. PingInv'
    BY <2>1 DEF PingInv, Notices, PaymentsTo
  <2> QED
    BY <2>4, <2>5, <2>6
<1>2. ASSUME NEW ts \in SUBSET {t \in TxIds : where[t] = 0}, Mined(ts) PROVE ViewInv'
  <2>1. /\ height < MaxHeight /\ height' = height + 1
        /\ where' = [t \in TxIds |-> IF t \in ts THEN height + 1 ELSE where[t]]
        /\ moved' = TRUE /\ UNCHANGED <<phase, balance, view, basis, reads, noticeVars>>
    BY <1>2 DEF Mined
  <2>2. height' \in 0 .. MaxHeight /\ where' \in [TxIds -> -1 .. MaxHeight]
    BY <2>1, ViewAssumption DEF IndexInv
  <2>3. Known(where') = Known(where)
    <3>1. \A t \in TxIds : where'[t] # -1 <=> where[t] # -1
      BY <2>1, ViewAssumption DEF IndexInv
    <3> QED
      BY <3>1 DEF Known
  <2> QED
    BY <2>1, <2>2, <2>3 DEF IndexInv, BalanceInv, SummaryInv, PingInv, noticeVars
<1>3. CASE Reorganised
  <2>1. /\ height > 0 /\ height' = height - 1
        /\ where' = [t \in TxIds |-> IF where[t] = height THEN 0 ELSE where[t]]
        /\ moved' = TRUE /\ UNCHANGED <<phase, balance, view, basis, reads, noticeVars>>
    BY <1>3 DEF Reorganised
  <2>2. height' \in 0 .. MaxHeight /\ where' \in [TxIds -> -1 .. MaxHeight]
    BY <2>1, ViewAssumption DEF IndexInv
  <2>3. Known(where') = Known(where)
    <3>1. \A t \in TxIds : where'[t] # -1 <=> where[t] # -1
      BY <2>1, ViewAssumption DEF IndexInv
    <3> QED
      BY <3>1 DEF Known
  <2> QED
    BY <2>1, <2>2, <2>3 DEF IndexInv, BalanceInv, SummaryInv, PingInv, noticeVars
<1>4. CASE Request
  BY <1>4 DEF Request, IndexInv, BalanceInv, SummaryInv, PingInv, noticeVars
<1>5. CASE ReadBalance
  BY <1>5 DEF ReadBalance, IndexInv, BalanceInv, SummaryInv, PingInv, noticeVars
<1>6. CASE ReadActivity
  <2>1. PICK recent \in Activities(where) :
            view' = [balance |-> balance, recent |-> recent, torn |-> moved]
    BY <1>6 DEF ReadActivity
  <2>2. /\ phase = "activity" /\ phase' = "idle" /\ basis' = where
        /\ UNCHANGED <<where, height, balance, moved, reads, noticeVars>>
    BY <1>6 DEF ReadActivity
  <2>3. view'.recent \in Activities(basis') /\ (~view'.torn => view'.balance = IndexBalance(basis'))
    BY <2>1, <2>2 DEF BalanceInv
  <2>4. SummaryInv'
    BY <2>3 DEF SummaryInv
  <2>5. IndexInv' /\ BalanceInv' /\ PingInv'
    BY <2>2 DEF IndexInv, BalanceInv, PingInv, noticeVars
  <2> QED
    BY <2>2, <2>4, <2>5
<1>7. CASE ReadFails
  BY <1>7 DEF ReadFails, IndexInv, BalanceInv, SummaryInv, PingInv, noticeVars
<1>8. CASE UNCHANGED vars
  BY <1>8 DEF vars, IndexInv, BalanceInv, SummaryInv, PingInv, noticeVars
<1>9. ASSUME NEW t \in Fed, NotifyIncoming(t) PROVE ViewInv'
  <2>1. t \in TxIds
    BY ViewAssumption
  <2>2. PICK queued :
            /\ queued \subseteq Notices(t)
            /\ pings' = [pings EXCEPT ![t] = queued]
            /\ missed' = [missed EXCEPT ![t] = Notices(t) \ queued]
    BY <1>9 DEF NotifyIncoming
  <2>3. PingInv'
    BY <2>1, <2>2 DEF PingInv
  <2>4. IndexInv' /\ BalanceInv' /\ SummaryInv'
    BY <1>9 DEF NotifyIncoming, IndexInv, BalanceInv, SummaryInv
  <2> QED
    BY <2>3, <2>4
<1> QED
  BY <1>1, <1>2, <1>3, <1>4, <1>5, <1>6, <1>7, <1>8, <1>9 DEF Next

LEMMA ViewInductive == Spec => []ViewInv
<1> QED
  BY ViewInit, ViewNext, PTL DEF Spec

\* The Overview is a function of the address index: every line exact, the newest
\* lines kept, the order fixed, for any transactions and any limit.
THEOREM OverviewExactHolds == Spec => []OverviewExact
<1>1. ViewInv => OverviewExact
  <2> SUFFICES ASSUME ViewInv PROVE LinesExact /\ NewestShown /\ Deterministic
    BY DEF OverviewExact
  <2>1. where \in [TxIds -> -1 .. MaxHeight] /\ basis \in [TxIds -> -1 .. MaxHeight]
    BY DEF ViewInv, IndexInv
  <2>2. Deterministic
    BY <2>1, OneActivity DEF Deterministic
  <2>3. Shown = ShownBy(view.recent) /\ Relevant = Touching(basis)
    BY DEF Shown, ShownBy, Relevant, Touching
  <2>4. LinesExact
    <3> SUFFICES ASSUME view # Unread
                 PROVE  /\ \A i \in DOMAIN view.recent :
                              view.recent[i].net = Net(view.recent[i].txid)
                        /\ Cardinality(Shown) = Len(view.recent)
      BY DEF LinesExact
    <3>1. view.recent \in Activities(basis)
      BY DEF ViewInv, SummaryInv
    <3> QED
      BY <2>1, <2>3, <3>1, ShownFacts
  <2>5. NewestShown
    <3> SUFFICES ASSUME view # Unread
                 PROVE  /\ Shown \subseteq Relevant
                        /\ Shown = Relevant \/ Cardinality(Shown) = Limit
                        /\ \A t \in Shown, u \in Relevant \ Shown : Seen(t) >= Seen(u)
      BY DEF NewestShown
    <3>1. view.recent \in Activities(basis)
      BY DEF ViewInv, SummaryInv
    <3> QED
      BY <2>1, <2>3, <3>1, CutFacts DEF Seen
  <2> QED
    BY <2>2, <2>4, <2>5
<1> QED
  BY ViewInductive, <1>1, PTL

\* Balance and activity add up whenever the list has room and the index stood still
\* between the two reads.
THEOREM BalanceAddsUpHolds == Spec => []BalanceAddsUp
<1>1. ViewInv => BalanceAddsUp
  <2> SUFFICES ASSUME ViewInv, view # Unread, ~view.torn, Cardinality(Relevant) <= Limit
               PROVE  view.balance = SumFunction([i \in DOMAIN view.recent |-> view.recent[i].net])
    BY DEF BalanceAddsUp
  <2>1. /\ basis \in [TxIds -> -1 .. MaxHeight]
        /\ view.recent \in Activities(basis) /\ view.balance = IndexBalance(basis)
    BY DEF ViewInv, IndexInv, SummaryInv
  <2>2. Relevant = Touching(basis)
    BY DEF Relevant, Touching
  <2> QED
    BY <2>1, <2>2, ListAddsUp
<1> QED
  BY ViewInductive, <1>1, PTL

\* Once a transaction was announced, its line is what the phone was told of, what it
\* was not told because the notice was lost, and what went back to the sender, less
\* what was spent.
THEOREM PingsMatchActivityHolds == Spec => []PingsMatchActivity
<1>1. ViewInv => PingsMatchActivity
  <2> SUFFICES ASSUME ViewInv, view # Unread, NEW i \in DOMAIN view.recent, NEW t,
                      t = view.recent[i].txid, pings[t] \cup missed[t] # {}
               PROVE  view.recent[i].net = Total(Txs[t].vout, pings[t]) + Total(Txs[t].vout, missed[t])
                        + Total(Txs[t].vout, Back(t)) - Total(Txs[t].vin, Own(Txs[t].vin))
    BY DEF PingsMatchActivity
  <2> DEFINE vout == Txs[t].vout
             vin == Txs[t].vin
             S(set) == SumFunctionOnSet(SatsOf(vout), set)
  <2>1. basis \in [TxIds -> -1 .. MaxHeight] /\ view.recent \in Activities(basis)
    BY DEF ViewInv, IndexInv, SummaryInv
  <2>2. t \in Touching(basis) /\ view.recent[i].net = Net(t)
    BY <2>1, ShownFacts
  <2>3. /\ t \in TxIds
        /\ pings[t] \cup missed[t] = Notices(t) /\ pings[t] \cap missed[t] = {}
    BY <2>2 DEF Touching, Known, ViewInv, PingInv
  <2>4. Notices(t) \cup Back(t) = Own(vout) /\ Notices(t) \cap Back(t) = {}
    BY DEF Notices, PaymentsTo, Back
  <2>5. vout \in Seq(Coin) /\ vin \in Seq(Coin) /\ Own(vout) \in SUBSET DOMAIN vout
    BY <2>3, TxFacts DEF Own
  <2>6. ASSUME NEW set \in SUBSET DOMAIN vout
        PROVE  IsFiniteSet(set) /\ Summable(SatsOf(vout), set) /\ S(set) \in Int
    <3>1. IsFiniteSet(set) /\ Summable(SatsOf(vout), set)
      BY <2>5, CoinFacts
    <3> QED
      BY <3>1, SumRemove
  <2>7. /\ pings[t] \in SUBSET DOMAIN vout /\ missed[t] \in SUBSET DOMAIN vout
        /\ Notices(t) \in SUBSET DOMAIN vout /\ Back(t) \in SUBSET DOMAIN vout
    BY <2>3, <2>4, <2>5
  <2>8. ASSUME NEW A \in SUBSET DOMAIN vout, NEW B \in SUBSET DOMAIN vout, A \cap B = {}
        PROVE  S(A \cup B) = S(A) + S(B)
    <3>1. A \cup B \in SUBSET DOMAIN vout
      OBVIOUS
    <3>2. /\ IsFiniteSet(A) /\ IsFiniteSet(B)
          /\ Summable(SatsOf(vout), A) /\ Summable(SatsOf(vout), B)
          /\ Summable(SatsOf(vout), A \cup B)
      BY <2>6, <3>1
    <3> QED
      BY <2>8, <3>2, SumUnion
  <2>9. Total(vin, Own(vin)) \in Int
    <3>1. IsFiniteSet(Own(vin)) /\ Summable(SatsOf(vin), Own(vin))
      BY <2>5, CoinFacts DEF Own
    <3> QED
      BY <3>1, SumRemove DEF Total, SatsOf
  <2>10. Net(t) = S(Own(vout)) - Total(vin, Own(vin))
    BY DEF Net, Total, SatsOf
  <2>11. Total(vout, pings[t]) = S(pings[t]) /\ Total(vout, missed[t]) = S(missed[t])
         /\ Total(vout, Back(t)) = S(Back(t))
    BY DEF Total, SatsOf
  <2> HIDE DEF vout, vin, S
  <2>12. S(Own(vout)) = S(Notices(t)) + S(Back(t)) /\ S(Notices(t)) = S(pings[t]) + S(missed[t])
    <3>1. S(Notices(t) \cup Back(t)) = S(Notices(t)) + S(Back(t))
      BY <2>4, <2>7, <2>8
    <3>2. S(pings[t] \cup missed[t]) = S(pings[t]) + S(missed[t])
      BY <2>3, <2>7, <2>8
    <3> QED
      BY <2>3, <2>4, <3>1, <3>2
  <2>13. /\ S(pings[t]) \in Int /\ S(missed[t]) \in Int /\ S(Back(t)) \in Int
         /\ S(Notices(t)) \in Int /\ S(Own(vout)) \in Int
    BY <2>5, <2>6, <2>7
  <2>14. Net(t) = Total(vout, pings[t]) + Total(vout, missed[t]) + Total(vout, Back(t))
                    - Total(vin, Own(vin))
    BY <2>9, <2>10, <2>11, <2>12, <2>13
  <2> QED
    BY <2>2, <2>14 DEF vout, vin
<1> QED
  BY ViewInductive, <1>1, PTL
=============================================================================
