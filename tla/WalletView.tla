----------------------------- MODULE WalletView -----------------------------
(***************************************************************************)
(* What a phone is told about its money: the Overview of the relay         *)
(* (lovenode-relay/src/wallet_view.rs, RelayState::summary) and the        *)
(* detection of payments (payments.rs, the selection of notify_incoming).  *)
(*                                                                         *)
(* The node's address index answers for the addresses the device watches.  *)
(* summary reads it twice, and transactions arrive, are mined and are      *)
(* reorganised in between.  An address stands for its script, which        *)
(* several strings may spell; a notice stands for the output it is about;  *)
(* transaction ids are numbers, in the order of their hex strings.         *)
(***************************************************************************)
EXTENDS Integers, Sequences, SequencesExt, FiniteSets, Functions

CONSTANTS
    Txs,        \* Txs[t]: the transaction with id t, `spends` the ids it spends from,
                \* `sender` the strings its feed resolves as the sender's addresses
    Addresses,
    Strings,    \* texts, a device may register and a feed may name
    Script,     \* Script[s]: the address s spells, surrounding whitespace aside
    NoScript,   \* what no address of the network spells
    Watched,    \* the strings the device registered
    Fed,        \* the transactions the deployment's feed calls notify_incoming for
    Limit,      \* how many lines the Overview asks for
    MaxHeight,  \* bound on the chain
    MaxReads,   \* bound: summaries requested
    Unread      \* the phone has no summary yet

TxIds == 1..Len(Txs)
Coin == [addr : Addresses, sats : Nat]

ASSUME ViewAssumption ==
    /\ Txs \in Seq([vin : Seq(Coin), vout : Seq(Coin),
                    sender : SUBSET Strings, spends : SUBSET TxIds])
    /\ Script \in [Strings -> Addresses \cup {NoScript}] /\ NoScript \notin Addresses
    /\ Watched \subseteq Strings
    /\ Fed \subseteq TxIds
    /\ Limit \in Nat /\ MaxHeight \in Nat /\ MaxReads \in Nat

VARIABLES
    where,     \* where[t]: 0 in the mempool, h in the block of height h, -1 nowhere
    height,    \* the node's tip
    phase,     \* summary: idle, balance (to be read) or activity (to be read)
    balance,   \* what address_balance returned
    moved,     \* history: the index changed since the balance was read
    view,      \* the last Summary the phone received
    basis,     \* history: `where` as it was when the activity of view was read
    reads,     \* summaries requested so far
    pings,     \* pings[t]: the outputs of t whose PaymentNotice was queued for the phone
    missed     \* missed[t]: those whose notice was lost

noticeVars == <<pings, missed>>
vars == <<where, height, phase, balance, moved, view, basis, reads, noticeVars>>

-----------------------------------------------------------------------------
(* Payment detection.                                                      *)

Known(w) == {t \in TxIds : w[t] # -1}

\* The coins of a list that are on a watched address, and what some of them hold.
Own(coins) == {i \in DOMAIN coins : \E w \in Watched : Script[w] = coins[i].addr}
Total(coins, S) == SumFunctionOnSet([i \in DOMAIN coins |-> coins[i].sats], S)

\* payments_to: the outputs that pay a watched address; one that does not parse
\* for the network matches nothing.
PaymentsTo(t) == Own(Txs[t].vout)

\* The table of payments_to keeps one spelling for each script and reports that.
Spelling(addr) == CHOOSE w \in Watched : Script[w] = addr

\* Mutant: change is announced like a payment.
Notices_Change(t) == PaymentsTo(t)

\* notify_incoming for this device: a notice per payment, unless the string it is
\* reported under is among those of the sender.
Notices(t) == {i \in PaymentsTo(t) : Spelling(Txs[t].vout[i].addr) \notin Txs[t].sender}

-----------------------------------------------------------------------------
(* The address index of the node, and the two parsers.                     *)

\* getaddressdeltas: one entry per input and output on a watched address, the input
\* at position i as -i.
DeltasOf(t) == {<<t, -i>> : i \in Own(Txs[t].vin)} \cup {<<t, i>> : i \in Own(Txs[t].vout)}
Deltas(w) == UNION {DeltasOf(t) : t \in Known(w)}
Sats(d) == IF d[2] < 0 THEN -Txs[d[1]].vin[-d[2]].sats ELSE Txs[d[1]].vout[d[2]].sats

\* What entries add up to.
Moved(S) == SumFunctionOnSet([d \in S |-> Sats(d)], S)

\* getaddressbalance, mempool included.
IndexBalance(w) == Moved(Deltas(w))

\* Mutant: an entry replaces the ones before it.
NetOf_LastWins(S) == Sats(CHOOSE d \in S : TRUE)

\* The loop over the deltas: the entries of one txid, summed.
NetOf(S) == Moved(S)

\* One line per txid; all entries of a transaction carry its height.
Line(w, t) ==
    LET net == NetOf({d \in Deltas(w) : d[1] = t})
    IN  [txid |-> t, net |-> net, height |-> w[t], incoming |-> net >= 0]

Lines(w) == {Line(w, d[1]) : d \in Deltas(w)}

\* Height 0 sorts as i64::MAX.
Age(line) == IF line.height = 0 THEN MaxHeight + 1 ELSE line.height

\* Mutant: no tie-break by txid.
Before_NoTie(a, b) == Age(a) > Age(b)

\* The comparator of sort_by.
Before(a, b) ==
    \/ Age(a) > Age(b)
    \/ Age(a) = Age(b) /\ a.txid < b.txid

\* What sort_by may leave of lines that come out of the hash map in any order.
Sortings(lines) ==
    {s \in SetToSeqs(lines) :
        \A i, j \in 1..Len(s) : Before(s[j], s[i]) => j < i}

Truncate(s) == IF Len(s) <= Limit THEN s ELSE SubSeq(s, 1, Limit)

\* parse_activity.
Activities(w) == {Truncate(s) : s \in Sortings(Lines(w))}

-----------------------------------------------------------------------------

TypeOK ==
    /\ where \in [TxIds -> -1..MaxHeight]
    /\ height \in 0..MaxHeight
    /\ phase \in {"idle", "balance", "activity"}
    /\ balance \in Int
    /\ moved \in BOOLEAN
    /\ view # Unread => Len(view.recent) <= Limit /\ view.balance \in Int
    /\ basis \in [TxIds -> -1..MaxHeight]
    /\ reads \in 0..MaxReads
    /\ \A t \in TxIds : pings[t] \subseteq DOMAIN Txs[t].vout /\ missed[t] \subseteq DOMAIN Txs[t].vout

Init ==
    /\ where = [t \in TxIds |-> -1]
    /\ height = 0
    /\ phase = "idle"
    /\ balance = 0
    /\ moved = FALSE
    /\ view = Unread
    /\ basis = where
    /\ reads = 0
    /\ pings = [t \in TxIds |-> {}] /\ missed = pings

\* A transaction reaches the node.
Arrives(t) ==
    /\ where[t] = -1
    /\ Txs[t].spends \subseteq Known(where)
    /\ where' = [where EXCEPT ![t] = 0]
    /\ moved' = TRUE
    /\ UNCHANGED <<height, phase, balance, view, basis, reads, noticeVars>>

\* The feed calls notify_incoming for it, once.  The device may be missing from the
\* registry, or have no route by the time its notices go out (RelayServer has the
\* steps in between); a notice that finds the queue full is dropped, and as the
\* connection drains the queue meanwhile, a later one may still get in.
NotifyIncoming(t) ==
    /\ where[t] # -1 /\ pings[t] \cup missed[t] = {}
    /\ \E registered, routed \in BOOLEAN, full \in SUBSET Notices(t) :
          LET queued == IF registered /\ routed THEN Notices(t) \ full ELSE {}
          IN  /\ pings' = [pings EXCEPT ![t] = queued]
              /\ missed' = [missed EXCEPT ![t] = Notices(t) \ queued]
    /\ UNCHANGED <<where, height, phase, balance, moved, view, basis, reads>>

\* A block takes some of the mempool, nothing before what it spends.
Mined(ts) ==
    /\ height < MaxHeight
    /\ \A t \in ts : \A p \in Txs[t].spends : p \in ts \/ where[p] > 0
    /\ height' = height + 1
    /\ where' = [t \in TxIds |-> IF t \in ts THEN height + 1 ELSE where[t]]
    /\ moved' = TRUE
    /\ UNCHANGED <<phase, balance, view, basis, reads, noticeVars>>

\* A reorganisation takes the tip's transactions back to the mempool.
Reorganised ==
    /\ height > 0
    /\ where' = [t \in TxIds |-> IF where[t] = height THEN 0 ELSE where[t]]
    /\ height' = height - 1
    /\ moved' = TRUE
    /\ UNCHANGED <<phase, balance, view, basis, reads, noticeVars>>

\* GetSummary.
Request ==
    /\ phase = "idle" /\ reads < MaxReads
    /\ phase' = "balance" /\ reads' = reads + 1
    /\ UNCHANGED <<where, height, balance, moved, view, basis, noticeVars>>

\* address_balance.
ReadBalance ==
    /\ phase = "balance"
    /\ balance' = IndexBalance(where)
    /\ moved' = FALSE
    /\ phase' = "activity"
    /\ UNCHANGED <<where, height, view, basis, reads, noticeVars>>

\* recent_activity, and the Summary goes out.
ReadActivity ==
    /\ phase = "activity"
    /\ \E recent \in Activities(where) :
          view' = [balance |-> balance, recent |-> recent, torn |-> moved]
    /\ basis' = where
    /\ phase' = "idle"
    /\ UNCHANGED <<where, height, balance, moved, reads, noticeVars>>

\* Either call to the node returns an error: the phone gets an Error instead.
ReadFails ==
    /\ phase # "idle"
    /\ phase' = "idle"
    /\ UNCHANGED <<where, height, balance, moved, view, basis, reads, noticeVars>>

Next ==
    \/ \E t \in TxIds : Arrives(t)
    \/ \E t \in Fed : NotifyIncoming(t)
    \/ \E ts \in SUBSET {t \in TxIds : where[t] = 0} : Mined(ts)
    \/ Reorganised
    \/ Request \/ ReadBalance \/ ReadActivity \/ ReadFails

Spec == Init /\ [][Next]_vars

-----------------------------------------------------------------------------
(* Properties.                                                             *)

Net(t) == Total(Txs[t].vout, Own(Txs[t].vout)) - Total(Txs[t].vin, Own(Txs[t].vin))
Shown == {view.recent[i].txid : i \in DOMAIN view.recent}
Relevant == {t \in Known(basis) : Own(Txs[t].vin) # {} \/ Own(Txs[t].vout) # {}}
Seen(t) == IF basis[t] = 0 THEN MaxHeight + 1 ELSE basis[t]

\* parse_activity: each transaction has one line, with exactly what it moved into
\* and out of the watched addresses, whatever mix of inputs, outputs and change.
LinesExact ==
    view # Unread =>
        /\ \A i \in DOMAIN view.recent : view.recent[i].net = Net(view.recent[i].txid)
        /\ Cardinality(Shown) = Len(view.recent)

\* sort_by and truncate: the Overview drops a transaction only for want of room,
\* and never one that is newer than one it shows; the mempool is newest of all.
NewestShown ==
    view # Unread =>
        /\ Shown \subseteq Relevant
        /\ Shown = Relevant \/ Cardinality(Shown) = Limit
        /\ \A t \in Shown, u \in Relevant \ Shown : Seen(t) >= Seen(u)

\* sort_by over a hash map: the same index always gives the same Overview, so
\* truncation never drops an arbitrary one of two equally new lines.
Deterministic == Cardinality(Activities(where)) = 1

\* The Overview is a function of the address index: its lines are exact, and which
\* ones are shown and in which order follows from it alone.
OverviewExact == LinesExact /\ NewestShown /\ Deterministic

\* summary: a balance and an activity list that has room for everything add up,
\* unless the index moved between the two reads.
BalanceAddsUp ==
    view # Unread /\ ~view.torn /\ Cardinality(Relevant) <= Limit =>
        view.balance = SumFunction([i \in DOMAIN view.recent |-> view.recent[i].net])

\* What went back to an output the sender's list names, as the code compares them.
Back(t) == {i \in PaymentsTo(t) : Spelling(Txs[t].vout[i].addr) \in Txs[t].sender}

\* notify_incoming against parse_activity, two readers of one transaction: once it was
\* announced, the line of the Overview is what the phone was told of, what it was not
\* told because a notice was lost, and what went back to the sender, less what was
\* spent.  So no phone hears of more money than its Overview comes to show, and one
\* that lost no notice has heard of all that a stranger sent it.
PingsMatchActivity ==
    view # Unread =>
        \A i \in DOMAIN view.recent :
            LET t    == view.recent[i].txid
                outs == Txs[t].vout
            IN  pings[t] \cup missed[t] # {} =>
                    view.recent[i].net = Total(outs, pings[t]) + Total(outs, missed[t])
                        + Total(outs, Back(t)) - Total(Txs[t].vin, Own(Txs[t].vin))
=============================================================================
