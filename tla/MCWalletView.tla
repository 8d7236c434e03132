---------------------------- MODULE MCWalletView ----------------------------
(* A payment in two parts; one that spends from both parts, with change to *)
(* the same address and to another; one between strangers; and one that    *)
(* the device makes together with a stranger, paid to the device in part.  *)
(* The device registered one address as it is, one with a blank before it, *)
(* and a text that is no address of the network; feeds name them plainly.  *)
EXTENDS WalletView

CONSTANTS mine, spare, theirs, padded, typo

C(a, n) == [addr |-> a, sats |-> n]
MCTxs == <<
    [vin |-> <<C(theirs, 9)>>, vout |-> <<C(mine, 4), C(theirs, 2), C(spare, 3)>>,
     sender |-> {theirs}, spends |-> {}],
    [vin |-> <<C(mine, 4), C(spare, 3)>>, vout |-> <<C(theirs, 1), C(mine, 2), C(spare, 3)>>,
     sender |-> {mine, spare}, spends |-> {1}],
    [vin |-> <<C(theirs, 2)>>, vout |-> <<C(theirs, 2)>>,
     sender |-> {theirs}, spends |-> {1}],
    [vin |-> <<C(theirs, 5), C(mine, 2)>>, vout |-> <<C(mine, 3), C(spare, 4)>>,
     sender |-> {mine}, spends |-> {2}]>>
MCAddresses == {mine, spare, theirs}
MCStrings == MCAddresses \cup {padded, typo}
MCScript == [s \in MCStrings |-> CASE s = padded -> spare [] s = typo -> NoScript [] OTHER -> s]
MCWatched == {mine, padded, typo}
=============================================================================
