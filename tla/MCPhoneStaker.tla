--------------------------- MODULE MCPhoneStaker ---------------------------
(* A device with a small and a large coin on one key, and a foreign coin.  *)
EXTENDS PhoneStaker

CONSTANTS small, large, foreign, mine, theirs, older, rival, newer

MCCoins == {small, large, foreign}
MCOwn == {small, large}
MCValue == (small :> 1) @@ (large :> 3) @@ (foreign :> 3)
MCScriptOf == (small :> mine) @@ (large :> mine) @@ (foreign :> theirs)
MCHeightOf == (older :> 1) @@ (rival :> 1) @@ (newer :> 2)

Pay(s, v) == [to |-> s, value |-> v]

\* One or two payments, and outputs whose sum leaves the i64 range on each side.
Payouts ==
    LET One == {Pay(s, v) : s \in {mine, theirs}, v \in {1, 3}}
    IN  {<<p>> : p \in One} \cup {<<p, q>> : p, q \in One}
        \cup {<<Pay(mine, -4), Pay(mine, -4), Pay(mine, 3), Pay(mine, 3)>>,
              <<Pay(mine, 3), Pay(mine, 3), Pay(mine, -1)>>}

MCCoinstakes ==
    {[vin |-> i, vout |-> <<Marker>> \o p] :
        i \in {<<small>>, <<large>>, <<small, large>>}, p \in Payouts}
    \cup {[vin |-> <<large>>, vout |-> <<Pay(mine, 3)>>],
          [vin |-> <<NullOut>>, vout |-> <<Marker, Pay(mine, 3)>>]}
=============================================================================
