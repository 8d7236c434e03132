---------------------------- MODULE MCStakeCycle ----------------------------
(* Two hosts that serve the same devices, with several schedules of awards *)
(* and a chain that may reorganise.                                        *)
EXTENDS StakeCycle

CONSTANTS d1, d2, h1, h2

MCStakers == <<d1, d2>>
MCWinners == [x \in Heights \X Eras |-> IF x[1] = 1 THEN {d1, d2} ELSE {d2}]
\* One device, which wins at every height of every branch.
MCOne == <<d2>>
MCWinOne == [x \in Heights \X Eras |-> {d2}]
MCValue == [d \in Devices |-> IF d = d1 THEN 1 ELSE 3]
\* The first block is older than the program, the second a half-life into it, and
\* two when its parent came with a reorganisation.
MCTimeOf == [x \in Heights \X Eras |-> IF x[1] = 1 THEN 1 ELSE 3 + x[2]]
\* Proof hashes are 1..4, and 7 for d2 on a parent of a later era; block hashes 5, 6.
MCKeys == 1..7
MCProofOf == [x \in Devices \X Heights \X Eras |->
                 IF x[1] = d1 THEN x[2] ELSE IF x[2] = 2 /\ x[3] = 1 THEN 7 ELSE 2 + x[2]]
MCHashOf == (h1 :> 5) @@ (h2 :> 6)
\* d2 always rolls low, d1 only with the secret; the headers differ.
MCDigest == [x \in MCKeys \X Heights \X Secrets |->
                IF x[3] # NoSecret THEN 10 ELSE <<20, 90, 64, 7, 3, 90, 9>>[x[1]]]

\* Everybody with a stake of 2 is awarded once a cap of 1 allows it; nobody is.
Hidden == [CardGame EXCEPT !.initial = (4 * Ppm) \div 3, !.min_stake = 2, !.cap = 1,
                           !.source = "ServerSecret", !.secret = 7]
Closed == [CardGame EXCEPT !.initial = Ppm, !.cap = 0]
MCPolicies == {CardGame, Hidden, Closed}
\* Every win is awarded.
MCSure == {[CardGame EXCEPT !.initial = 100 * Ppm]}
=============================================================================
