------------------------------ MODULE MCEngine ------------------------------
(* Three coins of two stakers, and a hash that differs in every argument.  *)
EXTENDS Engine, TLC

CONSTANTS c1, c2, c3, s1, s2

MCCoins == {c1, c2, c3}
MCValue == (c1 :> 3) @@ (c2 :> 2) @@ (c3 :> 3)
MCStart == (c1 :> 0) @@ (c2 :> 1) @@ (c3 :> 6)
MCOwner == (c1 :> s1) @@ (c2 :> s1) @@ (c3 :> s2)

Number == (c1 :> 1) @@ (c2 :> 4) @@ (c3 :> 6)

MCStakeHash ==
    [x \in Modifiers \X MCCoins \X Times |->
        LET h == (x[1] * 101 + Number[x[2]] * 67 + x[3] * x[3] * 83 + x[3] * 29) % Top
        IN  [i \in Limbs |-> (h \div Base ^ i) % Base]]

MCTips ==
    [height : {1}, time : {0, 2, 5, 7},
     bits : {[size |-> 8, word |-> 2], [size |-> 9, word |-> 1]}, modifier : Modifiers]
=============================================================================
