------------------------------- MODULE Powers -------------------------------
(* Powers, as recursive functions that can be reasoned about.              *)
EXTENDS Integers

Pow2[n \in Nat] == IF n = 0 THEN 1 ELSE 2 * Pow2[n - 1]

\* b ^ n.
Power(b, n) == LET power[k \in Nat] == IF k = 0 THEN 1 ELSE b * power[k - 1] IN power[n]
=============================================================================
