--------------------------- MODULE MCRelayServer ---------------------------
(* The relay server on small instances. *)
EXTENDS RelayServer, TLC

Symmetry == Permutations(Conns) \cup Permutations(Tokens) \cup Permutations(Addrs)

=============================================================================
