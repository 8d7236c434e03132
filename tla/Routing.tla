------------------------------ MODULE Routing ------------------------------
(***************************************************************************)
(* What the relay promises about who receives a token's notices, without   *)
(* locks, queues or tasks: a connection attaches to at most one token, once;*)
(* a later attach to the same token takes it over; a connection that leaves *)
(* gives up only the route it still has, and cannot come back.             *)
(***************************************************************************)
CONSTANTS Conns, Tokens, NoConn

VARIABLES
    route,    \* token -> the connection that is current for it, or NoConn
    attached, \* connections that have attached, ever
    left      \* connections that have given up their route

vars == <<route, attached, left>>

Init ==
    /\ route = [t \in Tokens |-> NoConn]
    /\ attached = {}
    /\ left = {}

Attach(c, t) ==
    /\ c \notin attached
    /\ route' = [route EXCEPT ![t] = c]
    /\ attached' = attached \cup {c}
    /\ UNCHANGED left

Detach(c) ==
    /\ c \in attached \ left
    /\ route' = [t \in Tokens |-> IF route[t] = c THEN NoConn ELSE route[t]]
    /\ left' = left \cup {c}
    /\ UNCHANGED attached

Next == \E c \in Conns : Detach(c) \/ \E t \in Tokens : Attach(c, t)

Spec == Init /\ [][Next]_vars

=============================================================================
