---------------------------- MODULE RelayServer ----------------------------
(***************************************************************************)
(* The relay's WebSocket server (lovenode-relay/src/server.rs): one        *)
(* handle_one task per phone connection, the block-driven tick task and    *)
(* the payment notifier, all sharing the two tokio mutexes `registry` and  *)
(* `outbound`.                                                             *)
(*                                                                         *)
(* A task interleaves with the others wherever the code awaits: on a lock, *)
(* on a node RPC, on a socket write.  Between two awaits a task runs in    *)
(* one step, except that the outbound lock is taken in a step of its own   *)
(* where the code does more than one thing under it: receivers drain their *)
(* queues without that lock.                                               *)
(*                                                                         *)
(* A win or payment notice is abstracted to the address it is about, and a *)
(* coin to the address that holds it.  Which requests the per-connection   *)
(* rate limiter refuses is left open here; RateLimiter models it.          *)
(***************************************************************************)
EXTENDS Registry, Sequences

CONSTANTS
    Conns,       \* connection ids handed out by next_conn_id
    QueueCap,    \* OUTBOUND_QUEUE
    NoConn,      \* absence of a connection
    NoToken,     \* device_token = None
    NoReg,       \* no registration received yet
    TickTask,    \* the tick task, as a holder of the outbound lock
    Notifier     \* the caller of notify_incoming, as a holder of that lock

ASSUME RelayAssumption ==
    /\ QueueCap \in Nat \ {0}
    /\ NoConn \notin Conns
    /\ TickTask \notin Conns \cup {NoConn}
    /\ Notifier \notin Conns \cup {NoConn, TickTask}
    /\ NoToken \notin Tokens
    /\ NoReg \notin Registrations

VARIABLES
    registry,    \* RelayState.registry
    outbound,    \* RelayState.outbound: token -> current connection
    regLock,     \* who holds the registry lock across an await
    outLock,     \* who holds the outbound lock
    phase,       \* where each handle_one task stands
    regMsg,      \* the Registration the task received, if any
    deviceToken, \* handle_one's device_token
    queue,       \* the mpsc channel of each connection
    tickPhase,   \* where tick() stands
    scan,        \* tick(): addresses to query, then the coins found on them
    wins,        \* tick(): (token, coin) pairs still to be routed
    notePhase,   \* where notify_incoming() stands
    notes        \* notify_incoming(): (token, address) pairs to be routed

connVars == <<phase, regMsg, deviceToken>>
tickVars == <<tickPhase, scan, wins>>
noteVars == <<notePhase, notes>>
lockVars == <<regLock, outLock>>
mapVars  == <<registry, outbound>>
vars == <<connVars, queue, tickVars, noteVars, lockVars, mapVars>>

Phases ==
    {"new",       \* not accepted yet
     "loop",      \* waiting in the select!
     "wantReg",   \* Register: awaiting the registry lock
     "wantOut",   \* Register: holding it, awaiting the outbound lock
     "wantView",  \* GetSummary: awaiting the registry lock
     "rpc",       \* awaiting the node (summary or submit_signed)
     "reply",     \* awaiting sink.send of a reply, its result ignored
     "push",      \* awaiting sink.send of a queued notice
     "leave",     \* out of the loop, awaiting the outbound lock
     "unroute",   \* holding it
     "unregister",\* awaiting the registry lock to drop the device
     "closed",    \* returned
     "failed"}    \* returned early by the `?` on a read error

Gone == {"closed", "failed"}

TypeOK ==
    /\ registry \in [Tokens -> SUBSET Addrs]
    /\ outbound \in [Tokens -> Conns \cup {NoConn}]
    /\ regLock \in Conns \cup {NoConn}
    /\ outLock \in Conns \cup {NoConn, TickTask, Notifier}
    /\ phase \in [Conns -> Phases]
    /\ regMsg \in [Conns -> Registrations \cup {NoReg}]
    /\ deviceToken \in [Conns -> Tokens \cup {NoToken}]
    /\ queue \in [Conns -> Seq(Addrs)]
    /\ \A c \in Conns : Len(queue[c]) <= QueueCap
    /\ tickPhase \in {"idle", "addresses", "coins", "search", "route", "send"}
    /\ scan \in SUBSET Addrs
    /\ wins \in SUBSET (Tokens \X Addrs)
    /\ notePhase \in {"idle", "route", "send"}
    /\ notes \in SUBSET (Tokens \X Addrs)

Init ==
    /\ registry = EmptyRegistry
    /\ outbound = [t \in Tokens |-> NoConn]
    /\ regLock = NoConn
    /\ outLock = NoConn
    /\ phase = [c \in Conns |-> "new"]
    /\ regMsg = [c \in Conns |-> NoReg]
    /\ deviceToken = [c \in Conns |-> NoToken]
    /\ queue = [c \in Conns |-> <<>>]
    /\ tickPhase = "idle"
    /\ scan = {}
    /\ wins = {}
    /\ notePhase = "idle"
    /\ notes = {}

-----------------------------------------------------------------------------
(* The connection task, handle_one.                                        *)

Moves(c, from, to) == phase[c] = from /\ phase' = [phase EXCEPT ![c] = to]

\* A step that touches nothing but its own control point.
Step(c, from, to) ==
    /\ Moves(c, from, to)
    /\ UNCHANGED <<regMsg, deviceToken, queue, tickVars, noteVars, lockVars, mapVars>>

\* serve() accepts a socket and the task takes the next connection id.
Accept(c) == Step(c, "new", "loop")

\* Ping, an unparsable message, a refused second Register, a registration
\* that does not validate, a request over the rate limit: a reply and nothing
\* else.
Answer(c) == Step(c, "loop", "reply")

\* A valid first Register: the task goes to wait for the registry lock.
ReceiveRegister(c) ==
    /\ deviceToken[c] = NoToken
    /\ Moves(c, "loop", "wantReg")
    /\ \E reg \in Registrations : regMsg' = [regMsg EXCEPT ![c] = reg]
    /\ UNCHANGED <<deviceToken, queue, tickVars, noteVars, lockVars, mapVars>>

LockRegistry(c) ==
    /\ regLock = NoConn
    /\ Moves(c, "wantReg", "wantOut")
    /\ regLock' = c
    /\ UNCHANGED <<regMsg, deviceToken, queue, tickVars, noteVars, outLock, mapVars>>

\* Both locks held: register the device (a refusal at capacity is swallowed
\* by unwrap_or), point the token at this connection, release both locks,
\* remember the token, reply Registered.
CommitRegister(c) ==
    /\ outLock = NoConn
    /\ Moves(c, "wantOut", "reply")
    /\ LET t == regMsg[c].device_token IN
       /\ registry' = Register(registry, regMsg[c])
       /\ outbound' = [outbound EXCEPT ![t] = c]
       /\ deviceToken' = [deviceToken EXCEPT ![c] = t]
    /\ regLock' = NoConn
    /\ UNCHANGED <<regMsg, queue, tickVars, noteVars, outLock>>

\* GetSummary within the rate limit; Signed within it goes straight to the
\* node.
ReceiveNodeCall(c) == Step(c, "loop", "wantView") \/ Step(c, "loop", "rpc")

\* summary(): the addresses of the token (an unregistered connection looks up
\* the empty token, which never has an entry); none means an error reply.
View(c) ==
    IF deviceToken[c] = NoToken THEN {} ELSE registry[deviceToken[c]]

ReadAddresses(c) ==
    /\ regLock = NoConn
    /\ Step(c, "wantView", IF View(c) = {} THEN "reply" ELSE "rpc")

\* The blocking node call returns (an answer, an error or its timeout).
NodeReturns(c) == Step(c, "rpc", "reply")

\* sink.send of a reply returns; an error is ignored.
Replied(c) == Step(c, "reply", "loop")

\* rx.recv() yields a notice and its sink.send begins.
TakeNotice(c) ==
    /\ queue[c] # <<>>
    /\ Moves(c, "loop", "push")
    /\ queue' = [queue EXCEPT ![c] = Tail(@)]
    /\ UNCHANGED <<regMsg, deviceToken, tickVars, noteVars, lockVars, mapVars>>

\* That send returns; an error leaves the loop.
Pushed(c) == Step(c, "push", "loop") \/ Step(c, "push", "leave")

\* The task returns: its receiver is dropped with what was queued.
Return(c, from, to) ==
    /\ Moves(c, from, to)
    /\ queue' = [queue EXCEPT ![c] = <<>>]

\* The stream ends or a Close frame arrives.
PeerCloses(c) == Step(c, "loop", "leave")

\* A read error is propagated with `?`: the task returns without its cleanup.
ReadError(c) ==
    /\ Return(c, "loop", "failed")
    /\ UNCHANGED <<regMsg, deviceToken, tickVars, noteVars, lockVars, mapVars>>

\* Nothing to clean up when the connection never registered.
LeaveUnregistered(c) ==
    /\ deviceToken[c] = NoToken
    /\ Return(c, "leave", "closed")
    /\ UNCHANGED <<regMsg, deviceToken, tickVars, noteVars, lockVars, mapVars>>

LockOutbound(c) ==
    /\ deviceToken[c] # NoToken
    /\ outLock = NoConn
    /\ Moves(c, "leave", "unroute")
    /\ outLock' = c
    /\ UNCHANGED <<regMsg, deviceToken, queue, tickVars, noteVars, regLock, mapVars>>

\* Mutant: the connection id is not compared.
Unroute_NoIdCheck(c) ==
    /\ Moves(c, "unroute", "unregister")
    /\ outbound' = [outbound EXCEPT ![deviceToken[c]] = NoConn]
    /\ outLock' = NoConn
    /\ UNCHANGED <<regMsg, deviceToken, queue, tickVars, noteVars, regLock, registry>>

\* Mutant: the registry entry is left behind.
Unroute_KeepsDevice(c) ==
    /\ Return(c, "unroute", "closed")
    /\ LET t == deviceToken[c] IN
       outbound' = IF outbound[t] = c THEN [outbound EXCEPT ![t] = NoConn] ELSE outbound
    /\ outLock' = NoConn
    /\ UNCHANGED <<regMsg, deviceToken, tickVars, noteVars, regLock, registry>>

\* Mutant: without drop(outbound) the registry is awaited with the outbound
\* lock held.
Unroute_NoDrop(c) ==
    /\ LET t == deviceToken[c] IN
       \/ /\ Return(c, "unroute", "closed")
          /\ outbound[t] = c /\ regLock = NoConn
          /\ outbound' = [outbound EXCEPT ![t] = NoConn]
          /\ registry' = Remove(registry, t)
       \/ Return(c, "unroute", "closed") /\ outbound[t] # c /\ UNCHANGED mapVars
    /\ outLock' = NoConn
    /\ UNCHANGED <<regMsg, deviceToken, tickVars, noteVars, regLock>>

\* Under the outbound lock: a connection that is no longer current returns;
\* the current one removes its entry, drops the lock and only then goes for
\* the registry.
Unroute(c) ==
    /\ LET t == deviceToken[c] IN
       \/ /\ Moves(c, "unroute", "unregister")
          /\ outbound[t] = c
          /\ outbound' = [outbound EXCEPT ![t] = NoConn]
          /\ UNCHANGED queue
       \/ /\ Return(c, "unroute", "closed")
          /\ outbound[t] # c
          /\ UNCHANGED outbound
    /\ outLock' = NoConn
    /\ UNCHANGED <<regMsg, deviceToken, tickVars, noteVars, regLock, registry>>

Unregister(c) ==
    /\ regLock = NoConn
    /\ Return(c, "unregister", "closed")
    /\ registry' = Remove(registry, deviceToken[c])
    /\ UNCHANGED <<regMsg, deviceToken, tickVars, noteVars, lockVars, outbound>>

Handler(c) ==
    \/ Accept(c) \/ Answer(c) \/ ReceiveRegister(c) \/ LockRegistry(c)
    \/ CommitRegister(c) \/ ReceiveNodeCall(c) \/ ReadAddresses(c)
    \/ NodeReturns(c) \/ Replied(c) \/ TakeNotice(c) \/ Pushed(c)
    \/ PeerCloses(c) \/ ReadError(c) \/ LeaveUnregistered(c)
    \/ LockOutbound(c) \/ Unroute(c) \/ Unregister(c)

-----------------------------------------------------------------------------
(* Routing a notice: outbound.get(token) and try_send.                     *)

\* Mutant: an unbounded channel.
TrySend_Unbounded(t, a) ==
    LET c == outbound[t] IN
    queue' = IF c \in Conns /\ phase[c] \notin Gone
             THEN [queue EXCEPT ![c] = Append(@, a)]
             ELSE queue

\* try_send fails, and the notice is dropped, when the receiver is gone or
\* the queue is full.
TrySend(t, a) ==
    LET c == outbound[t] IN
    queue' = IF c \in Conns /\ phase[c] \notin Gone /\ Len(queue[c]) < QueueCap
             THEN [queue EXCEPT ![c] = Append(@, a)]
             ELSE queue

(* tick().                                                                 *)

\* A new block, and a tip that was fetched and is fresh.  (A failed or stale
\* tip ends the tick before it touches anything shared.)
TickStart ==
    /\ tickPhase = "idle"
    /\ tickPhase' = "addresses"
    /\ UNCHANGED <<connVars, queue, scan, wins, noteVars, lockVars, mapVars>>

TickAddresses ==
    /\ tickPhase = "addresses"
    /\ regLock = NoConn
    /\ scan' = AllAddresses(registry)
    /\ tickPhase' = IF scan' = {} THEN "idle" ELSE "coins"
    /\ UNCHANGED <<connVars, queue, wins, noteVars, lockVars, mapVars>>

\* eligible_coins_by_address: the node returns the eligible coins on the
\* addresses it was asked about, or an error that ends the tick.
TickCoins ==
    /\ tickPhase = "coins"
    /\ \/ \E found \in SUBSET scan : scan' = found /\ tickPhase' = "search"
       \/ scan' = {} /\ tickPhase' = "idle"
    /\ UNCHANGED <<connVars, queue, wins, noteVars, lockVars, mapVars>>

\* Mutant: every device is handed the full coin set.
OwnCoins_All(t) == IF registry[t] = {} THEN {} ELSE scan

\* The stakers are built from the registry as it is NOW, each with the coins
\* on its own addresses; search() gives a staker at most one win, among its
\* coins that hit.  Which coins hit is the kernel's business (hits).
OwnCoins(t) == registry[t] \cap scan

SearchResults(hits) ==
    {w \in SUBSET {p \in Tokens \X Addrs : p[2] \in OwnCoins(p[1]) \cap hits} :
        /\ \A x, y \in w : x[1] = y[1] => x = y
        /\ \A t \in Tokens : OwnCoins(t) \cap hits # {} => \E x \in w : x[1] = t}

TickSearch ==
    /\ tickPhase = "search"
    /\ regLock = NoConn
    /\ \E hits \in SUBSET scan : wins' \in SearchResults(hits)
    /\ scan' = {}
    /\ tickPhase' = "route"
    /\ UNCHANGED <<connVars, queue, noteVars, lockVars, mapVars>>

TickLock ==
    /\ tickPhase = "route"
    /\ outLock = NoConn
    /\ outLock' = TickTask
    /\ tickPhase' = "send"
    /\ UNCHANGED <<connVars, queue, scan, wins, noteVars, regLock, mapVars>>

\* Mutant: send().await instead of try_send.
TickSend_Blocking ==
    /\ tickPhase = "send"
    /\ \E w \in wins :
          /\ outbound[w[1]] \in Conns => Len(queue[outbound[w[1]]]) < QueueCap
          /\ TrySend(w[1], w[2])
          /\ wins' = wins \ {w}
    /\ UNCHANGED <<connVars, tickPhase, scan, noteVars, lockVars, mapVars>>

TickSend ==
    /\ tickPhase = "send"
    /\ \E w \in wins : TrySend(w[1], w[2]) /\ wins' = wins \ {w}
    /\ UNCHANGED <<connVars, tickPhase, scan, noteVars, lockVars, mapVars>>

TickDone ==
    /\ tickPhase = "send"
    /\ wins = {}
    /\ outLock' = NoConn
    /\ tickPhase' = "idle"
    /\ UNCHANGED <<connVars, queue, scan, wins, noteVars, regLock, mapVars>>

Tick ==
    \/ TickStart \/ TickAddresses \/ TickCoins \/ TickSearch
    \/ TickLock \/ TickSend \/ TickDone

-----------------------------------------------------------------------------
(* notify_incoming().                                                      *)

\* The devices are snapshotted under the registry lock.  The transaction pays
\* the addresses in `paid`; those in `own` are the sender's (change).
NotifySnapshot ==
    /\ notePhase = "idle"
    /\ regLock = NoConn
    /\ \E paid, own \in SUBSET Addrs :
          notes' = {p \in Tokens \X Addrs : p[2] \in (registry[p[1]] \cap paid) \ own}
    /\ notePhase' = "route"
    /\ UNCHANGED <<connVars, queue, tickVars, lockVars, mapVars>>

NotifyLock ==
    /\ notePhase = "route"
    /\ outLock = NoConn
    /\ outLock' = Notifier
    /\ notePhase' = "send"
    /\ UNCHANGED <<connVars, queue, tickVars, notes, regLock, mapVars>>

NotifySend ==
    /\ notePhase = "send"
    /\ \E n \in notes : TrySend(n[1], n[2]) /\ notes' = notes \ {n}
    /\ UNCHANGED <<connVars, tickVars, notePhase, lockVars, mapVars>>

NotifyDone ==
    /\ notePhase = "send"
    /\ notes = {}
    /\ outLock' = NoConn
    /\ notePhase' = "idle"
    /\ UNCHANGED <<connVars, queue, tickVars, notes, regLock, mapVars>>

Notify == NotifySnapshot \/ NotifyLock \/ NotifySend \/ NotifyDone

Next == (\E c \in Conns : Handler(c)) \/ Tick \/ Notify

Spec == Init /\ [][Next]_vars

-----------------------------------------------------------------------------
(* Fairness.  A task that is ready to run is scheduled, a node call        *)
(* returns (NodeRpc has a timeout), and tokio's Mutex is FIFO, so a lock   *)
(* that is released again and again is eventually acquired: strong         *)
(* fairness of the steps a task takes on its own.  A task is at one step   *)
(* at a time, so one condition per task is one per step.  A socket write   *)
(* has no timeout in the code and a phone may never send or close, so      *)
(* Replied, Pushed, PeerCloses and what the phone sends are not fair.      *)

HandlerProgress(c) ==
    \/ LockRegistry(c) \/ CommitRegister(c) \/ ReadAddresses(c) \/ NodeReturns(c)
    \/ LeaveUnregistered(c) \/ LockOutbound(c) \/ Unroute(c) \/ Unregister(c)

TickProgress ==
    \/ TickAddresses \/ TickCoins \/ TickSearch \/ TickLock \/ TickSend \/ TickDone

NotifyProgress == NotifyLock \/ NotifySend \/ NotifyDone

Fairness ==
    /\ \A c \in Conns : SF_vars(HandlerProgress(c))
    /\ SF_vars(TickProgress)
    /\ SF_vars(NotifyProgress)

FairSpec == Spec /\ Fairness

-----------------------------------------------------------------------------
(* Properties.                                                             *)

\* Everything connections of token t have ever asked the relay to watch.
Claimed(t) ==
    UNION {regMsg[c].addresses : c \in {d \in Conns : deviceToken[d] = t}}

\* c is answerable for the device of token t: it is the one the token is routed to
\* and has its cleanup before it, or it is between the two halves of that cleanup.
\* (A connection that died of a read error, phase "failed", has a cleanup before it
\* that never comes: see DeadIsUnrouted.)
Answerable(c, t) ==
    /\ deviceToken[c] = t
    /\ \/ outbound[t] = c /\ phase[c] \notin {"unregister", "closed"}
       \/ outbound[t] = NoConn /\ phase[c] = "unregister"

\* Whoever reconnects while whoever cleans up, a device stays registered only as
\* long as a connection that registered it is answerable for it; no connection that
\* has returned through its cleanup leaves one behind for every later tick to
\* search (server.rs lines 401-410).
NoGhostDevice ==
    \A t \in Devices(registry) : \E c \in Conns : Answerable(c, t)

\* Registry and outbound agree on who is current (server.rs lines 353-362): the
\* addresses searched for a routed token are the ones its current connection
\* registered, never those of a connection it replaced, or none at all: after a
\* refusal at capacity or a late cleanup (RoutedIsSearched).
AgreeOnCurrent ==
    \A t \in Tokens, c \in Conns :
        outbound[t] = c /\ registry[t] # {} => registry[t] = regMsg[c].addresses

\* One socket owns at most one route (server.rs lines 338-347), so what a
\* connection leaves behind is bounded by what its own cleanup knows of.
OneRoutePerConnection ==
    \A s, t \in Tokens : outbound[s] = outbound[t] /\ outbound[s] # NoConn => s = t

\* A connection that left through its cleanup is never current again, whatever
\* registrations and lookups were under way meanwhile.  One that died of a read
\* error did not go through it.
CleanCloseUnroutes ==
    \A t \in Tokens, c \in Conns :
        phase[c] \in {"unregister", "closed"} => outbound[t] # c

\* Whatever reconnects and cleanups interleave, the one current connection of a
\* token has not been through its cleanup, is current for no other token, and the
\* addresses searched for, if any, are the ones it registered (server.rs lines
\* 338-362 and 401-410).  It need not be alive: DeadIsUnrouted.
OneCurrentConnection == AgreeOnCurrent /\ OneRoutePerConnection /\ CleanCloseUnroutes

\* A queued notice is about an address that some connection of this phone's
\* token registered: never about another token's (server.rs lines 137-139 and
\* 170-171), however ticks, payments and reconnects interleave.
OwnNoticesOnly ==
    \A c \in Conns : \A i \in 1..Len(queue[c]) :
        deviceToken[c] \in Tokens /\ queue[c][i] \in Claimed(deviceToken[c])

\* The registered set never outgrows MAX_DEVICES (registry.rs lines 103-108).
DeviceCap == Cardinality(Devices(registry)) <= MaxDevices

\* The relay's routing implements the abstract one: a route is lost only to a
\* newer registration of the token or to its own connection's cleanup, so a
\* reconnect survives the old connection's disconnect (server.rs lines 404-405).
R == INSTANCE Routing WITH
        route <- outbound,
        attached <- {c \in Conns : deviceToken[c] # NoToken},
        left <- {c \in Conns : deviceToken[c] # NoToken
                                /\ phase[c] \in {"unregister", "closed"}}

RoutingSpec == R!Spec

\* A valid Register that waits for the two locks gets them and is answered,
\* even when other phones never read from their sockets.
RegisterAnswered ==
    \A c \in Conns : phase[c] = "wantReg" ~> phase[c] = "reply"

\* A connection that left its loop finishes its cleanup: the opposite lock
\* orders of registration and cleanup never deadlock (server.rs lines 356-362
\* and 403-409).
CleanupFinishes == \A c \in Conns : phase[c] = "leave" ~> phase[c] = "closed"

\* No handler waits forever for the two mutexes, which registration and cleanup
\* take in opposite orders.
HandlersFinish == RegisterAnswered /\ CleanupFinishes

\* A tick ends whatever the phones do ("never block the tick on one slow
\* device", server.rs line 163).
TickCompletes == tickPhase # "idle" ~> tickPhase = "idle"

-----------------------------------------------------------------------------
(* What the comments claim and the code does not do.                       *)

\* server.rs lines 353-355: registry and outbound never drift.  A connection
\* that is current for a token and still serving has its device searched for.
RoutedIsSearched ==
    \A t \in Tokens, c \in Conns :
        outbound[t] = c /\ phase[c] \in {"loop", "reply", "push"} => registry[t] # {}

\* server.rs line 401: "Clean up on disconnect so a dead device isn't searched for or
\* routed to".  No token is routed to a connection whose task has returned.
DeadIsUnrouted ==
    \A t \in Tokens, c \in Conns : outbound[t] = c => phase[c] \notin Gone

=============================================================================
