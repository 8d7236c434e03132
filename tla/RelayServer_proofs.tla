------------------------- MODULE RelayServer_proofs -------------------------
(***************************************************************************)
(* Proofs about RelayServer for every set of connections, tokens and       *)
(* addresses, every capacity and every queue bound; and about the limiter  *)
(* that each connection has, for every limit and every window length.      *)
(***************************************************************************)
EXTENDS RelayServer, RateLimiter, FiniteSetTheorems, TLAPS

\* The registration a connection is in the middle of, or has made, is a valid
\* one, and its token is the one the task remembers.
HandlerInv ==
    \A c \in Conns :
        /\ phase[c] \in {"wantReg", "wantOut"} =>
              deviceToken[c] = NoToken /\ regMsg[c] \in Registrations
        /\ phase[c] \in {"unroute", "unregister"} => deviceToken[c] \in Tokens
        /\ deviceToken[c] \in Tokens =>
              regMsg[c] \in Registrations /\ regMsg[c].device_token = deviceToken[c]

\* A route leads to a connection that registered that very token.
RouteInv ==
    \A t \in Tokens, c \in Conns : outbound[t] = c => deviceToken[c] = t

-----------------------------------------------------------------------------

\* Register and Remove keep the registry a function of its type.
LEMMA RegistryType ==
    ASSUME NEW r \in [Tokens -> SUBSET Addrs]
    PROVE  /\ \A reg \in Registrations : Register(r, reg) \in [Tokens -> SUBSET Addrs]
           /\ \A t \in Tokens : Remove(r, t) \in [Tokens -> SUBSET Addrs]
           /\ AllAddresses(r) \in SUBSET Addrs
  BY DEF Register, Remove, AllAddresses, Registrations, ValidAddressSets

\* Every member of the queue's type survives Append, Tail and a reset.
LEMMA QueueType ==
    ASSUME NEW q \in Seq(Addrs), Len(q) <= QueueCap
    PROVE  /\ q # <<>> => Tail(q) \in Seq(Addrs) /\ Len(Tail(q)) <= QueueCap
           /\ \A a \in Addrs : Len(q) < QueueCap =>
                 Append(q, a) \in Seq(Addrs) /\ Len(Append(q, a)) <= QueueCap
           /\ <<>> \in Seq(Addrs) /\ Len(<<>>) <= QueueCap
  BY RelayAssumption

\* TrySend keeps the queues typed and bounded.
LEMMA TrySendType ==
    ASSUME TypeOK, NEW t \in Tokens, NEW a \in Addrs, TrySend(t, a)
    PROVE  /\ queue' \in [Conns -> Seq(Addrs)]
           /\ \A c \in Conns : Len(queue'[c]) <= QueueCap
  <1>. DEFINE c == outbound[t]
  <1>1. CASE c \in Conns /\ phase[c] \notin Gone /\ Len(queue[c]) < QueueCap
    <2>1. queue' = [queue EXCEPT ![c] = Append(queue[c], a)]
      BY <1>1 DEF TrySend
    <2>2. Append(queue[c], a) \in Seq(Addrs) /\ Len(Append(queue[c], a)) <= QueueCap
      BY <1>1, QueueType DEF TypeOK
    <2>. QED  BY <2>1, <2>2, <1>1 DEF TypeOK
  <1>2. CASE ~(c \in Conns /\ phase[c] \notin Gone /\ Len(queue[c]) < QueueCap)
    BY <1>2 DEF TrySend, TypeOK
  <1>. QED  BY <1>1, <1>2

\* The type invariant together with HandlerInv is inductive.
TypeInv == TypeOK /\ HandlerInv

LEMMA TypeInvInit == Init => TypeInv
  BY RelayAssumption DEF Init, TypeInv, TypeOK, HandlerInv, Phases, EmptyRegistry

LEMMA TypeInvHandler ==
    ASSUME TypeInv, NEW c \in Conns, Handler(c)
    PROVE  TypeInv'
  <1>. USE DEF TypeInv, TypeOK, HandlerInv, Phases, Moves, tickVars, noteVars,
               lockVars, mapVars
  <1>1. CASE Accept(c)  BY <1>1 DEF Accept, Step
  <1>2. CASE Answer(c)  BY <1>2 DEF Answer, Step
  <1>3. CASE ReceiveRegister(c)  BY <1>3, RelayAssumption DEF ReceiveRegister
  <1>4. CASE LockRegistry(c)  BY <1>4 DEF LockRegistry
  <1>5. CASE CommitRegister(c)
    <2>1. regMsg[c] \in Registrations /\ regMsg[c].device_token \in Tokens
      BY <1>5 DEF CommitRegister, Registrations
    <2>2. registry' \in [Tokens -> SUBSET Addrs]
      BY <2>1, <1>5, RegistryType DEF CommitRegister
    <2>. QED  BY <2>1, <2>2, <1>5 DEF CommitRegister
  <1>6. CASE ReceiveNodeCall(c)  BY <1>6 DEF ReceiveNodeCall, Step
  <1>7. CASE ReadAddresses(c)  BY <1>7 DEF ReadAddresses, Step
  <1>8. CASE NodeReturns(c)  BY <1>8 DEF NodeReturns, Step
  <1>9. CASE Replied(c)  BY <1>9 DEF Replied, Step
  <1>10. CASE TakeNotice(c)
    <2>1. Tail(queue[c]) \in Seq(Addrs) /\ Len(Tail(queue[c])) <= QueueCap
      BY <1>10, QueueType DEF TakeNotice
    <2>. QED  BY <2>1, <1>10 DEF TakeNotice
  <1>11. CASE Pushed(c)  BY <1>11 DEF Pushed, Step
  <1>12. CASE PeerCloses(c)  BY <1>12 DEF PeerCloses, Step
  <1>13. CASE ReadError(c)  BY <1>13, QueueType, RelayAssumption DEF ReadError, Return
  <1>14. CASE LeaveUnregistered(c)
    BY <1>14, RelayAssumption DEF LeaveUnregistered, Return
  <1>15. CASE LockOutbound(c)  BY <1>15 DEF LockOutbound
  <1>16. CASE Unroute(c)
    <2>1. deviceToken[c] \in Tokens
      BY <1>16 DEF Unroute, Return
    <2>2. CASE outbound[deviceToken[c]] = c
      <3>1. /\ phase' = [phase EXCEPT ![c] = "unregister"]
            /\ outbound' = [outbound EXCEPT ![deviceToken[c]] = NoConn]
            /\ outLock' = NoConn
            /\ UNCHANGED <<regMsg, deviceToken, queue, tickVars, noteVars, regLock, registry>>
        BY <2>2, <1>16 DEF Unroute, Return
      <3>. QED  BY <2>1, <3>1
    <2>3. CASE outbound[deviceToken[c]] # c
      <3>1. /\ phase' = [phase EXCEPT ![c] = "closed"]
            /\ queue' = [queue EXCEPT ![c] = <<>>]
            /\ outLock' = NoConn
            /\ UNCHANGED <<regMsg, deviceToken, tickVars, noteVars, regLock, mapVars>>
        BY <2>3, <1>16 DEF Unroute, Return
      <3>. QED  BY <2>1, <3>1, RelayAssumption
    <2>. QED  BY <2>2, <2>3
  <1>17. CASE Unregister(c)
    <2>1. registry' \in [Tokens -> SUBSET Addrs]
      BY <1>17, RegistryType DEF Unregister, Return
    <2>. QED  BY <2>1, <1>17, RelayAssumption DEF Unregister, Return
  <1>. QED
    BY <1>1, <1>2, <1>3, <1>4, <1>5, <1>6, <1>7, <1>8, <1>9, <1>10, <1>11, <1>12,
       <1>13, <1>14, <1>15, <1>16, <1>17 DEF Handler

LEMMA TypeInvTick ==
    ASSUME TypeInv, Tick
    PROVE  TypeInv'
  <1>. USE DEF TypeInv, TypeOK, HandlerInv, connVars, tickVars, noteVars, lockVars, mapVars
  <1>1. CASE TickStart  BY <1>1 DEF TickStart
  <1>2. CASE TickAddresses  BY <1>2, RegistryType DEF TickAddresses
  <1>3. CASE TickCoins  BY <1>3 DEF TickCoins
  <1>4. CASE TickSearch
    <2>1. wins' \in SUBSET (Tokens \X Addrs)
      BY <1>4 DEF TickSearch, SearchResults
    <2>. QED  BY <2>1, <1>4 DEF TickSearch
  <1>5. CASE TickLock  BY <1>5 DEF TickLock
  <1>6. CASE TickSend
    <2>1. PICK w \in wins : TrySend(w[1], w[2]) /\ wins' = wins \ {w}
      BY <1>6 DEF TickSend
    <2>2. w[1] \in Tokens /\ w[2] \in Addrs
      BY <2>1
    <2>3. /\ queue' \in [Conns -> Seq(Addrs)]
          /\ \A c \in Conns : Len(queue'[c]) <= QueueCap
      BY <2>1, <2>2, TrySendType
    <2>. QED  BY <2>1, <2>3, <1>6 DEF TickSend
  <1>7. CASE TickDone  BY <1>7 DEF TickDone
  <1>. QED  BY <1>1, <1>2, <1>3, <1>4, <1>5, <1>6, <1>7 DEF Tick

LEMMA TypeInvNotify ==
    ASSUME TypeInv, Notify
    PROVE  TypeInv'
  <1>. USE DEF TypeInv, TypeOK, HandlerInv, connVars, tickVars, noteVars, lockVars, mapVars
  <1>1. CASE NotifySnapshot
    <2>1. notes' \in SUBSET (Tokens \X Addrs)
      BY <1>1 DEF NotifySnapshot
    <2>. QED  BY <2>1, <1>1 DEF NotifySnapshot
  <1>2. CASE NotifyLock  BY <1>2 DEF NotifyLock
  <1>3. CASE NotifySend
    <2>1. PICK n \in notes : TrySend(n[1], n[2]) /\ notes' = notes \ {n}
      BY <1>3 DEF NotifySend
    <2>2. n[1] \in Tokens /\ n[2] \in Addrs
      BY <2>1
    <2>3. /\ queue' \in [Conns -> Seq(Addrs)]
          /\ \A c \in Conns : Len(queue'[c]) <= QueueCap
      BY <2>1, <2>2, TrySendType
    <2>. QED  BY <2>1, <2>3, <1>3 DEF NotifySend
  <1>4. CASE NotifyDone  BY <1>4 DEF NotifyDone
  <1>. QED  BY <1>1, <1>2, <1>3, <1>4 DEF Notify

LEMMA TypeInvStutter == TypeInv /\ UNCHANGED vars => TypeInv'
  BY DEF TypeInv, TypeOK, HandlerInv, vars, connVars, tickVars, noteVars, lockVars, mapVars

LEMMA TypeInvInductive == Spec => []TypeInv
  <1>1. TypeInv /\ [Next]_vars => TypeInv'
    BY TypeInvHandler, TypeInvTick, TypeInvNotify, TypeInvStutter DEF Next
  <1>. QED  BY TypeInvInit, <1>1, PTL DEF Spec

\* Type correctness, with every outbound queue within OUTBOUND_QUEUE, whatever
\* ticks, payments and stalled phones do.
THEOREM TypeCorrect == Spec => []TypeOK
  <1>1. TypeInv => TypeOK
    BY DEF TypeInv
  <1>. QED  BY TypeInvInductive, <1>1, PTL

-----------------------------------------------------------------------------
(* Who is routed, registered and current.                                  *)

\* The inductive strengthening: none of its parts is inductive without
\* RouteInv, which says whose cleanup may touch a route.
CurrentInv == RouteInv /\ NoGhostDevice /\ AgreeOnCurrent /\ CleanCloseUnroutes

LEMMA CurrentInvInit == Init => CurrentInv
  BY RelayAssumption DEF Init, CurrentInv, RouteInv, NoGhostDevice, AgreeOnCurrent,
     CleanCloseUnroutes, Devices, EmptyRegistry

\* A step of one connection that leaves the maps alone and is not the end of
\* a pending cleanup changes nothing for CurrentInv.
LEMMA CurrentInvStep ==
    ASSUME TypeInv, CurrentInv, NEW c \in Conns, NEW p \in Phases,
           phase[c] # "unregister",
           phase' = [phase EXCEPT ![c] = p],
           p \in {"unregister", "closed"} => \A t \in Tokens : outbound[t] # c,
           UNCHANGED <<deviceToken, mapVars>>,
           \A d \in Conns : deviceToken[d] \in Tokens => regMsg'[d] = regMsg[d]
    PROVE  CurrentInv'
<1>1. RouteInv' /\ AgreeOnCurrent' /\ CleanCloseUnroutes'
  BY DEF TypeInv, TypeOK, HandlerInv, CurrentInv, RouteInv, AgreeOnCurrent,
     CleanCloseUnroutes, mapVars
<1>2. ASSUME NEW t \in Tokens, NEW d \in Conns, Answerable(d, t)
      PROVE  Answerable(d, t)'
  BY <1>2 DEF Answerable, TypeInv, TypeOK, mapVars
<1>3. NoGhostDevice'
  BY <1>2 DEF CurrentInv, NoGhostDevice, Devices, mapVars
<1> QED
  BY <1>1, <1>3 DEF CurrentInv

LEMMA CurrentInvCommit ==
    ASSUME TypeInv, CurrentInv, NEW c \in Conns, CommitRegister(c)
    PROVE  CurrentInv'
  <1>. DEFINE t == regMsg[c].device_token
  <1>1. /\ regMsg[c] \in Registrations /\ t \in Tokens /\ deviceToken[c] = NoToken
        /\ regMsg[c].addresses # {}
    BY DEF CommitRegister, Moves, TypeInv, HandlerInv, Registrations, ValidAddressSets
  <1>2. /\ phase[c] = "wantOut" /\ phase' = [phase EXCEPT ![c] = "reply"]
        /\ outbound' = [outbound EXCEPT ![t] = c]
        /\ deviceToken' = [deviceToken EXCEPT ![c] = t]
        /\ regMsg' = regMsg
    BY DEF CommitRegister, Moves
  <1>3. \/ registry' = registry /\ registry[t] = {}
        \/ registry' = [registry EXCEPT ![t] = regMsg[c].addresses]
    BY <1>1 DEF CommitRegister, Register, AtCapacity, Devices
  <1>4. \A s \in Tokens : outbound[s] # c
    BY <1>1, RelayAssumption DEF CurrentInv, RouteInv
  <1>5. RouteInv'
    BY <1>1, <1>2, <1>4, RelayAssumption DEF CurrentInv, RouteInv, TypeInv, TypeOK
  <1>6. CleanCloseUnroutes'
    BY <1>1, <1>2, <1>4 DEF CurrentInv, CleanCloseUnroutes, TypeInv, TypeOK
  <1>7. NoGhostDevice'
    <2>1. ASSUME NEW s \in Tokens, s = t
          PROVE  Answerable(c, s)'
      BY <2>1, <1>1, <1>2 DEF Answerable, TypeInv, TypeOK
    <2>2. ASSUME NEW s \in Tokens, s # t, NEW d \in Conns, Answerable(d, s)
          PROVE  Answerable(d, s)'
      BY <2>2, <1>1, <1>2, <1>4, RelayAssumption DEF Answerable, TypeInv, TypeOK
    <2>3. ASSUME NEW s \in Tokens, s # t, registry'[s] # {}
          PROVE  registry[s] # {}
      BY <2>3, <1>1, <1>3 DEF TypeInv, TypeOK
    <2>4. ASSUME NEW s \in Tokens, registry'[s] # {}
          PROVE  \E d \in Conns : Answerable(d, s)'
      <3>1. CASE s = t
        BY <3>1, <2>1
      <3>2. CASE s # t
        <4>1. s \in Devices(registry)
          BY <3>2, <2>3, <2>4 DEF Devices
        <4>2. PICK d \in Conns : Answerable(d, s)
          BY <4>1 DEF CurrentInv, NoGhostDevice
        <4>. QED  BY <4>2, <3>2, <2>2
      <3>. QED  BY <3>1, <3>2
    <2>. QED  BY <2>4 DEF NoGhostDevice, Devices
  <1>8. AgreeOnCurrent'
    <2>. SUFFICES ASSUME NEW s \in Tokens, NEW d \in Conns,
                         outbound'[s] = d, registry'[s] # {}
                  PROVE  registry'[s] = regMsg[d].addresses
      BY <1>2 DEF AgreeOnCurrent
    <2>1. CASE s = t
      BY <2>1, <1>1, <1>2, <1>3 DEF TypeInv, TypeOK
    <2>2. CASE s # t
      BY <2>2, <1>1, <1>2, <1>3 DEF TypeInv, TypeOK, CurrentInv, AgreeOnCurrent
    <2>. QED  BY <2>1, <2>2
  <1>. QED  BY <1>5, <1>6, <1>7, <1>8 DEF CurrentInv

LEMMA CurrentInvUnroute ==
    ASSUME TypeInv, CurrentInv, NEW c \in Conns, Unroute(c)
    PROVE  CurrentInv'
  <1>. DEFINE t == deviceToken[c]
  <1>1. t \in Tokens /\ phase[c] = "unroute"
    BY DEF Unroute, Return, Moves, TypeInv, HandlerInv
  <1>2. \A s \in Tokens : s # t => outbound[s] # c
    BY DEF CurrentInv, RouteInv
  <1>3. CASE outbound[t] = c
    <2>1. /\ phase' = [phase EXCEPT ![c] = "unregister"]
          /\ outbound' = [outbound EXCEPT ![t] = NoConn]
          /\ UNCHANGED <<regMsg, deviceToken, registry>>
      BY <1>3 DEF Unroute, Moves, Return
    <2>2. RouteInv' /\ CleanCloseUnroutes' /\ AgreeOnCurrent'
      BY <2>1, <1>1, <1>2, RelayAssumption DEF CurrentInv, RouteInv, CleanCloseUnroutes,
         AgreeOnCurrent, TypeInv, TypeOK
    <2>3. NoGhostDevice'
      <3>1. Answerable(c, t)'
        BY <2>1, <1>1 DEF Answerable, TypeInv, TypeOK
      <3>2. ASSUME NEW s \in Tokens, s # t, NEW d \in Conns, Answerable(d, s)
            PROVE  Answerable(d, s)'
        BY <3>2, <2>1, <1>1, <1>2 DEF Answerable, TypeInv, TypeOK
      <3>. QED  BY <3>1, <3>2, <2>1 DEF CurrentInv, NoGhostDevice, Devices
    <2>. QED  BY <2>2, <2>3 DEF CurrentInv
  <1>4. CASE outbound[t] # c
    <2>1. /\ phase' = [phase EXCEPT ![c] = "closed"]
          /\ UNCHANGED <<regMsg, deviceToken, mapVars>>
      BY <1>4 DEF Unroute, Moves, Return, mapVars
    <2>. QED  BY <2>1, <1>1, <1>2, <1>4, CurrentInvStep DEF Phases
  <1>. QED  BY <1>3, <1>4

LEMMA CurrentInvUnregister ==
    ASSUME TypeInv, CurrentInv, NEW c \in Conns, Unregister(c)
    PROVE  CurrentInv'
  <1>. DEFINE t == deviceToken[c]
  <1>1. t \in Tokens /\ phase[c] = "unregister"
    BY DEF Unregister, Return, Moves, TypeInv, HandlerInv
  <1>2. /\ phase' = [phase EXCEPT ![c] = "closed"]
        /\ registry' = [registry EXCEPT ![t] = {}]
        /\ UNCHANGED <<regMsg, deviceToken, outbound>>
    BY DEF Unregister, Return, Moves, Remove
  <1>3. RouteInv' /\ CleanCloseUnroutes' /\ AgreeOnCurrent'
    BY <1>1, <1>2 DEF CurrentInv, RouteInv, CleanCloseUnroutes, AgreeOnCurrent,
       TypeInv, TypeOK
  <1>4. NoGhostDevice'
    <2>1. ASSUME NEW s \in Tokens, registry'[s] # {}
          PROVE  s # t /\ registry[s] # {}
      BY <2>1, <1>1, <1>2 DEF TypeInv, TypeOK
    <2>2. ASSUME NEW s \in Tokens, s # t, NEW d \in Conns, Answerable(d, s)
          PROVE  Answerable(d, s)'
      BY <2>2, <1>1, <1>2 DEF Answerable, TypeInv, TypeOK
    <2>. QED  BY <2>1, <2>2 DEF CurrentInv, NoGhostDevice, Devices
  <1>. QED  BY <1>3, <1>4 DEF CurrentInv

LEMMA CurrentInvHandler ==
    ASSUME TypeInv, CurrentInv, NEW c \in Conns, Handler(c)
    PROVE  CurrentInv'
  <1>. USE DEF Moves, Step, Phases
  <1>1. CASE Accept(c)  BY <1>1, CurrentInvStep DEF Accept
  <1>2. CASE Answer(c)  BY <1>2, CurrentInvStep DEF Answer
  <1>3. CASE ReceiveRegister(c)
    <2>1. \A d \in Conns : deviceToken[d] \in Tokens => regMsg'[d] = regMsg[d]
      BY <1>3, RelayAssumption DEF ReceiveRegister, TypeInv, TypeOK
    <2>. QED  BY <2>1, <1>3, CurrentInvStep DEF ReceiveRegister
  <1>4. CASE LockRegistry(c)  BY <1>4, CurrentInvStep DEF LockRegistry
  <1>5. CASE CommitRegister(c)  BY <1>5, CurrentInvCommit
  <1>6. CASE ReceiveNodeCall(c)  BY <1>6, CurrentInvStep DEF ReceiveNodeCall
  <1>7. CASE ReadAddresses(c)  BY <1>7, CurrentInvStep DEF ReadAddresses
  <1>8. CASE NodeReturns(c)  BY <1>8, CurrentInvStep DEF NodeReturns
  <1>9. CASE Replied(c)  BY <1>9, CurrentInvStep DEF Replied
  <1>10. CASE TakeNotice(c)  BY <1>10, CurrentInvStep DEF TakeNotice
  <1>11. CASE Pushed(c)  BY <1>11, CurrentInvStep DEF Pushed
  <1>12. CASE PeerCloses(c)  BY <1>12, CurrentInvStep DEF PeerCloses
  <1>13. CASE ReadError(c)  BY <1>13, CurrentInvStep DEF ReadError, Return
  <1>14. CASE LeaveUnregistered(c)
    <2>1. \A t \in Tokens : outbound[t] # c
      BY <1>14, RelayAssumption DEF LeaveUnregistered, CurrentInv, RouteInv
    <2>. QED  BY <2>1, <1>14, CurrentInvStep DEF LeaveUnregistered, Return
  <1>15. CASE LockOutbound(c)  BY <1>15, CurrentInvStep DEF LockOutbound
  <1>16. CASE Unroute(c)  BY <1>16, CurrentInvUnroute
  <1>17. CASE Unregister(c)  BY <1>17, CurrentInvUnregister
  <1>. QED
    BY <1>1, <1>2, <1>3, <1>4, <1>5, <1>6, <1>7, <1>8, <1>9, <1>10, <1>11, <1>12,
       <1>13, <1>14, <1>15, <1>16, <1>17 DEF Handler

\* The tick and the notifier read the maps and never write them.
LEMMA RoutersKeepMaps ==
    ASSUME Tick \/ Notify
    PROVE  UNCHANGED <<connVars, mapVars>>
  BY DEF Tick, Notify, TickStart, TickAddresses, TickCoins, TickSearch, TickLock,
     TickSend, TickDone, NotifySnapshot, NotifyLock, NotifySend, NotifyDone

LEMMA CurrentInvUnchanged ==
    ASSUME CurrentInv, UNCHANGED <<connVars, mapVars>>
    PROVE  CurrentInv'
  BY DEF CurrentInv, RouteInv, NoGhostDevice, Answerable, AgreeOnCurrent,
     CleanCloseUnroutes, Devices, connVars, mapVars

LEMMA CurrentInvInductive == Spec => []CurrentInv
  <1>1. TypeInv /\ CurrentInv /\ [Next]_vars => CurrentInv'
    <2>. SUFFICES ASSUME TypeInv, CurrentInv, [Next]_vars
                  PROVE  CurrentInv'
      OBVIOUS
    <2>1. CASE \E c \in Conns : Handler(c)  BY <2>1, CurrentInvHandler
    <2>2. CASE Tick \/ Notify  BY <2>2, RoutersKeepMaps, CurrentInvUnchanged
    <2>3. CASE UNCHANGED vars  BY <2>3, CurrentInvUnchanged DEF vars
    <2>. QED  BY <2>1, <2>2, <2>3 DEF Next
  <1>. QED  BY CurrentInvInit, TypeInvInductive, <1>1, PTL DEF Spec

\* A registered device always has a connection that registered it and has not yet
\* been through its whole cleanup; only one that died of a read error never will.
THEOREM NoGhostDeviceHolds == Spec => []NoGhostDevice
  <1>1. CurrentInv => NoGhostDevice
    BY DEF CurrentInv
  <1>. QED  BY CurrentInvInductive, <1>1, PTL

\* What is searched for a routed token is what its current connection asked
\* for.
THEOREM AgreeOnCurrentHolds == Spec => []AgreeOnCurrent
  <1>1. CurrentInv => AgreeOnCurrent
    BY DEF CurrentInv
  <1>. QED  BY CurrentInvInductive, <1>1, PTL

\* A connection that went through its cleanup is routed to by no token.
THEOREM CleanCloseUnroutesHolds == Spec => []CleanCloseUnroutes
  <1>1. CurrentInv => CleanCloseUnroutes
    BY DEF CurrentInv
  <1>. QED  BY CurrentInvInductive, <1>1, PTL

\* A connection is current for at most one token.
THEOREM OneRoutePerConnectionHolds == Spec => []OneRoutePerConnection
  <1>1. TypeInv /\ CurrentInv => OneRoutePerConnection
    BY DEF TypeInv, TypeOK, CurrentInv, RouteInv, OneRoutePerConnection
  <1>. QED  BY TypeInvInductive, CurrentInvInductive, <1>1, PTL

\* Registration, routing and cleanup agree on the one connection that is current
\* for a token: only a read error makes a connection leave and stay current.
THEOREM OneCurrentConnectionHolds == Spec => []OneCurrentConnection
  <1>1. AgreeOnCurrent /\ OneRoutePerConnection /\ CleanCloseUnroutes => OneCurrentConnection
    BY DEF OneCurrentConnection
  <1>. QED
    BY AgreeOnCurrentHolds, OneRoutePerConnectionHolds, CleanCloseUnroutesHolds, <1>1, PTL

-----------------------------------------------------------------------------
(* Whose notices are queued.                                               *)

\* Everything on its way to a phone of token t is about an address claimed
\* for t: what is registered, what a tick or a payment is about to route, and
\* what is queued.
NoticeInv ==
    /\ \A t \in Tokens : registry[t] \subseteq Claimed(t)
    /\ \A p \in wins \cup notes : p[2] \in Claimed(p[1])
    /\ OwnNoticesOnly

\* What was claimed stays claimed: a connection registers once, and its
\* registration is not forgotten by the specification when it closes.
ClaimsGrow == \A t \in Tokens : Claimed(t) \subseteq Claimed(t)'

LEMMA ClaimsKept ==
    ASSUME \A d \in Conns : deviceToken[d] \in Tokens =>
              deviceToken'[d] = deviceToken[d] /\ regMsg'[d] = regMsg[d]
    PROVE  ClaimsGrow
  BY DEF ClaimsGrow, Claimed

\* A step that only removes from the queues and routes nothing new.
LEMMA NoticeInvFewer ==
    ASSUME TypeInv, NoticeInv, ClaimsGrow,
           \A d \in Conns : deviceToken[d] \in Tokens => deviceToken'[d] = deviceToken[d],
           \A d \in Conns : \/ queue'[d] = queue[d]
                            \/ queue'[d] = <<>>
                            \/ queue[d] # <<>> /\ queue'[d] = Tail(queue[d]),
           \A t \in Tokens : registry'[t] \subseteq Claimed(t)',
           UNCHANGED <<wins, notes>>
    PROVE  NoticeInv'
  <1>1. \A p \in wins' \cup notes' : p[2] \in Claimed(p[1])'
    BY DEF NoticeInv, ClaimsGrow, TypeInv, TypeOK
  <1>2. OwnNoticesOnly'
    <2>. SUFFICES ASSUME NEW d \in Conns, NEW i \in 1..Len(queue'[d])
                  PROVE  deviceToken'[d] \in Tokens
                         /\ queue'[d][i] \in Claimed(deviceToken[d])'
                         /\ deviceToken'[d] = deviceToken[d]
      BY DEF OwnNoticesOnly, Claimed
    <2>1. PICK j \in 1..Len(queue[d]) : queue'[d][i] = queue[d][j]
      <3>. queue[d] \in Seq(Addrs)
        BY DEF TypeInv, TypeOK
      <3>1. CASE queue'[d] = queue[d]  BY <3>1
      <3>2. CASE queue[d] # <<>> /\ queue'[d] = Tail(queue[d])
        <4>1. i + 1 \in 1..Len(queue[d]) /\ queue'[d][i] = queue[d][i + 1]
          BY <3>2
        <4>. QED  BY <4>1
      <3>3. CASE queue'[d] = <<>>  BY <3>3
      <3>. QED  BY <3>1, <3>2, <3>3
    <2>2. deviceToken[d] \in Tokens /\ queue[d][j] \in Claimed(deviceToken[d])
      BY <2>1 DEF NoticeInv, OwnNoticesOnly
    <2>. QED  BY <2>1, <2>2 DEF ClaimsGrow
  <1>. QED  BY <1>1, <1>2 DEF NoticeInv

\* Routing one pair keeps the queues about claimed addresses: by RouteInv the
\* connection the pair's token leads to has that very token.
LEMMA TrySendOwn ==
    ASSUME TypeInv, RouteInv, OwnNoticesOnly, NEW t \in Tokens, NEW a \in Claimed(t),
           a \in Addrs, TrySend(t, a), UNCHANGED connVars
    PROVE  OwnNoticesOnly'
  <1>. DEFINE c == outbound[t]
  <1>0. \A s : Claimed(s)' = Claimed(s)
    BY DEF Claimed, connVars
  <1>. SUFFICES ASSUME NEW d \in Conns, NEW i \in 1..Len(queue'[d])
                PROVE  deviceToken[d] \in Tokens /\ queue'[d][i] \in Claimed(deviceToken[d])
    BY <1>0 DEF OwnNoticesOnly, connVars
  <1>. queue[d] \in Seq(Addrs)
    BY DEF TypeInv, TypeOK
  <1>1. CASE queue'[d] = queue[d]
    BY <1>1 DEF OwnNoticesOnly
  <1>2. CASE c = d /\ queue'[d] = Append(queue[d], a)
    <2>1. deviceToken[d] = t
      BY <1>2 DEF RouteInv
    <2>2. CASE i = Len(queue[d]) + 1  BY <2>1, <2>2, <1>2
    <2>3. CASE i \in 1..Len(queue[d])  BY <2>3, <1>2 DEF OwnNoticesOnly
    <2>. QED  BY <2>2, <2>3, <1>2
  <1>. QED  BY <1>1, <1>2 DEF TrySend, TypeInv, TypeOK

LEMMA NoticeInvHandler ==
    ASSUME TypeInv, TypeInv', NoticeInv, NEW c \in Conns, Handler(c)
    PROVE  NoticeInv'
  <1>. USE DEF Moves, Step, tickVars, noteVars, mapVars
  <1>1. \A d \in Conns : deviceToken[d] \in Tokens =>
           deviceToken'[d] = deviceToken[d] /\ regMsg'[d] = regMsg[d]
    <2>1. CASE CommitRegister(c)
      BY <2>1, RelayAssumption DEF CommitRegister, TypeInv, TypeOK, HandlerInv
    <2>2. CASE ReceiveRegister(c)
      BY <2>2, RelayAssumption DEF ReceiveRegister, TypeInv, TypeOK
    <2>3. CASE ~CommitRegister(c) /\ ~ReceiveRegister(c)
      BY <2>3 DEF Handler, Accept, Answer, LockRegistry, ReceiveNodeCall, ReadAddresses,
         NodeReturns, Replied, TakeNotice, Pushed, PeerCloses, ReadError,
         LeaveUnregistered, LockOutbound, Unroute, Unregister, Return
    <2>. QED  BY <2>1, <2>2, <2>3
  <1>2. ClaimsGrow
    BY <1>1, ClaimsKept
  <1>3. \A d \in Conns : \/ queue'[d] = queue[d]
                         \/ queue'[d] = <<>>
                         \/ queue[d] # <<>> /\ queue'[d] = Tail(queue[d])
    BY DEF Handler, Accept, Answer, ReceiveRegister, LockRegistry, CommitRegister,
       ReceiveNodeCall, ReadAddresses, NodeReturns, Replied, TakeNotice, Pushed,
       PeerCloses, ReadError, LeaveUnregistered, LockOutbound, Unroute, Unregister,
       Return, TypeInv, TypeOK
  <1>4. UNCHANGED <<wins, notes>>
    BY DEF Handler, Accept, Answer, ReceiveRegister, LockRegistry, CommitRegister,
       ReceiveNodeCall, ReadAddresses, NodeReturns, Replied, TakeNotice, Pushed,
       PeerCloses, ReadError, LeaveUnregistered, LockOutbound, Unroute, Unregister,
       Return
  <1>5. \A t \in Tokens : registry'[t] \subseteq Claimed(t)'
    <2>0. \A t \in Tokens : registry[t] \subseteq Claimed(t)'
      BY <1>2 DEF NoticeInv, ClaimsGrow
    <2>1. CASE CommitRegister(c)
      <3>1. regMsg[c] \in Registrations /\ regMsg[c].device_token \in Tokens
        BY <2>1 DEF CommitRegister, TypeInv, HandlerInv, Registrations
      <3>2. deviceToken'[c] = regMsg[c].device_token /\ regMsg' = regMsg
        BY <2>1 DEF CommitRegister, TypeInv, TypeOK
      <3>3. \A t \in Tokens : t = regMsg[c].device_token =>
                               regMsg[c].addresses \subseteq Claimed(t)'
        BY <3>2 DEF Claimed
      <3>4. \A t \in Tokens : \/ registry'[t] = registry[t]
                              \/ t = regMsg[c].device_token /\ registry'[t] = regMsg[c].addresses
        BY <2>1, <3>1 DEF CommitRegister, Register, TypeInv, TypeOK
      <3>. QED  BY <2>0, <3>3, <3>4
    <2>2. CASE Unregister(c)
      BY <2>0, <2>2 DEF Unregister, Remove, TypeInv, TypeOK
    <2>3. CASE ~CommitRegister(c) /\ ~Unregister(c)
      <3>1. registry' = registry
        BY <2>3 DEF Handler, Accept, Answer, ReceiveRegister, LockRegistry,
           ReceiveNodeCall, ReadAddresses, NodeReturns, Replied, TakeNotice, Pushed,
           PeerCloses, ReadError, LeaveUnregistered, LockOutbound, Unroute, Return
      <3>. QED  BY <2>0, <3>1
    <2>. QED  BY <2>1, <2>2, <2>3
  <1>. QED  BY <1>1, <1>2, <1>3, <1>4, <1>5, NoticeInvFewer

LEMMA NoticeInvRouters ==
    ASSUME TypeInv, RouteInv, NoticeInv, Tick \/ Notify
    PROVE  NoticeInv'
  <1>1. UNCHANGED <<connVars, mapVars>>
    BY RoutersKeepMaps
  <1>2. \A t : Claimed(t)' = Claimed(t)
    BY <1>1 DEF Claimed, connVars
  <1>3. \A t \in Tokens : registry'[t] \subseteq Claimed(t)'
    BY <1>1, <1>2 DEF NoticeInv, mapVars
  <1>. SUFFICES (\A p \in wins' \cup notes' : p[2] \in Claimed(p[1])) /\ OwnNoticesOnly'
    BY <1>2, <1>3 DEF NoticeInv
  <1>4. ASSUME queue' = queue PROVE OwnNoticesOnly'
    BY <1>1, <1>2, <1>4 DEF NoticeInv, OwnNoticesOnly, connVars
  <1>5. CASE TickSearch
    <2>1. \A p \in wins' : p[1] \in Tokens /\ p[2] \in registry[p[1]]
      BY <1>5 DEF TickSearch, SearchResults, OwnCoins
    <2>2. queue' = queue /\ notes' = notes
      BY <1>5 DEF TickSearch, noteVars
    <2>. QED  BY <2>1, <2>2, <1>4 DEF NoticeInv
  <1>6. CASE NotifySnapshot
    <2>1. \A p \in notes' : p[1] \in Tokens /\ p[2] \in registry[p[1]]
      BY <1>6 DEF NotifySnapshot
    <2>2. queue' = queue /\ wins' = wins
      BY <1>6 DEF NotifySnapshot, tickVars
    <2>. QED  BY <2>1, <2>2, <1>4 DEF NoticeInv
  <1>7. CASE TickSend
    <2>1. PICK w \in wins : TrySend(w[1], w[2]) /\ wins' = wins \ {w}
      BY <1>7 DEF TickSend
    <2>2. w[1] \in Tokens /\ w[2] \in Addrs /\ w[2] \in Claimed(w[1])
      BY <2>1 DEF NoticeInv, TypeInv, TypeOK
    <2>3. notes' = notes
      BY <1>7 DEF TickSend, noteVars
    <2>. QED  BY <2>1, <2>2, <2>3, <1>1, TrySendOwn DEF NoticeInv
  <1>8. CASE NotifySend
    <2>1. PICK n \in notes : TrySend(n[1], n[2]) /\ notes' = notes \ {n}
      BY <1>8 DEF NotifySend
    <2>2. n[1] \in Tokens /\ n[2] \in Addrs /\ n[2] \in Claimed(n[1])
      BY <2>1 DEF NoticeInv, TypeInv, TypeOK
    <2>3. wins' = wins
      BY <1>8 DEF NotifySend, tickVars
    <2>. QED  BY <2>1, <2>2, <2>3, <1>1, TrySendOwn DEF NoticeInv
  <1>9. CASE ~TickSearch /\ ~NotifySnapshot /\ ~TickSend /\ ~NotifySend
    <2>1. queue' = queue /\ wins' = wins /\ notes' = notes
      BY <1>9 DEF Tick, Notify, TickStart, TickAddresses, TickCoins, TickLock,
         TickDone, NotifyLock, NotifyDone, tickVars, noteVars
    <2>. QED  BY <2>1, <1>4 DEF NoticeInv
  <1>. QED  BY <1>5, <1>6, <1>7, <1>8, <1>9

\* No queue ever holds a notice about an address that its phone's token never
\* registered, whatever reconnects fall between a snapshot and its routing.
THEOREM OwnNoticesOnlyHolds == Spec => []OwnNoticesOnly
  <1>1. Init => NoticeInv
    <2>. SUFFICES ASSUME Init PROVE NoticeInv
      OBVIOUS
    <2>1. \A t \in Tokens : registry[t] \subseteq Claimed(t)
      BY DEF Init, EmptyRegistry
    <2>2. OwnNoticesOnly
      BY DEF Init, OwnNoticesOnly
    <2>. QED  BY <2>1, <2>2 DEF Init, NoticeInv
  <1>2. TypeInv /\ TypeInv' /\ CurrentInv /\ NoticeInv /\ [Next]_vars => NoticeInv'
    <2>. SUFFICES ASSUME TypeInv, TypeInv', CurrentInv, NoticeInv, [Next]_vars
                  PROVE  NoticeInv'
      OBVIOUS
    <2>1. CASE \E c \in Conns : Handler(c)  BY <2>1, NoticeInvHandler
    <2>2. CASE Tick \/ Notify  BY <2>2, NoticeInvRouters DEF CurrentInv
    <2>3. CASE UNCHANGED vars
      BY <2>3 DEF NoticeInv, OwnNoticesOnly, Claimed, vars, connVars, tickVars, noteVars,
         mapVars
    <2>. QED  BY <2>1, <2>2, <2>3 DEF Next
  <1>3. NoticeInv => OwnNoticesOnly
    BY DEF NoticeInv
  <1>. QED  BY TypeInvInductive, CurrentInvInductive, <1>1, <1>2, <1>3, PTL DEF Spec

-----------------------------------------------------------------------------
(* The registry's capacity.                                                *)

\* Registering keeps the number of devices within the capacity, and so does
\* removing one.
LEMMA RegisterKeepsCap ==
    ASSUME NEW r \in [Tokens -> SUBSET Addrs], NEW reg \in Registrations,
           Cardinality(Devices(r)) <= MaxDevices
    PROVE  Cardinality(Devices(Register(r, reg))) <= MaxDevices
  <1>. DEFINE t == reg.device_token
              q == Register(r, reg)
  <1>1. t \in Tokens
    BY DEF Registrations
  <1>2. IsFiniteSet(Devices(r)) /\ Cardinality(Devices(r)) \in Nat
    BY RegistryAssumption, FS_Subset, FS_CardinalityType DEF Devices
  <1>3. CASE AtCapacity(r, t)
    BY <1>3 DEF Register
  <1>4. CASE t \in Devices(r)
    <2>1. Devices(q) \subseteq Devices(r)
      BY <1>1, <1>4 DEF Register, Devices
    <2>2. Cardinality(Devices(q)) <= Cardinality(Devices(r)) /\ Cardinality(Devices(q)) \in Nat
      BY <2>1, <1>2, FS_Subset, FS_CardinalityType
    <2>. QED  BY <2>2, <1>2, RegistryAssumption
  <1>5. CASE t \notin Devices(r) /\ ~AtCapacity(r, t)
    <2>1. Devices(q) \subseteq Devices(r) \cup {t}
      BY <1>1, <1>5 DEF Register, Devices
    <2>2. /\ IsFiniteSet(Devices(r) \cup {t})
          /\ Cardinality(Devices(r) \cup {t}) = Cardinality(Devices(r)) + 1
      BY <1>2, <1>5, FS_AddElement
    <2>3. Cardinality(Devices(r)) < MaxDevices
      BY <1>2, <1>5, RegistryAssumption DEF AtCapacity
    <2>4. /\ Cardinality(Devices(q)) <= Cardinality(Devices(r) \cup {t})
          /\ Cardinality(Devices(q)) \in Nat
      BY <2>1, <2>2, FS_Subset, FS_CardinalityType
    <2>. QED  BY <2>2, <2>3, <2>4, <1>2, RegistryAssumption
  <1>. QED  BY <1>3, <1>4, <1>5

LEMMA RemoveKeepsCap ==
    ASSUME NEW r \in [Tokens -> SUBSET Addrs], NEW t \in Tokens,
           Cardinality(Devices(r)) <= MaxDevices
    PROVE  Cardinality(Devices(Remove(r, t))) <= MaxDevices
  <1>1. IsFiniteSet(Devices(r)) /\ Cardinality(Devices(r)) \in Nat
    BY RegistryAssumption, FS_Subset, FS_CardinalityType DEF Devices
  <1>2. Devices(Remove(r, t)) \subseteq Devices(r)
    BY DEF Remove, Devices
  <1>3. /\ Cardinality(Devices(Remove(r, t))) <= Cardinality(Devices(r))
        /\ Cardinality(Devices(Remove(r, t))) \in Nat
    BY <1>1, <1>2, FS_Subset, FS_CardinalityType
  <1>. QED  BY <1>1, <1>3, RegistryAssumption

\* A step either leaves the registry alone, registers one valid registration
\* or removes one token.
LEMMA RegistryChanges ==
    ASSUME TypeInv, [Next]_vars
    PROVE  \/ registry' = registry
           \/ \E reg \in Registrations : registry' = Register(registry, reg)
           \/ \E t \in Tokens : registry' = Remove(registry, t)
  <1>1. ASSUME NEW c \in Conns, CommitRegister(c)
        PROVE  \E reg \in Registrations : registry' = Register(registry, reg)
    BY <1>1 DEF CommitRegister, Moves, TypeInv, HandlerInv
  <1>2. ASSUME NEW c \in Conns, Unregister(c)
        PROVE  \E t \in Tokens : registry' = Remove(registry, t)
    BY <1>2 DEF Unregister, Return, Moves, TypeInv, HandlerInv
  <1>3. ASSUME NEW c \in Conns, Handler(c), ~CommitRegister(c), ~Unregister(c)
        PROVE  registry' = registry
    BY <1>3 DEF Handler, Accept, Answer, ReceiveRegister, LockRegistry, ReceiveNodeCall,
       ReadAddresses, NodeReturns, Replied, TakeNotice, Pushed, PeerCloses, ReadError,
       LeaveUnregistered, LockOutbound, Unroute, Return, Step, mapVars
  <1>4. CASE Tick \/ Notify
    BY <1>4, RoutersKeepMaps DEF mapVars
  <1>5. CASE UNCHANGED vars
    BY <1>5 DEF vars, mapVars
  <1>. QED  BY <1>1, <1>2, <1>3, <1>4, <1>5 DEF Next

\* The relay never tracks more than MAX_DEVICES devices.
THEOREM DeviceCapHolds == Spec => []DeviceCap
  <1>1. Init => DeviceCap
    <2>. SUFFICES ASSUME Init PROVE DeviceCap
      OBVIOUS
    <2>1. Devices(registry) = {}
      BY DEF Init, EmptyRegistry, Devices
    <2>. QED  BY <2>1, FS_EmptySet, RegistryAssumption DEF DeviceCap
  <1>2. TypeInv /\ DeviceCap /\ [Next]_vars => DeviceCap'
    <2>. SUFFICES ASSUME TypeInv, DeviceCap, [Next]_vars
                  PROVE  DeviceCap'
      OBVIOUS
    <2>. USE DEF DeviceCap, TypeInv, TypeOK
    <2>1. CASE registry' = registry  BY <2>1 DEF Devices
    <2>2. ASSUME NEW reg \in Registrations, registry' = Register(registry, reg)
          PROVE  DeviceCap'
      <3>1. Cardinality(Devices(Register(registry, reg))) <= MaxDevices
        BY RegisterKeepsCap
      <3>2. Devices(registry)' = Devices(Register(registry, reg))
        BY <2>2 DEF Devices
      <3>. QED  BY <3>1, <3>2
    <2>3. ASSUME NEW t \in Tokens, registry' = Remove(registry, t)
          PROVE  DeviceCap'
      <3>1. Cardinality(Devices(Remove(registry, t))) <= MaxDevices
        BY RemoveKeepsCap
      <3>2. Devices(registry)' = Devices(Remove(registry, t))
        BY <2>3 DEF Devices
      <3>. QED  BY <3>1, <3>2
    <2>. QED  BY <2>1, <2>2, <2>3, RegistryChanges
  <1>. QED  BY TypeInvInductive, <1>1, <1>2, PTL DEF Spec

-----------------------------------------------------------------------------
(* Refinement of the abstract routing.                                     *)

LEMMA RefinementHandler ==
    ASSUME TypeInv, TypeInv', CurrentInv, NEW c \in Conns, Handler(c)
    PROVE  [R!Next]_(R!vars)
  <1>. DEFINE att == {d \in Conns : deviceToken[d] # NoToken}
              gone == {d \in Conns : deviceToken[d] # NoToken
                                     /\ phase[d] \in {"unregister", "closed"}}
  <1>. USE DEF TypeInv, TypeOK, Moves, mapVars
  <1>1. CASE CommitRegister(c)
    <2>0. regMsg[c].device_token \in Tokens /\ deviceToken[c] = NoToken
      BY <1>1 DEF CommitRegister, HandlerInv, Registrations
    <2>1. PICK t \in Tokens : t = regMsg[c].device_token /\ deviceToken[c] = NoToken
      BY <2>0
    <2>2. c \notin att /\ outbound' = [outbound EXCEPT ![t] = c]
      BY <1>1, <2>1 DEF CommitRegister
    <2>3. att' = att \cup {c}
      BY <1>1, <2>1, RelayAssumption DEF CommitRegister
    <2>4. gone' = gone
      BY <1>1, <2>1 DEF CommitRegister
    <2>5. R!Attach(c, t)
      BY <2>2, <2>3, <2>4 DEF R!Attach
    <2>. QED  BY <2>1, <2>5 DEF R!Next
  <1>2. CASE Unroute(c)
    <2>. DEFINE t == deviceToken[c]
    <2>1. t \in Tokens /\ t # NoToken /\ phase[c] = "unroute"
      BY <1>2, RelayAssumption DEF Unroute, Return, HandlerInv
    <2>2. c \in att \ gone
      BY <2>1
    <2>3. /\ phase' \in {[phase EXCEPT ![c] = "unregister"], [phase EXCEPT ![c] = "closed"]}
          /\ deviceToken' = deviceToken
      BY <1>2 DEF Unroute, Return
    <2>4. att' = att /\ gone' = gone \cup {c}
      BY <2>1, <2>3
    <2>5. outbound' = [s \in Tokens |-> IF outbound[s] = c THEN NoConn ELSE outbound[s]]
      <3>1. \A s \in Tokens : outbound[s] = c => s = t
        BY DEF CurrentInv, RouteInv
      <3>2. CASE outbound[t] = c
        BY <1>2, <2>1, <3>1, <3>2 DEF Unroute, Return
      <3>3. CASE outbound[t] # c
        BY <1>2, <2>1, <3>1, <3>3 DEF Unroute, Return
      <3>. QED  BY <3>2, <3>3
    <2>6. R!Detach(c)
      BY <2>2, <2>4, <2>5 DEF R!Detach
    <2>. QED  BY <2>6 DEF R!Next
  <1>3. CASE ~CommitRegister(c) /\ ~Unroute(c)
    <2>1. outbound' = outbound /\ deviceToken' = deviceToken
      BY <1>3 DEF Handler, Accept, Answer, ReceiveRegister, LockRegistry, ReceiveNodeCall,
         ReadAddresses, NodeReturns, Replied, TakeNotice, Pushed, PeerCloses, ReadError,
         LeaveUnregistered, LockOutbound, Unregister, Return, Step
    <2>2. gone' = gone
      BY <1>3 DEF Handler, Accept, Answer, ReceiveRegister, LockRegistry, ReceiveNodeCall,
         ReadAddresses, NodeReturns, Replied, TakeNotice, Pushed, PeerCloses, ReadError,
         LeaveUnregistered, LockOutbound, Unregister, Return, Step
    <2>. QED  BY <2>1, <2>2 DEF R!vars
  <1>. QED  BY <1>1, <1>2, <1>3

\* The server's routing implements Routing: a connection takes over a token by
\* registering it, once, and a route ends only with its own connection's
\* cleanup or a newer registration.
THEOREM RoutingRefined == Spec => RoutingSpec
  <1>1. Init => R!Init
    BY DEF Init, R!Init
  <1>2. TypeInv /\ TypeInv' /\ CurrentInv /\ [Next]_vars => [R!Next]_(R!vars)
    <2>. SUFFICES ASSUME TypeInv, TypeInv', CurrentInv, [Next]_vars
                  PROVE  [R!Next]_(R!vars)
      OBVIOUS
    <2>1. CASE \E c \in Conns : Handler(c)  BY <2>1, RefinementHandler
    <2>2. CASE Tick \/ Notify
      BY <2>2, RoutersKeepMaps DEF R!vars, connVars, mapVars
    <2>3. CASE UNCHANGED vars
      BY <2>3 DEF R!vars, vars, connVars, mapVars
    <2>. QED  BY <2>1, <2>2, <2>3 DEF Next
  <1>. QED
    BY TypeInvInductive, CurrentInvInductive, <1>1, <1>2, PTL DEF Spec, R!Spec, RoutingSpec

-----------------------------------------------------------------------------
(* The limiter.                                                            *)

\* How the history relates to the two windows that matter: the last `count`
\* calls fall in the current window, everything before them precedes its
\* start, and everything more than Limit calls before them precedes it by a
\* whole window (the window before held at most Limit calls).
LimiterHistory ==
    /\ count <= Len(stamps)
    /\ \A i \in 1..Len(stamps) :
          /\ i > Len(stamps) - count => stamps[i] >= window_start
          /\ i <= Len(stamps) - count => stamps[i] <= window_start
          /\ i <= Len(stamps) - count - Limit => stamps[i] + Window <= window_start

LimiterInv == LimiterTypeOK /\ LimiterHistory /\ AtMostTwiceLimit /\ RefusedOnlyOverLimit

LEMMA LimiterInvInit == LimiterInit => LimiterInv
  BY LimiterAssumption DEF LimiterInit, LimiterInv, LimiterTypeOK, LimiterHistory,
         AtMostTwiceLimit, RefusedOnlyOverLimit

LEMMA LimiterInvElapse == LimiterInv /\ Elapse => LimiterInv'
  <1>. SUFFICES ASSUME LimiterInv, Elapse PROVE LimiterInv'
    OBVIOUS
  <1>. USE LimiterAssumption DEF LimiterInv, Elapse
  <1>1. LimiterTypeOK'
    <2>1. stamps \in Seq(0..now')
      BY DEF LimiterTypeOK
    <2>. QED  BY <2>1 DEF LimiterTypeOK
  <1>2. LimiterHistory' /\ AtMostTwiceLimit' /\ RefusedOnlyOverLimit'
    BY DEF LimiterTypeOK, LimiterHistory, AtMostTwiceLimit, RefusedOnlyOverLimit
  <1>. QED  BY <1>1, <1>2

LEMMA LimiterInvAllow == LimiterInv /\ Allow => LimiterInv'
  <1>. SUFFICES ASSUME LimiterInv, Allow PROVE LimiterInv'
    OBVIOUS
  <1>. USE LimiterAssumption
  <1>1. PICK start \in 0..now, n \in 0..Limit :
           /\ Roll(start, n) /\ window_start' = start
           /\ \/ n < Limit /\ count' = n + 1 /\ stamps' = Append(stamps, now) /\ answer' = "allowed"
              \/ n >= Limit /\ count' = n /\ stamps' = stamps /\ answer' = "refused"
    BY DEF Allow
  <1>2. now' = now
    BY DEF Allow
  <1>. DEFINE len == Len(stamps)
  <1>3. /\ len \in Nat /\ stamps \in Seq(0..now) /\ \A i \in 1..len : stamps[i] \in 0..now
        /\ now \in Nat /\ now \in 0..now /\ window_start \in 0..now /\ count \in 0..Limit
    BY DEF LimiterInv, LimiterTypeOK
  \* The three facts of LimiterHistory after the rollover, before the call counts.
  <1>4. /\ n <= len
        /\ \A i \in 1..len :
              /\ i > len - n => stamps[i] >= start
              /\ i <= len - n => stamps[i] <= start
              /\ i <= len - n - Limit => stamps[i] + Window <= start
    <2>1. CASE Expired
      <3>1. start = now /\ n = 0 /\ window_start + Window <= now
        BY <1>1, <1>3, <2>1 DEF Roll, Expired
      <3>2. ASSUME NEW i \in 1..len, i <= len - Limit
            PROVE  stamps[i] + Window <= now
        <4>1. i <= len - count
          BY <1>3, <3>2
        <4>2. stamps[i] <= window_start
          BY <4>1 DEF LimiterInv, LimiterHistory
        <4>. QED  BY <4>2, <3>1, <1>3
      <3>. QED  BY <3>1, <3>2, <1>3
    <2>2. CASE ~Expired
      BY <1>1, <1>3, <2>2 DEF Roll, Expired, LimiterInv, LimiterTypeOK, LimiterHistory
    <2>. QED  BY <2>1, <2>2
  <1>5. CASE n < Limit
    <2>1. /\ count' = n + 1 /\ stamps' = Append(stamps, now) /\ answer' = "allowed"
          /\ window_start' = start
      BY <1>1, <1>5
    <2>2. /\ Len(stamps') = len + 1 /\ stamps'[len + 1] = now
          /\ \A i \in 1..len : stamps'[i] = stamps[i]
          /\ stamps' \in Seq(0..now)
      BY <1>3, <2>1
    <2>3. LimiterTypeOK'
      BY <1>1, <1>2, <1>5, <2>1, <2>2 DEF LimiterInv, LimiterTypeOK
    <2>4. LimiterHistory'
      BY <1>2, <1>3, <1>4, <2>1, <2>2 DEF LimiterHistory
    <2>5. AtMostTwiceLimit'
      <3>. SUFFICES ASSUME NEW i \in 1..(len + 1), i + 2 * Limit <= len + 1
                    PROVE  stamps'[i + 2 * Limit] >= stamps'[i] + Window
        BY <2>2 DEF AtMostTwiceLimit
      <3>1. CASE i + 2 * Limit <= len
        <4>1. i \in 1..len /\ i + 2 * Limit \in 1..len
          BY <3>1, <1>3
        <4>2. stamps[i + 2 * Limit] >= stamps[i] + Window
          BY <4>1, <3>1 DEF LimiterInv, AtMostTwiceLimit
        <4>. QED  BY <4>1, <4>2, <2>2
      <3>2. CASE i + 2 * Limit = len + 1
        <4>1. i \in 1..len /\ i <= len - n - Limit
          BY <3>2, <1>3, <1>5
        <4>2. stamps[i] + Window <= start
          BY <4>1, <1>4
        <4>3. stamps'[i] = stamps[i] /\ stamps'[i + 2 * Limit] = now
          BY <4>1, <3>2, <2>2
        <4>4. stamps[i] + Window <= now
          BY <4>1, <4>2, <1>3
        <4>. QED  BY <4>3, <4>4
      <3>3. i + 2 * Limit <= len \/ i + 2 * Limit = len + 1
        BY <1>3
      <3>. QED  BY <3>1, <3>2, <3>3
    <2>6. RefusedOnlyOverLimit'
      BY <2>1 DEF RefusedOnlyOverLimit
    <2>. QED  BY <2>3, <2>4, <2>5, <2>6 DEF LimiterInv
  <1>6. CASE n = Limit
    <2>1. /\ count' = n /\ stamps' = stamps /\ answer' = "refused"
          /\ window_start' = start
      BY <1>1, <1>6
    <2>2. LimiterTypeOK'
      BY <1>1, <1>2, <2>1 DEF LimiterInv, LimiterTypeOK
    <2>3. LimiterHistory' /\ AtMostTwiceLimit'
      BY <1>3, <1>4, <2>1 DEF LimiterHistory, LimiterInv, AtMostTwiceLimit
    <2>4. RefusedOnlyOverLimit'
      <3>1. start = window_start /\ now - window_start < Window
        BY <1>1, <1>6 DEF Roll, Expired, LimiterInv, LimiterTypeOK
      <3>2. len - Limit + 1 \in 1..len /\ len - Limit + 1 > len - n
        BY <1>3, <1>4, <1>6
      <3>. QED  BY <3>1, <3>2, <2>1, <1>2, <1>3, <1>4 DEF RefusedOnlyOverLimit, LimiterInv, LimiterTypeOK
    <2>. QED  BY <2>2, <2>3, <2>4 DEF LimiterInv
  <1>. QED  BY <1>1, <1>5, <1>6

LEMMA LimiterInductive == LimiterSpec => []LimiterInv
  <1>1. LimiterInv /\ UNCHANGED limiterVars => LimiterInv'
    BY DEF LimiterInv, LimiterTypeOK, LimiterHistory, AtMostTwiceLimit, RefusedOnlyOverLimit,
           limiterVars
  <1>2. LimiterInv /\ [LimiterNext]_limiterVars => LimiterInv'
    BY <1>1, LimiterInvElapse, LimiterInvAllow DEF LimiterNext
  <1>. QED  BY LimiterInvInit, <1>2, PTL DEF LimiterSpec

\* No client gets more than twice the limit through in less than a window.
THEOREM AtMostTwiceLimitHolds == LimiterSpec => []AtMostTwiceLimit
  <1>1. LimiterInv => AtMostTwiceLimit
    BY DEF LimiterInv
  <1>. QED  BY LimiterInductive, <1>1, PTL

\* No client that used less than the limit in the last window is refused.
THEOREM RefusedOnlyOverLimitHolds == LimiterSpec => []RefusedOnlyOverLimit
  <1>1. LimiterInv => RefusedOnlyOverLimit
    BY DEF LimiterInv
  <1>. QED  BY LimiterInductive, <1>1, PTL

=============================================================================
