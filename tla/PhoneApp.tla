------------------------------ MODULE PhoneApp ------------------------------
(***************************************************************************)
(* The app around the wallet: the commands that start and stop staking and *)
(* choose the relay (app/src-tauri/src/commands.rs), the Overview screen   *)
(* that calls them, and the client loops they control                      *)
(* (lovenode-phone/src/client.rs), over the wallet of KeyStore.            *)
(*                                                                         *)
(* The launch of a client is the mobile host's part: as README-ANDROID.md  *)
(* has it, each start loads the seed once and spawns client::run with the  *)
(* addresses, the relay and a clone of stop_rx.  The stop signal is a      *)
(* tokio watch channel: one value and, for each receiver, whether it has   *)
(* yet to see a send.  The relay sends any frame at any time.              *)
(***************************************************************************)
EXTENDS KeyStore

CONSTANTS
    Tasks,  \* bound: client tasks alive at a time
    Urls    \* relay addresses: records of scheme (ws, wss, http) and local

Idle == [pc |-> "none", key |-> Absent, watched |-> Absent, unseen |-> FALSE]
Phases == {"none", "connect", "register", "loop", "ping", "sign", "send", "refused"}

VARIABLES
    relay,      \* App.relay_url
    stop,       \* the value of the watch channel
    connected,  \* StakingStatus.connected
    polled,     \* the connected flag of the status the Overview holds
    tapped,     \* the Overview awaits the command of its button
    launches,   \* starts the host has still to act on (0 or 1)
    task        \* the client tasks

appVars == <<relay, stop, connected, polled, tapped, launches, task>>
vars == <<keyVars, appVars>>

TaskRecords == [pc : Phases, key : AllSeeds \cup {Absent}, watched : AllSeeds \cup {Absent},
                unseen : BOOLEAN]

TypeOK ==
    /\ KeyTypeOK
    /\ relay \in Urls
    /\ stop \in BOOLEAN /\ connected \in BOOLEAN
    /\ polled \in BOOLEAN /\ tapped \in BOOLEAN
    /\ launches \in 0..1
    /\ task \in [Tasks -> TaskRecords]

\* App::new.
Init ==
    /\ KeyInit
    /\ relay \in {u \in Urls : u.scheme = "wss"}
    /\ stop = FALSE /\ connected = FALSE
    /\ polled = FALSE /\ tapped = FALSE
    /\ launches = 0
    /\ task = [k \in Tasks |-> Idle]

Live(k) == task[k].pc \notin {"none", "refused"}

-----------------------------------------------------------------------------
(* Commands.                                                               *)

\* set_relay, from the Settings screen.
SetRelay(u) ==
    /\ screen = "shell" /\ step = "idle"
    /\ u.scheme \in {"ws", "wss"}
    /\ u.scheme = "ws" => u.local
    /\ relay' = u
    /\ UNCHANGED <<keyVars, stop, connected, polled, tapped, launches, task>>

\* watch::Sender::send: the value is replaced, every receiver has something to see.
Signal(value) ==
    /\ stop' = value
    /\ task' = [k \in Tasks |-> [task[k] EXCEPT !.unseen = Live(k)]]

\* toggle, with the status last polled: the button reads `Start staking`.
\* start_staking is refused without a wallet; the host launches a client for it.
StartStaking ==
    /\ screen = "shell" /\ step = "idle" /\ ~tapped /\ ~polled
    /\ tapped' = TRUE
    /\ IF HasWallet
       THEN Signal(FALSE) /\ connected' = TRUE /\ launches' = 1
       ELSE UNCHANGED <<stop, task, connected, launches>>
    /\ UNCHANGED <<keyVars, relay, polled>>

\* toggle: the button reads `Stop staking`; stop_staking.
StopStaking ==
    /\ screen = "shell" /\ step = "idle" /\ ~tapped /\ polled
    /\ tapped' = TRUE
    /\ Signal(TRUE) /\ connected' = FALSE
    /\ UNCHANGED <<keyVars, relay, polled, launches>>

\* The command returned: `busy` ends before the refresh it asked for comes back.
Untap ==
    /\ screen = "shell" /\ tapped
    /\ tapped' = FALSE
    /\ UNCHANGED <<keyVars, relay, stop, connected, polled, launches, task>>

\* refresh: the five-second poll of status, or the one after a tap.
Poll ==
    /\ screen = "shell" /\ step = "idle"
    /\ polled' = connected
    /\ UNCHANGED <<keyVars, relay, stop, connected, tapped, launches, task>>

-----------------------------------------------------------------------------
(* Client tasks.                                                           *)

\* run refuses a remote plaintext relay before it connects.
Entry(u) == IF u.scheme = "ws" /\ ~u.local THEN "refused" ELSE "connect"

\* The host loads the seed, with the user present, and spawns client::run.  The
\* App never reads its own receiver, so the clone has the last send to see.
Launch(k) ==
    /\ launches = 1 /\ ~Live(k) /\ step = "idle" /\ CanLoad
    /\ launches' = 0
    /\ task' = [task EXCEPT ![k] =
                 [pc |-> Entry(relay), key |-> secret, watched |-> cached, unseen |-> TRUE]]
    /\ UNCHANGED <<keyVars, relay, stop, connected, polled, tapped>>

\* The seed cannot be loaded, or the user does not unlock it.
LaunchFails ==
    /\ launches = 1 /\ step = "idle"
    /\ launches' = 0
    /\ UNCHANGED <<keyVars, relay, stop, connected, polled, tapped, task>>

Goto(k, pc) ==
    /\ task' = [task EXCEPT ![k].pc = pc]
    /\ UNCHANGED <<keyVars, relay, stop, connected, polled, tapped, launches>>

Ended(k) ==
    /\ task' = [task EXCEPT ![k] = Idle]
    /\ UNCHANGED <<keyVars, relay, stop, connected, polled, tapped, launches>>

\* run before its loop: connect, then send Register and GetSummary.
Advance(k) ==
    \/ task[k].pc = "connect" /\ Goto(k, "register")
    \/ task[k].pc = "register" /\ Goto(k, "loop")

\* A connect, a send or a read returns an error, or the relay closes the socket.
Drop(k) == Live(k) /\ task[k].pc # "sign" /\ Ended(k)

\* Mutant: the value is not looked at.
SeeSignal_Ignored(k) ==
    /\ task[k].pc = "loop" /\ task[k].unseen
    /\ task' = [task EXCEPT ![k].unseen = FALSE]
    /\ UNCHANGED <<keyVars, relay, stop, connected, polled, tapped, launches>>

\* stop.changed() wins the select: the loop ends if the value is now true.
SeeSignal(k) ==
    /\ task[k].pc = "loop" /\ task[k].unseen
    /\ IF stop THEN Ended(k)
               ELSE /\ task' = [task EXCEPT ![k].unseen = FALSE]
                    /\ UNCHANGED <<keyVars, relay, stop, connected, polled, tapped, launches>>

\* The thirty-second tick: the ping is sent inside its branch of the select.
KeepAlive(k) == task[k].pc = "loop" /\ Goto(k, "ping")

\* A Win frame: build_signed_stake runs to its end before the loop looks up again.
\* Other frames leave the task in its loop.
Win(k) == task[k].pc = "loop" /\ Goto(k, "sign")

\* It signs and the stake is sent and reported Submitted, or it declines.
Sign(k) == task[k].pc = "sign" /\ (Goto(k, "send") \/ Goto(k, "loop"))
Sent(k) == task[k].pc \in {"send", "ping"} /\ Goto(k, "loop")

\* The process dies with its tasks.
Crash ==
    /\ CrashStore
    /\ stop' = FALSE /\ connected' = FALSE /\ polled' = FALSE /\ tapped' = FALSE
    /\ launches' = 0
    /\ relay' \in {u \in Urls : u.scheme = "wss"}
    /\ task' = [k \in Tasks |-> Idle]

\* The screens of the shell start afresh whenever the shell is opened.
Wallet ==
    /\ KeyNext
    /\ IF screen' # "shell" THEN polled' = FALSE /\ tapped' = FALSE
                            ELSE UNCHANGED <<polled, tapped>>
    /\ UNCHANGED <<relay, stop, connected, launches, task>>

Next ==
    \/ Wallet \/ Crash
    \/ \E u \in Urls : SetRelay(u)
    \/ StartStaking \/ StopStaking \/ Untap \/ Poll
    \/ LaunchFails
    \/ \E k \in Tasks : \/ Launch(k) \/ Advance(k) \/ Drop(k) \/ SeeSignal(k)
                        \/ KeepAlive(k) \/ Win(k) \/ Sign(k) \/ Sent(k)

Spec == Init /\ [][Next]_vars

\* select! chooses at random among its branches, so one that is ready time and again
\* is taken: strong fairness.  Nothing else is fair: connect_async, ws.send and the
\* host's template source have no timeout, and a relay may hold them up for ever.
FairSpec == Spec /\ \A k \in Tasks : SF_vars(SeeSignal(k))

-----------------------------------------------------------------------------
(* Properties.                                                             *)

\* client::run registers the cached addresses: they belong to the key it signs
\* with, or are missing after a setup that failed half-way, unless a wipe was cut off.
WatchesOwnAddresses ==
    \A k \in Tasks : Live(k) => task[k].watched \in {task[k].key, Absent} \/ cut

\* From the seed to the relay, addresses and keys stay together through crashes,
\* failed setups, wipes and restores: in the store and in every running client.
OwnAddresses == AddressesMatchSeed /\ WatchesOwnAddresses

\* Outside its select a client sees no signal: it connects, sends or signs.
Away(k) == task[k].pc \in {"connect", "register", "ping", "sign", "send"}

\* As long as the signal stays at stop, every client ends, unless it hangs for ever
\* in one call: no launch, no win and no stream of frames or ticks keeps it going.
StopTakesEffect ==
    \A k \in Tasks : (~<>[]Away(k)) => []<>(~stop \/ launches = 1 \/ ~Live(k))

\* stop_staking: `Stop staking cleanly`.  A stop that a running client has yet to
\* see is not withdrawn.
StopNotWithdrawn ==
    [][\A k \in Tasks : (stop /\ Live(k) /\ task[k].unseen) => (stop' \/ ~Live(k)')]_vars
=============================================================================
