# LoveNode: a TLA+ verification project

LoveNode lets a phone stake DIVI without a node: an untrusted **relay** watches
the chain and searches the registered coins for a winning kernel, and the
**phone**, which holds the keys, re-checks the win, signs the coinstake and the
block header, and sends them back for the relay's node to publish. This
directory models that system from its Rust source, checks the models with TLC
and proves the central results with TLAPS.

## Inventory

| component | state | operations | talks to |
|---|---|---|---|
| relay server, `lovenode-relay/src/server.rs` | `registry` and `outbound` (two tokio mutexes), a connection id and a bounded queue per socket | `handle_one` per connection, `tick` per block, `notify_incoming` per transaction, `summary`, `submit_signed` | phones (WebSocket), node (RPC on blocking threads) |
| device registry, `registry.rs` | token -> addresses, at most `MAX_DEVICES` | `register`, `remove`, `all_addresses` | owned by the server |
| rate limiter, `server.rs` | counter and window start, per connection | `allow` | `handle_one` |
| search engine, `engine.rs` | none | `search`: the earliest win of each staker | kernel; called by `tick` |
| session, `session.rs` | the results of one cycle | `run_once`, `complete`, `submit`, `check_tip_fresh` | node, signers, the award hook's caller |
| chain access, `chain.rs`, `rpc.rs` | none | tip and eligible coins; `call` with its 15 s timeout | node |
| wallet view, `wallet_view.rs`; payments, `payments.rs` | none | balance and activity of a device; which outputs pay whom | node's address index; `summary`, `notify_incoming` |
| protocol, wire, `protocol.rs`, `wire.rs` | none | the messages; `verify_win` | both sides |
| on-device staker, `lovenode-phone/src/lib.rs` | the coins it owns, with values it knows | `build_signed_stake` | untrusted template source, keys |
| phone client, `client.rs` | one socket | `run`: register, keep-alive, sign on Win, stop | relay, UI events |
| payments from the phone, `send.rs` | none | `build_signed_send` | untrusted coin list, verified funding values |
| signing, `lovenode-sign` | keys | `sign_coinstake` and its guard, `sign_block`, `sign_p2pkh_input` | staker, send |
| core, `lovenode-core` | none | coinstake checks, kernel, 256-bit target, serialization and its parser, header, merkle root | everyone |
| HD wallet, `lovenode-hdwallet` | none | recovery phrase, derivation paths and keys | keystore, staker, send |
| keystore, `lovenode-keystore`, with the backends `DevKeyStore` and `SecureKeyStore.kt` | one seed, the cached addresses, the wrap key | set up, restore, `stash`, load, wipe | commands; Android Keystore |
| app shell, `app/src-tauri`, and its screens `App`, `Setup`, `Overview` | relay URL, status, the stop channel | the Tauri commands, the first-run flow, start and stop | keystore, client |
| rewards, `lovenode-rewards` | an award count held by the caller | `validate`, `evaluate`, `on_stake_win` | after an accepted block; a sink |
| C2PA assertions, relay command line | none | a record format; arguments and a polling timer | |

What is hard here: two locks taken by three kinds of task in different orders
and across awaits; reconnects of one token racing the cleanup of its previous
connection; results computed from a snapshot and routed later; a phone that
stops reading; a chain that moves while a phone signs or between the two reads of
a summary; a call that breaks before or after the node has accepted its block; a
chain that drops a block already awarded; two hosts staking for one
device; a process that dies between two files of the key store, or a file that cannot
be written or deleted; a stop signal that keeps only its last value; a relay that lets
a connect or a send hang; two answers of one untrusted party that need not
agree; and arithmetic at its boundaries. `PROJECT.json` lists these hazards at
their lines.

What makes each part correct:

- server: a token's notices go to the connection that registered it last and to
  nobody else's, and the registry says the same about who is watched;
- registry, limiter: the watched set is bounded; the node is called at a bounded
  rate and nobody is refused without cause;
- session: an outcome says of a stake what became of it, as far as the host can
  know, and a cycle returns;
- rewards: an award belongs to one block and no block has two, it cannot be ground
  for, and the cap is overrun by no more than the stale reads explain;
- wallet view: the activity is exact, complete up to its limit and agrees with
  the balance and with the notices;
- staker, send: nothing is ever signed that costs principal, and honest wins are
  signed; a payment burns nothing and is refused only when it cannot be made;
- keystore: a wallet is never overwritten, its addresses are its seed's, and its
  phrase has been seen;
- app: a stop ends every client that does not hang;
- core, signing, HD wallet: parsing inverts serialization and accepts nothing
  else, a signature covers what it should, entropy, keys and addresses survive being
  written down, and every watched address has its key. (What a mistyped phrase or
  address meets is a checksum, of 4 to 8 bits for a phrase and 32 for an address: it is
  refused when its checksum is wrong, which is likely and not certain.)

## Modules

**`Registry`** is the registry as operators on a function from tokens to address
sets, `{}` standing for "no entry" (`validate_registration` refuses an empty
list). Validation is abstracted to its result: `Registrations` are those that
pass.

**`RelayServer`** models `handle_one`, `tick` and `notify_incoming`. Each
connection has a control point (`phase`), and a task interleaves with the others
exactly where the code awaits: a lock, a node call, a socket write.
`LockRegistry`/`CommitRegister` are the two awaits of a registration, which keeps
the registry lock while it waits for the outbound lock;
`LockOutbound`/`Unroute`/`Unregister` those of the cleanup, which drops the
outbound lock in between; `ReadError` is the `?` that skips the cleanup and leaves
device and route as they are. A connection in such a route is current and dead.
`TickAddresses`, `TickCoins`, `TickSearch`, `TickLock` and `TickSend` are the
awaits of a tick, `NotifySnapshot`, `NotifyLock` and `NotifySend` those of a
payment notification. A notice is abstracted to the address it is about, a coin
to the address that holds it, and which coins win to an arbitrary set; the
limiter's verdict is left open (`Answer` or `ReceiveNodeCall`).

**`Routing`** is the abstract specification: a connection attaches once to one
token, a later attach takes the token over, and a connection that leaves gives
up only what it still has. `RelayServer!R` instantiates it with `route` as
`outbound`, `attached` as the connections that hold a token and `left` as those
whose cleanup is past the outbound map.

**`RateLimiter`** is `RateLimiter::allow` on a clock, with the instants of the
allowed calls as a history variable.

**`PhoneStaker`** models `build_signed_stake` with `verify_win`'s verdict as a
field of the notice, the guard of `sign_coinstake` and the three coinstake
checks of `tx.rs`, including the saturating sum in a scaled i64 range. Notice
and template are arbitrary members of their sets: relay and template source are
untrusted. Asking for the template and deciding on it are two steps, between
which the chain moves. `Submit`, `ValidOutputs` and `TipMoves` stand for the
node, which is outside the repository (`NullOut` is the null outpoint that
`is_coinstake` excludes): a stake is accepted on the parent and
height it was signed for, with outputs in the money range and an unspent coin,
and a reorganisation may drop it again.

**`U256`** is `u256.rs` at a scaled limb width: four limbs, the overflowing shift
and multiplication, the compact form and the comparison. **`Kernel`** puts
`coin_age_weight` (unsigned wrap, then the cap) and `target_hit` on top of it, and
states beside them what they should compute, in exact integers. Both are built on
**`Powers`**, powers of two as a recursive function. **`WinCheck`** is one call of
`check_win`: any proof hash first, then any coin, difficulty and time. The assumption
that amount times age fits a limb is true of the code's widths
(2^63 * 601200 / COIN / 400 < 2^64), so its "absurdly large weight" branch is dead.
The doc comment of `coin_age_weight` (`kernel.rs:80-81`) says that an age before
the coin existed clamps to zero; the code wraps, as the comment inside the
function explains, and so does the model.

**`Engine`** is the time side of `tick`: the clock is read, then the tip
(`TickTip`, which refuses a stale one), then the coins, filtered by age, which are
searched (`TickSearch`). The chain moves between the two reads. The proof hash is
any function of modifier, coin and time; the clock may read anything; `wins` are
the notices of the last search. Whom a notice goes to is `RelayServer`'s subject,
which leaves open which coins win; `Engine` says which do.

**`Send`** is `build_signed_send` as operators -- selection, fee, change, the
checks in the code's order -- and one action that runs it on a request, with an
address, a txid or a key that may be refused on the way (`Faults`). A coin carries
the value the relay reported and the value its funding transaction commits to. A
selection is a set of positions: `Down(r, i)` is what walking the sorted list from
its end has pushed when it reaches coin `i`, with the code's stable order among
equal claims. The sum of the reported values wraps (`Wrapped`), since the release
build does not check `.sum()` for overflow; the sum of the verified ones saturates.

**`Rewards`** is the policy: its validation, the half-life schedule (the chance
is `initial * 0.5^n`, rounded, and clamped between the floor and `Ppm`), the roll from the configured
source and `evaluate`. **`StakeCycle`** puts it behind `run_once`: hosts read the
tip, sign and submit one win after the other against one node, take the answer or
an error, and go through the accepted results with the award hook. What the node
answers and what the host receives are two steps. `CallBreaks` (the timeout, a
connection refused or lost, a reply that is no JSON) may come at any point of a call:
before the node has the request, while it works on it, in which case the request
outlives its caller (`live` becomes false), or after it has accepted the stake. In
the last two cases a block is on the chain that the host reports as Rejected;
`lost` remembers those blocks. `Reorganised` takes the chain back to an earlier
block and starts a new *era*. A height and the era in which its block was added name a
block, and a stake is built on such a block. The award code knows nothing of this:
an award stays when its block is dropped, and the same height can be won and awarded
again in the next era, to the same device too. A branch that was left is not taken up
again in the model; a block that comes back with it would be the one already reported.
The function that calls `award_for_accepted_block` is not in the repository:
`ReadAwardState` and `Offer` are the obvious caller, which copies its state, offers the
win and counts the award. `NodeWorks`, `TipMoves` and `Reorganised` stand for the node.

**`KeyStore`** is the wallet's persistence: `stash` as its separate writes on
either backend, `wipe` likewise, the Setup screen whose buttons and answers
drive them, and faults between any two steps -- an error of `has_wallet`, which the
screen takes for no wallet (`BootFails`), a failed derivation, a wrap key that cannot
be made, a file that cannot be opened, written or deleted in a process that lives on
(`StoreFails`, `CacheFails`, `DeleteFails`), a reloaded webview, a dead process. On
Android the wrap key is made first, then the seed file is truncated (`Torn`), then it
is written; the address file is a second file. `wipe` looks at none of its results, so
its deletions may each do nothing while it goes on: `kept` remembers a seed file that a
wipe left behind, `cut` an address file. Seeds stand for their phrase, bytes and
addresses. `wipe` has no caller in the UI yet; it is enabled wherever a command could
call it.

**`PhoneApp`** extends it with the commands `set_relay`, `start_staking` and
`stop_staking`, the Overview's button and poll, and the client tasks: URL check
(`Entry`), connect, register, the `select!` loop, the keep-alive ping, signing and
sending, and every error return. The watch channel is one value and an unseen mark per receiver. The
launch of a client belongs to the mobile host and follows
`app/README-ANDROID.md` (marked external).

**`WalletView`** is `summary` with its two reads of an address index that moves,
both parsers, the merge and order of the activity, and which payments of a
transaction are announced to the device. `NotifyIncoming` is the whole of
`notify_incoming` for one device, and may find the device unregistered, its route gone
or its queue full: the notices that are lost then are in `missed`. (`RelayServer` has
the locks and the queue in between.) The sender's own outputs are recognised by
comparing strings: `Script` says which address a string spells, and two strings may
spell one. An entry of the index is a transaction and
the position of an input or output, so that two equal amounts in one transaction stay
two entries, and what entries add up to is a sum over a set. The sender's addresses
are a field of the transaction: `notify_incoming` gets them from the feed that calls
it, and which ones the feed resolves is not in the repository; nor is the feed, which
is taken to announce a transaction once (`Fed`). A mempool that forgets a transaction
is not modelled.

**`Codec`** has the byte formats: var-ints, transactions, the header, hex with and
without reversal, the merkle root and the coinbase's height push. **`Wire`** uses
them for the two processes around them: signing a transaction input by input over
its signature hashes, and parsing, one read at a time, a wire that is cut,
lengthened, flipped or reframed. `WireAssumption` gives the transactions and scripts
their Rust types: fields of their widths, and vectors no longer than a usize can say. **`Addresses`** is base58check, WIF and the two
functions that turn an address into a script (the sender's and the watcher's), with the
`trim` that each of the readers starts with (`Trim`; `Blank` is any white space);
`Rebase` is the digit loop that `base58_encode` and `base58_decode` share, once with
radix 58 and once with 256. **`HdWallet`** has the derivation paths and the key a phone
looks up for a script; **`Phrase`** packs entropy and checksum into words and back.
Hashes are injective functions of what they cover; where the code cuts a hash to a few
octets or bits (`Checksum`, `EntropyHash`) it is any function with such values. Widths
are scaled: an octet has 4 values, a script or a list is as long as the widths can
distinguish. **`Formats`** states what the conversions promise, each of one input that
never changes: `FormatInit` picks the input, and there is nothing more to do. Loops
are recursive functions, so that TLC and the proofs use the same definitions.

`MCCore` runs the kernel check, the wire, the formats, the payments and the limiter side
by side, each on all inputs of a small size; `MCRelayServer`, `MCPhoneStaker`, `MCEngine`,
`MCStakeCycle`, `MCPhoneApp` and `MCWalletView` give symmetry sets and concrete coins,
blocks, coinstakes, policies, URLs and transactions. Definitions marked "Mutant" are
single plausible bugs of the definition below them; none of them is used by a
specification.

## Runs

| run | instance | what it shows |
|---|---|---|
| `RelayRouting` | 2 connections, 2 tokens, 2 addresses, 1 device slot, queue of 2 | types and the queue bound; no device without a connection or a pending cleanup; one current connection per token, which has not been through its cleanup, serves no other token and whose addresses are the watched ones, if any are; the device cap; queued notices concern addresses the token registered; refinement of `Routing` |
| `RelayLiveness` | 2 connections, 1 token, fair | registrations, cleanups and ticks finish |
| `EngineSearch` | 3 coins of 2 stakers, 24 tips, every clock reading | wins are the earliest of all coins, not backdated, near their parent, not due to a wrapped age, and verify |
| `StakeCycle` | 2 hosts, 2 devices, 2 heights, 1 late call, several policies, fair | the cap's overrun; rolls that cannot be ground; odds that only fall as block times rise; cycles end |
| `StakeReorg` | 2 hosts, 1 device that wins every height, every win awarded, 1 late call, 1 reorganisation | a result says Accepted exactly for the stakes that became blocks and whose call did not break; one award per block, one per height of a branch and an exact count, while the chain drops blocks that were reported and awarded |
| `PhoneStake` | 2 own coins on one key, 1 foreign, 3 blocks at 2 heights, 68 coinstakes | principal is safe on chain; what is signed pays back; honest wins are signed |
| `PhoneApp` | 1 fresh and 1 brought seed, 3 faults, 1 client, both backends, fair | no wallet is overwritten; addresses belong to the seed; a whole seed file can be decrypted, unless a wipe could not delete it; phrases are lost to faults only; a stop ends a client that does not hang for ever in one call |
| `WalletView` | transactions that pay, spend and return change, 2 heights, a reorganisation, 2 lines shown, two transactions announced | activity exact, newest first and deterministic; it adds up to the balance unless the index moved in between; of an announced transaction, what was pinged, what was missed, what went back to the sender's addresses and what was spent make up the line shown |
| `CoreAlgorithms` | all inputs at the scaled widths | kernel verdict and limb arithmetic exact; encodings round-trip and nothing else parses; signature, header and merkle root commit; hex, base58, WIF and phrases exact; every watched address has its key; a payment of up to 3 coins burns nothing and is refused only when it cannot be made; at most twice the limit of calls in any window-long span, and no refusal without cause |

Why the bounds are enough for the cases of interest. A token taken over while its
previous connection cleans up needs two connections, and so do two tokens that
compete for one device slot; that a newcomer is refused at the cap while a third
party stays is `DeviceCapHolds` of the proofs, for any number. Telling addresses
apart needs two. A queue of two is full, half full and empty. In `PhoneStake` the i64 range is
-4..3, so that two outputs saturate it in either direction; a small and a large
coin on one key are the case the input check is for; two blocks of one height and
one above them are the ways a tip can differ. `MaxSigned` is 1, since no check of
the phone depends on an earlier signature. `EngineSearch` has tips at both ends of
the time range, clocks before and after them, a window shorter than the range, a
coin that starts near its end, and two coins of one staker that win at different
and at equal times.

In both runs of `StakeCycle` two hosts submit for one device at one height, one
call at a time is worked on after its timeout, and the second height comes after a
half-life. A reorganisation multiplies the states by what each branch may hold, so the
runs share it out: `StakeCycle` has no reorganisation, but policies that differ in
source, cap (0, 1, none), initial chance, minimum stake and validity; `StakeReorg` has one,
and one device and one policy, under which every win is awarded: it is the device
that wins a height, is awarded, loses the block and wins the height again.
In `PhoneApp` three faults reach a torn file, the recovery from it and a failure of that,
or a file that a wipe left and the restore after it. One client is enough for the
properties: clients share the signal and the store, which they only read, so
another client takes no step that one of them could tell from its absence; and
with one client ended or never launched (`LaunchFails`), the user starts and stops as
often as with two. `WalletView` can mine, reorganise and mine again between the two
reads. It announces a stranger's payment and the payment that spends it, whose change
goes to two addresses of the sender's, one of which the device registered with white space
before it; notices are lost in every combination.

In `CoreAlgorithms` two-bit limbs straddle, carry by more than one bit and overflow in
every way; ages wrap and pass the cap. A var-int's widest form exceeds what a usize
holds, so that its conversion can fail; 7 transaction ids give merkle levels of every
parity; base58 is run with radix 3 on up to 4 bytes and 8 digits, leading zeros
included; phrases have one and two checksum bits. Wallets have up to three coins with 5
reported and 4 true values; the payment's sizes keep the code's order of magnitudes
(input > output, fee near the cap) and its amounts hit every refusal and both sides of
the dust limit; three of the largest claims together wrap the i64 sum. The limiter
allows 2 calls in a window of 3 on a clock to 9: three windows show a burst across a
boundary and what follows it. These share a run because they are sequential and
independent of each other: each state is one input, one step of a parser, one payment or
one call, and the unused variables rest.

`RelayLiveness` does not check for deadlock: connection ids are finite in the
model, so it may run out of phones, and what must not stop is stated as liveness.
`CoreAlgorithms` does not either, since a function returns.

**Fairness.** *Relay*: a task that can run is scheduled by tokio; a node call
returns because the RPC client has a timeout; tokio's `Mutex` is FIFO, so a lock
released again and again is acquired. This is strong fairness of each task's own
steps. A socket write has no timeout and a phone need not send, read or close:
those steps have no fairness. *StakeCycle*: a cycle is synchronous code, each of
whose calls returns or times out: weak fairness of a host's steps, none of the
node. *PhoneApp*: `select!` picks among the ready branches at random, so a pending
signal is seen even under a stream of frames: strong fairness of `SeeSignal` and of
nothing else. The connect, the sends (the keep-alive inside its branch of the select
included) and the host's template source have no timeout, so `StopTakesEffect` promises
the end of a client that is not away from its select for ever; one that is, is never
ended by a stop.

### Where comments and code disagree

Three runs check a sentence of the source that TLC finds violated.

- `RelayDrift` (`server.rs:353-355`, `:405`): "registry and outbound always
  agree". The cleanup removes the registry entry after it has dropped the
  outbound lock, without looking again: a reconnect in the gap stays routed and
  is no longer searched for.
- `AppStop` (`commands.rs:154`): "Stop staking cleanly." `start_staking` sends
  `false` on the same channel: a client that has not yet looked at the stop never
  sees it and runs on beside the new one.
- `RelayReadError` (`server.rs:401`): "Clean up on disconnect so a dead device isn't
  searched for or routed to". The `?` of a read error (`:329`) returns before that: the
  device stays registered and routed, and keeps its place under the cap, until its token
  reconnects.

Others were met while modelling; the models follow the code.

- `client.rs:39` says that `run` lasts "until the socket closes or `stop` fires". A stop
  is looked at in the select only; a relay that accepts the connection and goes no
  further holds the client up, stopped or not.
- `SecureKeyStore.kt:101`: "Permanently delete the key, addresses, AND the hardware wrap
  key." `File.delete()` answers false when it fails, nobody looks, and the wipe comes to
  its end with a file still there (`kept`, `cut`).
- `wire.rs:33`: "Registration accepted". `registry.rs:103` refuses a device at capacity;
  `server.rs:359` ignores the refusal, routes the device and answers `Registered`.
- `protocol.rs:116` says of Rejected "The assembled block was rejected". A call that breaks
  after the node accepted the block, or before it does, is reported in these words about
  a block that is on the chain (`lost`); no award is offered for it.
- `server.rs:199`: "Never notify the sender about their own change output." The comparison
  is one of strings, while the output was found by the script that a trimmed string
  spells: change to an address registered with white space around it is announced as
  money received.
- `phone/lib.rs:222`: "the template must build on the same tip" is checked by
  height only.
- `phone/lib.rs:94` says the phone stakes across all its addresses; change goes to
  the change chain (`send.rs:182`), whose addresses the keystore does not cache
  (`lovenode-keystore/src/lib.rs:71`), so whether they are watched is up to the
  host. The phone does have their keys (`WatchedIsSpendable`).
- `wallet_view.rs:31`: `incoming` is "true when the net is positive"; a net of
  zero is incoming too.
- `client.rs:79` says the summary is also refreshed on new blocks; `GetSummary` is
  sent once. `state.rs:14` describes `connected` as the state of the connection;
  `start_staking` sets it before there is one.
- `kernel.rs:80-81`: an age before the coin existed "clamps to zero"; it wraps, as
  the comment inside the function explains.

## Proofs

`RelayServer_proofs` proves, for every set of connections, tokens and addresses
and every bound, from the named assumptions of `Registry` and `RelayServer` (the
bounds are naturals, sentinels are not members of what they stand in for):

- `TypeCorrect`, from `TypeInv = TypeOK /\ HandlerInv`. `HandlerInv` says what a
  task's control point implies about its token and registration; without it
  `CommitRegister` could not be typed.
- `NoGhostDeviceHolds` and `OneCurrentConnectionHolds` (`AgreeOnCurrent`,
  `CleanCloseUnroutes` and `OneRoutePerConnection` together), from `CurrentInv`,
  their conjunction with `RouteInv` (a route leads to a connection holding that token). None is
  inductive alone: `Unroute` keeps `NoGhostDevice` because it leaves a pending
  cleanup behind, `Unregister` keeps `AgreeOnCurrent` because it empties the
  entry, and both rest on a cleaned-up connection not being current. Neither says that
  the connection is alive: one that died of a read error stays answerable for its
  device (`Answerable`) and current for its token, which `RelayReadError` shows.
- `OwnNoticesOnlyHolds`, from `NoticeInv`: the same statement for the wins and
  notes still in flight, which outlive the registry they were computed from.
- `DeviceCapHolds`, and `RoutingRefined`: every step is a `Routing` step or a
  stutter.

The limiter that a connection has is proved about in the same module:
`AtMostTwiceLimitHolds` and `RefusedOnlyOverLimitHolds` hold for every limit and window.
`LimiterHistory` splits the history at the current window: the last `count` calls lie in
it, and all but `Limit` of the earlier ones precede it by a whole window.

`PhoneStaker_proofs` proves `StakerTypeCorrect`, `SignedStakesPayBackHolds`,
`PrincipalSafeHolds` and `HonestWinSignedHolds` for every set of coins,
coinstakes with any number of outputs, blocks and amounts. `AskingInv` carries the
facts checked before the template was asked for across the wait; `OnChainInv` says
that consensus has checked the outputs of what is on the chain, and `DeclinedInv`
why a template was turned down. `SaturatedSum` compares the phone's saturating sum
with the exact one: for outputs that are not negative it is the exact sum cut at
`i64::MAX`, so the two agree on "at least". `HonestTemplate` asks for a coin with
value: `coinstake_pays_to` refuses a coinstake that pays its script nothing, so the
template for a coin worth nothing would be declined, but no such coin wins.

`Engine_proofs` proves `EngineTypeCorrect`, `WinTimesSoundHolds` (`NotBackdated`,
`NearParent` and `AgeNotWrapped` together), `WinsVerifyHolds` and
`EarliestOfAllHolds` for every chain, clock, hash function, window and width.
`TickInv` carries the freshness of the tip from the step that checks it to the step
that uses it; `WindowBounds` is the saturating arithmetic of the window. The
assumptions are that the three limits are naturals, the tip age and the coin age
not zero: with a minimum age of zero `AgeNotWrapped` would be false.

`EarliestOfAll` is stated with the kernel inequality over exact integers, while the
search decides by limbs. The bridge is `TargetHitExact`: `CheckedMulExact` follows
the carry through the four limbs, `CheckedShlExact` the straddling shift and its
overflow test, `SetCompactExact` the compact form, `LessExact` the comparison from
the top limb down; together they show the target hit exact, for every limb width.
`KernelExactHolds` states that of a whole `check_win`, and adds `AgeExact`: the wrap of
the 32-bit subtraction and then the cap. The shift is proved for any number, although the
code shifts a 24-bit word only: a shift by whole limbs (`WholeLimbs`) and one within a
limb (`ShiftWithin`), where the bits a limb hands to the next are those that it loses
(`LimbShift`).
`SearchFindsEarliest` then turns "a least time per coin, then the least coin" into
the least time over all coins.

`Send_proofs` proves `NothingBurnedHolds` and `RefusalsTrueHolds` for wallets of any
size, amounts, fee rates and reported values. `SendInv` is inductive; the work is in
the function it computes. `Figures` shows that the saturating total of a wallet is
its exact sum, `BuiltFacts` follows the checks. For `RefusalsTrue`, `GreedyIsBest` is
the exchange argument: a set of `k` coins is worth no more than the `k` largest
(`LargestSum`), those are a stretch of `Down` (`RunOfSize`), and the loop tried that
stretch before it gave up. Since the true values of a wallet fit an i64, the wrapping
sum is exact there (`TrueCovers`).

`StakeCycle_proofs` proves `OutcomesTrueHolds`, `OneAwardPerBlockHolds`,
`UngrindableHolds`, `CapOverrunBoundedHolds` and `ChanceDiminishesHolds` for any
finite set of hosts, any devices, policies, digests and number of reorganisations.
`OutcomesTrue` is about every stake that became a block: it is reported Accepted, or
its answer is on the way, exactly if its call did not break. `OneAwardPerBlock` allows
two awards for one height when a reorganisation came between, of which at most one is
for a block still on the chain. `CycleInv` ties the one live
request of a host to the stake it awaits, an answer that carries a hash to a block
not reported yet, and blocks to distinct places (a height and an era): that is what makes a late or
repeated submission harmless. `AwardInv` says that a stake is due at one host only,
after its report and before its award. `CapInv` bounds the count plus the hosts whose
copy still admits an award; read at the cap, a copy admits none. `HeightsInv` says
that an award carries the odds of its block's time, for a height that has one;
`DecayMonotone` and `ChanceMonotone` are the schedule: halving, rounding and clamping
keep the order. The odds fall with the block's *time*: block times need not rise with
the height, so nothing is promised about two heights.

`WalletView_proofs` proves `OverviewExactHolds`, `BalanceAddsUpHolds` and
`PingsMatchActivityHolds` for any transactions, addresses, heights and limit. `ViewInv`
says which index the phone's summary came from (`basis`), that a balance read before an
untorn list is the balance of that same index, and that an announced transaction has
each of its `Notices` either queued or missed. The rest is about the functions:

- *sums*: `EntriesExact` adds up the entries of one transaction (`SumUnion`, `SumNegate`,
  and `SumReindex` from entries to positions), `IndexExact` those of the whole index
  transaction by transaction (`SumPartition`), so that the balance is the sum of the nets;
  `ListAddsUp` carries that sum over to the list (`SumReindex` again).
- *order*: `Before` is a strict total order on lines of different transactions
  (`OrderFacts`). `SortingUnique` shows that at most one list is sorted by it, position by
  position; `SortingExists`, by induction over the number of lines, that there is one.
  Both together are the determinism that the tie-break by txid is for. `CutFacts` says
  what `truncate` can drop.

`PingsMatchActivity` has a term for what went back to the sender's own addresses: change
to another address of one's own is in the line and, rightly, in no ping; and one for
what was missed, because nothing is delivered for certain.

`PhoneApp_proofs` proves `AppTypeCorrect`, `NeverOverwrittenHolds`,
`OwnAddressesHolds`, `PhraseKeptHolds` and `WholeIsReadableHolds` for any seeds and
clients and any number of faults. `KeyInv` says what every step of a command
implies about the two files, the wrap key and who knows the phrase; since a crash
may follow each step, the crash case is where it is needed in full. `OwnAddresses` and
`WholeIsReadable` except a store in which a wipe left the address file, or the seed
file, behind: the wrap key of such a seed file is gone.

Where one sentence of the system's promise has several parts (`OneCurrentConnection`,
`OutcomesTrue`, `ParserExact`, `KeyTextExact` and the like) the run checks the
conjunction; its parts are defined and explained one by one above it.

`DataLemmas` has what these proofs share. Induction over the naturals is done with a
set instead of a predicate: the set of counterexamples has a least element
(`LeastNat`, from the well-foundedness of the naturals), and the step contradicts it
(`SetInduction`). From it come the existence of folds (`FoldExists`, for the community
modules' `FoldLeft` through its recursive function), the recursion of `Pow2`
(`Pow2Facts`, `Pow2Sum`) and the sums. `SumUnique` shows that any fold over any finite
set gives the sum the community modules define by `CHOOSE`, `SumsExist` that there is
one; `SumRemove` is their recursion. The algebra follows: by parts (`SumUnion`,
`SumPartition`), along a bijection (`SumReindex`), by sign (`SumNegate`), and for sets of
positions compared (`SumIsPartialSum`, `SumCompare`, `LargestSum`).

The conversions of `Formats` are proved for every radix, width and length, each as a
theorem of `FormatSpec`. `PhoneApp_proofs` has the three that concern a wallet:

- `KeyTextExactHolds`. A base58 string is a number's digits behind leading zeros that
  are counted. `MulAddNumeral` and `ConvertNumeral` show that the digit loop writes the
  number it was given, without a leading zero; a number and a count of zeros have one
  spelling (`SpellingUnique`), so that the two loops undo each other (`RebaseBack`).
  The readers trim first, so "no other text" is up to surrounding white space
  (`TrimFacts`).
  `AddressAssumption` says that the version octets of keys and addresses and of the two
  networks differ.
- `WatchedIsSpendableHolds`. A node of the tree is the sequence of steps that lead to it,
  which two coins of a wallet never share (`KeysApart`). It rests on `KeyHashAssumption`
  (no two keys of the wallets under consideration have one HASH160) and
  `TreeAssumption` (the networks have different coin types).
- `PhraseExactHolds`. Entropy and checksum are one string of bits, which bytes and words
  cut at different widths (`RegroupBits`, `RegroupNumbers`); nothing is lost because whole
  units of entropy make whole words (`PhraseAssumption`).

`Send_proofs` has those that concern octets:

- `HexCopiesAgreeHolds`: to_le_bytes and from_le_bytes undo each other. What is left of a
  number after `i` octets (`Rests`) and what its last octets are worth (`Worths`) are two
  recursions in opposite directions, which meet in the middle.
- `BlockCommitsHolds`: a header is peeled field by field from its end (`SplitEqual`); the
  coinbase's height has the least width, so its top octet is not zero, and a zero is
  appended just when it would read as a sign; every turn of the merkle
  loop leaves nodes of one length that hold the txids in their order and, past the last
  one, some of them again (`IsLevel`).

It also has the two theorems of `WireSpec`, for every width, transaction, script and change on
the way, from `CodecAssumption` and `WireAssumption`:

- `ParserExactHolds`, from `WireInv = WireTyped /\ ReadSoFar /\ Carried /\ Accepted /\
  SignedRight`. Whether octets stand at a place of the wire is `Lies`, and every read has
  two lemmas: it returns what stands there (`TakeGets`, `VarGets`, `InGets`, `OutGets`),
  and what it returned stood there (`TakeFrom`, `VarFrom`, `InFrom`, `OutFrom`; the length
  in one of its four forms). `SerializeLaid` shows that what is written is laid out so,
  `LayoutUnique` that octets lay out one transaction at most: the form of a length is told
  by its first octet, so fields end at the same places. `ReadSoFar` is
  what each step of the parse has behind it: the fields read so far stand on the wire up
  to the cursor, in a list of as many inputs or outputs as were read and as the running
  loop has still to read; at the end, the wire lays out the result to its last octet.
  Such a wire, arriving unchanged, can only have given back what was sent. `Accepted`
  is the other half, that no read of it fails, and `Carried` counts the least octets
  that an input and an output consume. For `Deliver`, `HexOctets`, `ChangedDigits` and
  `ReframedDigits` show that whatever arrives, if it is hex at all, is octets.
- `SighashExactHolds`. `SignedRight` says what each signature covered. A transaction
  whose other scripts are blanked does not change when one of them is filled in
  (`BlankedStable`), which is why a signature made early stays valid; and by
  `LayoutUnique` two blanked transactions with one preimage are equal, the one script that
  is not empty marking the input (`BlankedCommits`). That the script of a spent coin is
  not empty is part of `WireAssumption`: `build_signed_send` signs for pay-to-key-hash
  scripts.

Only model-checked: the liveness properties (`HandlersFinish`, `TickCompletes`,
`CycleEnds`, `StopTakesEffect`), which need fairness and ENABLED.
`TypeOK` of `StakeCycle` only documents its state: the list of wins comes from
`SelectSeq`, which takes an operator that no installed prover can instantiate, and the
theorems about that module rest on the invariants above instead.

## Not modelled

- Cryptography: ECDSA and the compact block signature, SHA-256, HMAC, PBKDF2 and
  curve arithmetic. Where the models meet them they are injective functions or
  any value; the repository tests them with vectors.
- Text and transport: JSON, HTTP, `divi.conf`, the command line of the relay and
  its polling timer, notification wording and UI headlines. They keep no state.
- The C2PA assertions, a record format, and the screens that only lay out what a
  command returned.
- `StakingService.kt`, a foreground notification.
- The error return of the accept loop, after which `main` exits.

## Plan

Done: the relay's concurrency, the limiter, the search and the kernel, the session
with its node and the rewards, the staker, the send path, the wallet view, the
key store and the app around it, and the pure algorithms; theorems for the relay,
the limiter, the search with its exact kernel, the staker, the send path, the session
with its awards and schedule, the wallet view, the app, the formats and the
transaction on its way.

Left: no safety property of a run is without its theorem; liveness stays with the runs.
