------------------------------ MODULE Registry ------------------------------
(***************************************************************************)
(* The relay's device registry (lovenode-relay/src/registry.rs) as pure    *)
(* operators on its state.                                                 *)
(*                                                                         *)
(* The HashMap<String, Device> is a function from device tokens to the set *)
(* of addresses the device watches.  A stored device always watches at     *)
(* least one address (validate_registration refuses an empty list), so the *)
(* empty set stands for "no entry".  Device.coins is left out: the server  *)
(* never calls set_coins, so the list is always empty.                     *)
(***************************************************************************)
EXTENDS Naturals, FiniteSets

CONSTANTS
    Tokens,      \* device tokens, each non-blank (registry.rs line 47)
    Addrs,       \* Divi addresses that pass is_valid_divi_address
    MaxDevices,  \* MAX_DEVICES
    MaxAddresses \* MAX_ADDRESSES_PER_DEVICE

ASSUME RegistryAssumption ==
    /\ IsFiniteSet(Tokens)
    /\ MaxDevices \in Nat \ {0}
    /\ MaxAddresses \in Nat \ {0}

\* What validate_registration lets through: at least one address, no more
\* than the per-device maximum.
ValidAddressSets == {s \in SUBSET Addrs : s # {} /\ Cardinality(s) <= MaxAddresses}

Registrations == [device_token : Tokens, addresses : ValidAddressSets]

EmptyRegistry == [t \in Tokens |-> {}]

\* The tokens that have an entry.
Devices(r) == {t \in Tokens : r[t] # {}}

\* Mutant: off by one at the capacity.
AtCapacity_OffByOne(r, t) == t \notin Devices(r) /\ Cardinality(Devices(r)) > MaxDevices

\* Mutant: a reconnect keeps the addresses of the first registration.
Register_FirstWins(r, reg) ==
    IF reg.device_token \in Devices(r) \/ Cardinality(Devices(r)) >= MaxDevices
    THEN r
    ELSE [r EXCEPT ![reg.device_token] = reg.addresses]

\* register(): a NEW token is refused at capacity, a known one is replaced.
AtCapacity(r, t) == t \notin Devices(r) /\ Cardinality(Devices(r)) >= MaxDevices

Register(r, reg) ==
    IF AtCapacity(r, reg.device_token)
    THEN r
    ELSE [r EXCEPT ![reg.device_token] = reg.addresses]

Remove(r, t) == [r EXCEPT ![t] = {}]

\* all_addresses(): one deduplicated set for the per-block query.
AllAddresses(r) == UNION {r[t] : t \in Tokens}

=============================================================================
