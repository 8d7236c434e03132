------------------------------ MODULE HdWallet ------------------------------
(***************************************************************************)
(* The keys of a wallet: HdWallet of lovenode-hdwallet/src/lib.rs over the *)
(* tree of bip32.rs, and HdKeys of lovenode-phone/src/lib.rs, which finds  *)
(* the key of a coin.  A node of the tree stands for its secret and chain  *)
(* code: it is the seed followed by the children on the way to it, which   *)
(* HMAC-SHA512 keeps apart.  Indices are u32, HardBit their top bit.       *)
(***************************************************************************)
EXTENDS Addresses

CONSTANTS
    HardBit,       \* 0x8000_0000
    Purpose,       \* 44
    CoinType,      \* coin_type, by network
    KeyHash(_)     \* HASH160 of the compressed public key of a node

ASSUME TreeAssumption ==
    /\ HardBit \in Nat \ {0, 1} /\ Purpose \in 0 .. HardBit - 1
    /\ CoinType \in [AddrNetworks -> 0 .. HardBit - 1]
    /\ \A n, m \in AddrNetworks : n # m => CoinType[n] # CoinType[m]

\* hardened: i | 0x8000_0000.
Hardened(i) == IF i < HardBit THEN i + HardBit ELSE i

\* ExtKey::derive_child.  A hardened child is derived from the secret, any other
\* from the public key, so that both kinds differ beyond their index.
DeriveChild(node, index) == Append(node, [from_secret |-> index >= HardBit, index |-> index])

\* HdWallet::derive, with ExtKey::derive_path.
Derive(w, account, change, index) ==
    LET coin == DeriveChild(DeriveChild(<<w.seed>>, Hardened(Purpose)),
                            Hardened(CoinType[w.network]))
    IN  DeriveChild(DeriveChild(DeriveChild(coin, Hardened(account)), change), index)

ReceivingKey(w, index) == Derive(w, 0, 0, index)
ChangeKey(w, index) == Derive(w, 0, 1, index)

\* StakingKey::p2pkh_script.
KeyScript(key) == PayToKeyHash(KeyHash(key))

\* receiving_address: what the keystore caches and the relay watches.
ReceivingAddress(w, index) == AddressFor(KeyHash(ReceivingKey(w, index)), w.network)

\* Mutant: the chain of the coin is not looked at.
KeyFor_OneChain(w, coin) == ReceivingKey(w, coin.key_index)

\* HdKeys::key_for an OwnedCoin.
KeyFor(w, coin) ==
    IF coin.change THEN ChangeKey(w, coin.key_index) ELSE ReceivingKey(w, coin.key_index)

\* HdKeys::change_script: where the change of a payment goes.
ChangeScript(w) == KeyScript(ChangeKey(w, 0))
=============================================================================
