------------------------------- MODULE Formats -------------------------------
(***************************************************************************)
(* The conversions of the crates, each on one input that never changes:    *)
(* block headers, merkle roots, heights, hashes and numbers as text, keys  *)
(* and addresses as text, the keys of a wallet, and recovery phrases.      *)
(***************************************************************************)
EXTENDS HdWallet, Phrase, Codec

CONSTANTS
    Headers,         \* block headers
    Txids,           \* transaction ids of a block
    MaxTxids,        \* transactions of a block
    Heights,         \* block heights
    Modifiers,       \* stake modifiers (u64)
    Texts,           \* what is read as a key or an address
    ByteStrings,     \* what is written in base58
    WalletSeeds,     \* seeds of wallets
    Entropies,       \* entropy of phrases
    Phrases          \* what is entered as a phrase

VARIABLE item        \* the input under examination

Hashes == [1 .. HashLen -> Octet]
TxidLists == UNION {[1 .. n -> Txids] : n \in 0 .. MaxTxids}
HdWallets == [seed : WalletSeeds, network : AddrNetworks]
OwnedCoins == [change : BOOLEAN, key_index : 0 .. 2 * HardBit - 1]

ASSUME FormatsAssumption ==
    /\ \A h \in Headers :
          /\ h \in [version : Int, prev_block : Hashes, merkle_root : Hashes,
                    time : 0 .. MaxU32, bits : 0 .. MaxU32, nonce : 0 .. MaxU32,
                    accumulator_checkpoint : Hashes]
          /\ -(MaxU32 + 1) <= 2 * h.version /\ 2 * h.version <= MaxU32
    /\ MaxTxids \in Nat /\ Heights \subseteq Nat /\ Modifiers \subseteq 0 .. Power(Octets, W64) - 1
    /\ Texts \subseteq Seq(Character) /\ ByteStrings \subseteq Seq(AddrByte)
    /\ Entropies \subseteq Entropy /\ Phrases \subseteq Seq(Words \cup {NoWord})

\* A key hash is one key's: HASH160 has no collisions among the keys of wallets.
ASSUME KeyHashAssumption ==
    \A v, w \in HdWallets, c, d \in OwnedCoins :
        /\ KeyHash(KeyFor(v, c)) \in [1 .. KeyHashLen -> AddrByte]
        /\ KeyHash(KeyFor(v, c)) = KeyHash(KeyFor(w, d)) => KeyFor(v, c) = KeyFor(w, d)

Of(kind, S) == {[kind |-> kind, it |-> x] : x \in S}

Inputs ==
    Of("header", Headers) \cup Of("txids", TxidLists) \cup Of("height", Heights)
        \cup Of("hash", Hashes) \cup Of("modifier", Modifiers)
        \cup Of("text", Texts) \cup Of("bytes", ByteStrings)
        \cup Of("owned", HdWallets \X OwnedCoins)
        \cup Of("entropy", Entropies) \cup Of("phrase", Phrases)

FormatInit == item \in Inputs

FormatSpec == FormatInit /\ [][UNCHANGED item]_item

-----------------------------------------------------------------------------
(* Blocks and hashes (block.rs, serialize.rs, phone lib.rs).               *)

\* A block signature covers the whole header: a legacy version has no hash, and
\* two headers that differ in any field, the checkpoint included, never have
\* the same one (block.rs:12, "Hashing only the first 80 would silently produce
\* a wrong block hash").
HeaderCommits ==
    item.kind = "header" =>
        LET h == item.it
        IN  IF h.version <= 3 THEN HeaderHash(h) = <<>>
            ELSE \A g \in Headers : HeaderHash(g) = HeaderHash(h) => g = h

Roots == [list \in TxidLists |-> MerkleRoot(list)]

\* The merkle root fixes the transactions of a block: lists of one length have
\* one root only when they are equal, and lists of two lengths only when the
\* longer one repeats transactions of the shorter one after it (the duplication
\* that merkle_root reproduces deliberately).
MerkleBinds ==
    item.kind = "txids" =>
        \A list \in TxidLists :
            Roots[list] = Roots[item.it] /\ Len(list) >= Len(item.it) =>
                /\ IsPrefix(item.it, list)
                /\ \A i \in Len(item.it) + 1 .. Len(list) :
                      list[i] \in {item.it[j] : j \in DOMAIN item.it}

\* A hash keeps its octets through any chain of the relay's and the core's own
\* conversions to and from the reversed text of the RPC, and a stake modifier
\* its value: a mix-up "silently produces stakes that never win" (chain.rs).
HexCopiesAgree ==
    /\ item.kind = "hash" =>
          \A text \in {DisplayHex(item.it), RelayDisplayHex(item.it)} :
              HashFromDisplayHex(text) = item.it /\ RelayHashFromDisplayHex(text) = item.it
    /\ item.kind = "hash" => FromHex(ToHex(item.it)) = item.it
    /\ item.kind = "modifier" =>
          ParseModifierHex(ToHex(Reverse(ToLe(item.it, W64)))) = item.it

\* The coinbase that the phone rebuilds carries the height as a minimal script
\* number: it reads back as the height, never as a negative one, at every
\* length.
CoinbaseHeightExact ==
    item.kind = "height" =>
        LET script == CoinbaseScript(item.it)
            number == SubSeq(script, 2, script[1] + 1)
        IN  /\ Len(script) = script[1] + 3
            /\ FromLe(number) = item.it
            /\ number # <<>> => 2 * Last(number) < Octets
            /\ number # <<>> /\ Last(number) = 0 =>
                  Len(number) > 1 /\ 2 * number[Len(number) - 1] >= Octets

\* The block that the phone signs is one block: its header hash fixes every field,
\* its merkle root the transactions, its coinbase the height.
BlockCommits == HeaderCommits /\ MerkleBinds /\ CoinbaseHeightExact

-----------------------------------------------------------------------------
(* Keys as text (wallet.rs, send.rs, payments.rs, bip39.rs).               *)

\* base58 loses nothing either way: every byte string reads back from its text,
\* leading zeros included, and every text is the one its bytes are written as.
Base58Exact ==
    /\ item.kind = "bytes" => Base58Decode(Base58Encode(item.it)) = item.it
    /\ item.kind = "text" /\ ~Contains(item.it, Alien) /\ ~Contains(item.it, Blank) =>
          Base58Encode(Base58Decode(item.it)) = item.it

\* A text that imports as a key is the one WIF of that key, network and
\* compression, with nothing around it but white space: no other flag byte, length
\* or version imports it too, and an exported key imports as itself.
WifExact ==
    item.kind = "text" =>
        LET key == FromWif(item.it)
        IN  key # Rejected =>
               /\ ToWif(key.secret, key.compressed, key.network) = Trim(item.it)
               /\ \A n \in AddrNetworks : DestScript(item.it, n) = Rejected

\* A payment goes where the relay watches: the phone's reader of an address and
\* the relay's accept the same texts with the same script, for one network
\* only, and an accepted text is the one address of that script, up to white space
\* around it.
SendAndWatchAgree ==
    item.kind = "text" =>
        \A n \in AddrNetworks :
            LET script == DestScript(item.it, n)
            IN  /\ script = AddressScript(item.it, n)
                /\ script # Rejected =>
                      /\ AddressFor(script.pays, n) = Trim(item.it)
                      /\ \A other \in AddrNetworks \ {n} :
                            DestScript(item.it, other) = Rejected

\* Of all texts of the size, the ones accepted as a key or an address are those that
\* to_wif and address_for write, padded or not, and phone and relay agree on their meaning.
KeyTextExact == Base58Exact /\ WifExact /\ SendAndWatchAgree

\* What the relay watches for a wallet, the phone can spend, and nobody else can:
\* an output to a receiving address is locked by the key that key_for derives for
\* that coin, on its own network only; no other wallet, chain or index has that
\* key; and change comes back to a key that key_for finds.
WatchedIsSpendable ==
    item.kind = "owned" =>
        LET w == item.it[1]
            coin == item.it[2]
            script == KeyScript(KeyFor(w, coin))
        IN  /\ \A v \in HdWallets, c \in OwnedCoins :
                  KeyScript(KeyFor(v, c)) = script => v = w /\ c = coin
            /\ ~coin.change => \A n \in AddrNetworks :
                  AddressScript(ReceivingAddress(w, coin.key_index), n)
                      = IF n = w.network THEN script ELSE Rejected
            /\ ChangeScript(w) = KeyScript(KeyFor(w, [change |-> TRUE, key_index |-> 0]))

\* Every generated phrase restores to its own entropy, and every phrase that
\* parses is the phrase of the entropy it spells: no two phrases restore one
\* wallet and no accepted phrase differs from a generated one in its checksum.
PhraseExact ==
    /\ item.kind = "entropy" =>
          LET words == FromEntropy(item.it)
          IN  words # Invalid /\ Parses(words) /\ EntropyOf(words) = item.it
    /\ item.kind = "phrase" =>
          (Parses(item.it) <=> Len(item.it) \in WordCounts /\ ~Contains(item.it, NoWord)
                                 /\ FromEntropy(EntropyOf(item.it)) = item.it)
=============================================================================
