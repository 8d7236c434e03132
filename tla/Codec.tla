-------------------------------- MODULE Codec --------------------------------
(***************************************************************************)
(* The wire format of lovenode-core: lengths, transactions, block headers, *)
(* merkle roots and hashes as text, and what lovenode-sign signs of them.  *)
(*                                                                         *)
(* Widths are scaled: an octet has Octets values and the integers of 16,   *)
(* 32 and 64 bits have W16, W32 and W64 octets.  Double SHA-256 is any     *)
(* function without collisions: what is hashed stands for its hash.        *)
(***************************************************************************)
EXTENDS Powers, SequencesExt

CONSTANTS
    Octets,         \* values of a byte (256)
    W16, W32, W64,  \* octets of a u16, u32/i32 and u64/i64
    HashLen,        \* octets of a hash
    HexBase,        \* values of a hex digit (16)
    UsizeOctets,    \* octets of a usize: a phone may have a 32-bit one
    Malformed       \* Err(_) of a conversion

Octet == 0 .. Octets - 1

ASSUME CodecAssumption ==
    /\ Octets \in Nat /\ HexBase \in Nat \ {0, 1} /\ HexBase * HexBase = Octets
    /\ {W16, W32, W64, HashLen, UsizeOctets} \subseteq Nat \ {0}
    /\ W16 < W32 /\ W32 < W64 /\ UsizeOctets <= W64
    /\ Malformed \notin Seq(Octet)

\* to_le_bytes of an unsigned number, or of a negative one in two's complement.
ToLe(n, width) ==
    LET rest[i \in 0 .. width] == IF i = 0 THEN n ELSE rest[i - 1] \div Octets
    IN  [i \in 1 .. width |-> rest[i - 1] % Octets]

\* from_le_bytes of an unsigned type.
FromLe(octets) ==
    LET last[i \in 0 .. Len(octets)] == \* what the last i octets are worth
            IF i = 0 THEN 0 ELSE last[i - 1] * Octets + octets[Len(octets) - i + 1]
    IN  last[Len(octets)]

\* from_le_bytes of a signed type.
FromLeSigned(octets) ==
    LET top == Power(Octets, Len(octets))
        n == FromLe(octets)
    IN  IF 2 * n >= top THEN n - top ELSE n

\* The first octets that announce a longer length (0xfd, 0xfe, 0xff).
Mark16 == Octets - 3
Mark32 == Octets - 2
Mark64 == Octets - 1

\* write_compact_size.
WriteCompactSize(n) ==
    CASE n < Mark16         -> <<n>>
      [] n \in Mark16 .. Power(Octets, W16) - 1 -> <<Mark16>> \o ToLe(n, W16)
      [] n \in Power(Octets, W16) .. Power(Octets, W32) - 1 -> <<Mark32>> \o ToLe(n, W32)
      [] OTHER              -> <<Mark64>> \o ToLe(n, W64)

\* write_var_bytes.
WriteVarBytes(octets) == WriteCompactSize(Len(octets)) \o octets

-----------------------------------------------------------------------------
(* Transactions.                                                           *)

MaxU32 == Power(Octets, W32) - 1
ZeroHash == [i \in 1 .. HashLen |-> 0]
IsNull(prevout) == prevout = [hash |-> ZeroHash, n |-> MaxU32]
EmptyOut == [value |-> 0, script_pubkey |-> <<>>]
Spending(prevout) == [prevout |-> prevout, script_sig |-> <<>>, sequence |-> MaxU32]

SerializeIn(input) ==
    input.prevout.hash \o ToLe(input.prevout.n, W32)
        \o WriteVarBytes(input.script_sig) \o ToLe(input.sequence, W32)

SerializeOut(output) == ToLe(output.value, W64) \o WriteVarBytes(output.script_pubkey)

\* Transaction::serialize.
Serialize(tx) ==
    ToLe(tx.version, W32)
        \o WriteCompactSize(Len(tx.vin))
        \o FlattenSeq([i \in DOMAIN tx.vin |-> SerializeIn(tx.vin[i])])
        \o WriteCompactSize(Len(tx.vout))
        \o FlattenSeq([i \in DOMAIN tx.vout |-> SerializeOut(tx.vout[i])])
        \o ToLe(tx.lock_time, W32)

\* Transaction::is_coinstake.
IsCoinstake(tx) ==
    /\ tx.vin # <<>> /\ ~IsNull(tx.vin[1].prevout)
    /\ Len(tx.vout) >= 2 /\ tx.vout[1] = EmptyOut

\* build_coinstake.
BuildCoinstake(staked, payouts) ==
    IF IsNull(staked) \/ payouts = <<>> \/ \E i \in DOMAIN payouts : payouts[i].value < 0
    THEN Malformed
    ELSE [version |-> 1, vin |-> <<Spending(staked)>>,
          vout |-> <<EmptyOut>> \o payouts, lock_time |-> 0]

\* The octets of a height, least significant first, as the loop of
\* deterministic_coinbase pushes them.
HeightOctets(height) ==
    LET width == CHOOSE w \in 0 .. height : /\ height < Power(Octets, w)
                                            /\ \A v \in 0 .. w - 1 : height >= Power(Octets, v)
    IN  ToLe(height, width)

\* The coinbase's script: <height> as a signed number, then <1>.
CoinbaseScript(height) ==
    LET h == HeightOctets(height)
        signed == IF h # <<>> /\ 2 * Last(h) >= Octets THEN Append(h, 0) ELSE h
    IN  <<Len(signed)>> \o signed \o <<1, 1>>

\* deterministic_coinbase.
DeterministicCoinbase(height) ==
    [version |-> 1,
     vin |-> <<[prevout |-> [hash |-> ZeroHash, n |-> MaxU32],
                script_sig |-> CoinbaseScript(height), sequence |-> MaxU32]>>,
     vout |-> <<EmptyOut>>,
     lock_time |-> 0]

-----------------------------------------------------------------------------
(* What is signed.                                                         *)

SighashAll == 1

\* Mutant: the other inputs keep their scripts.
SignaturePreimage_KeepsScripts(tx, n, code, hashType) ==
    IF hashType # SighashAll \/ n \notin DOMAIN tx.vin THEN <<>>
    ELSE Serialize([tx EXCEPT !.vin[n].script_sig = code]) \o ToLe(hashType, W32)

\* signature_hash (of input n, counted from 1): what the signature covers, or
\* nothing for a refused hash type or input.
SignaturePreimage(tx, n, code, hashType) ==
    IF hashType # SighashAll \/ n \notin DOMAIN tx.vin THEN <<>>
    ELSE Serialize([tx EXCEPT !.vin = [i \in DOMAIN tx.vin |->
                        [tx.vin[i] EXCEPT !.script_sig = IF i = n THEN code ELSE <<>>]]])
         \o ToLe(hashType, W32)

\* BlockHeader::serialize.
HeaderBytes(h) ==
    ToLe(h.version, W32) \o h.prev_block \o h.merkle_root \o ToLe(h.time, W32)
        \o ToLe(h.bits, W32) \o ToLe(h.nonce, W32)
        \o (IF h.version > 3 THEN h.accumulator_checkpoint ELSE <<>>)

\* BlockHeader::hash: what is hashed, or nothing for a legacy version.
HeaderHash(h) == IF h.version < 4 THEN <<>> ELSE HeaderBytes(h)

\* The hash of two hashes, one after the other.  A hash stands for the txids that
\* it was made from, in their order.
MerkleNode(left, right) == left \o right

\* Mutant: an odd last hash is lost.
MerkleLevel_OddLost(level) ==
    [i \in 1 .. Len(level) \div 2 |-> MerkleNode(level[2 * i - 1], level[2 * i])]

\* One turn of merkle_root's loop: an odd last hash is paired with itself.
MerkleLevel(level) ==
    LET even == IF Len(level) % 2 = 1 THEN Append(level, Last(level)) ELSE level
    IN  [i \in 1 .. Len(even) \div 2 |-> MerkleNode(even[2 * i - 1], even[2 * i])]

\* merkle_root: levels until one has a single hash.  So many turns are enough.
MerkleRoot(txids) ==
    LET level[turn \in 0 .. Len(txids)] ==
            IF turn = 0 THEN [i \in DOMAIN txids |-> <<txids[i]>>]
            ELSE IF Len(level[turn - 1]) > 1 THEN MerkleLevel(level[turn - 1])
            ELSE level[turn - 1]
    IN  IF txids = <<>> THEN <<>> ELSE level[Len(txids)][1]

-----------------------------------------------------------------------------
(* Text.                                                                   *)

\* to_hex: two digits for an octet, the high one first.
ToHex(octets) ==
    [d \in 1 .. 2 * Len(octets) |->
        LET octet == octets[(d + 1) \div 2]
        IN  IF d % 2 = 1 THEN octet \div HexBase ELSE octet % HexBase]

\* from_hex: an odd number of digits is refused.
FromHex(digits) ==
    IF Len(digits) % 2 # 0 THEN Malformed
    ELSE [i \in 1 .. Len(digits) \div 2 |-> digits[2 * i - 1] * HexBase + digits[2 * i]]

\* display_hex of lovenode-core: the hash's octets are shown reversed.
DisplayHex(hash) == ToHex(Reverse(hash))

\* hash_from_display_hex of lovenode-core: octet i of the text is octet
\* HashLen + 1 - i of the hash.
HashFromDisplayHex(digits) ==
    IF Len(digits) # 2 * HashLen THEN Malformed
    ELSE [k \in 1 .. HashLen |->
             LET i == HashLen + 1 - k IN digits[2 * i - 1] * HexBase + digits[2 * i]]

\* The relay's own copy (engine.rs).
RelayDisplayHex(hash) == ToHex(Reverse(hash))

\* Mutant: the relay keeps the order of the text.
RelayHashFromDisplayHex_NotReversed(digits) ==
    IF Len(digits) # 2 * HashLen THEN Malformed ELSE FromHex(digits)

\* The relay's own copy (chain.rs).
RelayHashFromDisplayHex(digits) ==
    IF Len(digits) # 2 * HashLen THEN Malformed ELSE Reverse(FromHex(digits))

\* parse_modifier_hex (chain.rs): all the digits of a 64-bit number, the most
\* significant first.
ParseModifierHex(digits) ==
    IF Len(digits) # 2 * W64 THEN Malformed ELSE FromLe(Reverse(FromHex(digits)))
=============================================================================
