------------------------------ MODULE Addresses ------------------------------
(***************************************************************************)
(* Addresses and keys as text: base58, base58check and WIF of              *)
(* lovenode-sign/src/wallet.rs, and the two readers of an address, the     *)
(* phone's dest_script (send.rs) and the relay's address_script            *)
(* (payments.rs).  A character is its place in the alphabet, white space   *)
(* (Blank) or any other (Alien); a byte has AddrBytes values, the alphabet *)
(* Radix characters.                                                       *)
(***************************************************************************)
EXTENDS Integers, SequencesExt

CONSTANTS
    AddrBytes,       \* values of a byte (256)
    Radix,           \* characters of the alphabet (58)
    SecretLen,       \* bytes of a secret key (32)
    KeyHashLen,      \* bytes of a key hash (20)
    PubkeyVersion,   \* pubkey_version, by network
    SecretVersion,   \* secret_version, by network
    CheckLen,        \* bytes of a checksum (4)
    Checksum(_),     \* the first bytes of a body's double SHA-256
    Rejected         \* Err(_) of a conversion

AddrNetworks == DOMAIN PubkeyVersion
Alien == Radix
Blank == Radix + 1
Character == 0 .. Blank
AddrByte == 0 .. AddrBytes - 1

ASSUME AddressAssumption ==
    /\ {Radix, AddrBytes} \subseteq Nat \ {0, 1} /\ {SecretLen, KeyHashLen, CheckLen} \subseteq Nat
    /\ DOMAIN SecretVersion = AddrNetworks
    /\ \A n, m \in AddrNetworks :
          /\ n # m => PubkeyVersion[n] # PubkeyVersion[m] /\ SecretVersion[n] # SecretVersion[m]
          /\ PubkeyVersion[n] # SecretVersion[m]
          /\ PubkeyVersion[n] \in AddrByte /\ SecretVersion[n] \in AddrByte
    /\ \A body \in [1 .. KeyHashLen + 1 -> AddrByte] : Checksum(body) \in [1 .. CheckLen -> AddrByte]
    /\ Rejected \notin Seq(AddrByte) \cup [version : AddrByte, payload : Seq(AddrByte)]

\* The turns that a loop over so many digits makes until its carry is used up.
UsedUp(carry, digits) ==
    CHOOSE n \in digits .. digits + carry[digits] :
        carry[n] = 0 /\ \A k \in digits .. n - 1 : carry[k] # 0

\* One turn of either loop: a number in base `base`, least digit first, times
\* `factor` plus `digit`.  The carry runs through the digits, and what is left of
\* it is pushed digit by digit.
MulAdd(digits, factor, digit, base) ==
    LET term(i) == IF i \in DOMAIN digits THEN digits[i] * factor ELSE 0
        carry[i \in Nat] == IF i = 0 THEN digit ELSE (carry[i - 1] + term(i)) \div base
    IN  [i \in 1 .. UsedUp(carry, Len(digits)) |-> (carry[i - 1] + term(i)) % base]

\* The number that s spells in base `from`, most significant digit first, in base
\* `to`, least digit first.
Convert(s, from, to) ==
    LET digits[i \in 0 .. Len(s)] ==
            IF i = 0 THEN <<>> ELSE MulAdd(digits[i - 1], from, s[i], to)
    IN  digits[Len(s)]

LeadingZeros(s) ==
    CHOOSE z \in 0 .. Len(s) : /\ \A i \in 1 .. z : s[i] = 0
                               /\ z < Len(s) => s[z + 1] # 0

\* Leading zeros are written one for one, the rest as one number.
Rebase(s, from, to) ==
    [i \in 1 .. LeadingZeros(s) |-> 0] \o Reverse(Convert(s, from, to))

\* base58_encode.
Base58Encode(bytes) == Rebase(bytes, AddrBytes, Radix)

\* base58_decode.
Base58Decode(text) ==
    IF Contains(text, Alien) \/ Contains(text, Blank) THEN Rejected ELSE Rebase(text, Radix, AddrBytes)

\* base58check_encode.
Base58CheckEncode(version, payload) ==
    LET data == <<version>> \o payload IN Base58Encode(data \o Checksum(data))

\* base58check_decode.
Base58CheckDecode(text) ==
    LET data == Base58Decode(text)
        body == SubSeq(data, 1, Len(data) - CheckLen)
    IN  IF data = Rejected THEN Rejected
        ELSE IF Len(data) <= CheckLen THEN Rejected
        ELSE IF SubSeq(data, Len(data) - CheckLen + 1, Len(data)) # Checksum(body) THEN Rejected
        ELSE [version |-> body[1], payload |-> Tail(body)]

\* str::trim, which every reader of a key or an address calls first.
Trim(text) ==
    LET ink == {i \in DOMAIN text : text[i] # Blank}
    IN  IF ink = {} THEN <<>> ELSE SubSeq(text, Min(ink), Max(ink))

\* SecretKey::from_slice: not every byte string is a key.
ValidSecret(secret) == Len(secret) = SecretLen /\ \E i \in DOMAIN secret : secret[i] # 0

\* to_wif.
ToWif(secret, compressed, network) ==
    Base58CheckEncode(SecretVersion[network],
                      IF compressed THEN Append(secret, 1) ELSE secret)

\* Mutant: the compression flag is not read.
FromWif_AnyFlag(text) ==
    LET d == Base58CheckDecode(Trim(text))
    IN  IF d = Rejected THEN Rejected
        ELSE LET networks == {n \in AddrNetworks : SecretVersion[n] = d.version}
                 compressed == Len(d.payload) = SecretLen + 1
                 secret == SubSeq(d.payload, 1, SecretLen)
             IN  IF networks = {} \/ ~(compressed \/ Len(d.payload) = SecretLen)
                    \/ ~ValidSecret(secret)
                 THEN Rejected
                 ELSE [secret |-> secret, compressed |-> compressed,
                       network |-> CHOOSE n \in networks : TRUE]

\* from_wif: a key of its own length, or one more byte that must be 1.
FromWif(text) ==
    LET d == Base58CheckDecode(Trim(text))
    IN  IF d = Rejected THEN Rejected
        ELSE LET networks == {n \in AddrNetworks : SecretVersion[n] = d.version}
                 compressed == Len(d.payload) = SecretLen + 1 /\ Last(d.payload) = 1
                 secret == SubSeq(d.payload, 1, SecretLen)
             IN  IF networks = {} \/ ~(compressed \/ Len(d.payload) = SecretLen)
                    \/ ~ValidSecret(secret)
                 THEN Rejected
                 ELSE [secret |-> secret, compressed |-> compressed,
                       network |-> CHOOSE n \in networks : TRUE]

\* address_for_hash160.
AddressFor(keyHash, network) == Base58CheckEncode(PubkeyVersion[network], keyHash)

\* p2pkh_script, as the key hash it pays.
PayToKeyHash(keyHash) == [pays |-> keyHash]

\* dest_script: where a payment to an address goes.
DestScript(text, network) ==
    LET d == Base58CheckDecode(Trim(text))
    IN  IF d = Rejected THEN Rejected
        ELSE IF d.version # PubkeyVersion[network] THEN Rejected
        ELSE IF Len(d.payload) # KeyHashLen THEN Rejected
        ELSE PayToKeyHash(d.payload)

\* address_script: which outputs the relay counts as paid to an address.
AddressScript(text, network) ==
    LET d == Base58CheckDecode(Trim(text))
    IN  IF d = Rejected THEN Rejected
        ELSE IF d.version # PubkeyVersion[network] \/ Len(d.payload) # KeyHashLen
        THEN Rejected
        ELSE PayToKeyHash(d.payload)
=============================================================================
