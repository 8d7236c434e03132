------------------------------- MODULE Phrase -------------------------------
(***************************************************************************)
(* The recovery phrase of lovenode-hdwallet/src/bip39.rs: entropy bytes,   *)
(* then a checksum bit for every UnitBits of them, read as words of        *)
(* WordBits bits.  A word is its place in the list, or NoWord.             *)
(***************************************************************************)
EXTENDS Powers, SequencesExt

CONSTANTS
    PhraseBits,      \* bits of a byte (8)
    UnitBits,        \* bits of entropy that have one checksum bit (32)
    WordBits,        \* bits of a word's place in the list (11)
    WordCounts,      \* the lengths a phrase may have (12 .. 24 by 3)
    EntropyHash(_),  \* the first byte of the entropy's SHA-256
    Invalid          \* Err(_)

PhraseBytes == 0 .. Pow2[PhraseBits] - 1
Words == 0 .. Pow2[WordBits] - 1
NoWord == Pow2[WordBits]

\* The bits of entropy that a phrase of so many words has, and their bytes.
EntropyBits(count) == (count * WordBits * UnitBits) \div (UnitBits + 1)
EntropySizes == {EntropyBits(count) \div PhraseBits : count \in WordCounts}
Entropy == UNION {[1 .. n -> PhraseBytes] : n \in EntropySizes}

\* Whole units make whole words, and one byte of hash has all their checksum bits.
ASSUME PhraseAssumption ==
    /\ {PhraseBits, UnitBits, WordBits} \subseteq Nat \ {0} /\ WordCounts \subseteq Nat
    /\ UnitBits % PhraseBits = 0 /\ WordBits <= UnitBits + 1
    /\ \A count \in WordCounts : /\ (count * WordBits) % (UnitBits + 1) = 0
                                 /\ (count * WordBits) \div (UnitBits + 1) <= PhraseBits
    /\ \A entropy \in Entropy : EntropyHash(entropy) \in PhraseBytes
    /\ Invalid \notin Seq(Words)

\* (x >> (width - 1 - n % width)) & 1 of the number that bit n of a sequence is in,
\* with n counted from 0.
BitOf(numbers, width, n) ==
    (numbers[n \div width + 1] \div Pow2[width - 1 - (n % width)]) % 2

\* A number from its bits, most significant first.
FromBits(bits) ==
    LET number[i \in 0 .. Len(bits)] == IF i = 0 THEN 0 ELSE 2 * number[i - 1] + bits[i]
    IN  number[Len(bits)]

\* The numbers of so many bits that a string of bits, counted from 0, spells.
Regroup(bits, width, count) ==
    [g \in 1 .. count |-> FromBits([b \in 1 .. width |-> bits[(g - 1) * width + b - 1]])]

\* The bits of so many numbers, in order.
BitsOf(numbers, width) ==
    [n \in 0 .. Len(numbers) * width - 1 |-> BitOf(numbers, width, n)]

ChecksumBit(entropy, i) == BitOf(<<EntropyHash(entropy)>>, PhraseBits, i)

\* Mnemonic::from_entropy.
FromEntropy(entropy) ==
    LET ent == Len(entropy) * PhraseBits
        total == ent + ent \div UnitBits
        bits == [n \in 0 .. total - 1 |-> IF n < ent THEN BitOf(entropy, PhraseBits, n)
                                          ELSE ChecksumBit(entropy, n - ent)]
    IN  IF total \div WordBits \notin WordCounts \/ ent % UnitBits # 0 THEN Invalid
        ELSE Regroup(bits, WordBits, total \div WordBits)

\* The entropy that parse reassembles.
EntropyOf(words) ==
    Regroup(BitsOf(words, WordBits), PhraseBits, EntropyBits(Len(words)) \div PhraseBits)

\* The checksum bits of a phrase that parse compares.
ChecksumSize(count) == EntropyBits(count) \div UnitBits

ChecksumMatches(words, i) ==
    BitOf(words, WordBits, EntropyBits(Len(words)) + i) = ChecksumBit(EntropyOf(words), i)

\* Mutant: the last checksum bit is not compared.
Parses_LastBitFree(words) ==
    /\ Len(words) \in WordCounts /\ ~Contains(words, NoWord)
    /\ \A i \in 0 .. ChecksumSize(Len(words)) - 2 : ChecksumMatches(words, i)

\* Mnemonic::parse accepts: known words, and the checksum of the entropy that
\* they spell.
Parses(words) ==
    /\ Len(words) \in WordCounts /\ ~Contains(words, NoWord)
    /\ \A i \in 0 .. ChecksumSize(Len(words)) - 1 : ChecksumMatches(words, i)
=============================================================================
