-------------------------------- MODULE Wire --------------------------------
(***************************************************************************)
(* One transaction on its way: signed input by input as build_payment of   *)
(* send.rs does, sent as hex, changed or not on the way, and read by       *)
(* Transaction::deserialize (tx.rs) through the cursor of serialize.rs.    *)
(* A read that fails ends the parse: its cursor is Failed.                 *)
(***************************************************************************)
EXTENDS Codec

CONSTANTS
    Txs,        \* transactions to send; those with empty scripts are signed first
    ScriptOf,   \* the script of the coin spent by input n
    SigScripts  \* what a signature may look like

SignedInts(width) ==
    {n \in Int : -Power(Octets, width) <= 2 * n /\ 2 * n < Power(Octets, width)}
UnsignedInts(width) == 0 .. Power(Octets, width) - 1

\* What a Vec can hold.
Vec(S) == {s \in Seq(S) : Len(s) < Power(Octets, UsizeOctets)}
Script == Vec(Octet)
TxIn == [prevout : [hash : [1 .. HashLen -> Octet], n : UnsignedInts(W32)],
         script_sig : Script, sequence : UnsignedInts(W32)]
TxOut == [value : SignedInts(W64), script_pubkey : Script]
Transaction ==
    [version : SignedInts(W32), vin : Vec(TxIn), vout : Vec(TxOut), lock_time : UnsignedInts(W32)]

ASSUME WireAssumption ==
    /\ Txs \subseteq Transaction /\ SigScripts \subseteq Script
    /\ ScriptOf \in Seq(Script \ {<<>>}) /\ ScriptOf # <<>>

VARIABLES
    tx,      \* the transaction that is sent
    signed,  \* what was signed for each input so far
    wire,    \* the octets that arrived
    stage,   \* what is read next, or "sign", "done", "failed"
    cursor,  \* Reader::pos
    left,    \* iterations the running loop has left
    parsed   \* the transaction as far as it was read

wireVars == <<tx, signed, wire, stage, cursor, left, parsed>>

Failed == -1
Nothing == [version |-> 0, vin |-> <<>>, vout |-> <<>>, lock_time |-> 0]

WireInit ==
    /\ tx \in Txs
    /\ signed = <<>> /\ wire = <<>> /\ stage = "sign" /\ cursor = 0 /\ left = 0
    /\ parsed = Nothing

\* is_unsigned.
IsUnsigned(t) == \A i \in DOMAIN t.vin : t.vin[i].script_sig = <<>>

Signing == signed # <<>> \/ IsUnsigned(tx)

\* One turn of the signing loop: sign_p2pkh_input signs the transaction with the
\* scripts of the inputs before it already filled in.
SignInput ==
    /\ stage = "sign" /\ Signing /\ Len(signed) < Len(tx.vin)
    /\ LET n == Len(signed) + 1
       IN  /\ signed' = Append(signed, SignaturePreimage(tx, n, ScriptOf[n], SighashAll))
           /\ \E script \in SigScripts : tx' = [tx EXCEPT !.vin[n].script_sig = script]
    /\ UNCHANGED <<wire, stage, cursor, left, parsed>>

-----------------------------------------------------------------------------
(* The way: an untrusted relay passes the hex on.                          *)

Cut(text) == {SubSeq(text, 1, k) : k \in 0 .. Len(text) - 1}
Longer(text) == {text \o more : more \in {<<0>>, <<0, 0>>, <<1, 1>>}}
Flipped(text) == {[text EXCEPT ![k] = (text[k] + 1) % HexBase] : k \in DOMAIN text}
Dropped(text) == {SubSeq(text, 1, k - 1) \o SubSeq(text, k + 2, Len(text)) :
                     k \in 1 .. Len(text) - 1}

\* Every way to write a length.
Forms(n) ==
    (IF n < Mark16 THEN {<<n>>} ELSE {})
        \cup (IF n < Power(Octets, W16) THEN {<<Mark16>> \o ToLe(n, W16)} ELSE {})
        \cup (IF n < Power(Octets, W32) THEN {<<Mark32>> \o ToLe(n, W32)} ELSE {})
        \cup {<<Mark64>> \o ToLe(n, W64)}

\* The fields of a transaction in their order on the wire, lengths as numbers.
Bytes(octets) == [bytes |-> octets, length |-> FALSE]
Size(n) == [bytes |-> WriteCompactSize(n), length |-> TRUE, n |-> n]
InFields(i) ==
    <<Bytes(i.prevout.hash), Bytes(ToLe(i.prevout.n, W32)),
      Size(Len(i.script_sig)), Bytes(i.script_sig), Bytes(ToLe(i.sequence, W32))>>
OutFields(o) ==
    <<Bytes(ToLe(o.value, W64)), Size(Len(o.script_pubkey)), Bytes(o.script_pubkey)>>
Fields(t) ==
    <<Bytes(ToLe(t.version, W32)), Size(Len(t.vin))>>
        \o FlattenSeq([i \in DOMAIN t.vin |-> InFields(t.vin[i])])
        \o <<Size(Len(t.vout))>>
        \o FlattenSeq([i \in DOMAIN t.vout |-> OutFields(t.vout[i])])
        \o <<Bytes(ToLe(t.lock_time, W32))>>

\* One length written in another form, or as a larger number that ends in the
\* same octets.
Reframed(t) ==
    LET fields == Fields(t)
        Write(i, form) ==
            ToHex(FlattenSeq([j \in DOMAIN fields |->
                                 IF j = i THEN form ELSE fields[j].bytes]))
        Larger(n) == {n + k * Power(Octets, UsizeOctets) :
                         k \in 0 .. Power(Octets, W64 - UsizeOctets) - 1}
    IN  UNION {{Write(i, form) : form \in UNION {Forms(n) : n \in Larger(fields[i].n)}} :
                  i \in {j \in DOMAIN fields : fields[j].length}}

\* from_hex on what arrived, and the start of deserialize.  The length of a Vec
\* fits a usize.
Deliver ==
    /\ stage = "sign" /\ (Signing => Len(signed) = Len(tx.vin))
    /\ LET sent == ToHex(Serialize(tx))
       IN  \E text \in {sent} \cup Cut(sent) \cup Longer(sent) \cup Flipped(sent)
                              \cup Dropped(sent) \cup Reframed(tx) :
              LET octets == FromHex(text)
              IN  IF octets = Malformed
                  THEN stage' = "failed" /\ UNCHANGED wire
                  ELSE /\ Len(octets) < Power(Octets, UsizeOctets)
                       /\ stage' = "version" /\ wire' = octets
    /\ UNCHANGED <<tx, signed, cursor, left, parsed>>

-----------------------------------------------------------------------------
(* The cursor.                                                             *)

\* Reader::take.
Take(data, at, n) ==
    IF at = Failed \/ Len(data) - at < n THEN [at |-> Failed, got |-> <<>>]
    ELSE [at |-> at + n, got |-> SubSeq(data, at + 1, at + n)]

\* read_u32, read_compact_size's numbers.
ReadUnsigned(data, at, width) ==
    LET t == Take(data, at, width) IN [at |-> t.at, got |-> FromLe(t.got)]

\* read_i32, read_i64.
ReadSigned(data, at, width) ==
    LET t == Take(data, at, width) IN [at |-> t.at, got |-> FromLeSigned(t.got)]

\* read_compact_size.
ReadCompactSize(data, at) ==
    LET first == Take(data, at, 1)
    IN  IF first.at = Failed THEN [at |-> Failed, got |-> 0]
        ELSE CASE first.got = <<Mark64>> -> ReadUnsigned(data, first.at, W64)
               [] first.got = <<Mark32>> -> ReadUnsigned(data, first.at, W32)
               [] first.got = <<Mark16>> -> ReadUnsigned(data, first.at, W16)
               [] OTHER -> [at |-> first.at, got |-> first.got[1]]

\* Mutant: the length is cut to a usize before it is compared.
ReadVarBytes_Truncates(data, at) ==
    LET len == ReadCompactSize(data, at)
        usize == len.got % Power(Octets, UsizeOctets)
    IN  IF len.at # Failed /\ usize > Len(data) - len.at
        THEN [at |-> Failed, got |-> <<>>]
        ELSE Take(data, len.at, usize)

\* read_var_bytes: compared in 64 bits, then taken as a usize.
ReadVarBytes(data, at) ==
    LET len == ReadCompactSize(data, at)
    IN  IF len.at # Failed /\ len.got > Len(data) - len.at
        THEN [at |-> Failed, got |-> <<>>]
        ELSE Take(data, len.at, len.got % Power(Octets, UsizeOctets))

\* One input, as the first loop of deserialize reads it.
ReadTxIn(data, at) ==
    LET hash == Take(data, at, HashLen)
        n == ReadUnsigned(data, hash.at, W32)
        script == ReadVarBytes(data, n.at)
        sequence == ReadUnsigned(data, script.at, W32)
    IN  [at |-> sequence.at,
         got |-> [prevout |-> [hash |-> hash.got, n |-> n.got],
                  script_sig |-> script.got, sequence |-> sequence.got]]

\* One output, as the second loop reads it.
ReadTxOut(data, at) ==
    LET value == ReadSigned(data, at, W64)
        script == ReadVarBytes(data, value.at)
    IN  [at |-> script.at, got |-> [value |-> value.got, script_pubkey |-> script.got]]

-----------------------------------------------------------------------------
(* Transaction::deserialize.                                               *)

\* Where the parse stands after a read that ended at `at`.
Go(at, next, done) ==
    /\ IF at = Failed THEN stage' = "failed" /\ UNCHANGED <<cursor, parsed>>
       ELSE stage' = next /\ cursor' = at /\ parsed' = done
    /\ UNCHANGED <<tx, signed, wire>>

ReadVersion ==
    /\ stage = "version"
    /\ LET v == ReadSigned(wire, cursor, W32)
       IN  Go(v.at, "vin_count", [parsed EXCEPT !.version = v.got])
    /\ UNCHANGED left

ReadVinCount ==
    /\ stage = "vin_count"
    /\ LET count == ReadCompactSize(wire, cursor)
       IN  /\ Go(count.at, IF count.got = 0 THEN "vout_count" ELSE "vin", parsed)
           /\ left' = count.got

ReadInput ==
    /\ stage = "vin"
    /\ LET input == ReadTxIn(wire, cursor)
       IN  Go(input.at, IF left = 1 THEN "vout_count" ELSE "vin",
              [parsed EXCEPT !.vin = Append(@, input.got)])
    /\ left' = left - 1

ReadVoutCount ==
    /\ stage = "vout_count"
    /\ LET count == ReadCompactSize(wire, cursor)
       IN  /\ Go(count.at, IF count.got = 0 THEN "lock_time" ELSE "vout", parsed)
           /\ left' = count.got

ReadOutput ==
    /\ stage = "vout"
    /\ LET output == ReadTxOut(wire, cursor)
       IN  Go(output.at, IF left = 1 THEN "lock_time" ELSE "vout",
              [parsed EXCEPT !.vout = Append(@, output.got)])
    /\ left' = left - 1

\* The last field; octets after it are an error.
ReadLockTime ==
    /\ stage = "lock_time"
    /\ LET lock == ReadUnsigned(wire, cursor, W32)
       IN  Go(IF lock.at = Len(wire) THEN lock.at ELSE Failed, "done",
              [parsed EXCEPT !.lock_time = lock.got])
    /\ UNCHANGED left

WireNext ==
    \/ SignInput \/ Deliver
    \/ ReadVersion \/ ReadVinCount \/ ReadInput
    \/ ReadVoutCount \/ ReadOutput \/ ReadLockTime

WireSpec == WireInit /\ [][WireNext]_wireVars

-----------------------------------------------------------------------------
(* Properties.                                                             *)

\* A transaction that is delivered as it was sent is accepted and read back
\* field by field, whatever form its lengths take (serialize/deserialize).
RoundTrip ==
    stage # "sign" /\ wire = Serialize(tx) =>
        /\ stage # "failed"
        /\ stage = "done" => parsed = tx

\* The octets that a field can be written as.
Spellings(field) == IF field.length THEN Forms(field.n) ELSE {field.bytes}

\* What is accepted is exactly what was read: every octet of the wire belongs to
\* a field of the result, in order, each length in one of its four forms.  A
\* length beyond a usize never stands for a shorter one.
AcceptedIsEncoding ==
    stage = "done" =>
        LET fields == Fields(parsed)
            Here(start, field) ==
                {f \in Spellings(field) : /\ start + Len(f) <= Len(wire)
                                         /\ f = SubSeq(wire, start + 1, start + Len(f))}
            ends[i \in 0 .. Len(fields)] == \* where the first i fields can end
                IF i = 0 THEN {0}
                ELSE UNION {{start + Len(f) : f \in Here(start, fields[i])} :
                               start \in ends[i - 1]}
        IN  Len(wire) \in ends[Len(fields)]

\* However many inputs and outputs the counts announce, the reader holds no more
\* than the octets it has consumed can carry, and stays inside the wire.
CountBounded ==
    /\ cursor <= Len(wire)
    /\ parsed # Nothing =>
          W32 + Len(parsed.vin) * (HashLen + 2 * W32 + 1) + Len(parsed.vout) * (W64 + 1)
              <= cursor

\* Transaction::deserialize accepts the serialization of every transaction, and of
\* what arrives cut, lengthened, flipped or reframed only what encodes the result,
\* without ever holding more than it has read.
ParserExact == RoundTrip /\ AcceptedIsEncoding /\ CountBounded

\* A signature made early in the loop still covers the finished transaction:
\* filling in the scripts of the other inputs changes nothing that it signed.
SighashStable ==
    \A n \in DOMAIN signed : signed[n] = SignaturePreimage(tx, n, ScriptOf[n], SighashAll)

\* Without its scripts.
Unsigned(t) == [t EXCEPT !.vin = [i \in DOMAIN t.vin |-> [t.vin[i] EXCEPT !.script_sig = <<>>]]]

\* A signature covers one input of one transaction: no transaction with another
\* input, output, sequence or lock time, and no other input of the same one, has
\* the same signature hash.
SighashCommits ==
    stage = "done" =>
        \A i \in DOMAIN tx.vin, j \in DOMAIN parsed.vin :
            SignaturePreimage(tx, i, ScriptOf[1], SighashAll)
                  = SignaturePreimage(parsed, j, ScriptOf[1], SighashAll)
                => i = j /\ Unsigned(tx) = Unsigned(parsed)
\* signature_hash: the signatures of the finished transaction are valid in whatever
\* order they were made, and valid for nothing else.
SighashExact == SighashStable /\ SighashCommits
=============================================================================
