------------------------------- MODULE MCCore -------------------------------
(* The sequential algorithms of the crates, each against a reference over   *)
(* all inputs of a small size: the kernel check, the transaction parser on  *)
(* a faulty wire, the conversions of one input, the building of a payment,  *)
(* and the rate limiter on a clock.                                         *)
EXTENDS WinCheck, Wire, Formats, Send, RateLimiter

CONSTANTS MaxText, MaxBytes, Main, Test

coreVars == <<item, checkVars, wireVars, request, result, limiterVars>>

SeqsOf(S, n) == UNION {[1 .. k -> S] : k \in 0 .. n}

-----------------------------------------------------------------------------
(* The inputs.                                                             *)

\* Compact targets of every size up to an overflow of the four limbs.
MCBits == [size : {0, 2, 3, 4, 6, 9, 10, 11}, word : {1, 3}] \cup {[size |-> 4, word |-> 0]}

\* A payment of two inputs, as it is before it is signed.
Payment(vout) ==
    [version |-> 1, vin |-> <<Spending([hash |-> <<1, 2>>, n |-> 0]),
                              Spending([hash |-> <<2, 2>>, n |-> 3])>>,
     vout |-> vout, lock_time |-> 0]

MCTxs ==
    {DeterministicCoinbase(h) : h \in {0, 2, 21}}
      \cup {BuildCoinstake([hash |-> <<1, 2>>, n |-> 1], <<[value |-> 9, script_pubkey |-> s]>>) :
               s \in {<<1>>, <<3, 3, 0, 1>>}}
      \cup {Payment(<<[value |-> 4, script_pubkey |-> <<1, 2>>],
                      [value |-> 7, script_pubkey |-> <<2, 1>>]>>),
            Payment(<<[value |-> -1, script_pubkey |-> [i \in 1 .. 16 |-> i % 4]]>>),
            [version |-> -2, vin |-> <<>>, vout |-> <<>>, lock_time |-> 3]}

MCScriptOf == <<<<1, 2>>, <<2, 1>>>>
MCSigScripts == {<<3>>, <<1, 0, 2, 3>>}

MCHeaders == [version : {-1, 3, 4, 5}, prev_block : {<<0, 1>>, <<1, 0>>},
              merkle_root : {<<1, 1>>, <<0, 1>>}, time : {0, 5}, bits : {1, 5},
              nonce : {0, 1}, accumulator_checkpoint : {<<0, 0>>, <<0, 1>>}]
MCHeights == 0 .. Power(Octets, 3) \div 2 - 1
MCModifiers == 0 .. Power(Octets, W64) - 1

MCPubkeyVersion == Main :> 1 @@ Test :> 5
MCSecretVersion == Main :> 6 @@ Test :> 7
MCChecksum(body) == <<FoldSeq(LAMBDA b, sum : (3 * sum + b + 1) % AddrBytes, 0, body)>>
MCTexts == SeqsOf(Character, 2) \cup SeqsOf(0 .. Radix - 1, MaxText)
             \cup {<<Blank>> \o t \o <<Blank, Blank>> : t \in [1 .. MaxText - 1 -> 0 .. Radix - 1]}
MCByteStrings == SeqsOf(AddrByte, MaxBytes)

MCEntropyHash(entropy) ==
    FoldSeq(LAMBDA b, h : (5 * h + 3 * b + 1) % Pow2[PhraseBits], 1, entropy)
MCEntropies == [1 .. 4 -> PhraseBytes] \cup {e \in [1 .. 8 -> PhraseBytes] :
                   \A i \in 4 .. 8 : e[i] = e[i - 3] \/ i = 8}
MCPhrases == SeqsOf(Words \cup {NoWord}, 3)
               \cup {Append(w, v) : w \in {SubSeq(FromEntropy(e), 1, 5) :
                                              e \in {f \in MCEntropies : Len(f) = 8}},
                                    v \in Words}

\* Two seeds, and coins of either chain on plain and on hardened indices.
MCCoinType == Main :> 3 @@ Test :> 1
MCKeyHash(key) ==
    <<4 * key[1] + 2 * ((key[3].index \div 2) % 2) + key[5].index, key[6].index>>

CheckUnused == digest = Zero /\ asked = Unasked

WireUnused ==
    /\ tx = Nothing /\ signed = <<>> /\ wire = <<>> /\ stage = "unused"
    /\ cursor = 0 /\ left = 0 /\ parsed = Nothing

SendUnused == request = [amount |-> 0] /\ result = Refused("unused")

CoreInit ==
    \/ item = [kind |-> "check"] /\ CheckInit /\ WireUnused /\ SendUnused /\ LimiterInit
    \/ item = [kind |-> "tx"] /\ WireInit /\ CheckUnused /\ SendUnused /\ LimiterInit
    \/ item = [kind |-> "send"] /\ Init /\ CheckUnused /\ WireUnused /\ LimiterInit
    \/ item = [kind |-> "calls"] /\ LimiterInit /\ CheckUnused /\ WireUnused /\ SendUnused
    \/ FormatInit /\ CheckUnused /\ WireUnused /\ SendUnused /\ LimiterInit

CoreNext ==
    \/ item.kind = "check" /\ CheckNext /\ UNCHANGED <<item, wireVars, vars, limiterVars>>
    \/ item.kind = "tx" /\ WireNext /\ UNCHANGED <<item, checkVars, vars, limiterVars>>
    \/ item.kind = "send" /\ Next /\ UNCHANGED <<item, checkVars, wireVars, limiterVars>>
    \/ item.kind = "calls" /\ LimiterNext /\ UNCHANGED <<item, checkVars, wireVars, vars>>

CoreSpec == CoreInit /\ [][CoreNext]_coreVars
=============================================================================
