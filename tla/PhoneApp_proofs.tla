--------------------------- MODULE PhoneApp_proofs ---------------------------
(***************************************************************************)
(* The wallet on the phone, for every set of seeds and clients and any     *)
(* number of faults.  KeyInv says what each step of a command implies      *)
(* about the files; it holds at every point where the process may die.     *)
(*                                                                         *)
(* After it, what a wallet is shown and entered as: phrases, keys and      *)
(* addresses as text, for every radix, width and checksum.  Both loops of  *)
(* base58 are one conversion, and a spelling (leading zeros and a number)  *)
(* is what both sides of it share.                                         *)
(***************************************************************************)
EXTENDS PhoneApp, Formats, DataLemmas

\* What the step of the command in progress implies about the store.
StepInv ==
    /\ step \in {"store", "open", "write", "derive", "cached"} => subject \in AllSeeds
    /\ step = "store" => secret = Absent
    /\ step = "open" => backend = "secure" /\ secret = Absent /\ wrapped
    /\ step = "write" => backend = "secure" /\ secret = Torn /\ wrapped
    /\ step \in {"derive", "cached"} => secret = subject
    /\ step \in {"forget", "destroy"} => backend = "secure" /\ (secret = Absent \/ kept)

\* Whose addresses are cached: nobody's or the stored seed's, except while a
\* wipe is between its two files, or once one left the second file behind.
CacheInv == cut \/ (step = "forget" /\ secret = Absent) \/ cached \in {Absent, secret}

\* Who knows the phrase of the stored seed, or of the one about to be stored.
PhraseInv ==
    /\ step \in {"store", "open", "write"} => busy = "create" \/ subject \in noted \cup spoiled
    /\ secret \in AllSeeds =>
          \/ secret \in noted \cup spoiled \/ shown = secret
          \/ step \in {"derive", "cached"} /\ busy = "create"
    /\ screen = "created" => shown \in AllSeeds

KeyInv == KeyTypeOK /\ StepInv /\ CacheInv /\ PhraseInv /\ WholeIsReadable

\* The seeds are told apart from an absent and a torn file.
LEMMA Sentinels == Absent \notin AllSeeds /\ Torn \notin AllSeeds /\ Absent # Torn
  BY KeyStoreAssumption DEF AllSeeds

LEMMA KeyInvInit == KeyInit => KeyInv
<1> SUFFICES ASSUME KeyInit PROVE KeyInv
  OBVIOUS
<1>1. KeyTypeOK
  <2>1. wrapped \in BOOLEAN /\ cut \in BOOLEAN /\ kept \in BOOLEAN
    BY Zenon DEF KeyInit
  <2>2. faults \in 0..MaxFaults
    BY KeyStoreAssumption DEF KeyInit
  <2>3. /\ secret \in Stored /\ step \in Steps /\ screen \in Screens
        /\ busy \in {"none", "create", "restore"}
        /\ noted \subseteq AllSeeds /\ spoiled \subseteq AllSeeds /\ unused \subseteq Seeds
    BY Zenon DEF KeyInit, Stored, AllSeeds, Screens, Steps
  <2> QED
    BY <2>1, <2>2, <2>3, Zenon DEF KeyInit, KeyTypeOK
<1>2. StepInv /\ CacheInv /\ PhraseInv /\ WholeIsReadable
  BY Sentinels DEF KeyInit, StepInv, CacheInv, PhraseInv, WholeIsReadable
<1> QED
  BY <1>1, <1>2 DEF KeyInv

LEMMA KeyInvUnchanged == KeyInv /\ UNCHANGED keyVars => KeyInv'
  BY DEF KeyInv, KeyTypeOK, StepInv, CacheInv, PhraseInv, WholeIsReadable,
         keyVars, storeVars, uiVars, historyVars

\* Each step of setup, restore and wipe, each failure and a reload.
LEMMA KeyInvNext == KeyInv /\ KeyNext => KeyInv'
<1> SUFFICES ASSUME KeyInv, KeyNext PROVE KeyInv'
  OBVIOUS
<1> USE Sentinels DEF KeyInv, KeyTypeOK, StepInv, CacheInv, PhraseInv, WholeIsReadable,
                      Stored, Screens, Steps, storeVars, uiVars, historyVars
<1>1. CASE Boot
  BY <1>1 DEF Boot
<1>2. CASE Switch
  BY <1>2 DEF Switch
<1>3. CASE CreateWallet
  BY <1>3 DEF CreateWallet, HasWallet, AllSeeds
<1>4. CASE \E s \in AllSeeds : RestoreWallet(s)
  BY <1>4 DEF RestoreWallet, HasWallet
<1>5. CASE StoreSeed
  BY <1>5, ZenonT(30) DEF StoreSeed
<1>6. CASE StoreFails
  BY <1>6, KeyStoreAssumption DEF StoreFails
<1>7. CASE WriteSeed
  BY <1>7 DEF WriteSeed
<1>8. CASE CacheAddresses
  BY <1>8 DEF CacheAddresses
<1>9. CASE DeriveFails
  BY <1>9, KeyStoreAssumption DEF DeriveFails
<1>10. CASE Answer
  BY <1>10 DEF Answer
<1>11. CASE NotePhrase
  BY <1>11 DEF NotePhrase
<1>12. CASE Wipe
  BY <1>12 DEF Wipe, HasWallet
<1>13. CASE WipeRest
  <2>1. CASE step = "forget"
    <3>1. /\ cached' = Absent /\ step' = "destroy"
          /\ UNCHANGED <<backend, secret, wrapped, subject, unused, screen, busy, shown, noted>>
          /\ UNCHANGED <<faults, spoiled, cut, kept>>
      BY <1>13, <2>1 DEF WipeRest
    <3>2. KeyTypeOK' /\ StepInv' /\ CacheInv'
      BY <2>1, <3>1
    <3>3. PhraseInv' /\ WholeIsReadable'
      BY <2>1, <3>1
    <3> QED
      BY <3>2, <3>3
  <2>2. CASE step = "destroy"
    <3>1. /\ wrapped' = FALSE /\ step' = "idle"
          /\ UNCHANGED <<backend, secret, cached, subject, unused, screen, busy, shown, noted>>
          /\ UNCHANGED <<faults, spoiled, cut, kept>>
      BY <1>13, <2>2 DEF WipeRest
    <3>2. KeyTypeOK' /\ StepInv' /\ CacheInv'
      BY <2>2, <3>1
    <3>3. PhraseInv' /\ WholeIsReadable'
      BY <2>2, <3>1
    <3> QED
      BY <3>2, <3>3
  <2> QED
    BY <1>13, <2>1, <2>2 DEF WipeRest
<1>14. CASE Reload
  BY <1>14, KeyStoreAssumption DEF Reload, Unseen
<1>15. CASE BootFails
  BY <1>15, KeyStoreAssumption DEF BootFails
<1>16. CASE CacheFails
  BY <1>16, KeyStoreAssumption DEF CacheFails
<1>17. CASE DeleteFails
  <2>1. /\ step' \in {"forget", "destroy", "idle"} /\ UNCHANGED <<storeVars, subject, unused, uiVars>>
        /\ UNCHANGED <<noted, spoiled>>
    BY <1>17 DEF DeleteFails
  <2>2. /\ faults' \in 0..MaxFaults /\ kept' \in BOOLEAN /\ cut' \in BOOLEAN
        /\ kept => kept'
    <3>1. faults' \in 0..MaxFaults
      BY <1>17, KeyStoreAssumption DEF DeleteFails
    <3>2. kept' \in BOOLEAN /\ cut' \in BOOLEAN
      <4>1. kept \in BOOLEAN /\ cut \in BOOLEAN
        OBVIOUS
      <4>2. (kept' = TRUE \/ kept' = kept) /\ (cut' = TRUE \/ cut' = cut)
        BY <1>17, Zenon DEF DeleteFails
      <4> QED
        BY <4>1, <4>2, Zenon
    <3>3. kept => kept'
      BY <1>17 DEF DeleteFails
    <3> QED
      BY <3>1, <3>2, <3>3
  <2>3. StepInv'
    BY <1>17, <2>1 DEF DeleteFails
  <2>4. CacheInv'
    BY <1>17, <2>1 DEF DeleteFails
  <2>5. KeyTypeOK'
    BY <2>1, <2>2
  <2>6. PhraseInv' /\ WholeIsReadable'
    BY <1>17, <2>1, <2>2 DEF DeleteFails
  <2> QED
    BY <2>3, <2>4, <2>5, <2>6
<1> QED
  BY <1>1, <1>2, <1>3, <1>4, <1>5, <1>6, <1>7, <1>8, <1>9, <1>10, <1>11, <1>12, <1>13,
     <1>14, <1>15, <1>16, <1>17 DEF KeyNext

\* The process may die at any step.
LEMMA KeyInvCrash == KeyInv /\ CrashStore => KeyInv'
<1> SUFFICES ASSUME KeyInv, CrashStore PROVE KeyInv'
  OBVIOUS
<1>1. (cut \/ step = "forget") \in BOOLEAN
  OBVIOUS
<1>2. KeyTypeOK'
  <2>1. cut' \in BOOLEAN
    BY <1>1 DEF CrashStore
  <2> QED
    BY <2>1, KeyStoreAssumption
    DEF KeyInv, KeyTypeOK, Stored, Screens, Steps, CrashStore, Unseen
<1>3. StepInv' /\ WholeIsReadable'
  BY DEF KeyInv, StepInv, WholeIsReadable, CrashStore
<1>4. CacheInv'
  <2>1. CASE cut \/ step = "forget"
    BY <2>1 DEF CacheInv, CrashStore
  <2>2. CASE cached \in {Absent, secret}
    BY <2>2 DEF CacheInv, CrashStore
  <2> QED
    BY <2>1, <2>2 DEF KeyInv, CacheInv
<1>5. PhraseInv'
  BY Sentinels DEF KeyInv, KeyTypeOK, Stored, StepInv, PhraseInv, CrashStore, Unseen
<1> QED
  BY <1>2, <1>3, <1>4, <1>5 DEF KeyInv

-----------------------------------------------------------------------------
(* The app around it.                                                      *)

AppTypeOK ==
    /\ relay \in Urls
    /\ stop \in BOOLEAN /\ connected \in BOOLEAN
    /\ polled \in BOOLEAN /\ tapped \in BOOLEAN
    /\ launches \in 0..1
    /\ task \in [Tasks -> TaskRecords]

LEMMA IdleTask ==
    Idle \in TaskRecords /\ [k \in Tasks |-> Idle] \in [Tasks -> TaskRecords] /\ 0 \in 0..1
  BY DEF Idle, TaskRecords, Phases

AppInv == KeyInv /\ AppTypeOK /\ WatchesOwnAddresses

LEMMA AppInvInit == Init => AppInv
<1> SUFFICES ASSUME Init PROVE AppInv
  OBVIOUS
<1>1. KeyInv
  BY KeyInvInit DEF Init
<1>2. AppTypeOK
  BY IdleTask, Zenon DEF Init, AppTypeOK
<1>3. WatchesOwnAddresses
  BY DEF Init, WatchesOwnAddresses, Live, Idle
<1> QED
  BY <1>1, <1>2, <1>3 DEF AppInv

LEMMA AppInvNext == AppInv /\ [Next]_vars => AppInv'
<1> SUFFICES ASSUME AppInv, [Next]_vars PROVE AppInv'
  OBVIOUS
<1> USE DEF AppInv
<1>1. CASE Wallet
  <2>1. KeyInv'
    BY <1>1, KeyInvNext DEF Wallet
  <2>2. AppTypeOK'
    BY <1>1 DEF Wallet, AppTypeOK
  <2>3. (cut => cut') /\ task' = task
    BY <1>1 DEF Wallet, KeyNext, Boot, BootFails, Switch, CreateWallet, RestoreWallet, StoreSeed,
       StoreFails, WriteSeed, CacheAddresses, CacheFails, DeriveFails, Answer, NotePhrase, Wipe,
       WipeRest, DeleteFails, Reload, historyVars
  <2>4. WatchesOwnAddresses'
    BY <2>3 DEF WatchesOwnAddresses, Live
  <2> QED
    BY <2>1, <2>2, <2>4
<1>2. CASE Crash
  <2>1. KeyInv'
    BY <1>2, KeyInvCrash DEF Crash
  <2>2. AppTypeOK'
    BY <1>2, IdleTask, Zenon DEF Crash, AppTypeOK
  <2>3. WatchesOwnAddresses'
    BY <1>2 DEF Crash, WatchesOwnAddresses, Live, Idle
  <2> QED
    BY <2>1, <2>2, <2>3
<1>3. CASE (\E u \in Urls : SetRelay(u)) \/ Untap \/ Poll \/ LaunchFails \/ UNCHANGED vars
  <2>1. UNCHANGED keyVars /\ task' = task
    BY <1>3 DEF SetRelay, Untap, Poll, LaunchFails, vars, appVars
  <2>2. AppTypeOK'
    <3>1. /\ relay' \in Urls /\ stop' \in BOOLEAN /\ connected' \in BOOLEAN
          /\ polled' \in BOOLEAN /\ tapped' \in BOOLEAN
      BY <1>3, Zenon DEF SetRelay, Untap, Poll, LaunchFails, vars, appVars, AppTypeOK
    <3>2. launches' \in 0..1
      BY <1>3, IdleTask, Zenon DEF SetRelay, Untap, Poll, LaunchFails, vars, appVars, AppTypeOK
    <3> QED
      BY <2>1, <3>1, <3>2, Zenon DEF AppTypeOK
  <2>3. WatchesOwnAddresses'
    BY <2>1 DEF WatchesOwnAddresses, Live, keyVars, historyVars
  <2> QED
    BY <2>1, <2>2, <2>3, KeyInvUnchanged
<1>4. CASE StartStaking \/ StopStaking
  <2>1. UNCHANGED keyVars
    BY <1>4 DEF StartStaking, StopStaking
  <2>2. /\ task' \in [Tasks -> TaskRecords]
        /\ \A k \in Tasks : /\ task'[k].pc = task[k].pc /\ task'[k].key = task[k].key
                            /\ task'[k].watched = task[k].watched
    <3>1. CASE task' = task
      BY <3>1 DEF AppTypeOK
    <3>2. CASE task' = [k \in Tasks |-> [task[k] EXCEPT !.unseen = Live(k)]]
      <4> SUFFICES ASSUME NEW k \in Tasks
                   PROVE  /\ task'[k] \in TaskRecords
                          /\ task'[k].pc = task[k].pc /\ task'[k].key = task[k].key
                          /\ task'[k].watched = task[k].watched
        BY <3>2
      <4>1. Live(k) \in BOOLEAN
        BY DEF Live
      <4>2. task[k] \in TaskRecords /\ task'[k] = [task[k] EXCEPT !.unseen = Live(k)]
        BY <3>2 DEF AppTypeOK
      <4> HIDE DEF Live
      <4> QED
        BY <4>1, <4>2 DEF TaskRecords
    <3> QED
      BY <1>4, <3>1, <3>2 DEF StartStaking, StopStaking, Signal
  <2>3. AppTypeOK'
    <3>1. /\ relay' \in Urls /\ stop' \in BOOLEAN /\ connected' \in BOOLEAN
          /\ polled' \in BOOLEAN /\ tapped' \in BOOLEAN
      BY <1>4, Zenon DEF StartStaking, StopStaking, Signal, AppTypeOK
    <3>2. launches' \in 0..1
      <4>1. launches' = 1 \/ launches' = launches
        BY <1>4, Zenon DEF StartStaking, StopStaking
      <4> QED
        BY <4>1 DEF AppTypeOK
    <3> QED
      BY <2>2, <3>1, <3>2, Zenon DEF AppTypeOK
  <2>4. WatchesOwnAddresses'
    BY <2>1, <2>2 DEF WatchesOwnAddresses, Live, keyVars, historyVars
  <2> QED
    BY <2>1, <2>3, <2>4, KeyInvUnchanged
<1>5. ASSUME NEW k \in Tasks, Launch(k) PROVE AppInv'
  <2>1. UNCHANGED keyVars
    BY <1>5 DEF Launch
  <2> DEFINE new == [pc |-> Entry(relay), key |-> secret, watched |-> cached, unseen |-> TRUE]
  <2>2. task' = [task EXCEPT ![k] = new]
    BY <1>5 DEF Launch
  <2>3. new \in TaskRecords
    BY <1>5 DEF Launch, CanLoad, Entry, KeyInv, KeyTypeOK, TaskRecords, Phases
  <2>4. AppTypeOK'
    <3> HIDE DEF new
    <3>1. task' \in [Tasks -> TaskRecords]
      BY <2>2, <2>3 DEF AppTypeOK
    <3> QED
      BY <1>5, <3>1, IdleTask, Zenon DEF Launch, AppTypeOK
  <2>5. new.watched \in {new.key, Absent} \/ cut
    BY <1>5 DEF Launch, KeyInv, CacheInv
  <2>6. WatchesOwnAddresses'
    <3> HIDE DEF new
    <3> QED
      BY <2>1, <2>2, <2>5 DEF WatchesOwnAddresses, Live, keyVars, historyVars, AppTypeOK
  <2> QED
    BY <2>1, <2>4, <2>6, KeyInvUnchanged
<1>6. ASSUME NEW k \in Tasks,
             \/ Advance(k) \/ Drop(k) \/ SeeSignal(k) \/ KeepAlive(k)
             \/ Win(k) \/ Sign(k) \/ Sent(k)
      PROVE  AppInv'
  <2>1. UNCHANGED <<keyVars, relay, stop, connected, polled, tapped, launches>>
    BY <1>6 DEF Advance, Drop, SeeSignal, KeepAlive, Win, Sign, Sent, Goto, Ended
  <2>2. \/ task' = [task EXCEPT ![k] = Idle]
        \/ Live(k) /\ \E pc \in Phases : task' = [task EXCEPT ![k].pc = pc]
        \/ Live(k) /\ task' = [task EXCEPT ![k].unseen = FALSE]
    BY <1>6 DEF Advance, Drop, SeeSignal, KeepAlive, Win, Sign, Sent, Goto, Ended, Live, Phases
  <2>3. Idle \in TaskRecords
    BY DEF Idle, TaskRecords, Phases
  <2>4. AppTypeOK'
    BY <2>1, <2>2, <2>3, ZenonT(30) DEF AppTypeOK, TaskRecords
  <2>5. WatchesOwnAddresses'
    BY <2>1, <2>2 DEF WatchesOwnAddresses, Live, keyVars, historyVars, AppTypeOK, Idle, TaskRecords
  <2> QED
    BY <2>1, <2>4, <2>5, KeyInvUnchanged
<1> QED
  BY <1>1, <1>2, <1>3, <1>4, <1>5, <1>6 DEF Next

-----------------------------------------------------------------------------

\* Commands, screens, tasks and store stay well-typed.
THEOREM AppTypeCorrect == Spec => []TypeOK
<1>1. AppInv => TypeOK
  BY DEF AppInv, KeyInv, AppTypeOK, TypeOK
<1> QED
  BY <1>1, AppInvInit, AppInvNext, PTL DEF Spec

\* Whatever fails or dies between the two files of stash and wipe, the cached
\* addresses and those a client registers are those of the key it signs with.
THEOREM OwnAddressesHolds == Spec => []OwnAddresses
<1>1. AppInv => OwnAddresses
  <2> SUFFICES ASSUME AppInv PROVE AddressesMatchSeed
    BY DEF AppInv, OwnAddresses
  <2> QED
    BY Sentinels DEF AppInv, KeyInv, StepInv, CacheInv, AddressesMatchSeed
<1> QED
  BY <1>1, AppInvInit, AppInvNext, PTL DEF Spec

\* A stored seed whose phrase the user does not have is one whose setup was
\* interrupted.
THEOREM PhraseKeptHolds == Spec => []PhraseKept
<1>1. AppInv => PhraseKept
  BY DEF AppInv, KeyInv, PhraseInv, PhraseKept
<1> QED
  BY <1>1, AppInvInit, AppInvNext, PTL DEF Spec

\* SecureKeyStore holds no whole seed file whose wrap key is missing, unless a wipe
\* failed to delete it.
THEOREM WholeIsReadableHolds == Spec => []WholeIsReadable
<1>1. AppInv => WholeIsReadable
  BY DEF AppInv, KeyInv
<1> QED
  BY <1>1, AppInvInit, AppInvNext, PTL DEF Spec

\* No setup, restore, crash or reload replaces a stored seed by another.
THEOREM NeverOverwrittenHolds == Spec => NeverOverwritten
<1>1. AppInv /\ [Next]_vars =>
        [(secret \in AllSeeds) => (secret' \in {secret, Absent})]_keyVars
  <2> SUFFICES ASSUME AppInv, [Next]_vars, secret \in AllSeeds, ~UNCHANGED keyVars
               PROVE  secret' \in {secret, Absent}
    OBVIOUS
  <2>1. KeyNext \/ CrashStore
    BY DEF Next, Wallet, Crash, SetRelay, StartStaking, StopStaking, Untap, Poll, LaunchFails,
           Launch, Advance, Drop, SeeSignal, KeepAlive, Win, Sign, Sent, Goto, Ended, vars
  <2>2. CASE StoreSeed \/ WriteSeed
    BY <2>2, Sentinels DEF StoreSeed, WriteSeed, AppInv, KeyInv, StepInv
  <2>3. CASE Wipe \/ CrashStore
    BY <2>3 DEF Wipe, CrashStore
  <2>4. CASE KeyNext /\ ~(StoreSeed \/ WriteSeed \/ Wipe)
    BY <2>4 DEF KeyNext, Boot, BootFails, Switch, CreateWallet, RestoreWallet, StoreFails,
                CacheAddresses, CacheFails, DeriveFails, Answer, NotePhrase, WipeRest,
                DeleteFails, Reload, storeVars
  <2> QED
    BY <2>1, <2>2, <2>3, <2>4
<1> QED
  BY <1>1, AppInvInit, AppInvNext, PTL DEF Spec, NeverOverwritten

-----------------------------------------------------------------------------
(* Recovery phrases (bip39.rs).                                            *)

\* The loop that reads a number bit by bit.
LEMMA FromBitsSteps ==
    ASSUME NEW w \in Nat, NEW bits \in [1 .. w -> 0 .. 1]
    PROVE  \E number \in [0 .. w -> Nat] :
              /\ number[0] = 0 /\ FromBits(bits) = number[w]
              /\ \A i \in 1 .. w : number[i] = 2 * number[i - 1] + bits[i]
<1> DEFINE bit(i) == IF i \in 1 .. w THEN bits[i] ELSE 0
           F == [iv \in Nat \X Nat |-> 2 * iv[2] + bit(iv[1])]
           Eq(g) == g = [i \in 0 .. Len(bits) |-> IF i = 0 THEN 0 ELSE 2 * g[i - 1] + bits[i]]
           number == CHOOSE g : Eq(g)
<1>1. F \in [Nat \X Nat -> Nat]
  OBVIOUS
<1>2. Len(bits) = w
  OBVIOUS
<1>3. PICK g \in [0 .. w -> Nat] : RecursionOn(g, 0 .. w, 0, F)
  <2> HIDE DEF F
  <2> QED
    BY <1>1, FiniteRecursion
<1>4. ASSUME NEW i \in 0 .. w, i # 0 PROVE F[<<i, g[i - 1]>>] = 2 * g[i - 1] + bits[i]
  <2>1. i \in 1 .. w /\ i - 1 \in 0 .. w
    BY <1>4
  <2>2. g[i - 1] \in Nat
    BY <2>1, <1>3
  <2> QED
    BY <2>1, <2>2
<1>5. Eq(g)
  <2> HIDE DEF F
  <2> QED
    BY <1>2, <1>3, <1>4 DEF RecursionOn
<1>6. Eq(number)
  <2> HIDE DEF Eq
  <2> QED
    BY <1>5
<1>7. FromBits(bits) = number[w]
  BY <1>2 DEF FromBits
<1> HIDE DEF number
<1>8. number[0] = 0 /\ \A i \in 1 .. w : number[i] = 2 * number[i - 1] + bits[i]
  BY <1>2, <1>6
<1> DEFINE D == {i \in Nat : i <= w => number[i] \in Nat}
<1>9. 0 \in D
  BY <1>8
<1>10. ASSUME NEW i \in Nat, i \in D PROVE i + 1 \in D
  <2> SUFFICES ASSUME i + 1 <= w PROVE number[i + 1] \in Nat
    OBVIOUS
  <2>1. i + 1 \in 1 .. w /\ (i + 1) - 1 = i
    OBVIOUS
  <2>2. number[i] \in Nat /\ bits[i + 1] \in 0 .. 1
    BY <1>10, <2>1
  <2>3. number[i + 1] = 2 * number[i] + bits[i + 1]
    BY <1>8, <2>1
  <2> QED
    BY <2>2, <2>3
<1>11. Nat \subseteq D
  <2> HIDE DEF D
  <2> QED
    BY <1>9, <1>10, SetInduction
<1>12. number \in [0 .. w -> Nat]
  <2>1. number = [i \in 0 .. w |-> number[i]]
    BY <1>2, <1>6
  <2>2. \A i \in 0 .. w : number[i] \in Nat
    BY <1>11
  <2> QED
    BY <2>1, <2>2
<1> QED
  BY <1>7, <1>8, <1>12

\* A number read from its bits has these bits.
LEMMA BitsReadBack ==
    ASSUME NEW w \in Nat, NEW bits \in [1 .. w -> 0 .. 1]
    PROVE  /\ FromBits(bits) \in 0 .. Pow2[w] - 1
           /\ \A b \in 1 .. w : (FromBits(bits) \div Pow2[w - b]) % 2 = bits[b]
<1>1. PICK number \in [0 .. w -> Nat] :
              /\ number[0] = 0 /\ FromBits(bits) = number[w]
              /\ \A i \in 1 .. w : number[i] = 2 * number[i - 1] + bits[i]
  BY FromBitsSteps
<1> DEFINE D == {i \in Nat : i <= w =>
                    /\ number[i] < Pow2[i]
                    /\ \A b \in 1 .. i : (number[i] \div Pow2[i - b]) % 2 = bits[b]}
<1>2. 0 \in D
  <2>1. number[0] < Pow2[0] /\ 1 .. 0 = {}
    BY <1>1, Pow2Facts
  <2> QED
    BY <2>1
<1>3. ASSUME NEW i \in Nat, i \in D PROVE i + 1 \in D
  <2> SUFFICES ASSUME i + 1 <= w
               PROVE  /\ number[i + 1] < Pow2[i + 1]
                      /\ \A b \in 1 .. i + 1 : (number[i + 1] \div Pow2[(i + 1) - b]) % 2 = bits[b]
    OBVIOUS
  <2>1. i + 1 \in 1 .. w /\ (i + 1) - 1 = i
    OBVIOUS
  <2>2. /\ number[i + 1] = 2 * number[i] + bits[i + 1] /\ bits[i + 1] \in 0 .. 1
        /\ number[i] \in Nat /\ number[i + 1] \in Nat
    BY <1>1, <2>1
  <2>3. number[i] < Pow2[i] /\ Pow2[i + 1] = 2 * Pow2[i] /\ Pow2[i] \in Nat
    BY <1>3, <2>1, Pow2Facts
  <2>4. number[i + 1] < Pow2[i + 1]
    BY <2>2, <2>3
  <2>5. number[i + 1] \div 2 = number[i] /\ number[i + 1] % 2 = bits[i + 1]
    <3> DEFINE n == number[i]
               c == bits[i + 1]
    <3>1. n \in Nat /\ c \in 0 .. 1 /\ number[i + 1] = 2 * n + c
      BY <2>2
    <3> HIDE DEF n, c
    <3>2. (2 * n + c) \div 2 = n /\ (2 * n + c) % 2 = c
      BY <3>1
    <3> QED
      BY <3>1, <3>2 DEF n, c
  <2>6. ASSUME NEW b \in 1 .. i + 1
        PROVE  (number[i + 1] \div Pow2[(i + 1) - b]) % 2 = bits[b]
    <3>1. CASE b = i + 1
      <4>1. (i + 1) - b = 0 /\ Pow2[0] = 1
        BY <3>1, Pow2Facts
      <4>2. number[i + 1] \div 1 = number[i + 1]
        BY <2>2
      <4> QED
        BY <2>5, <3>1, <4>1, <4>2
    <3>2. CASE b # i + 1
      <4>1. b \in 1 .. i /\ i - b \in Nat /\ (i + 1) - b = (i - b) + 1
        BY <3>2
      <4>2. Pow2[(i - b) + 1] = 2 * Pow2[i - b] /\ Pow2[i - b] \in Nat \ {0}
        BY <4>1, Pow2Facts
      <4>3. number[i + 1] \div (2 * Pow2[i - b]) = (number[i + 1] \div 2) \div Pow2[i - b]
        BY <2>2, <4>2, DivHalf
      <4>4. (number[i] \div Pow2[i - b]) % 2 = bits[b]
        BY <1>3, <2>1, <4>1
      <4> QED
        BY <2>5, <4>1, <4>2, <4>3, <4>4
    <3> QED
      BY <3>1, <3>2
  <2> QED
    BY <2>4, <2>6
<1> HIDE DEF D
<1>4. w \in D
  BY <1>2, <1>3, SetInduction
<1> QED
  BY <1>1, <1>4, Pow2Facts DEF D

\* A number is read back from its bits.
LEMMA NumberReadBack ==
    ASSUME NEW w \in Nat, NEW x \in 0 .. Pow2[w] - 1, NEW bits \in [1 .. w -> 0 .. 1],
           \A b \in 1 .. w : bits[b] = (x \div Pow2[w - b]) % 2
    PROVE  FromBits(bits) = x
<1>1. PICK number \in [0 .. w -> Nat] :
              /\ number[0] = 0 /\ FromBits(bits) = number[w]
              /\ \A i \in 1 .. w : number[i] = 2 * number[i - 1] + bits[i]
  BY FromBitsSteps
<1>2. x \in Nat /\ x < Pow2[w] /\ Pow2[w] \in Nat \ {0}
  BY Pow2Facts
<1> DEFINE D == {i \in Nat : i <= w => number[i] = x \div Pow2[w - i]}
<1>3. 0 \in D
  <2> DEFINE top == Pow2[w]
  <2>1. x \in Nat /\ x < top /\ top \in Nat \ {0}
    BY <1>2
  <2> HIDE DEF top
  <2>2. x \div top = 0
    BY <2>1
  <2>3. number[0] = x \div Pow2[w] /\ w - 0 = w
    BY <1>1, <2>2 DEF top
  <2> QED
    BY <2>3
<1>4. ASSUME NEW i \in Nat, i \in D PROVE i + 1 \in D
  <2> SUFFICES ASSUME i + 1 <= w PROVE number[i + 1] = x \div Pow2[w - (i + 1)]
    OBVIOUS
  <2>1. i + 1 \in 1 .. w /\ (i + 1) - 1 = i /\ w - (i + 1) \in Nat /\ (w - (i + 1)) + 1 = w - i
    OBVIOUS
  <2> DEFINE p == Pow2[w - (i + 1)]
             y == x \div p
  <2>2. p \in Nat \ {0} /\ Pow2[w - i] = 2 * p
    BY <2>1, Pow2Facts
  <2>3. x \div (2 * p) = y \div 2 /\ y \in Nat
    <3> HIDE DEF p
    <3>1. x \div (2 * p) = (x \div p) \div 2
      BY <1>2, <2>2, DivHalf
    <3>2. x \div p \in Nat
      BY <1>2, <2>2, DivNat
    <3> QED
      BY <3>1, <3>2
  <2>4. bits[i + 1] = y % 2
    BY <2>1
  <2> HIDE DEF y, p
  <2>5. number[i] = y \div 2
    <3>1. number[i] = x \div Pow2[w - i]
      BY <1>4
    <3> QED
      BY <2>2, <2>3, <3>1
  <2>6. number[i + 1] = 2 * number[i] + bits[i + 1]
    BY <1>1, <2>1
  <2>7. y = 2 * (y \div 2) + (y % 2)
    BY <2>3
  <2> QED
    BY <2>4, <2>5, <2>6, <2>7 DEF y, p
<1> HIDE DEF D
<1>5. w \in D
  BY <1>3, <1>4, SetInduction
<1>6. number[w] = x \div Pow2[w - w] /\ w - w = 0
  BY <1>5 DEF D
<1>7. x \div 1 = x
  BY <1>2
<1> QED
  BY <1>1, <1>6, <1>7, Pow2Facts

\* Bit b of number g is bit n of them all.
IsPlace(n, g, b, width, count) ==
    /\ n \in 0 .. count * width - 1 /\ n = (g - 1) * width + b - 1
    /\ n \div width = g - 1 /\ n % width = b - 1

LEMMA BitPlace ==
    ASSUME NEW width \in Nat \ {0}, NEW count \in Nat, NEW g \in 1 .. count, NEW b \in 1 .. width
    PROVE  \E n : IsPlace(n, g, b, width, count)
<1> DEFINE q == g - 1
           r == b - 1
           n == (g - 1) * width + b - 1
<1>1. q \in Nat /\ r \in 0 .. width - 1 /\ q + 1 <= count
  OBVIOUS
<1>2. n = width * q + r
  OBVIOUS
<1>3. count * width = width * count /\ count * width \in Nat
  OBVIOUS
<1> HIDE DEF q, r, n
<1>4. n \div width = q /\ n % width = r
  BY <1>1, <1>2, DivUnique
<1>5. width * q \in Nat /\ width * (q + 1) = width * q + width /\ width * (q + 1) <= width * count
  BY <1>1
<1>6. n \in 0 .. count * width - 1
  BY <1>1, <1>2, <1>3, <1>5
<1>7. IsPlace(n, g, b, width, count)
  BY <1>4, <1>6 DEF q, r, n, IsPlace
<1> QED
  BY <1>7

\* Every bit is some bit of some number.
LEMMA PlaceOfBit ==
    ASSUME NEW width \in Nat \ {0}, NEW count \in Nat, NEW n \in 0 .. count * width - 1
    PROVE  LET g == n \div width + 1
               b == (n % width) + 1
           IN  g \in 1 .. count /\ b \in 1 .. width /\ n = (g - 1) * width + b - 1
<1> DEFINE q == n \div width
           r == n % width
<1>1. n \in Nat /\ count * width = width * count
  OBVIOUS
<1>2. q \in Nat /\ r \in 0 .. width - 1 /\ n = width * q + r
  <2>1. n \div width \in Nat
    BY <1>1, DivNat
  <2>2. n % width \in 0 .. width - 1 /\ n = width * (n \div width) + (n % width)
    BY <1>1, DivMod
  <2> QED
    BY <2>1, <2>2
<1> HIDE DEF q, r
<1>3. q < count
  <2> SUFFICES ASSUME q >= count PROVE FALSE
    BY <1>2
  <2>1. width * q >= width * count
    BY <1>2
  <2> QED
    BY <1>1, <1>2, <2>1
<1>4. ((q + 1) - 1) * width = width * q
  BY <1>2
<1>5. q + 1 \in 1 .. count /\ r + 1 \in 1 .. width /\ n = ((q + 1) - 1) * width + (r + 1) - 1
  BY <1>2, <1>3, <1>4
<1> QED
  BY <1>5 DEF q, r

\* Bits that are grouped into numbers stay where they are.
LEMMA RegroupBits ==
    ASSUME NEW width \in Nat \ {0}, NEW count \in Nat, NEW total \in Nat, count * width <= total,
           NEW bits \in [0 .. total - 1 -> 0 .. 1]
    PROVE  LET numbers == Regroup(bits, width, count)
           IN  /\ numbers \in [1 .. count -> 0 .. Pow2[width] - 1]
               /\ \A n \in 0 .. count * width - 1 : BitOf(numbers, width, n) = bits[n]
<1> DEFINE numbers == Regroup(bits, width, count)
           group(g) == [b \in 1 .. width |-> bits[(g - 1) * width + b - 1]]
<1>1. ASSUME NEW g \in 1 .. count
      PROVE  /\ group(g) \in [1 .. width -> 0 .. 1] /\ numbers[g] = FromBits(group(g))
             /\ FromBits(group(g)) \in 0 .. Pow2[width] - 1
             /\ \A b \in 1 .. width : (FromBits(group(g)) \div Pow2[width - b]) % 2 = group(g)[b]
  <2>1. ASSUME NEW b \in 1 .. width PROVE bits[(g - 1) * width + b - 1] \in 0 .. 1
    <3>1. (g - 1) * width + b - 1 \in 0 .. count * width - 1
      <4>1. PICK n : IsPlace(n, g, b, width, count)
        BY BitPlace
      <4> QED
        BY <4>1 DEF IsPlace
    <3>2. count * width \in Nat
      OBVIOUS
    <3>3. (g - 1) * width + b - 1 \in 0 .. total - 1
      BY <3>1, <3>2
    <3> QED
      BY <3>3
  <2>2. group(g) \in [1 .. width -> 0 .. 1]
    BY <2>1
  <2>3. numbers[g] = FromBits(group(g))
    BY DEF Regroup
  <2> HIDE DEF group, numbers
  <2> QED
    BY <2>2, <2>3, BitsReadBack
<1>2. numbers \in [1 .. count -> 0 .. Pow2[width] - 1]
  <2>1. numbers = [g \in 1 .. count |-> numbers[g]]
    BY DEF Regroup
  <2> HIDE DEF numbers, group
  <2> QED
    BY <1>1, <2>1
<1>3. ASSUME NEW n \in 0 .. count * width - 1 PROVE BitOf(numbers, width, n) = bits[n]
  <2> DEFINE g == n \div width + 1
             b == (n % width) + 1
  <2>1. g \in 1 .. count /\ b \in 1 .. width /\ n = (g - 1) * width + b - 1
    BY PlaceOfBit
  <2>2. width - 1 - (n % width) = width - b
    BY <2>1
  <2>3. BitOf(numbers, width, n) = (numbers[g] \div Pow2[width - b]) % 2
    BY <2>2 DEF BitOf
  <2>4. group(g)[b] = bits[n]
    BY <2>1
  <2> HIDE DEF g, b, group, numbers
  <2> QED
    BY <1>1, <2>1, <2>3, <2>4
<1> QED
  BY <1>2, <1>3

\* Numbers that are taken apart into bits and put together again are the same.
LEMMA RegroupNumbers ==
    ASSUME NEW width \in Nat \ {0}, NEW count \in Nat, NEW total \in Nat, count * width <= total,
           NEW numbers \in [1 .. count -> 0 .. Pow2[width] - 1],
           NEW bits \in [0 .. total - 1 -> 0 .. 1],
           \A n \in 0 .. count * width - 1 : bits[n] = BitOf(numbers, width, n)
    PROVE  Regroup(bits, width, count) = numbers
<1> DEFINE group(g) == [b \in 1 .. width |-> bits[(g - 1) * width + b - 1]]
<1>1. ASSUME NEW g \in 1 .. count PROVE FromBits(group(g)) = numbers[g]
  <2>1. ASSUME NEW b \in 1 .. width
        PROVE  /\ group(g)[b] = (numbers[g] \div Pow2[width - b]) % 2
               /\ group(g)[b] \in 0 .. 1
    <3>1. PICK n : IsPlace(n, g, b, width, count)
      <4> HIDE DEF group
      <4> QED
        BY BitPlace
    <3>2. /\ n \in 0 .. count * width - 1 /\ n = (g - 1) * width + b - 1
          /\ n \div width = g - 1 /\ n % width = b - 1
      BY <3>1 DEF IsPlace
    <3>3. group(g)[b] = bits[n] /\ count * width \in Nat
      BY <3>2
    <3>4. n \div width + 1 = g /\ width - 1 - (n % width) = width - b
      BY <3>2
    <3>5. bits[n] = (numbers[g] \div Pow2[width - b]) % 2
      BY <3>2, <3>4 DEF BitOf
    <3>6. n \in 0 .. total - 1
      BY <3>2, <3>3
    <3> HIDE DEF group
    <3> QED
      BY <3>3, <3>5, <3>6
  <2>2. group(g) \in [1 .. width -> 0 .. 1]
    BY <2>1
  <2>3. numbers[g] \in 0 .. Pow2[width] - 1
    OBVIOUS
  <2> HIDE DEF group
  <2> QED
    BY <2>1, <2>2, <2>3, NumberReadBack
<1> QED
  <2>1. Regroup(bits, width, count) = [g \in 1 .. count |-> FromBits(group(g))]
    BY DEF Regroup
  <2> HIDE DEF group
  <2> QED
    BY <1>1, <2>1

\* The bits of a phrase: whole units of entropy, and one checksum bit for each.
LEMMA PhraseSizes ==
    ASSUME NEW count \in WordCounts
    PROVE  \E units \in Nat, size \in Nat :
              /\ units <= PhraseBits /\ ChecksumSize(count) = units
              /\ EntropyBits(count) = units * UnitBits
              /\ EntropyBits(count) \in Nat /\ EntropyBits(count) = size * PhraseBits
              /\ EntropyBits(count) \div PhraseBits = size
              /\ EntropyBits(count) \div UnitBits = units /\ EntropyBits(count) % UnitBits = 0
              /\ EntropyBits(count) + units = count * WordBits
              /\ (count * WordBits) \div WordBits = count
<1> DEFINE total == count * WordBits
           d == UnitBits + 1
           u == total \div d
           k == UnitBits \div PhraseBits
<1>1. /\ count \in Nat /\ PhraseBits \in Nat \ {0} /\ UnitBits \in Nat \ {0}
      /\ WordBits \in Nat \ {0} /\ total % d = 0 /\ u <= PhraseBits
      /\ UnitBits % PhraseBits = 0
  BY PhraseAssumption
<1>2. d \in Nat \ {0} /\ total \in Nat
  BY <1>1
<1>3. u \in Nat /\ total = d * u
  <2> HIDE DEF d, total
  <2>1. total \div d \in Nat
    BY <1>2, DivNat
  <2>2. total = d * (total \div d) + (total % d)
    BY <1>2, DivMod
  <2> QED
    BY <1>1, <1>2, <2>1, <2>2
<1>4. k \in Nat /\ UnitBits = PhraseBits * k
  <2>1. k \in Nat
    BY <1>1, DivNat
  <2>2. UnitBits = PhraseBits * (UnitBits \div PhraseBits) + (UnitBits % PhraseBits)
    BY <1>1, DivMod
  <2> QED
    BY <1>1, <2>1, <2>2
<1>5. EntropyBits(count) = u * UnitBits
  <2>1. count * WordBits * UnitBits = total * UnitBits
    OBVIOUS
  <2> HIDE DEF u, total, k
  <2>2. total * UnitBits = (d * u) * UnitBits
    BY <1>3
  <2>3. (d * u) * UnitBits = d * (u * UnitBits) + 0 /\ u * UnitBits \in Int /\ 0 \in 0 .. d - 1
    BY <1>1, <1>2, <1>3
  <2> DEFINE q == u * UnitBits
  <2>4. (d * q + 0) \div d = q
    <3> HIDE DEF d, q
    <3> QED
      BY <1>2, <2>3, DivUnique DEF q
  <2>5. EntropyBits(count) = (total * UnitBits) \div d
    BY <2>1 DEF EntropyBits
  <2> QED
    BY <2>2, <2>3, <2>4, <2>5
<1> DEFINE e == EntropyBits(count)
           size == u * k
<1>6. e \in Nat /\ size \in Nat /\ e = size * PhraseBits
  <2> HIDE DEF u, k
  <2>1. u * UnitBits \in Nat /\ u * k \in Nat
    BY <1>1, <1>3, <1>4
  <2>2. u * (PhraseBits * k) = (u * k) * PhraseBits
    BY <1>1, <1>3, <1>4
  <2> QED
    BY <1>4, <1>5, <2>1, <2>2
<1>7. e \div PhraseBits = size
  <2> HIDE DEF size, e
  <2>1. e = PhraseBits * size + 0 /\ 0 \in 0 .. PhraseBits - 1 /\ size \in Int
    BY <1>1, <1>6
  <2> QED
    BY <1>1, <2>1, DivUnique
<1>8. e \div UnitBits = u /\ e % UnitBits = 0
  <2> HIDE DEF u, e
  <2>1. e = UnitBits * u + 0 /\ 0 \in 0 .. UnitBits - 1 /\ u \in Int
    BY <1>1, <1>3, <1>5 DEF e
  <2> QED
    BY <1>1, <2>1, DivUnique
<1>9. e + u = total
  <2> HIDE DEF u, total
  <2>1. d * u = u * UnitBits + u
    BY <1>1, <1>3
  <2> QED
    BY <1>3, <1>5, <2>1
<1>10. total \div WordBits = count
  <2>1. total = WordBits * count + 0 /\ 0 \in 0 .. WordBits - 1 /\ count \in Int
    BY <1>1
  <2> HIDE DEF total
  <2> QED
    BY <1>1, <2>1, DivUnique
<1>11. ChecksumSize(count) = u
  BY <1>8 DEF ChecksumSize
<1> HIDE DEF u, k, size, total
<1>12. u \in Nat /\ size \in Nat
  BY <1>3, <1>6
<1>13. /\ u <= PhraseBits /\ ChecksumSize(count) = u /\ e = u * UnitBits
       /\ e \in Nat /\ e = size * PhraseBits /\ e \div PhraseBits = size
       /\ e \div UnitBits = u /\ e % UnitBits = 0 /\ e + u = total /\ total \div WordBits = count
  BY <1>1, <1>5, <1>6, <1>7, <1>8, <1>9, <1>10, <1>11
<1> QED
  BY <1>12, <1>13 DEF total

\* The bits of a byte string or of a phrase.
LEMMA BitOfType ==
    ASSUME NEW width \in Nat \ {0}, NEW count \in Nat, NEW n \in 0 .. count * width - 1,
           NEW numbers \in [1 .. count -> Nat]
    PROVE  BitOf(numbers, width, n) \in 0 .. 1
<1> DEFINE g == n \div width + 1
           b == (n % width) + 1
           x == numbers[g]
           p == Pow2[width - b]
<1>1. g \in 1 .. count /\ b \in 1 .. width
  BY PlaceOfBit
<1>2. width - 1 - (n % width) = width - b
  BY <1>1
<1>3. x \in Nat /\ p \in Nat \ {0}
  <2> HIDE DEF g, b
  <2>1. numbers[g] \in Nat
    BY <1>1
  <2>2. width - b \in Nat
    BY <1>1
  <2> QED
    BY <2>1, <2>2, Pow2Facts
<1>4. BitOf(numbers, width, n) = (x \div p) % 2
  BY <1>2 DEF BitOf
<1> HIDE DEF x, p
<1>5. x \div p \in Nat
  BY <1>3, DivNat
<1> QED
  BY <1>4, <1>5

\* One byte of hash has enough bits for the checksum.
LEMMA ChecksumBitType ==
    ASSUME NEW e \in Entropy, NEW i \in 0 .. PhraseBits - 1
    PROVE  ChecksumBit(e, i) \in 0 .. 1
<1>1. EntropyHash(e) \in PhraseBytes /\ PhraseBits \in Nat \ {0}
  BY PhraseAssumption
<1>2. Pow2[PhraseBits] \in Nat
  BY <1>1, Pow2Facts
<1>3. <<EntropyHash(e)>> \in [1 .. 1 -> Nat]
  BY <1>1, <1>2 DEF PhraseBytes
<1>4. i \in 0 .. 1 * PhraseBits - 1
  BY <1>1
<1> QED
  BY <1>1, <1>3, <1>4, BitOfType DEF ChecksumBit

\* The bits that from_entropy reads its words from.
AllBits(entropy, count) ==
    [n \in 0 .. count * WordBits - 1 |->
        IF n < EntropyBits(count) THEN BitOf(entropy, PhraseBits, n)
        ELSE ChecksumBit(entropy, n - EntropyBits(count))]

\* from_entropy reads the right number of words.
LEMMA FromEntropyWords ==
    ASSUME NEW count \in WordCounts,
           NEW e \in [1 .. EntropyBits(count) \div PhraseBits -> PhraseBytes]
    PROVE  /\ e \in Entropy
           /\ AllBits(e, count) \in [0 .. count * WordBits - 1 -> 0 .. 1]
           /\ FromEntropy(e) = Regroup(AllBits(e, count), WordBits, count)
<1>1. PICK units \in Nat, size \in Nat :
              /\ units <= PhraseBits /\ ChecksumSize(count) = units
              /\ EntropyBits(count) = units * UnitBits
              /\ EntropyBits(count) \in Nat /\ EntropyBits(count) = size * PhraseBits
              /\ EntropyBits(count) \div PhraseBits = size
              /\ EntropyBits(count) \div UnitBits = units /\ EntropyBits(count) % UnitBits = 0
              /\ EntropyBits(count) + units = count * WordBits
              /\ (count * WordBits) \div WordBits = count
  BY PhraseSizes
<1>2. e \in [1 .. size -> PhraseBytes] /\ Len(e) = size /\ Len(e) * PhraseBits = EntropyBits(count)
  BY <1>1
<1>3. e \in Entropy
  BY DEF Entropy, EntropySizes
<1>4. FromEntropy(e) = Regroup(AllBits(e, count), WordBits, count)
  BY <1>1, <1>2 DEF FromEntropy, AllBits
<1>5. PhraseBits \in Nat \ {0} /\ Pow2[PhraseBits] \in Nat /\ e \in [1 .. size -> Nat]
  <2>1. PhraseBits \in Nat \ {0}
    BY PhraseAssumption
  <2>2. Pow2[PhraseBits] \in Nat
    BY <2>1, Pow2Facts
  <2>3. PhraseBytes \subseteq Nat
    BY <2>2 DEF PhraseBytes
  <2> QED
    BY <1>2, <2>1, <2>2, <2>3
<1>6. ASSUME NEW n \in 0 .. count * WordBits - 1 PROVE AllBits(e, count)[n] \in 0 .. 1
  <2>1. CASE n < EntropyBits(count)
    <3>1. n \in 0 .. size * PhraseBits - 1
      BY <1>1, <2>1
    <3>2. BitOf(e, PhraseBits, n) \in 0 .. 1
      BY <1>5, <3>1, BitOfType
    <3> QED
      BY <2>1, <3>2 DEF AllBits
  <2>2. CASE ~(n < EntropyBits(count))
    <3>1. n - EntropyBits(count) \in 0 .. PhraseBits - 1
      BY <1>1, <1>5, <2>2
    <3>2. ChecksumBit(e, n - EntropyBits(count)) \in 0 .. 1
      BY <1>3, <3>1, ChecksumBitType
    <3> QED
      BY <2>2, <3>2 DEF AllBits
  <2> QED
    BY <2>1, <2>2
<1>7. AllBits(e, count) \in [0 .. count * WordBits - 1 -> 0 .. 1]
  BY <1>6 DEF AllBits
<1> QED
  BY <1>3, <1>4, <1>7

\* Every phrase that from_entropy makes restores to its entropy.
LEMMA EntropyRestores ==
    ASSUME NEW e \in Entropy
    PROVE  LET words == FromEntropy(e)
           IN  words # Invalid /\ Parses(words) /\ EntropyOf(words) = e
<1>1. PICK count \in WordCounts : e \in [1 .. EntropyBits(count) \div PhraseBits -> PhraseBytes]
  BY DEF Entropy, EntropySizes
<1>2. PICK units \in Nat, size \in Nat :
              /\ units <= PhraseBits /\ ChecksumSize(count) = units
              /\ EntropyBits(count) = units * UnitBits
              /\ EntropyBits(count) \in Nat /\ EntropyBits(count) = size * PhraseBits
              /\ EntropyBits(count) \div PhraseBits = size
              /\ EntropyBits(count) \div UnitBits = units /\ EntropyBits(count) % UnitBits = 0
              /\ EntropyBits(count) + units = count * WordBits
              /\ (count * WordBits) \div WordBits = count
  BY <1>1, PhraseSizes
<1> DEFINE bits == AllBits(e, count)
           words == FromEntropy(e)
           total == count * WordBits
<1>3. /\ count \in Nat /\ PhraseBits \in Nat \ {0} /\ WordBits \in Nat \ {0}
      /\ Invalid \notin Seq(Words)
  BY PhraseAssumption
<1>4. total \in Nat /\ total <= total
  BY <1>3
<1>5. bits \in [0 .. total - 1 -> 0 .. 1] /\ words = Regroup(bits, WordBits, count)
  BY <1>1, FromEntropyWords
<1>6. /\ words \in [1 .. count -> Words]
      /\ \A n \in 0 .. total - 1 : BitOf(words, WordBits, n) = bits[n]
  <2> HIDE DEF bits, words
  <2> QED
    BY <1>3, <1>4, <1>5, RegroupBits DEF Words
<1> HIDE DEF words
<1>7. Len(words) = count /\ words \in Seq(Words)
  BY <1>3, <1>6
<1>8. \A n \in 0 .. total - 1 : BitsOf(words, WordBits)[n] = bits[n]
  BY <1>6, <1>7 DEF BitsOf
<1>9. EntropyOf(words) = e
  <2> DEFINE readBits == BitsOf(words, WordBits)
  <2>1. readBits \in [0 .. total - 1 -> 0 .. 1]
    <3>1. readBits = [n \in 0 .. total - 1 |-> readBits[n]]
      BY <1>7 DEF BitsOf
    <3> HIDE DEF readBits, bits
    <3>2. \A n \in 0 .. total - 1 : readBits[n] \in 0 .. 1
      BY <1>5, <1>8 DEF readBits
    <3> QED
      BY <3>1, <3>2
  <2>2. size * PhraseBits <= total
    BY <1>2
  <2>3. \A n \in 0 .. size * PhraseBits - 1 : readBits[n] = BitOf(e, PhraseBits, n)
    <3> SUFFICES ASSUME NEW n \in 0 .. size * PhraseBits - 1
                 PROVE  readBits[n] = BitOf(e, PhraseBits, n)
      OBVIOUS
    <3>1. n \in 0 .. total - 1 /\ n < EntropyBits(count)
      BY <1>2, <1>4, <2>2
    <3>2. bits[n] = BitOf(e, PhraseBits, n)
      BY <3>1 DEF AllBits
    <3> QED
      BY <1>8, <3>1, <3>2
  <2>4. e \in [1 .. size -> 0 .. Pow2[PhraseBits] - 1]
    BY <1>1, <1>2 DEF PhraseBytes
  <2>5. EntropyOf(words) = Regroup(readBits, PhraseBits, size)
    BY <1>2, <1>7 DEF EntropyOf
  <2>6. total \in Nat
    BY <1>4
  <2> HIDE DEF readBits, total
  <2>7. Regroup(readBits, PhraseBits, size) = e
    <3>1. PhraseBits \in Nat \ {0} /\ size \in Nat
      BY <1>3
    <3> QED
      BY <3>1, <2>1, <2>2, <2>3, <2>4, <2>6, RegroupNumbers
  <2> QED
    BY <2>5, <2>7
<1>10. Parses(words)
  <2>1. ~Contains(words, NoWord)
    <3>1. Pow2[WordBits] \in Nat
      BY <1>3, Pow2Facts
    <3>2. \A i \in 1 .. count : words[i] # NoWord
      BY <1>6, <3>1 DEF Words, NoWord
    <3> QED
      BY <1>7, <3>2 DEF Contains
  <2>2. ASSUME NEW i \in 0 .. ChecksumSize(count) - 1 PROVE ChecksumMatches(words, i)
    <3> DEFINE n == EntropyBits(count) + i
    <3>1. n \in 0 .. total - 1 /\ ~(n < EntropyBits(count)) /\ n - EntropyBits(count) = i
      BY <1>2
    <3>2. bits[n] = ChecksumBit(e, i)
      BY <3>1 DEF AllBits
    <3>3. BitOf(words, WordBits, n) = ChecksumBit(EntropyOf(words), i)
      BY <1>6, <1>9, <3>1, <3>2
    <3> QED
      BY <1>7, <3>3 DEF ChecksumMatches
  <2> QED
    BY <1>7, <2>1, <2>2 DEF Parses
<1>11. words # Invalid
  BY <1>3, <1>7
<1> QED
  BY <1>9, <1>10, <1>11 DEF words

\* A phrase parses exactly when it is the phrase of the entropy that it spells.
LEMMA ParsesOwnEntropy ==
    ASSUME NEW words \in Seq(Words \cup {NoWord})
    PROVE  Parses(words) <=> /\ Len(words) \in WordCounts /\ ~Contains(words, NoWord)
                             /\ FromEntropy(EntropyOf(words)) = words
<1> SUFFICES ASSUME Len(words) \in WordCounts, ~Contains(words, NoWord)
             PROVE  Parses(words) <=> FromEntropy(EntropyOf(words)) = words
  BY DEF Parses
<1> DEFINE count == Len(words)
           e == EntropyOf(words)
           bits == AllBits(e, count)
           readBits == BitsOf(words, WordBits)
           total == count * WordBits
<1>2. PICK units \in Nat, size \in Nat :
              /\ units <= PhraseBits /\ ChecksumSize(count) = units
              /\ EntropyBits(count) = units * UnitBits
              /\ EntropyBits(count) \in Nat /\ EntropyBits(count) = size * PhraseBits
              /\ EntropyBits(count) \div PhraseBits = size
              /\ EntropyBits(count) \div UnitBits = units /\ EntropyBits(count) % UnitBits = 0
              /\ EntropyBits(count) + units = count * WordBits
              /\ (count * WordBits) \div WordBits = count
  BY PhraseSizes
<1>3. count \in Nat /\ PhraseBits \in Nat \ {0} /\ WordBits \in Nat \ {0}
  BY PhraseAssumption
<1>4. total \in Nat /\ total <= total
  BY <1>3
<1>5. words \in [1 .. count -> Words] /\ words \in [1 .. count -> Nat]
  <2>1. \A i \in 1 .. count : words[i] \in Words
    <3>1. \A i \in 1 .. count : words[i] \in Words \cup {NoWord}
      OBVIOUS
    <3>2. \A i \in 1 .. count : words[i] # NoWord
      BY DEF Contains
    <3> QED
      BY <3>1, <3>2
  <2>2. Words \subseteq Nat
    BY <1>3, Pow2Facts DEF Words
  <2>3. words = [i \in 1 .. count |-> words[i]]
    OBVIOUS
  <2> QED
    BY <2>1, <2>2, <2>3
<1>6. readBits \in [0 .. total - 1 -> 0 .. 1]
      /\ \A n \in 0 .. total - 1 : readBits[n] = BitOf(words, WordBits, n)
  <2> HIDE DEF count
  <2>1. readBits = [n \in 0 .. total - 1 |-> BitOf(words, WordBits, n)]
    BY DEF BitsOf, count
  <2>2. \A n \in 0 .. total - 1 : BitOf(words, WordBits, n) \in 0 .. 1
    BY <1>3, <1>5, BitOfType
  <2> QED
    BY <2>1, <2>2
<1>7. /\ e \in [1 .. size -> PhraseBytes]
      /\ \A n \in 0 .. size * PhraseBits - 1 : BitOf(e, PhraseBits, n) = readBits[n]
  <2>1. e = Regroup(readBits, PhraseBits, size)
    BY <1>2 DEF EntropyOf
  <2>2. size * PhraseBits <= total
    BY <1>2
  <2> HIDE DEF readBits, e, total, count
  <2> QED
    BY <1>3, <1>4, <1>6, <2>1, <2>2, RegroupBits DEF PhraseBytes
<1>8. /\ bits \in [0 .. total - 1 -> 0 .. 1]
      /\ FromEntropy(e) = Regroup(bits, WordBits, count)
  <2>1. e \in [1 .. EntropyBits(count) \div PhraseBits -> PhraseBytes]
    BY <1>2, <1>7
  <2> HIDE DEF e
  <2> QED
    BY <2>1, FromEntropyWords
<1>9. ASSUME NEW n \in 0 .. total - 1
      PROVE  /\ n < EntropyBits(count) => bits[n] = readBits[n]
             /\ n >= EntropyBits(count) => bits[n] = ChecksumBit(e, n - EntropyBits(count))
  <2>1. CASE n < EntropyBits(count)
    <3>1. bits[n] = BitOf(e, PhraseBits, n)
      BY <2>1 DEF AllBits
    <3>2. n \in 0 .. size * PhraseBits - 1
      BY <1>2, <2>1
    <3>3. ~(n >= EntropyBits(count))
      BY <1>2, <2>1
    <3> QED
      BY <1>7, <3>1, <3>2, <3>3
  <2>2. CASE ~(n < EntropyBits(count))
    <3>1. bits[n] = ChecksumBit(e, n - EntropyBits(count))
      BY <2>2 DEF AllBits
    <3> QED
      BY <2>2, <3>1
  <2> QED
    BY <2>1, <2>2
<1>10. ASSUME Parses(words) PROVE FromEntropy(e) = words
  <2>1. ASSUME NEW n \in 0 .. total - 1 PROVE bits[n] = BitOf(words, WordBits, n)
    <3>1. CASE n < EntropyBits(count)
      BY <1>6, <1>9, <3>1
    <3>2. CASE ~(n < EntropyBits(count))
      <4> DEFINE i == n - EntropyBits(count)
      <4>1. i \in 0 .. ChecksumSize(count) - 1 /\ EntropyBits(count) + i = n /\ n >= EntropyBits(count)
        BY <1>2, <3>2
      <4>2. BitOf(words, WordBits, n) = ChecksumBit(e, i)
        BY <1>10, <4>1 DEF Parses, ChecksumMatches
      <4> QED
        BY <1>9, <4>1, <4>2
    <3> QED
      BY <3>1, <3>2
  <2>2. words \in [1 .. count -> 0 .. Pow2[WordBits] - 1]
    BY <1>5 DEF Words
  <2> HIDE DEF bits, e, total, count
  <2> QED
    BY <1>3, <1>4, <1>8, <2>1, <2>2, RegroupNumbers DEF total
<1>11. ASSUME FromEntropy(e) = words PROVE Parses(words)
  <2>1. \A n \in 0 .. total - 1 : BitOf(words, WordBits, n) = bits[n]
    <3>1. count * WordBits <= total /\ count * WordBits = total
      BY <1>4
    <3> HIDE DEF bits, e, count, total
    <3>2. \A n \in 0 .. count * WordBits - 1 :
             BitOf(Regroup(bits, WordBits, count), WordBits, n) = bits[n]
      BY <1>3, <1>4, <1>8, <3>1, RegroupBits
    <3> QED
      BY <1>8, <1>11, <3>1, <3>2
  <2>2. ASSUME NEW i \in 0 .. ChecksumSize(count) - 1 PROVE ChecksumMatches(words, i)
    <3> DEFINE n == EntropyBits(count) + i
    <3>1. n \in 0 .. total - 1 /\ n >= EntropyBits(count) /\ n - EntropyBits(count) = i
      BY <1>2
    <3>2. BitOf(words, WordBits, n) = ChecksumBit(e, i)
      BY <1>9, <2>1, <3>1
    <3> QED
      BY <3>2 DEF ChecksumMatches
  <2> QED
    BY <2>2 DEF Parses
<1> QED
  BY <1>10, <1>11

\* PhraseExact, for every width of words and units.
THEOREM PhraseExactHolds == FormatSpec => []PhraseExact
<1> DEFINE Valid == item \in Inputs
<1>1. FormatInit => Valid
  BY DEF FormatInit
<1>2. Valid /\ [UNCHANGED item]_item => Valid'
  OBVIOUS
<1>3. Valid => PhraseExact
  <2> SUFFICES ASSUME Valid PROVE PhraseExact
    OBVIOUS
  <2>1. item.kind = "entropy" => item.it \in Entropy
    BY FormatsAssumption DEF Inputs, Of
  <2>2. item.kind = "phrase" => item.it \in Seq(Words \cup {NoWord})
    BY FormatsAssumption DEF Inputs, Of
  <2> QED
    BY <2>1, <2>2, EntropyRestores, ParsesOwnEntropy DEF PhraseExact
<1> QED
  BY <1>1, <1>2, <1>3, PTL DEF FormatSpec

-----------------------------------------------------------------------------
(* Numbers in two bases (base58).                                          *)

\* d is a number in base b, least digit first and without zeros at its end; q are
\* the number, what is left of it without its first digit, and so on.
Numeral(d, q, b) ==
    /\ d \in Seq(0 .. b - 1) /\ q \in [Nat -> Nat]
    /\ \A i \in Nat : IF i < Len(d) THEN q[i] # 0 /\ q[i] = b * q[i + 1] + d[i + 1]
                      ELSE q[i] = 0

\* d is n in base b.
IsNumeral(d, n, b) == \E q : Numeral(d, q, b) /\ q[0] = n

\* A carry that nothing is added to is used up.
LEMMA CarryUsedUp ==
    ASSUME NEW b \in Nat \ {0, 1}, NEW m \in Nat, NEW carry \in [Nat -> Nat],
           \A i \in Nat : i >= m => carry[i + 1] = carry[i] \div b
    PROVE  /\ UsedUp(carry, m) \in Nat /\ UsedUp(carry, m) >= m
           /\ carry[UsedUp(carry, m)] = 0
           /\ \A k \in Nat : m <= k /\ k < UsedUp(carry, m) => carry[k] # 0
<1> DEFINE D == {j \in Nat : j <= carry[m] => carry[m + j] <= carry[m] - j}
<1>1. 0 \in D
  OBVIOUS
<1>2. ASSUME NEW j \in Nat, j \in D PROVE j + 1 \in D
  <2> SUFFICES ASSUME j + 1 <= carry[m] PROVE carry[m + (j + 1)] <= carry[m] - (j + 1)
    OBVIOUS
  <2> DEFINE c == carry[m + j]
  <2>1. c \in Nat /\ carry[m] \in Nat /\ m + j \in Nat /\ m + j >= m /\ c <= carry[m] - j
    BY <1>2
  <2>2. carry[(m + j) + 1] = c \div b /\ (m + j) + 1 = m + (j + 1)
    BY <2>1
  <2> HIDE DEF c
  <2>3. c \div b \in Nat /\ (c = 0 => c \div b = 0) /\ (c # 0 => c \div b <= c - 1)
    <3>0. c \in Int /\ c \in Nat /\ b \in Nat \ {0} /\ b >= 2
      BY <2>1
    <3>1. c = b * (c \div b) + (c % b) /\ (c \div b) \in Nat /\ (c % b) \in 0 .. b - 1
      BY <3>0, DivMod, DivNat
    <3> DEFINE e == c \div b
    <3>2. b * e >= 2 * e
      BY <3>0, <3>1
    <3> QED
      BY <2>1, <3>0, <3>1, <3>2
  <2> QED
    BY <2>1, <2>2, <2>3
<1>3. Nat \subseteq D
  <2> HIDE DEF D
  <2> QED
    BY <1>1, <1>2, SetInduction
<1> DEFINE top == m + carry[m]
           S == {k \in Nat : m <= k /\ carry[k] = 0}
<1>4. carry[m] \in Nat /\ top \in Nat /\ top >= m
  OBVIOUS
<1>5. carry[top] = 0
  <2>1. carry[m] \in D
    BY <1>3, <1>4
  <2>2. carry[top] <= carry[m] - carry[m]
    BY <1>4, <2>1
  <2> QED
    BY <1>4, <2>2
<1>6. PICK k \in S : \A l \in S : k <= l
  <2>1. top \in S /\ S \subseteq Nat
    BY <1>4, <1>5
  <2> HIDE DEF S
  <2> QED
    BY <2>1, LeastNat
<1>7. k \in m .. top /\ carry[k] = 0 /\ \A l \in m .. k - 1 : carry[l] # 0
  <2>1. k \in Nat /\ m <= k /\ carry[k] = 0 /\ k <= top
    BY <1>4, <1>5, <1>6
  <2>2. ASSUME NEW l \in m .. k - 1 PROVE carry[l] # 0
    <3>1. l \in Nat /\ m <= l /\ ~(k <= l)
      BY <2>1
    <3>2. l \notin S
      BY <1>6, <3>1
    <3> QED
      BY <3>1, <3>2
  <2> QED
    BY <1>4, <2>1, <2>2
<1> DEFINE u == UsedUp(carry, m)
<1>8. u \in m .. top /\ carry[u] = 0 /\ \A l \in m .. u - 1 : carry[l] # 0
  BY <1>7 DEF UsedUp
<1> HIDE DEF u
<1>9. u \in Nat /\ u >= m
  BY <1>4, <1>8
<1>10. ASSUME NEW l \in Nat, m <= l, l < u PROVE carry[l] # 0
  <2>1. l \in m .. u - 1
    BY <1>9, <1>10
  <2> QED
    BY <1>8, <2>1
<1> QED
  BY <1>8, <1>9, <1>10 DEF u

\* One turn of a conversion: MulAdd computes in base b.
LEMMA MulAddNumeral ==
    ASSUME NEW b \in Nat \ {0, 1}, NEW f \in Nat \ {0}, NEW c \in Nat,
           NEW d, NEW n, IsNumeral(d, n, b), NEW x, x = f * n + c
    PROVE  IsNumeral(MulAdd(d, f, c, b), x, b)
<1>0. PICK q : Numeral(d, q, b) /\ q[0] = n
  BY DEF IsNumeral
<1> DEFINE m == Len(d)
           term(i) == IF i \in DOMAIN d THEN d[i] * f ELSE 0
           F == [iv \in Nat \X Nat |-> (iv[2] + term(iv[1])) \div b]
           Eq(g) == g = [i \in Nat |-> IF i = 0 THEN c ELSE (g[i - 1] + term(i)) \div b]
           carry == CHOOSE g : Eq(g)
<1>1. /\ d \in Seq(0 .. b - 1) /\ q \in [Nat -> Nat] /\ m \in Nat /\ DOMAIN d = 1 .. m
      /\ \A i \in 1 .. m : d[i] \in 0 .. b - 1
  <2>1. d \in Seq(0 .. b - 1) /\ q \in [Nat -> Nat]
    BY <1>0 DEF Numeral
  <2> DEFINE S == 0 .. b - 1
  <2>2. d \in Seq(S)
    BY <2>1
  <2> HIDE DEF S
  <2>3. Len(d) \in Nat /\ DOMAIN d = 1 .. Len(d) /\ \A i \in 1 .. Len(d) : d[i] \in S
    BY <2>2
  <2> QED
    BY <2>1, <2>3 DEF S
<1>2. \A i \in Nat : term(i) \in Nat
  <2> SUFFICES ASSUME NEW i \in 1 .. m PROVE d[i] * f \in Nat
    BY <1>1
  <2>1. d[i] \in Nat /\ f \in Nat
    BY <1>1
  <2> QED
    BY <2>1
<1>3. \A i \in Nat : i > m => term(i) = 0
  BY <1>1
<1> HIDE DEF m
<1>4. b \in Nat \ {0} /\ b >= 2
  OBVIOUS
<1>5. F \in [Nat \X Nat -> Nat]
  <2> SUFFICES ASSUME NEW i \in Nat, NEW v \in Nat PROVE (v + term(i)) \div b \in Nat
    OBVIOUS
  <2>1. v + term(i) \in Nat
    BY <1>2
  <2> HIDE DEF term
  <2> QED
    BY <1>4, <2>1, DivNat
<1>6. PICK g \in [Nat -> Nat] : RecursionOn(g, Nat, c, F)
  <2> HIDE DEF F
  <2> QED
    BY <1>5, NatRecursion
<1>7. Eq(g)
  <2>1. ASSUME NEW i \in Nat, i # 0 PROVE F[<<i, g[i - 1]>>] = (g[i - 1] + term(i)) \div b
    <3>1. i - 1 \in Nat
      BY <2>1
    <3>2. g[i - 1] \in Nat
      BY <1>6, <3>1
    <3> HIDE DEF term
    <3> QED
      BY <3>2
  <2> HIDE DEF F, term
  <2> QED
    BY <1>6, <2>1 DEF RecursionOn
<1>8. Eq(carry)
  <2> HIDE DEF Eq
  <2> QED
    BY <1>7
<1>9. MulAdd(d, f, c, b) = [i \in 1 .. UsedUp(carry, m) |-> (carry[i - 1] + term(i)) % b]
  BY DEF MulAdd, m
<1> HIDE DEF carry, F, term
<1>10. carry[0] = c /\ carry = [i \in Nat |-> carry[i]]
       /\ \A i \in Nat : carry[i + 1] = (carry[i] + term(i + 1)) \div b
  <2>1. carry = [i \in Nat |-> IF i = 0 THEN c ELSE (carry[i - 1] + term(i)) \div b]
    BY <1>8
  <2>2. ASSUME NEW i \in Nat PROVE carry[i + 1] = (carry[i] + term(i + 1)) \div b
    <3>1. i + 1 \in Nat /\ i + 1 # 0 /\ (i + 1) - 1 = i
      OBVIOUS
    <3> QED
      BY <2>1, <3>1
  <2> QED
    BY <2>1, <2>2
<1>11. carry \in [Nat -> Nat]
  <2> DEFINE D == {i \in Nat : carry[i] \in Nat}
  <2>1. 0 \in D
    BY <1>10
  <2>2. ASSUME NEW i \in Nat, i \in D PROVE i + 1 \in D
    <3>0. carry[i] \in Nat /\ term(i + 1) \in Nat
      BY <1>2, <2>2
    <3>1. carry[i] + term(i + 1) \in Nat
      BY <3>0
    <3>2. (carry[i] + term(i + 1)) \div b \in Nat
      BY <1>4, <3>1, DivNat
    <3>3. carry[i + 1] = (carry[i] + term(i + 1)) \div b
      BY <1>10
    <3> QED
      BY <3>2, <3>3
  <2>3. Nat \subseteq D
    <3> HIDE DEF D
    <3> QED
      BY <2>1, <2>2, SetInduction
  <2> QED
    BY <1>10, <2>3
<1> HIDE DEF Eq
<1> DEFINE u == UsedUp(carry, m)
           e == MulAdd(d, f, c, b)
           p == [i \in Nat |-> f * q[i] + carry[i]]
<1>12. /\ u \in Nat /\ u >= m /\ carry[u] = 0
       /\ \A k \in Nat : m <= k /\ k < u => carry[k] # 0
  <2>1. \A i \in Nat : i >= m => carry[i + 1] = carry[i] \div b
    <3> SUFFICES ASSUME NEW i \in Nat, i >= m PROVE carry[i + 1] = carry[i] \div b
      OBVIOUS
    <3>1. i + 1 > m /\ i + 1 \in Nat
      BY <1>1
    <3>2. term(i + 1) = 0 /\ carry[i] \in Nat
      BY <1>3, <1>11, <3>1
    <3>3. carry[i] + term(i + 1) = carry[i]
      BY <3>2
    <3> QED
      BY <1>10, <3>3
  <2> QED
    BY <1>1, <1>11, <2>1, CarryUsedUp
<1>13. e = [i \in 1 .. u |-> (carry[i - 1] + term(i)) % b]
  BY <1>9
<1> HIDE DEF u, e
<1>14. ASSUME NEW i \in Nat
       PROVE  /\ (carry[i] + term(i + 1)) % b \in 0 .. b - 1
              /\ carry[i] + term(i + 1) = b * carry[i + 1] + ((carry[i] + term(i + 1)) % b)
  <2> DEFINE y == carry[i] + term(i + 1)
  <2>1. y \in Int
    <3>1. carry[i] \in Nat /\ term(i + 1) \in Nat
      BY <1>2, <1>11
    <3> QED
      BY <3>1
  <2>2. carry[i + 1] = y \div b
    BY <1>10
  <2> HIDE DEF y
  <2>3. y = b * (y \div b) + (y % b) /\ (y % b) \in 0 .. b - 1
    BY <1>4, <2>1, DivMod
  <2> QED
    BY <2>2, <2>3 DEF y
<1>15. e \in Seq(0 .. b - 1) /\ Len(e) = u
       /\ \A i \in Nat : i < u => e[i + 1] = (carry[i] + term(i + 1)) % b
  <2>1. ASSUME NEW i \in 1 .. u PROVE (carry[i - 1] + term(i)) % b \in 0 .. b - 1
    <3>1. i - 1 \in Nat /\ (i - 1) + 1 = i
      BY <1>12
    <3> QED
      BY <1>14, <3>1
  <2>2. e \in [1 .. u -> 0 .. b - 1]
    BY <1>13, <2>1
  <2>3. ASSUME NEW i \in Nat, i < u PROVE e[i + 1] = (carry[i] + term(i + 1)) % b
    <3>1. i + 1 \in 1 .. u /\ (i + 1) - 1 = i
      BY <1>12, <2>3
    <3> QED
      BY <1>13, <3>1
  <2> DEFINE S == 0 .. b - 1
  <2>4. e \in [1 .. u -> S] /\ u \in Nat
    BY <1>12, <2>2
  <2> HIDE DEF S
  <2>5. e \in Seq(S) /\ Len(e) = u
    BY <2>4
  <2> QED
    BY <2>3, <2>5 DEF S
<1>16. p \in [Nat -> Nat] /\ p[0] = f * q[0] + c
  <2>1. ASSUME NEW i \in Nat PROVE f * q[i] + carry[i] \in Nat
    <3>1. f \in Nat /\ q[i] \in Nat /\ carry[i] \in Nat
      BY <1>1, <1>11
    <3> QED
      BY <3>1
  <2> QED
    BY <1>10, <2>1
<1>17. ASSUME NEW i \in Nat
       PROVE  IF i < u THEN p[i] # 0 /\ p[i] = b * p[i + 1] + e[i + 1] ELSE p[i] = 0
  <2>1. p[i] = f * q[i] + carry[i] /\ p[i + 1] = f * q[i + 1] + carry[i + 1]
    OBVIOUS
  <2>2. q[i] \in Nat /\ q[i + 1] \in Nat /\ carry[i] \in Nat /\ carry[i + 1] \in Nat /\ term(i + 1) \in Nat
    <3>1. i + 1 \in Nat
      OBVIOUS
    <3> HIDE DEF p
    <3> QED
      BY <1>1, <1>2, <1>11, <3>1
  <2> HIDE DEF p
  <2>3. f * q[i] = b * (f * q[i + 1]) + term(i + 1) /\ (q[i] = 0 => f * q[i] = 0) /\ f * q[i] \in Nat
        /\ f * q[i + 1] \in Nat
    <3>1. CASE i < m
      <4>0. i + 1 \in 1 .. m
        BY <1>1, <3>1
      <4>1. q[i] = b * q[i + 1] + d[i + 1] /\ d[i + 1] \in 0 .. b - 1 /\ i + 1 \in DOMAIN d
        <5>1. q[i] = b * q[i + 1] + d[i + 1]
          BY <1>0, <3>1 DEF Numeral, m
        <5> QED
          BY <1>1, <4>0, <5>1
      <4>2. term(i + 1) = d[i + 1] * f
        BY <4>1 DEF term
      <4>3. f * (b * q[i + 1] + d[i + 1]) = f * (b * q[i + 1]) + d[i + 1] * f
        BY <2>2, <4>1
      <4>4. f * (b * q[i + 1]) = b * (f * q[i + 1])
        BY <2>2, <4>1
      <4> QED
        BY <2>2, <4>1, <4>2, <4>3, <4>4
    <3>2. CASE ~(i < m)
      <4>1. i + 1 > m /\ i + 1 \in Nat /\ ~(i + 1 < m)
        BY <1>1, <3>2
      <4>2. q[i] = 0 /\ q[i + 1] = 0
        BY <1>0, <3>2, <4>1 DEF Numeral, m
      <4>3. term(i + 1) = 0
        BY <1>3, <4>1
      <4> QED
        BY <4>2, <4>3
    <3> QED
      BY <3>1, <3>2
  <2>4. CASE i < u
    <3>1. carry[i] + term(i + 1) = b * carry[i + 1] + e[i + 1] /\ e[i + 1] \in 0 .. b - 1
      BY <1>14, <1>15, <2>4
    <3>2. p[i] = b * p[i + 1] + e[i + 1]
      <4> DEFINE w == f * q[i + 1]
                 y == carry[i + 1]
      <4>1. p[i + 1] = w + y /\ p[i] = (b * w + term(i + 1)) + carry[i] /\ w \in Nat /\ y \in Nat
        BY <2>1, <2>2, <2>3
      <4>2. carry[i] + term(i + 1) = b * y + e[i + 1]
        BY <3>1
      <4> HIDE DEF w, y
      <4>3. b * (w + y) = b * w + b * y /\ b * w \in Nat /\ b * y \in Nat
        BY <4>1
      <4> QED
        BY <2>2, <3>1, <4>1, <4>2, <4>3
    <3>3. p[i] # 0
      <4>1. CASE i < m
        <5>1. q[i] # 0
          BY <1>0, <4>1 DEF Numeral, m
        <5>2. f * q[i] > 0
          BY <2>2, <5>1
        <5> QED
          BY <2>1, <2>2, <5>2
      <4>2. CASE ~(i < m)
        <5>1. carry[i] # 0
          BY <1>1, <1>12, <2>4, <4>2
        <5> QED
          BY <2>1, <2>2, <2>3, <5>1
      <4> QED
        BY <4>1, <4>2
    <3> QED
      BY <2>4, <3>2, <3>3
  <2>5. CASE ~(i < u)
    <3>1. carry[i] = 0
      <4> DEFINE D == {k \in Nat : k >= u => carry[k] = 0}
      <4>1. 0 \in D
        BY <1>12
      <4>2. ASSUME NEW k \in Nat, k \in D PROVE k + 1 \in D
        <5> SUFFICES ASSUME k + 1 >= u PROVE carry[k + 1] = 0
          OBVIOUS
        <5>1. CASE k + 1 = u
          BY <1>12, <5>1
        <5>2. CASE k + 1 # u
          <6>1. k >= u /\ k + 1 > m /\ k + 1 \in Nat
            BY <1>1, <1>12, <5>2
          <6>2. carry[k] = 0 /\ term(k + 1) = 0
            BY <1>3, <4>2, <6>1
          <6>3. carry[k] + term(k + 1) = 0
            BY <6>2
          <6>4. carry[k + 1] = 0 \div b
            BY <1>10, <6>3
          <6>5. 0 \div b = 0
            BY <1>4
          <6> QED
            BY <6>4, <6>5
        <5> QED
          BY <5>1, <5>2
      <4>3. Nat \subseteq D
        <5> HIDE DEF D
        <5> QED
          BY <4>1, <4>2, SetInduction
      <4> QED
        BY <1>12, <2>5, <4>3
    <3>2. q[i] = 0
      <4>1. ~(i < m)
        BY <1>1, <1>12, <2>5
      <4> QED
        BY <1>0, <4>1 DEF Numeral, m
    <3>3. p[i] = 0
      BY <2>1, <2>3, <3>1, <3>2
    <3> QED
      BY <2>5, <3>3
  <2> QED
    BY <2>4, <2>5
<1> HIDE DEF p
<1>18. Numeral(e, p, b)
  BY <1>0, <1>15, <1>16, <1>17 DEF Numeral
<1> QED
  BY <1>0, <1>16, <1>18 DEF e, IsNumeral

\* No digits are the number 0.
LEMMA EmptyNumeral ==
    ASSUME NEW b \in Nat \ {0, 1}
    PROVE  IsNumeral(<<>>, 0, b)
<1> DEFINE q == [i \in Nat |-> 0]
           d == <<>>
<1>1. d \in Seq(0 .. b - 1) /\ Len(d) = 0 /\ q \in [Nat -> Nat]
  OBVIOUS
<1>2. \A i \in Nat : q[i] = 0 /\ ~(i < 0)
  OBVIOUS
<1> HIDE DEF d, q
<1>3. Numeral(d, q, b)
  BY <1>1, <1>2 DEF Numeral
<1> QED
  BY <1>2, <1>3 DEF d, IsNumeral

\* v is what the digits read so far spell in base b.
Reading(v, s, b) ==
    /\ v \in [0 .. Len(s) -> Nat] /\ v[0] = 0
    /\ \A i \in 1 .. Len(s) : v[i] = b * v[i - 1] + s[i]

\* The outer loop of a conversion.
LEMMA ConvertNumeral ==
    ASSUME NEW from \in Nat \ {0, 1}, NEW to \in Nat \ {0, 1}, NEW s \in Seq(0 .. from - 1),
           NEW v, Reading(v, s, from)
    PROVE  IsNumeral(Convert(s, from, to), v[Len(s)], to)
<1> DEFINE n == Len(s)
           digit(i) == IF i \in 1 .. n THEN s[i] ELSE 0
           V == {d \in Seq(0 .. to - 1) : \E x \in Nat : IsNumeral(d, x, to)}
           F == [iv \in Nat \X V |-> MulAdd(iv[2], from, digit(iv[1]), to)]
           Eq(g) == g = [i \in 0 .. n |-> IF i = 0 THEN <<>> ELSE MulAdd(g[i - 1], from, s[i], to)]
           digits == CHOOSE g : Eq(g)
<1>1. n \in Nat /\ \A i \in 1 .. n : s[i] \in Nat
  OBVIOUS
<1>2. Convert(s, from, to) = digits[n]
  BY DEF Convert
<1> HIDE DEF n, digits
<1>3. <<>> \in V
  <2>1. IsNumeral(<<>>, 0, to)
    BY EmptyNumeral
  <2> QED
    BY <2>1
<1>4. \A i \in Nat : digit(i) \in Nat
  BY <1>1
<1> HIDE DEF digit
<1>5. ASSUME NEW d \in V, NEW c \in Nat PROVE MulAdd(d, from, c, to) \in V
  <2>1. PICK x \in Nat : IsNumeral(d, x, to)
    OBVIOUS
  <2> DEFINE y == from * x + c
  <2>2. y \in Nat /\ y = from * x + c /\ from \in Nat \ {0}
    OBVIOUS
  <2> HIDE DEF y
  <2>3. IsNumeral(MulAdd(d, from, c, to), y, to)
    BY <2>1, <2>2, MulAddNumeral
  <2> QED
    BY <2>2, <2>3 DEF IsNumeral, Numeral
<1> HIDE DEF V
<1>6. F \in [Nat \X V -> V]
  BY <1>4, <1>5
<1>7. PICK g \in [0 .. n -> V] : RecursionOn(g, 0 .. n, <<>>, F)
  <2> HIDE DEF F
  <2> QED
    BY <1>1, <1>3, <1>6, FiniteRecursion
<1>8. Eq(g)
  <2>1. ASSUME NEW i \in 0 .. n, i # 0 PROVE F[<<i, g[i - 1]>>] = MulAdd(g[i - 1], from, s[i], to)
    <3>1. i \in Nat /\ i \in 1 .. n /\ i - 1 \in 0 .. n
      BY <1>1, <2>1
    <3>2. g[i - 1] \in V /\ digit(i) = s[i]
      BY <1>7, <3>1 DEF digit
    <3> QED
      BY <3>1, <3>2
  <2> HIDE DEF F
  <2> QED
    BY <1>7, <2>1 DEF RecursionOn
<1>9. Eq(digits)
  <2> HIDE DEF Eq
  <2> QED
    BY <1>8 DEF digits
<1>10. digits[0] = <<>> /\ \A i \in 1 .. n : digits[i] = MulAdd(digits[i - 1], from, s[i], to)
  BY <1>1, <1>9
<1> HIDE DEF Eq, F
<1> DEFINE D == {i \in Nat : i <= n => IsNumeral(digits[i], v[i], to)}
<1>11. 0 \in D
  <2>1. IsNumeral(<<>>, 0, to)
    BY EmptyNumeral
  <2> QED
    BY <1>10, <2>1 DEF Reading
<1>12. ASSUME NEW i \in Nat, i \in D PROVE i + 1 \in D
  <2> SUFFICES ASSUME i + 1 <= n PROVE IsNumeral(digits[i + 1], v[i + 1], to)
    OBVIOUS
  <2>1. IsNumeral(digits[i], v[i], to)
    <3>1. i <= n
      BY <1>1
    <3> QED
      BY <1>12, <3>1
  <2>2. i + 1 \in 1 .. n /\ (i + 1) - 1 = i /\ from \in Nat \ {0}
    BY <1>1
  <2>3. digits[i + 1] = MulAdd(digits[i], from, s[i + 1], to)
    BY <1>10, <2>2
  <2>4. v[i + 1] = from * v[i] + s[i + 1]
    BY <2>2 DEF n, Reading
  <2>5. s[i + 1] \in Nat
    BY <1>1, <2>2
  <2> QED
    BY <2>1, <2>2, <2>3, <2>4, <2>5, MulAddNumeral
<1> HIDE DEF D
<1>13. n \in D
  BY <1>1, <1>11, <1>12, SetInduction
<1> QED
  BY <1>1, <1>2, <1>13 DEF D, n

\* s spells, most significant digit first and after z zeros, the number q[0]; q[i]
\* is what is left of it without its last i digits.
Spelling(s, z, q, b) ==
    /\ s \in Seq(0 .. b - 1) /\ z \in 0 .. Len(s) /\ q \in [Nat -> Nat]
    /\ \A i \in 1 .. z : s[i] = 0
    /\ \A i \in Nat : IF i < Len(s) - z THEN q[i] # 0 /\ q[i] = b * q[i + 1] + s[Len(s) - i]
                      ELSE q[i] = 0

\* The zeros that a spelling starts with are counted as they are.
LEMMA SpellingZeros ==
    ASSUME NEW b \in Nat \ {0, 1}, NEW s, NEW z, NEW q, Spelling(s, z, q, b)
    PROVE  LeadingZeros(s) = z
<1>1. /\ s \in Seq(0 .. b - 1) /\ z \in 0 .. Len(s) /\ Len(s) \in Nat
      /\ \A i \in 1 .. z : s[i] = 0
  BY DEF Spelling
<1>2. z < Len(s) => s[z + 1] # 0
  <2> SUFFICES ASSUME z < Len(s) PROVE s[z + 1] # 0
    OBVIOUS
  <2> DEFINE k == Len(s) - z - 1
  <2>1. k \in Nat /\ k < Len(s) - z /\ k + 1 \in Nat /\ ~(k + 1 < Len(s) - z) /\ Len(s) - k = z + 1
    BY <1>1
  <2> HIDE DEF k
  <2>2. q[k] # 0 /\ q[k] = b * q[k + 1] + s[Len(s) - k]
    BY <2>1 DEF Spelling
  <2>3. q[k + 1] = 0
    BY <2>1 DEF Spelling
  <2>4. s[Len(s) - k] \in Int
    <3>1. Len(s) - k \in 1 .. Len(s)
      BY <1>1, <2>1
    <3> QED
      BY <1>1, <3>1
  <2> QED
    BY <2>1, <2>2, <2>3, <2>4
<1>3. ASSUME NEW y \in 0 .. Len(s), \A i \in 1 .. y : s[i] = 0, y < Len(s) => s[y + 1] # 0
      PROVE  y = z
  <2>1. CASE y < z
    <3>1. y + 1 \in 1 .. z /\ y < Len(s)
      BY <1>1, <2>1
    <3> QED
      BY <1>1, <1>3, <3>1
  <2>2. CASE z < y
    <3>1. z + 1 \in 1 .. y /\ z < Len(s)
      BY <1>1, <2>2
    <3> QED
      BY <1>2, <1>3, <3>1
  <2> QED
    BY <1>1, <2>1, <2>2
<1> QED
  BY <1>1, <1>2, <1>3 DEF LeadingZeros

\* A number is spelt in one way.
LEMMA SpellingUnique ==
    ASSUME NEW b \in Nat \ {0, 1}, NEW z, NEW s, NEW q, Spelling(s, z, q, b),
           NEW t, NEW p, Spelling(t, z, p, b), q[0] = p[0]
    PROVE  s = t
<1> DEFINE m == Len(s) - z
           n == Len(t) - z
           S == 0 .. b - 1
<1>0. /\ \A i \in 1 .. z : s[i] = 0 /\ t[i] = 0
      /\ s = [i \in 1 .. Len(s) |-> s[i]] /\ t = [i \in 1 .. Len(t) |-> t[i]]
      /\ \A i \in 1 .. Len(s) : s[i] \in S
      /\ \A i \in 1 .. Len(t) : t[i] \in S
  <2>1. s \in Seq(S) /\ t \in Seq(S)
    BY DEF Spelling
  <2>2. z \in 0 .. Len(s) /\ z \in 0 .. Len(t) /\ q \in [Nat -> Nat] /\ p \in [Nat -> Nat]
        /\ \A i \in 1 .. z : s[i] = 0 /\ t[i] = 0
    BY DEF Spelling
  <2> HIDE DEF S
  <2>3. /\ Len(s) \in Nat /\ s = [i \in 1 .. Len(s) |-> s[i]]
        /\ \A i \in 1 .. Len(s) : s[i] \in S
    BY <2>1, SeqFacts
  <2>4. /\ Len(t) \in Nat /\ t = [i \in 1 .. Len(t) |-> t[i]]
        /\ \A i \in 1 .. Len(t) : t[i] \in S
    BY <2>1, SeqFacts
  <2> QED
    BY <2>2, <2>3, <2>4
<1>1. /\ z \in 0 .. Len(s) /\ Len(s) \in Nat /\ q \in [Nat -> Nat]
      /\ z \in 0 .. Len(t) /\ Len(t) \in Nat /\ p \in [Nat -> Nat]
  <2>1. s \in Seq(S) /\ t \in Seq(S)
    BY DEF Spelling
  <2>2. z \in 0 .. Len(s) /\ z \in 0 .. Len(t) /\ q \in [Nat -> Nat] /\ p \in [Nat -> Nat]
    BY DEF Spelling
  <2> HIDE DEF S
  <2>3. Len(s) \in Nat /\ Len(t) \in Nat
    BY <2>1, SeqFacts
  <2> QED
    BY <2>2, <2>3
<1> HIDE DEF S
<1>2. m \in Nat /\ n \in Nat /\ z \in Nat /\ Len(s) = z + m /\ Len(t) = z + n
  BY <1>1
<1>3. ASSUME NEW i \in Nat
      PROVE  /\ i < m => q[i] # 0 /\ q[i] = b * q[i + 1] + s[Len(s) - i]
             /\ ~(i < m) => q[i] = 0
             /\ i < n => p[i] # 0 /\ p[i] = b * p[i + 1] + t[Len(t) - i]
             /\ ~(i < n) => p[i] = 0
  BY DEF Spelling
<1>4. ASSUME NEW i \in Nat, i < m PROVE s[Len(s) - i] \in S
  <2>1. Len(s) - i \in 1 .. Len(s)
    BY <1>2, <1>4
  <2> QED
    BY <1>0, <2>1
<1>5. ASSUME NEW i \in Nat, i < n PROVE t[Len(t) - i] \in S
  <2>1. Len(t) - i \in 1 .. Len(t)
    BY <1>2, <1>5
  <2> QED
    BY <1>0, <2>1
<1> HIDE DEF m, n
<1>6. ASSUME NEW i \in Nat, q[i] = p[i]
      PROVE  /\ (i < m) <=> (i < n)
             /\ q[i + 1] = p[i + 1]
             /\ i < m => s[Len(s) - i] = t[Len(t) - i]
  <2>1. (i < m) <=> (i < n)
    BY <1>2, <1>3, <1>6
  <2>2. CASE i < m
    <3> DEFINE x == q[i + 1]
               y == p[i + 1]
               c == s[Len(s) - i]
               e == t[Len(t) - i]
    <3>1. b * x + c = b * y + e
      BY <1>3, <1>6, <2>1, <2>2
    <3>2. x \in Int /\ y \in Int /\ b \in Nat \ {0}
      <4>1. i + 1 \in Nat /\ b \in Nat \ {0}
        OBVIOUS
      <4>2. q[i + 1] \in Nat /\ p[i + 1] \in Nat
        BY <1>1, <4>1
      <4> QED
        BY <4>1, <4>2
    <3>3. c \in 0 .. b - 1 /\ e \in 0 .. b - 1
      BY <1>4, <1>5, <2>1, <2>2 DEF S
    <3> HIDE DEF x, y, c, e
    <3>4. (b * x + c) \div b = x /\ (b * x + c) % b = c /\ (b * y + e) \div b = y /\ (b * y + e) % b = e
      BY <3>2, <3>3, DivUnique
    <3>5. x = y /\ c = e
      BY <3>1, <3>4
    <3> QED
      BY <2>1, <3>5 DEF x, y, c, e
  <2>3. CASE ~(i < m)
    <3>1. i + 1 \in Nat /\ ~(i + 1 < m) /\ ~(i + 1 < n)
      BY <1>2, <2>1, <2>3
    <3>2. q[i + 1] = 0 /\ p[i + 1] = 0
      BY <1>3, <3>1
    <3> QED
      BY <2>1, <2>3, <3>2
  <2> QED
    BY <2>2, <2>3
<1> DEFINE D == {i \in Nat : q[i] = p[i]}
<1>7. Nat \subseteq D
  <2>1. 0 \in D
    OBVIOUS
  <2>2. ASSUME NEW i \in Nat, i \in D PROVE i + 1 \in D
    BY <1>6, <2>2
  <2> HIDE DEF D
  <2> QED
    BY <2>1, <2>2, SetInduction
<1>8. \A i \in Nat : ((i < m) <=> (i < n)) /\ (i < m => s[Len(s) - i] = t[Len(t) - i])
  <2> SUFFICES ASSUME NEW i \in Nat
               PROVE  ((i < m) <=> (i < n)) /\ (i < m => s[Len(s) - i] = t[Len(t) - i])
    OBVIOUS
  <2>1. q[i] = p[i]
    BY <1>7
  <2> QED
    BY <1>6, <2>1
<1>9. m = n
  <2>1. (m < m <=> m < n) /\ (n < m <=> n < n)
    BY <1>2, <1>8
  <2> QED
    BY <1>2, <2>1
<1>10. Len(s) = Len(t)
  BY <1>2, <1>9
<1>11. ASSUME NEW j \in 1 .. Len(s) PROVE s[j] = t[j]
  <2>1. CASE j <= z
    <3>1. j \in 1 .. z
      BY <1>1, <2>1
    <3> QED
      BY <1>0, <3>1
  <2>2. CASE ~(j <= z)
    <3>1. Len(s) - j \in Nat /\ Len(s) - j < m /\ Len(s) - (Len(s) - j) = j
      BY <1>1, <1>2, <1>11, <2>2
    <3>2. s[Len(s) - (Len(s) - j)] = t[Len(t) - (Len(s) - j)]
      BY <1>8, <3>1
    <3> QED
      BY <1>10, <3>1, <3>2
  <2> QED
    BY <2>1, <2>2
<1> QED
  BY <1>0, <1>10, <1>11

\* What the digits of a sequence spell, from the left.
LEMMA ReadingExists ==
    ASSUME NEW b \in Nat \ {0, 1}, NEW s \in Seq(0 .. b - 1)
    PROVE  \E v : Reading(v, s, b)
<1> DEFINE n == Len(s)
           S == 0 .. b - 1
           digit(i) == IF i \in 1 .. n THEN s[i] ELSE 0
           F == [iv \in Nat \X Nat |-> b * iv[2] + digit(iv[1])]
<1>1. n \in Nat /\ \A i \in 1 .. n : s[i] \in Nat
  <2>1. s \in Seq(S) /\ S \subseteq Nat
    OBVIOUS
  <2> HIDE DEF S
  <2> QED
    BY <2>1, SeqFacts
<1>2. \A i \in Nat : digit(i) \in Nat
  BY <1>1
<1> HIDE DEF n, digit
<1>3. ASSUME NEW i \in Nat, NEW x \in Nat PROVE b * x + digit(i) \in Nat
  <2>1. digit(i) \in Nat /\ b \in Nat
    BY <1>2
  <2> QED
    BY <2>1
<1>4. F \in [Nat \X Nat -> Nat]
  BY <1>3
<1>5. PICK v \in [0 .. n -> Nat] : RecursionOn(v, 0 .. n, 0, F)
  <2> HIDE DEF F
  <2> QED
    BY <1>1, <1>4, FiniteRecursion
<1>6. v[0] = 0
  <2> HIDE DEF F
  <2> QED
    BY <1>1, <1>5 DEF RecursionOn
<1>7. ASSUME NEW i \in 1 .. n PROVE v[i] = b * v[i - 1] + s[i]
  <2>1. i \in 0 .. n /\ i # 0 /\ i - 1 \in 0 .. n /\ i \in Nat
    BY <1>1
  <2>2. v[i] = F[<<i, v[i - 1]>>]
    <3> HIDE DEF F
    <3> QED
      BY <1>5, <2>1 DEF RecursionOn
  <2>3. v[i - 1] \in Nat /\ digit(i) = s[i]
    BY <1>5, <2>1 DEF digit
  <2> QED
    BY <2>1, <2>2, <2>3
<1> QED
  BY <1>5, <1>6, <1>7 DEF Reading, n

\* Every sequence of digits spells a number.
LEMMA SpellingExists ==
    ASSUME NEW b \in Nat \ {0, 1}, NEW s \in Seq(0 .. b - 1)
    PROVE  \E z, q : Spelling(s, z, q, b)
<1> DEFINE n == Len(s)
           S == 0 .. b - 1
<1>1. n \in Nat /\ \A i \in 1 .. n : s[i] \in Nat
  <2>1. s \in Seq(S) /\ S \subseteq Nat
    OBVIOUS
  <2> HIDE DEF S
  <2> QED
    BY <2>1, SeqFacts
<1>2. PICK v : Reading(v, s, b)
  BY ReadingExists
<1> HIDE DEF n
<1>3. v \in [0 .. n -> Nat] /\ v[0] = 0 /\ \A i \in 1 .. n : v[i] = b * v[i - 1] + s[i]
  BY <1>2 DEF Reading, n
<1>4. PICK z \in 0 .. n : (\A i \in 1 .. z : s[i] = 0) /\ (z < n => s[z + 1] # 0)
  <2> DEFINE T == {j \in Nat : j < n => s[j + 1] # 0}
  <2>1. n \in T /\ T \subseteq Nat
    BY <1>1
  <2>2. PICK z \in T : \A j \in T : z <= j
    <3> HIDE DEF T
    <3> QED
      BY <2>1, LeastNat
  <2>3. z \in 0 .. n
    BY <1>1, <2>1, <2>2
  <2>4. ASSUME NEW i \in 1 .. z PROVE s[i] = 0
    <3>1. i - 1 \in Nat /\ (i - 1) + 1 = i /\ ~(z <= i - 1) /\ i - 1 < n
      BY <1>1, <2>3
    <3>2. i - 1 \notin T
      BY <2>2, <3>1
    <3> QED
      BY <3>1, <3>2
  <2> QED
    BY <2>2, <2>3, <2>4
<1>5. z \in Nat /\ z <= n
  BY <1>1
<1>6. \A i \in 0 .. z : v[i] = 0
  <2> DEFINE D == {i \in Nat : i <= z => v[i] = 0}
  <2>1. 0 \in D
    BY <1>3
  <2>2. ASSUME NEW i \in Nat, i \in D PROVE i + 1 \in D
    <3> SUFFICES ASSUME i + 1 <= z PROVE v[i + 1] = 0
      OBVIOUS
    <3>1. i + 1 \in 1 .. n /\ (i + 1) - 1 = i /\ i + 1 \in 1 .. z /\ i <= z
      BY <1>1, <1>5
    <3>2. v[i + 1] = b * v[i] + s[i + 1]
      BY <1>3, <3>1
    <3>3. v[i] = 0 /\ s[i + 1] = 0
      BY <1>4, <2>2, <3>1
    <3> QED
      BY <3>2, <3>3
  <2>3. Nat \subseteq D
    <3> HIDE DEF D
    <3> QED
      BY <2>1, <2>2, SetInduction
  <2> QED
    BY <1>5, <2>3
<1>7. \A i \in z + 1 .. n : v[i] # 0
  <2> DEFINE D == {k \in Nat : z + 1 + k <= n => v[z + 1 + k] # 0}
  <2>1. 0 \in D
    <3> SUFFICES ASSUME z + 1 <= n PROVE v[z + 1] # 0
      BY <1>5
    <3>1. z + 1 \in 1 .. n /\ (z + 1) - 1 = z /\ z < n /\ z \in 0 .. z
      BY <1>1, <1>5
    <3>2. v[z + 1] = b * v[z] + s[z + 1]
      BY <1>3, <3>1
    <3>3. v[z] = 0 /\ s[z + 1] # 0 /\ s[z + 1] \in Nat
      BY <1>1, <1>4, <1>6, <3>1
    <3> QED
      BY <3>2, <3>3
  <2>2. ASSUME NEW k \in Nat, k \in D PROVE k + 1 \in D
    <3> SUFFICES ASSUME z + 1 + (k + 1) <= n PROVE v[z + 1 + (k + 1)] # 0
      OBVIOUS
    <3> DEFINE i == z + 1 + k
    <3>1. i + 1 \in 1 .. n /\ (i + 1) - 1 = i /\ i <= n /\ i \in 0 .. n /\ z + 1 + (k + 1) = i + 1
      BY <1>1, <1>5
    <3>2. v[i] # 0 /\ v[i] \in Nat
      BY <1>3, <2>2, <3>1
    <3> HIDE DEF i
    <3>3. v[i + 1] = b * v[i] + s[i + 1] /\ s[i + 1] \in Nat
      BY <1>1, <1>3, <3>1
    <3> DEFINE w == b * v[i]
    <3>4. w \in Nat /\ w > 0
      BY <3>2
    <3>5. v[i + 1] = w + s[i + 1]
      BY <3>3
    <3> HIDE DEF w
    <3>6. v[i + 1] # 0
      BY <3>3, <3>4, <3>5
    <3> QED
      BY <3>1, <3>6
  <2>3. Nat \subseteq D
    <3> HIDE DEF D
    <3> QED
      BY <2>1, <2>2, SetInduction
  <2>4. ASSUME NEW i \in z + 1 .. n PROVE v[i] # 0
    <3>1. i - (z + 1) \in Nat /\ z + 1 + (i - (z + 1)) = i /\ i <= n
      BY <1>1, <1>5
    <3>2. i - (z + 1) \in D
      BY <2>3, <3>1
    <3> QED
      BY <3>1, <3>2
  <2> QED
    BY <2>4
<1> DEFINE q == [i \in Nat |-> IF i < n - z THEN v[n - i] ELSE 0]
<1>8. q \in [Nat -> Nat]
  <2> SUFFICES ASSUME NEW i \in Nat, i < n - z PROVE v[n - i] \in Nat
    OBVIOUS
  <2>1. n - i \in 0 .. n
    BY <1>1, <1>5
  <2> QED
    BY <1>3, <2>1
<1>9. ASSUME NEW i \in Nat
      PROVE  IF i < n - z THEN q[i] # 0 /\ q[i] = b * q[i + 1] + s[n - i] ELSE q[i] = 0
  <2>1. CASE i < n - z
    <3>1. n - i \in z + 1 .. n /\ n - i \in 1 .. n /\ (n - i) - 1 = n - (i + 1) /\ i + 1 \in Nat
          /\ (~(i + 1 < n - z) => n - (i + 1) = z) /\ z \in 0 .. z
      BY <1>1, <1>5, <2>1
    <3>2. q[i] = v[n - i] /\ v[n - i] # 0
      BY <1>7, <2>1, <3>1
    <3>3. v[n - i] = b * v[n - (i + 1)] + s[n - i]
      BY <1>3, <3>1
    <3>4. q[i + 1] = v[n - (i + 1)]
      <4>1. CASE i + 1 < n - z
        BY <3>1, <4>1
      <4>2. CASE ~(i + 1 < n - z)
        BY <1>6, <3>1, <4>2
      <4> QED
        BY <4>1, <4>2
    <3> HIDE DEF q
    <3> QED
      BY <2>1, <3>2, <3>3, <3>4
  <2>2. CASE ~(i < n - z)
    BY <2>2
  <2> QED
    BY <2>1, <2>2
<1> HIDE DEF q
<1>10. Spelling(s, z, q, b)
  BY <1>4, <1>8, <1>9 DEF Spelling, n
<1> QED
  BY <1>10

\* The same number in another base, behind the same zeros.
LEMMA RebaseSpelling ==
    ASSUME NEW from \in Nat \ {0, 1}, NEW to \in Nat \ {0, 1},
           NEW s, NEW z, NEW q, Spelling(s, z, q, from)
    PROVE  \E p : Spelling(Rebase(s, from, to), z, p, to) /\ p[0] = q[0]
<1> DEFINE n == Len(s)
           v == [i \in 0 .. n |-> q[n - i]]
<1>1. s \in Seq(0 .. from - 1) /\ q \in [Nat -> Nat] /\ z \in 0 .. Len(s)
      /\ \A i \in 1 .. z : s[i] = 0
  BY DEF Spelling
<1>2. n \in Nat /\ z \in Nat /\ z <= n
  <2>1. n \in Nat
    BY <1>1
  <2> QED
    BY <1>1, <2>1
<1>3. Reading(v, s, from)
  <2>1. v \in [0 .. n -> Nat]
    <3>1. \A i \in 0 .. n : n - i \in Nat
      BY <1>2
    <3> QED
      BY <1>1, <3>1
  <2>2. v[0] = 0
    <3>1. n \in Nat /\ ~(n < n - z) /\ n - 0 = n /\ 0 \in 0 .. n
      BY <1>2
    <3>2. q[n] = 0
      BY <3>1 DEF Spelling
    <3> QED
      BY <3>1, <3>2
  <2>3. ASSUME NEW i \in 1 .. n PROVE v[i] = from * v[i - 1] + s[i]
    <3> DEFINE k == n - i
    <3>1. k \in Nat /\ k + 1 \in Nat /\ n - (i - 1) = k + 1 /\ n - k = i /\ i \in 0 .. n /\ i - 1 \in 0 .. n
      BY <1>2
    <3>2. v[i] = q[k] /\ v[i - 1] = q[k + 1]
      BY <3>1
    <3>3. (k < n - z <=> i > z) /\ (i <= z => ~(k + 1 < n - z) \/ i = z + 1)
      BY <1>2
    <3> HIDE DEF k, v
    <3>4. CASE i > z
      <4>1. q[k] = from * q[k + 1] + s[n - k]
        BY <3>1, <3>3, <3>4 DEF Spelling, n
      <4> QED
        BY <3>1, <3>2, <4>1
    <3>5. CASE ~(i > z)
      <4>1. i \in 1 .. z /\ ~(k < n - z) /\ ~(k + 1 < n - z)
        BY <1>2, <3>1, <3>3, <3>5
      <4>2. q[k] = 0 /\ q[k + 1] = 0
        BY <3>1, <4>1 DEF Spelling, n
      <4>3. s[i] = 0
        BY <1>1, <4>1
      <4> QED
        BY <3>2, <4>2, <4>3
    <3> QED
      BY <3>4, <3>5
  <2> HIDE DEF v
  <2> QED
    BY <2>1, <2>2, <2>3 DEF Reading
<1> DEFINE c == Convert(s, from, to)
           t == Rebase(s, from, to)
           m == Len(c)
<1>4. v[n] = q[0]
  <2>1. n \in 0 .. n /\ n - n = 0
    BY <1>2
  <2> QED
    BY <2>1
<1>5. PICK p : Numeral(c, p, to) /\ p[0] = q[0]
  <2> HIDE DEF v
  <2>1. IsNumeral(c, v[n], to)
    BY <1>1, <1>3, ConvertNumeral
  <2> QED
    BY <1>4, <2>1 DEF IsNumeral
<1> HIDE DEF n, v
<1>6. t = [i \in 1 .. z |-> 0] \o Reverse(c)
  BY SpellingZeros DEF Rebase
<1> HIDE DEF c, t
<1> DEFINE S == 0 .. to - 1
<1>7. c \in Seq(S) /\ p \in [Nat -> Nat]
  BY <1>5 DEF Numeral
<1>8. 0 \in S
  OBVIOUS
<1> HIDE DEF S
<1>9. m \in Nat /\ \A i \in 1 .. m : c[i] \in S
  BY <1>7, SeqFacts
<1>10. Reverse(c) = [i \in 1 .. m |-> c[(m - i) + 1]]
  BY DEF Reverse
<1>11. Reverse(c) \in [1 .. m -> S]
  <2> SUFFICES ASSUME NEW i \in 1 .. m PROVE c[(m - i) + 1] \in S
    BY <1>10
  <2>1. (m - i) + 1 \in 1 .. m
    BY <1>9
  <2> QED
    BY <1>9, <2>1
<1> DEFINE zeros == [i \in 1 .. z |-> 0]
           r == Reverse(c)
<1>12. zeros \in Seq(S) /\ Len(zeros) = z /\ \A i \in 1 .. z : zeros[i] = 0
  BY <1>2, <1>8
<1>13. r \in Seq(S) /\ Len(r) = m /\ \A i \in 1 .. m : r[i] = c[(m - i) + 1]
  BY <1>9, <1>10, <1>11
<1> HIDE DEF zeros, r, m
<1>14. t \in Seq(S) /\ Len(t) = z + m
       /\ \A i \in 1 .. z + m : t[i] = IF i <= z THEN zeros[i] ELSE r[i - z]
  <2>1. t = zeros \o r
    BY <1>6 DEF zeros, r
  <2> QED
    BY <1>12, <1>13, <2>1, ConcatFacts
<1>15. \A i \in 1 .. z : t[i] = 0
  BY <1>2, <1>9, <1>12, <1>14
<1>16. ASSUME NEW i \in Nat
       PROVE  IF i < Len(t) - z THEN p[i] # 0 /\ p[i] = to * p[i + 1] + t[Len(t) - i]
              ELSE p[i] = 0
  <2>1. Len(t) - z = m /\ Len(t) = z + m
    BY <1>2, <1>9, <1>14
  <2>2. CASE i < m
    <3>1. p[i] # 0 /\ p[i] = to * p[i + 1] + c[i + 1]
      BY <1>5, <2>2 DEF Numeral, m
    <3>2. (z + m) - i \in 1 .. z + m /\ ~((z + m) - i <= z) /\ ((z + m) - i) - z = m - i
          /\ m - i \in 1 .. m /\ (m - (m - i)) + 1 = i + 1
      BY <1>2, <1>9, <2>2
    <3>3. t[(z + m) - i] = r[m - i]
      BY <1>14, <3>2
    <3>4. r[m - i] = c[i + 1]
      BY <1>13, <3>2
    <3> QED
      BY <2>1, <2>2, <3>1, <3>3, <3>4
  <2>3. CASE ~(i < m)
    <3>1. p[i] = 0
      BY <1>5, <2>3 DEF Numeral, m
    <3> QED
      BY <2>1, <2>3, <3>1
  <2> QED
    BY <2>2, <2>3
<1>17. z \in 0 .. Len(t)
  BY <1>2, <1>9, <1>14
<1>18. Spelling(t, z, p, to)
  BY <1>7, <1>14, <1>15, <1>16, <1>17 DEF Spelling, S
<1> QED
  BY <1>5, <1>18 DEF t

\* A change of base loses nothing: changed back, everything is as it was.
LEMMA RebaseBack ==
    ASSUME NEW from \in Nat \ {0, 1}, NEW to \in Nat \ {0, 1}, NEW s \in Seq(0 .. from - 1)
    PROVE  /\ Rebase(s, from, to) \in Seq(0 .. to - 1)
           /\ Rebase(Rebase(s, from, to), to, from) = s
<1>1. PICK z, q : Spelling(s, z, q, from)
  BY SpellingExists
<1> DEFINE t == Rebase(s, from, to)
           u == Rebase(t, to, from)
<1>2. PICK p : Spelling(t, z, p, to) /\ p[0] = q[0]
  BY <1>1, RebaseSpelling
<1> HIDE DEF t
<1>3. PICK r : Spelling(u, z, r, from) /\ r[0] = p[0]
  BY <1>2, RebaseSpelling
<1> HIDE DEF u
<1>4. u = s
  BY <1>1, <1>2, <1>3, SpellingUnique
<1>5. t \in Seq(0 .. to - 1)
  BY <1>2 DEF Spelling
<1> QED
  BY <1>4, <1>5 DEF t, u

-----------------------------------------------------------------------------
(* Keys and addresses as text.                                             *)

\* base58 loses nothing either way.
LEMMA EncodeDecode ==
    ASSUME NEW octets \in Seq(AddrByte)
    PROVE  Base58Decode(Base58Encode(octets)) = octets
<1> DEFINE text == Rebase(octets, AddrBytes, Radix)
<1>1. AddrBytes \in Nat \ {0, 1} /\ Radix \in Nat \ {0, 1}
  BY AddressAssumption
<1>2. text \in Seq(0 .. Radix - 1) /\ Rebase(text, Radix, AddrBytes) = octets
  BY <1>1, RebaseBack DEF AddrByte
<1> HIDE DEF text
<1>3. ~Contains(text, Alien) /\ ~Contains(text, Blank)
  <2> DEFINE S == 0 .. Radix - 1
  <2>1. Radix \notin S /\ Radix + 1 \notin S /\ text \in Seq(S)
    BY <1>1, <1>2
  <2> HIDE DEF S
  <2>2. \A i \in 1 .. Len(text) : text[i] \in S
    BY <2>1, SeqFacts
  <2> QED
    BY <2>1, <2>2 DEF Contains, Alien, Blank
<1> QED
  BY <1>2, <1>3 DEF text, Base58Encode, Base58Decode

\* Every text of known characters is the one that its bytes are written as.
LEMMA DecodeEncode ==
    ASSUME NEW text \in Seq(Character), ~Contains(text, Alien), ~Contains(text, Blank)
    PROVE  Base58Decode(text) \in Seq(AddrByte) /\ Base58Encode(Base58Decode(text)) = text
<1>1. AddrBytes \in Nat \ {0, 1} /\ Radix \in Nat \ {0, 1}
  BY AddressAssumption
<1>2. text \in Seq(0 .. Radix - 1)
  <2> DEFINE S == Character
             T == 0 .. Radix - 1
  <2>1. \A x \in S : x # Alien /\ x # Blank => x \in T
    BY <1>1 DEF Alien, Blank, Character
  <2>2. text \in Seq(S)
    OBVIOUS
  <2> HIDE DEF S, T
  <2>3. /\ Len(text) \in Nat /\ text = [i \in 1 .. Len(text) |-> text[i]]
        /\ \A i \in 1 .. Len(text) : text[i] \in S
    BY <2>2, SeqFacts
  <2>4. \A i \in 1 .. Len(text) : text[i] \in T
    BY <2>1, <2>3 DEF Contains
  <2>5. text \in [1 .. Len(text) -> T]
    BY <2>3, <2>4
  <2>6. text \in Seq(T)
    BY <2>3, <2>5
  <2> QED
    BY <2>6 DEF T
<1> DEFINE octets == Rebase(text, Radix, AddrBytes)
<1>3. octets \in Seq(0 .. AddrBytes - 1) /\ Rebase(octets, AddrBytes, Radix) = text
  BY <1>1, <1>2, RebaseBack
<1>4. Base58Decode(text) = octets
  BY DEF Base58Decode
<1> HIDE DEF octets
<1> QED
  BY <1>3, <1>4 DEF Base58Encode, AddrByte

\* An accepted text is the one that its version and payload are written as.
LEMMA CheckDecodeEncode ==
    ASSUME NEW text \in Seq(Character), Base58CheckDecode(text) # Rejected
    PROVE  LET d == Base58CheckDecode(text)
           IN  d.payload \in Seq(AddrByte) /\ Base58CheckEncode(d.version, d.payload) = text
<1> DEFINE d == Base58CheckDecode(text)
           data == Base58Decode(text)
           n == Len(data) - CheckLen
           body == SubSeq(data, 1, n)
           sum == SubSeq(data, n + 1, Len(data))
<1>1. /\ data # Rejected /\ ~(Len(data) <= CheckLen) /\ sum = Checksum(body)
      /\ d = [version |-> body[1], payload |-> Tail(body)]
  BY DEF Base58CheckDecode
<1>2. ~Contains(text, Alien) /\ ~Contains(text, Blank)
  BY <1>1 DEF Base58Decode
<1>3. data \in Seq(AddrByte) /\ Base58Encode(data) = text
  BY <1>2, DecodeEncode
<1> HIDE DEF data
<1>4. CheckLen \in Nat
  BY AddressAssumption
<1>5. n \in Nat /\ n > 0 /\ Len(data) = n + CheckLen /\ n <= Len(data)
  BY <1>1, <1>3, <1>4
<1> HIDE DEF n
<1>6. body \in Seq(AddrByte) /\ Len(body) = n /\ sum \in Seq(AddrByte) /\ body \o sum = data
  <2>1. body \in Seq(AddrByte) /\ Len(body) = n /\ \A i \in 1 .. n : body[i] = data[i]
    <3> DEFINE m == 1
    <3>1. m \in Nat \ {0} /\ m <= n + 1 /\ body = SubSeq(data, m, n)
      BY <1>5
    <3> HIDE DEF body
    <3>2. (n + 1) - m = n /\ \A i \in 1 .. n : (m + i) - 1 = i
      BY <1>5
    <3> HIDE DEF m
    <3>3. /\ body \in Seq(AddrByte) /\ Len(body) = (n + 1) - m
          /\ \A i \in 1 .. (n + 1) - m : body[i] = data[(m + i) - 1]
      BY <1>3, <1>5, <3>1, SubSeqFacts
    <3> QED
      BY <3>2, <3>3
  <2>2. /\ sum \in Seq(AddrByte) /\ Len(sum) = CheckLen
        /\ \A i \in 1 .. CheckLen : sum[i] = data[n + i]
    <3> DEFINE m == n + 1
               e == Len(data)
    <3>1. m \in Nat \ {0} /\ e \in Nat /\ m <= e + 1 /\ e <= Len(data) /\ sum = SubSeq(data, m, e)
      BY <1>4, <1>5
    <3> HIDE DEF sum
    <3>2. (e + 1) - m = CheckLen /\ \A i \in 1 .. CheckLen : (m + i) - 1 = n + i
      BY <1>4, <1>5
    <3> HIDE DEF m, e
    <3>3. /\ sum \in Seq(AddrByte) /\ Len(sum) = (e + 1) - m
          /\ \A i \in 1 .. (e + 1) - m : sum[i] = data[(m + i) - 1]
      BY <1>3, <3>1, SubSeqFacts
    <3> QED
      BY <3>2, <3>3
  <2> HIDE DEF body, sum
  <2>3. body \o sum \in Seq(AddrByte) /\ Len(body \o sum) = n + CheckLen
        /\ \A i \in 1 .. n + CheckLen : (body \o sum)[i] = IF i <= n THEN body[i] ELSE sum[i - n]
    BY <2>1, <2>2, ConcatFacts
  <2>4. ASSUME NEW i \in 1 .. n + CheckLen PROVE (body \o sum)[i] = data[i]
    <3>1. CASE i <= n
      BY <1>4, <1>5, <2>1, <2>3, <3>1
    <3>2. CASE ~(i <= n)
      <4>1. i - n \in 1 .. CheckLen /\ n + (i - n) = i
        BY <1>4, <1>5, <3>2
      <4> QED
        BY <2>2, <2>3, <3>2, <4>1
    <3> QED
      BY <3>1, <3>2
  <2>5. Len(body \o sum) = Len(data)
    BY <1>5, <2>3
  <2>6. body \o sum = data
    BY <1>3, <2>3, <2>4, <2>5, SeqEqual
  <2> QED
    BY <2>1, <2>2, <2>6
<1> HIDE DEF body, sum
<1>7. Tail(body) \in Seq(AddrByte) /\ <<body[1]>> \o Tail(body) = body
  BY <1>5, <1>6
<1>8. d.version = body[1] /\ d.payload = Tail(body)
  BY <1>1
<1> HIDE DEF d
<1>9. Base58CheckEncode(d.version, d.payload) = Base58Encode(body \o Checksum(body))
  BY <1>7, <1>8 DEF Base58CheckEncode
<1> QED
  BY <1>1, <1>3, <1>6, <1>7, <1>8, <1>9 DEF d

\* What is left of a text between the white space around it, which for a text of the
\* alphabet is all of it.
LEMMA TrimFacts ==
    ASSUME NEW text \in Seq(Character)
    PROVE  /\ Trim(text) \in Seq(Character)
           /\ (\A i \in 1 .. Len(text) : text[i] # Blank) => Trim(text) = text
<1> DEFINE ink == {i \in DOMAIN text : text[i] # Blank}
           n == Len(text)
<1>1. n \in Nat /\ ink \subseteq 1 .. n /\ ink \subseteq Nat
  BY SeqFacts
<1>2. CASE ink = {}
  <2>1. Trim(text) = <<>>
    BY <1>2 DEF Trim
  <2>2. ASSUME \A i \in 1 .. n : text[i] # Blank PROVE n = 0
    BY <1>1, <1>2, <2>2
  <2> QED
    BY <1>1, <2>1, <2>2
<1>3. CASE ink # {}
  <2>1. PICK low \in ink : \A j \in ink : low <= j
    BY <1>1, <1>3, LeastNat
  <2>2. PICK high \in ink : high = Max(ink) /\ \A j \in ink : j <= high
    BY <1>1, <1>3, MaxIndex
  <2>3. Min(ink) = low
    <3>1. Min(ink) \in ink /\ \A j \in ink : Min(ink) <= j
      BY <2>1 DEF Min
    <3> HIDE DEF ink
    <3>2. Min(ink) <= low /\ low <= Min(ink)
      BY <2>1, <3>1
    <3>3. Min(ink) \in Nat /\ low \in Nat
      BY <1>1, <2>1, <3>1
    <3> DEFINE m == Min(ink)
    <3> HIDE DEF m
    <3>4. m <= low /\ low <= m /\ m \in Nat /\ low \in Nat
      BY <3>2, <3>3 DEF m
    <3>5. m = low
      BY <3>4
    <3> QED
      BY <3>5 DEF m
  <2>5. Trim(text) = SubSeq(text, low, high)
    BY <1>3, <2>2, <2>3 DEF Trim
  <2>6. low \in 1 .. n /\ high \in 1 .. n /\ low <= high
    BY <1>1, <2>1, <2>2
  <2>9. \A i \in 1 .. n : text[i] # Blank => i \in ink
    BY <1>1
  <2> HIDE DEF ink, n
  <2>7. SubSeq(text, low, high) \in Seq(Character)
    BY <1>1, <2>6, SubSeqFacts DEF n
  <2>8. ASSUME \A i \in 1 .. n : text[i] # Blank PROVE SubSeq(text, low, high) = text
    <3>1. CASE n = 0
      BY <2>6, <3>1
    <3>2. CASE n # 0
      <4>1. 1 \in ink /\ n \in ink
        BY <1>1, <2>8, <2>9, <3>2
      <4>2. low = 1 /\ high = n
        BY <1>1, <2>1, <2>2, <2>6, <4>1
      <4>3. SubSeq(text, 1, n) = text
        BY DEF n
      <4> QED
        BY <4>2, <4>3
    <3> QED
      BY <3>1, <3>2
  <2> QED
    BY <2>5, <2>7, <2>8 DEF n
<1> QED
  BY <1>2, <1>3

\* An address reads back as its version and key hash.
LEMMA AddressReadsBack ==
    ASSUME NEW version \in AddrByte, NEW payload \in [1 .. KeyHashLen -> AddrByte]
    PROVE  Base58CheckDecode(Trim(Base58CheckEncode(version, payload)))
               = [version |-> version, payload |-> payload]
<1> DEFINE body == <<version>> \o payload
           sum == Checksum(body)
           data == body \o sum
           n == Len(body)
<1>1. KeyHashLen \in Nat /\ CheckLen \in Nat
  BY AddressAssumption
<1>2. /\ body \in [1 .. KeyHashLen + 1 -> AddrByte] /\ body \in Seq(AddrByte)
      /\ n = KeyHashLen + 1 /\ body[1] = version /\ Tail(body) = payload
  <2>1. payload \in Seq(AddrByte) /\ Len(payload) = KeyHashLen
    BY <1>1
  <2>2. body \in Seq(AddrByte) /\ Len(body) = KeyHashLen + 1 /\ body[1] = version
        /\ Tail(body) = payload
    BY <1>1, <2>1
  <2> HIDE DEF body
  <2> QED
    BY <1>1, <2>2
<1> HIDE DEF body
<1>3. sum \in [1 .. CheckLen -> AddrByte]
  BY <1>2, AddressAssumption
<1>4. sum \in Seq(AddrByte) /\ Len(sum) = CheckLen
  BY <1>1, <1>3
<1> HIDE DEF sum
<1>5. /\ data \in Seq(AddrByte) /\ Len(data) = n + CheckLen
      /\ \A i \in 1 .. n + CheckLen : data[i] = IF i <= n THEN body[i] ELSE sum[i - n]
  BY <1>2, <1>4, ConcatFacts
<1> HIDE DEF data
<1>6. n \in Nat /\ n > 0 /\ Len(data) - CheckLen = n /\ ~(Len(data) <= CheckLen)
  BY <1>1, <1>2, <1>5
<1>7. SubSeq(data, 1, n) = body
  <2>1. SubSeq(data, 1, n) \in Seq(AddrByte) /\ Len(SubSeq(data, 1, n)) = n
        /\ \A i \in 1 .. n : SubSeq(data, 1, n)[i] = data[i]
    BY <1>1, <1>5, <1>6
  <2>2. \A i \in 1 .. n : data[i] = body[i]
    BY <1>1, <1>5, <1>6
  <2> QED
    BY <1>2, <2>1, <2>2
<1>8. SubSeq(data, n + 1, Len(data)) = sum
  <2> DEFINE u == SubSeq(data, n + 1, Len(data))
  <2>1. u \in Seq(AddrByte) /\ Len(u) = CheckLen /\ \A i \in 1 .. CheckLen : u[i] = data[n + i]
    BY <1>1, <1>5, <1>6
  <2>2. ASSUME NEW i \in 1 .. CheckLen PROVE data[n + i] = sum[i]
    <3>1. n + i \in 1 .. n + CheckLen /\ ~(n + i <= n) /\ (n + i) - n = i
      BY <1>1, <1>6
    <3> QED
      BY <1>5, <3>1
  <2> HIDE DEF u
  <2>3. u = sum
    BY <1>4, <2>1, <2>2
  <2> QED
    BY <2>3 DEF u
<1>9. data # Rejected
  BY <1>5, AddressAssumption
<1>10. Base58Decode(Base58Encode(data)) = data
  BY <1>5, EncodeDecode
<1>11. Base58CheckEncode(version, payload) = Base58Encode(data)
  BY DEF Base58CheckEncode, data, body, sum
<1>12. Base58CheckDecode(Base58Encode(data)) = [version |-> body[1], payload |-> Tail(body)]
  BY <1>6, <1>7, <1>8, <1>9, <1>10 DEF Base58CheckDecode, sum
<1>13. Trim(Base58Encode(data)) = Base58Encode(data)
  <2> DEFINE text == Base58Encode(data)
  <2>1. AddrBytes \in Nat \ {0, 1} /\ Radix \in Nat \ {0, 1}
    BY AddressAssumption
  <2>2. text \in Seq(0 .. Radix - 1)
    BY <1>5, <2>1, RebaseBack DEF AddrByte, Base58Encode
  <2> HIDE DEF text
  <2>3. text \in Seq(Character)
    BY <2>1, <2>2 DEF Character, Blank
  <2>4. \A i \in 1 .. Len(text) : text[i] # Blank
    BY <2>1, <2>2 DEF Blank
  <2>5. Trim(text) = text
    BY <2>3, <2>4, TrimFacts
  <2> QED
    BY <2>5 DEF text
<1> QED
  BY <1>2, <1>11, <1>12, <1>13

\* A text imports as at most one key, and as that key's own text.
LEMMA WifReadsBack ==
    ASSUME NEW text \in Seq(Character), FromWif(text) # Rejected
    PROVE  LET key == FromWif(text)
           IN  /\ ToWif(key.secret, key.compressed, key.network) = Trim(text)
               /\ \A n \in AddrNetworks : DestScript(text, n) = Rejected
<1> DEFINE d == Base58CheckDecode(Trim(text))
           networks == {n \in AddrNetworks : SecretVersion[n] = d.version}
           compressed == Len(d.payload) = SecretLen + 1 /\ Last(d.payload) = 1
           scalar == SubSeq(d.payload, 1, SecretLen)
           key == FromWif(text)
<1>1. /\ d # Rejected /\ networks # {} /\ (compressed \/ Len(d.payload) = SecretLen)
      /\ key = [secret |-> scalar, compressed |-> compressed,
                network |-> CHOOSE n \in networks : TRUE]
  BY DEF FromWif
<1>2. d.payload \in Seq(AddrByte) /\ Base58CheckEncode(d.version, d.payload) = Trim(text)
  BY <1>1, TrimFacts, CheckDecodeEncode
<1>3. PICK n \in AddrNetworks : n = key.network /\ SecretVersion[n] = d.version
  BY <1>1
<1>4. key.secret = scalar /\ key.compressed = compressed
  <2> DEFINE network == CHOOSE m \in networks : TRUE
  <2>1. key = [secret |-> scalar, compressed |-> compressed, network |-> network]
    BY <1>1
  <2> HIDE DEF key, scalar, compressed, network
  <2> QED
    BY <2>1, Zenon
<1>5. SecretLen \in Nat
  BY AddressAssumption
<1> DEFINE payload == d.payload
<1>6. (IF compressed THEN Append(scalar, 1) ELSE scalar) = payload
  <2>1. payload \in Seq(AddrByte) /\ Len(payload) \in Nat
    BY <1>2
  <2> HIDE DEF d, payload
  <2>2. CASE compressed
    <3>1. Len(payload) = SecretLen + 1 /\ payload[SecretLen + 1] = 1
      BY <1>5, <2>1, <2>2 DEF Last, payload
    <3>2. scalar \in Seq(AddrByte) /\ Len(scalar) = SecretLen
          /\ \A i \in 1 .. SecretLen : scalar[i] = payload[i]
      BY <1>5, <2>1, <3>1 DEF payload
    <3> HIDE DEF scalar
    <3>3. Append(scalar, 1) = payload
      <4> DEFINE s == Append(scalar, 1)
      <4>1. 1 \in AddrByte
        BY <2>1, <3>1, <1>5
      <4>2. s \in Seq(AddrByte) /\ Len(s) = SecretLen + 1 /\ s[SecretLen + 1] = 1
            /\ \A i \in 1 .. SecretLen : s[i] = scalar[i]
        BY <1>5, <3>2, <4>1
      <4>3. \A i \in 1 .. SecretLen + 1 : s[i] = payload[i]
        BY <1>5, <3>1, <3>2, <4>2
      <4> HIDE DEF s
      <4>4. s = payload
        BY <2>1, <3>1, <4>2, <4>3, SeqEqual
      <4> QED
        BY <4>4 DEF s
    <3> QED
      BY <2>2, <3>3
  <2>3. CASE ~compressed
    <3>1. Len(payload) = SecretLen
      BY <1>1, <2>3 DEF payload
    <3>2. scalar = payload
      BY <1>5, <2>1, <3>1 DEF payload
    <3> QED
      BY <2>3, <3>2
  <2> QED
    BY <2>2, <2>3
<1>7. ToWif(key.secret, key.compressed, key.network) = Trim(text)
  <2> HIDE DEF d, scalar, compressed, key
  <2> QED
    BY <1>2, <1>3, <1>4, <1>6 DEF ToWif, payload
<1>8. \A m \in AddrNetworks : DestScript(text, m) = Rejected
  <2>1. \A m \in AddrNetworks : d.version # PubkeyVersion[m]
    BY <1>3, AddressAssumption
  <2> QED
    BY <1>1, <2>1 DEF DestScript
<1> HIDE DEF key
<1> QED
  BY <1>7, <1>8 DEF key

\* What both readers accept is the address of the key hash that they pay.
LEMMA AddressAgrees ==
    ASSUME NEW text \in Seq(Character), NEW n \in AddrNetworks
    PROVE  LET script == DestScript(text, n)
           IN  /\ script = AddressScript(text, n)
               /\ script # Rejected =>
                     /\ AddressFor(script.pays, n) = Trim(text)
                     /\ \A other \in AddrNetworks \ {n} : DestScript(text, other) = Rejected
<1> DEFINE d == Base58CheckDecode(Trim(text))
           script == DestScript(text, n)
<1>1. script = AddressScript(text, n)
  BY DEF DestScript, AddressScript
<1>2. ASSUME script # Rejected
      PROVE  /\ AddressFor(script.pays, n) = Trim(text)
             /\ \A other \in AddrNetworks \ {n} : DestScript(text, other) = Rejected
  <2>1. d # Rejected /\ d.version = PubkeyVersion[n] /\ script = [pays |-> d.payload]
    BY <1>2 DEF DestScript, PayToKeyHash
  <2>2. Base58CheckEncode(d.version, d.payload) = Trim(text)
    BY <2>1, TrimFacts, CheckDecodeEncode
  <2>3. AddressFor(script.pays, n) = Trim(text)
    BY <2>1, <2>2 DEF AddressFor
  <2>4. \A other \in AddrNetworks \ {n} : d.version # PubkeyVersion[other]
    BY <2>1, AddressAssumption
  <2>5. \A other \in AddrNetworks \ {n} : DestScript(text, other) = Rejected
    BY <2>1, <2>4 DEF DestScript
  <2> QED
    BY <2>3, <2>5
<1> HIDE DEF script
<1> QED
  BY <1>1, <1>2 DEF script

\* Keys and addresses as text: what is accepted is what is written.
THEOREM KeyTextExactHolds == FormatSpec => []KeyTextExact
<1> DEFINE Valid == item \in Inputs
<1>1. FormatInit => Valid
  BY DEF FormatInit
<1>2. Valid /\ [UNCHANGED item]_item => Valid'
  OBVIOUS
<1>3. Valid => KeyTextExact
  <2> SUFFICES ASSUME Valid PROVE KeyTextExact
    OBVIOUS
  <2>1. item.kind = "text" => item.it \in Seq(Character)
    BY FormatsAssumption DEF Inputs, Of
  <2>2. item.kind = "bytes" => item.it \in Seq(AddrByte)
    BY FormatsAssumption DEF Inputs, Of
  <2>3. Base58Exact
    BY <2>1, <2>2, EncodeDecode, DecodeEncode DEF Base58Exact
  <2>4. WifExact
    BY <2>1, WifReadsBack DEF WifExact
  <2>5. SendAndWatchAgree
    BY <2>1, AddressAgrees DEF SendAndWatchAgree
  <2> QED
    BY <2>3, <2>4, <2>5 DEF KeyTextExact
<1> QED
  BY <1>1, <1>2, <1>3, PTL DEF FormatSpec

-----------------------------------------------------------------------------
(* The keys of a wallet.                                                   *)

\* The nodes of the trees of all wallets.
Nodes == Seq(WalletSeeds \cup [from_secret : BOOLEAN, index : Nat])

\* A node is the child of one node at one index.
LEMMA ChildUnique ==
    ASSUME NEW a \in Nodes, NEW b \in Nodes, NEW i \in Nat, NEW j \in Nat
    PROVE  /\ DeriveChild(a, i) \in Nodes
           /\ DeriveChild(a, i) = DeriveChild(b, j) => a = b /\ i = j
<1> DEFINE S == WalletSeeds \cup [from_secret : BOOLEAN, index : Nat]
           x == [from_secret |-> i >= HardBit, index |-> i]
           y == [from_secret |-> j >= HardBit, index |-> j]
<1>1. x = y => i = j
  <2>1. x.index = i /\ y.index = j
    OBVIOUS
  <2> HIDE DEF x, y
  <2> QED
    BY <2>1
<1>2. x \in S /\ y \in S /\ a \in Seq(S) /\ b \in Seq(S)
  <2>1. (i >= HardBit) \in BOOLEAN /\ (j >= HardBit) \in BOOLEAN
    OBVIOUS
  <2> QED
    BY <2>1 DEF Nodes
<1> HIDE DEF x, y, S
<1>3. Append(a, x) \in Seq(S)
  BY <1>2
<1>4. Append(a, x) = Append(b, y) => a = b /\ x = y
  <2> SUFFICES ASSUME Append(a, x) = Append(b, y) PROVE a = b /\ x = y
    OBVIOUS
  <2> DEFINE c == Append(a, x)
  <2>1. Len(c) = Len(a) + 1 /\ c[Len(a) + 1] = x /\ \A k \in 1 .. Len(a) : c[k] = a[k]
    BY <1>2
  <2>2. Len(c) = Len(b) + 1 /\ c[Len(b) + 1] = y /\ \A k \in 1 .. Len(b) : c[k] = b[k]
    BY <1>2
  <2>3. Len(a) \in Nat /\ Len(b) \in Nat
    BY <1>2
  <2> HIDE DEF c
  <2>4. Len(a) = Len(b)
    BY <2>1, <2>2, <2>3
  <2>5. \A k \in 1 .. Len(a) : a[k] = b[k]
    BY <2>1, <2>2, <2>4
  <2>6. a = b
    BY <1>2, <2>4, <2>5, SeqEqual
  <2> QED
    BY <2>1, <2>2, <2>4, <2>6
<1> QED
  BY <1>1, <1>3, <1>4 DEF DeriveChild, x, y, S, Nodes

\* No two coins of wallets have the same key.
LEMMA KeysApart ==
    ASSUME NEW v \in HdWallets, NEW w \in HdWallets, NEW c \in OwnedCoins, NEW d \in OwnedCoins,
           KeyFor(v, c) = KeyFor(w, d)
    PROVE  v = w /\ c = d
<1> DEFINE type(u) == Hardened(CoinType[u.network])
           chain(e) == IF e.change THEN 1 ELSE 0
           a1(u) == DeriveChild(<<u.seed>>, Hardened(Purpose))
           a2(u) == DeriveChild(a1(u), type(u))
           a3(u) == DeriveChild(a2(u), Hardened(0))
           a4(u, e) == DeriveChild(a3(u), chain(e))
           a5(u, e) == DeriveChild(a4(u, e), e.key_index)
<1>1. HardBit \in Nat \ {0, 1} /\ Purpose \in Nat
  BY TreeAssumption
<1>2. 0 \in Nat /\ \A i \in Nat : Hardened(i) \in Nat
  BY <1>1 DEF Hardened
<1>3. ASSUME NEW u \in HdWallets
      PROVE  <<u.seed>> \in Nodes /\ type(u) \in Nat /\ u.network \in AddrNetworks
             /\ CoinType[u.network] \in 0 .. HardBit - 1
  <2>1. u.seed \in WalletSeeds /\ u.network \in AddrNetworks
    BY DEF HdWallets
  <2>2. CoinType[u.network] \in 0 .. HardBit - 1
    BY <2>1, TreeAssumption
  <2>3. CoinType[u.network] \in Nat
    BY <1>1, <2>2
  <2>4. <<u.seed>> \in Nodes
    BY <2>1 DEF Nodes
  <2> QED
    BY <1>2, <2>1, <2>2, <2>3, <2>4
<1>4. ASSUME NEW e \in OwnedCoins
      PROVE  e.key_index \in Nat /\ chain(e) \in Nat
  BY <1>1 DEF OwnedCoins
<1>5. KeyFor(v, c) = a5(v, c) /\ KeyFor(w, d) = a5(w, d)
  BY DEF KeyFor, ChangeKey, ReceivingKey, Derive
<1>6. ASSUME NEW u \in HdWallets, NEW e \in OwnedCoins
      PROVE  a1(u) \in Nodes /\ a2(u) \in Nodes /\ a3(u) \in Nodes /\ a4(u, e) \in Nodes
  <2>1. a1(u) \in Nodes
    BY <1>1, <1>2, <1>3, ChildUnique
  <2> HIDE DEF a1
  <2>2. a2(u) \in Nodes
    BY <1>2, <1>3, <2>1, ChildUnique
  <2> HIDE DEF a2
  <2>3. a3(u) \in Nodes
    BY <1>2, <2>2, ChildUnique
  <2> HIDE DEF a3
  <2>4. a4(u, e) \in Nodes
    BY <1>2, <1>4, <2>3, ChildUnique
  <2> QED
    BY <2>1, <2>2, <2>3, <2>4
<1>7. a4(v, c) = a4(w, d) /\ c.key_index = d.key_index
  <2> HIDE DEF a4
  <2>1. DeriveChild(a4(v, c), c.key_index) = DeriveChild(a4(w, d), d.key_index)
    BY <1>5
  <2>2. /\ a4(v, c) \in Nodes /\ a4(w, d) \in Nodes
        /\ c.key_index \in Nat /\ d.key_index \in Nat
    BY <1>4, <1>6
  <2> QED
    BY <2>1, <2>2, ChildUnique
<1>8. a3(v) = a3(w) /\ chain(c) = chain(d)
  <2> HIDE DEF a3, chain
  <2> QED
    BY <1>2, <1>4, <1>6, <1>7, ChildUnique
<1>9. a2(v) = a2(w)
  <2> HIDE DEF a2
  <2> QED
    BY <1>2, <1>6, <1>8, ChildUnique
<1>10. a1(v) = a1(w) /\ type(v) = type(w)
  <2> HIDE DEF a1, type
  <2> QED
    BY <1>2, <1>3, <1>6, <1>9, ChildUnique
<1>11. v.seed = w.seed
  <2>1. <<v.seed>> = <<w.seed>>
    BY <1>1, <1>2, <1>3, <1>10, ChildUnique
  <2> QED
    BY <2>1
<1>12. v.network = w.network
  <2>1. CoinType[v.network] = CoinType[w.network]
    BY <1>1, <1>3, <1>10 DEF Hardened
  <2> QED
    BY <1>3, <2>1, TreeAssumption
<1>13. v = w
  BY <1>11, <1>12 DEF HdWallets
<1>14. c = d
  <2>1. c.change \in BOOLEAN /\ d.change \in BOOLEAN
    BY DEF OwnedCoins
  <2>2. c.change = d.change
    BY <1>8, <2>1
  <2> QED
    BY <1>7, <2>2 DEF OwnedCoins
<1> QED
  BY <1>13, <1>14

\* A wallet's address pays the key that key_for finds, on the wallet's network.
LEMMA AddressPaysKey ==
    ASSUME NEW w \in HdWallets, NEW c \in OwnedCoins, ~c.change, NEW n \in AddrNetworks
    PROVE  AddressScript(ReceivingAddress(w, c.key_index), n)
               = IF n = w.network THEN KeyScript(KeyFor(w, c)) ELSE Rejected
<1> DEFINE keyHash == KeyHash(KeyFor(w, c))
           version == PubkeyVersion[w.network]
           text == ReceivingAddress(w, c.key_index)
           d == [version |-> version, payload |-> keyHash]
<1>1. w.network \in AddrNetworks
  BY DEF HdWallets
<1>2. keyHash \in [1 .. KeyHashLen -> AddrByte] /\ KeyHashLen \in Nat
  BY KeyHashAssumption, AddressAssumption
<1>3. version \in AddrByte
  BY <1>1, AddressAssumption
<1>4. text = Base58CheckEncode(version, keyHash)
  BY DEF ReceivingAddress, AddressFor, KeyFor
<1>5. KeyScript(KeyFor(w, c)) = PayToKeyHash(keyHash)
  BY DEF KeyScript
<1> HIDE DEF keyHash, version, text
<1>6. Base58CheckDecode(Trim(text)) = d
  BY <1>2, <1>3, <1>4, AddressReadsBack
<1>7. keyHash \in Seq(AddrByte) /\ Len(keyHash) = KeyHashLen
  BY <1>2
<1>8. d # Rejected
  <2>1. d \in [version : AddrByte, payload : Seq(AddrByte)]
    BY <1>3, <1>7
  <2> HIDE DEF d
  <2> QED
    BY <2>1, AddressAssumption
<1>9. d.version = version /\ d.payload = keyHash
  OBVIOUS
<1>10. (version = PubkeyVersion[n]) <=> (n = w.network)
  BY <1>1, AddressAssumption DEF version
<1> HIDE DEF d
<1>11. AddressScript(text, n) = IF version # PubkeyVersion[n] THEN Rejected ELSE PayToKeyHash(keyHash)
  BY <1>6, <1>7, <1>8, <1>9 DEF AddressScript
<1> QED
  BY <1>5, <1>10, <1>11 DEF text

\* What the relay watches for a wallet, that wallet and no other can spend.
THEOREM WatchedIsSpendableHolds == FormatSpec => []WatchedIsSpendable
<1> DEFINE Valid == item \in Inputs
<1>1. FormatInit => Valid
  BY DEF FormatInit
<1>2. Valid /\ [UNCHANGED item]_item => Valid'
  OBVIOUS
<1>3. Valid => WatchedIsSpendable
  <2> SUFFICES ASSUME Valid, item.kind = "owned" PROVE WatchedIsSpendable
    BY DEF WatchedIsSpendable
  <2> DEFINE w == item.it[1]
             coin == item.it[2]
             script == KeyScript(KeyFor(w, coin))
  <2>1. w \in HdWallets /\ coin \in OwnedCoins
    BY DEF Inputs, Of
  <2> HIDE DEF w, coin
  <2>2. ASSUME NEW v \in HdWallets, NEW c \in OwnedCoins, KeyScript(KeyFor(v, c)) = script
        PROVE  v = w /\ c = coin
    <3>1. KeyHash(KeyFor(v, c)) = KeyHash(KeyFor(w, coin))
      BY <2>2 DEF KeyScript, PayToKeyHash
    <3>2. KeyFor(v, c) = KeyFor(w, coin)
      BY <2>1, <3>1, KeyHashAssumption
    <3> QED
      BY <2>1, <3>2, KeysApart
  <2>3. ASSUME ~coin.change, NEW n \in AddrNetworks
        PROVE  AddressScript(ReceivingAddress(w, coin.key_index), n)
                   = IF n = w.network THEN script ELSE Rejected
    BY <2>1, <2>3, AddressPaysKey
  <2>4. ChangeScript(w) = KeyScript(KeyFor(w, [change |-> TRUE, key_index |-> 0]))
    BY DEF ChangeScript, KeyFor
  <2> QED
    BY <2>2, <2>3, <2>4 DEF WatchedIsSpendable, w, coin
<1> QED
  BY <1>1, <1>2, <1>3, PTL DEF FormatSpec
=============================================================================
