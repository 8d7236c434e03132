------------------------------ MODULE KeyStore ------------------------------
(***************************************************************************)
(* Where the wallet's seed lives: lovenode-keystore/src/lib.rs with its    *)
(* in-memory DevKeyStore, the Android backend SecureKeyStore.kt, and the   *)
(* first-run screen that drives them (App.tsx, Setup.tsx, create_wallet    *)
(* and restore_wallet of commands.rs).                                     *)
(*                                                                         *)
(* A seed stands for its phrase, its 64 bytes and the addresses derived    *)
(* from it.  Commands are synchronous and run one at a time, but the       *)
(* process may die and the webview may reload between any two steps of     *)
(* one, and most steps may fail in a process that lives on.  Storing under *)
(* the Android Keystore makes sure of the wrap key, truncates the file and *)
(* then writes it: from there on the file exists and cannot be read until  *)
(* it is whole (Torn).                                                     *)
(***************************************************************************)
EXTENDS Integers, FiniteSets

CONSTANTS
    Seeds,      \* seeds a wallet may be generated with
    Brought,    \* seeds whose phrase the user brings along from elsewhere
    Absent,     \* nothing stored
    Torn,       \* a seed file that was not written to its end
    MaxFaults   \* bound: crashes, reloads and failed steps

ASSUME KeyStoreAssumption ==
    /\ MaxFaults \in Nat
    /\ Absent \notin Seeds \cup Brought /\ Torn \notin Seeds \cup Brought
    /\ Seeds \cap Brought = {} /\ Absent # Torn

AllSeeds == Seeds \cup Brought
Stored == AllSeeds \cup {Absent, Torn}
Screens == {"loading", "choose", "restore", "created", "shell"}
Steps == {"idle", "store", "open", "write", "derive", "cached", "failed", "forget", "destroy"}

VARIABLES
    backend,   \* "dev": DevKeyStore; "secure": SecureKeyStore
    secret,    \* the stored seed
    cached,    \* the seed whose receiving addresses are cached
    wrapped,   \* the hardware wrap key exists
    step,      \* where the command in progress is
    subject,   \* the seed that command is about
    unused,    \* seeds the generator has not drawn yet
    screen,    \* what the UI shows
    busy,      \* the command whose answer the Setup screen awaits
    shown,     \* the phrase on the screen
    noted,     \* the phrases the user has on paper
    faults,    \* history: how many faults happened
    spoiled,   \* history: seeds whose setup was interrupted before the phrase was noted
    cut,       \* history: a wipe left the address file behind
    kept       \* history: a wipe could not delete the seed file there is

storeVars == <<backend, secret, cached, wrapped>>
uiVars == <<screen, busy, shown>>
historyVars == <<faults, spoiled, cut, kept>>
keyVars == <<storeVars, step, subject, unused, uiVars, noted, historyVars>>

KeyTypeOK ==
    /\ backend \in {"dev", "secure"}
    /\ secret \in Stored
    /\ cached \in AllSeeds \cup {Absent}
    /\ wrapped \in BOOLEAN
    /\ step \in Steps
    /\ subject \in AllSeeds \cup {Absent}
    /\ unused \subseteq Seeds
    /\ screen \in Screens
    /\ busy \in {"none", "create", "restore"}
    /\ shown \in AllSeeds \cup {Absent}
    /\ noted \subseteq AllSeeds
    /\ faults \in 0..MaxFaults
    /\ spoiled \subseteq AllSeeds
    /\ cut \in BOOLEAN /\ kept \in BOOLEAN

KeyInit ==
    /\ backend \in {"dev", "secure"}
    /\ secret = Absent /\ cached = Absent /\ wrapped = FALSE
    /\ step = "idle" /\ subject = Absent
    /\ unused = Seeds
    /\ screen = "loading" /\ busy = "none" /\ shown = Absent
    /\ noted = Brought
    /\ faults = 0 /\ spoiled = {} /\ cut = FALSE /\ kept = FALSE

\* KeyStore::has_wallet: for Android, the file exists.
HasWallet == secret # Absent

\* KeyStore::load_seed and load_wallet: the file is whole and its key exists.
CanLoad == secret \in AllSeeds /\ (backend = "secure" => wrapped)

-----------------------------------------------------------------------------
(* The Setup screen.                                                       *)

\* App.tsx: the first render asks has_wallet; an error counts as no wallet.
BootFails ==
    /\ screen = "loading" /\ faults < MaxFaults
    /\ faults' = faults + 1
    /\ screen' = "choose"
    /\ UNCHANGED <<storeVars, step, subject, unused, busy, shown, noted, spoiled, cut, kept>>

Boot ==
    /\ screen = "loading"
    /\ step = "idle"
    /\ screen' = IF HasWallet THEN "shell" ELSE "choose"
    /\ UNCHANGED <<storeVars, step, subject, unused, busy, shown, noted, historyVars>>

\* `Restore from recovery phrase` and `Back` stay enabled while a command runs.
Switch ==
    /\ screen \in {"choose", "restore"}
    /\ screen' = IF screen = "choose" THEN "restore" ELSE "choose"
    /\ UNCHANGED <<storeVars, step, subject, unused, busy, shown, noted, historyVars>>

\* setup_new_wallet up to stash: refused when a wallet exists.
CreateWallet ==
    /\ screen = "choose" /\ busy = "none" /\ step = "idle"
    /\ busy' = "create"
    /\ IF HasWallet
       THEN step' = "failed" /\ UNCHANGED <<subject, unused>>
       ELSE \E s \in unused : step' = "store" /\ subject' = s /\ unused' = unused \ {s}
    /\ UNCHANGED <<storeVars, screen, shown, noted, historyVars>>

\* Mutant: no check that a wallet exists.
RestoreWallet_Unchecked(s) ==
    /\ screen = "restore" /\ busy = "none" /\ step = "idle"
    /\ busy' = "restore" /\ step' = "store" /\ subject' = s
    /\ UNCHANGED <<storeVars, unused, screen, shown, noted, historyVars>>

\* restore_from_phrase up to stash, for a phrase the user has; anything else
\* does not parse and fails like a refusal.
RestoreWallet(s) ==
    /\ screen = "restore" /\ busy = "none" /\ step = "idle"
    /\ busy' = "restore"
    /\ \/ HasWallet /\ step' = "failed" /\ UNCHANGED subject
       \/ ~HasWallet /\ s \in noted /\ step' = "store" /\ subject' = s
       \/ ~HasWallet /\ s \notin noted /\ step' = "failed" /\ UNCHANGED subject
    /\ UNCHANGED <<storeVars, unused, screen, shown, noted, historyVars>>

-----------------------------------------------------------------------------
(* stash: store_seed, then receiving_addresses and set_addresses.          *)

\* DevKeyStore::store_seed replaces the entry and empties its addresses;
\* SecureKeyStore.store first makes sure of the wrap key.
StoreSeed ==
    /\ step = "store"
    /\ IF backend = "dev"
       THEN secret' = subject /\ cached' = Absent /\ step' = "derive" /\ UNCHANGED wrapped
       ELSE wrapped' = TRUE /\ step' = "open" /\ UNCHANGED <<secret, cached>>
    /\ UNCHANGED <<backend, subject, unused, uiVars, noted, historyVars>>

\* SecureKeyStore.store opens the file, which truncates it, and writes the
\* initialisation vector and the ciphertext.  The address file is left as it is.
WriteSeed ==
    /\ \/ step = "open" /\ secret' = Torn /\ step' = "write" /\ kept' = FALSE
       \/ step = "write" /\ secret' = subject /\ step' = "derive" /\ UNCHANGED kept
    /\ UNCHANGED <<backend, cached, wrapped, subject, unused, uiVars, noted, faults, spoiled, cut>>

\* SecureKeyStore.store throws: no StrongBox or no user present, with the wrap key
\* or before it is there; the file cannot be opened; or it is not written to its end.
StoreFails ==
    /\ step \in {"store", "open", "write"} /\ backend = "secure" /\ faults < MaxFaults
    /\ faults' = faults + 1
    /\ step' = "failed"
    /\ UNCHANGED <<storeVars, subject, unused, uiVars, noted, spoiled, cut, kept>>

\* set_addresses.
CacheAddresses ==
    /\ step = "derive"
    /\ cached' = subject
    /\ step' = "cached"
    /\ UNCHANGED <<backend, secret, wrapped, subject, unused, uiVars, noted, historyVars>>

\* set_addresses has no error to return: a file it cannot open stays, one it cannot
\* write is left truncated, and stash goes on.
CacheFails ==
    /\ step = "derive" /\ backend = "secure" /\ faults < MaxFaults
    /\ faults' = faults + 1
    /\ cached' \in {cached, Absent}
    /\ step' = "cached"
    /\ UNCHANGED <<backend, secret, wrapped, subject, unused, uiVars, noted, spoiled, cut, kept>>

\* receiving_addresses returns an error: the `?` leaves stash, the seed stays.
DeriveFails ==
    /\ step = "derive" /\ faults < MaxFaults
    /\ faults' = faults + 1
    /\ step' = "failed"
    /\ spoiled' = spoiled \cup {subject}
    /\ UNCHANGED <<storeVars, subject, unused, uiVars, noted, cut, kept>>

\* Mutant: a new wallet opens the shell at once.
Answer_NoPhrase ==
    /\ step \in {"cached", "failed"}
    /\ step' = "idle" /\ subject' = Absent
    /\ busy' = "none"
    /\ screen' = IF step = "cached" /\ busy # "none" THEN "shell" ELSE screen
    /\ UNCHANGED <<storeVars, unused, shown, noted, historyVars>>

\* The command's answer reaches the Setup screen, if it is still there: the phrase
\* is shown, a restored wallet opens the shell, an error leaves the screen alone.
Answer ==
    /\ step \in {"cached", "failed"}
    /\ step' = "idle" /\ subject' = Absent
    /\ busy' = "none"
    /\ IF step = "cached" /\ busy = "create"
       THEN screen' = "created" /\ shown' = subject
       ELSE IF step = "cached" /\ busy = "restore"
            THEN screen' = "shell" /\ UNCHANGED shown
            ELSE UNCHANGED <<screen, shown>>
    /\ UNCHANGED <<storeVars, unused, noted, historyVars>>

\* `I've written it down`.
NotePhrase ==
    /\ screen = "created"
    /\ noted' = noted \cup {shown}
    /\ shown' = Absent
    /\ screen' = "shell"
    /\ UNCHANGED <<storeVars, step, subject, unused, busy, historyVars>>

-----------------------------------------------------------------------------
(* wipe, for a caller the UI does not have yet.                            *)

\* Mutant: the wrap key is destroyed before the file.
Wipe_KeyFirst ==
    /\ screen = "shell" /\ step = "idle" /\ HasWallet
    /\ wrapped' = FALSE
    /\ IF backend = "dev" THEN secret' = Absent /\ cached' = Absent /\ UNCHANGED step
                          ELSE step' = "forget" /\ UNCHANGED <<secret, cached>>
    /\ UNCHANGED <<backend, subject, unused, uiVars, noted, historyVars>>

\* DevKeyStore::wipe takes the entry out; SecureKeyStore.wipe deletes the seed
\* file first.  DeleteFails has the deletions that do nothing.
Wipe ==
    /\ screen = "shell" /\ step = "idle" /\ HasWallet
    /\ secret' = Absent
    /\ IF backend = "dev" THEN cached' = Absent /\ UNCHANGED step
                          ELSE step' = "forget" /\ UNCHANGED cached
    /\ UNCHANGED <<backend, wrapped, subject, unused, uiVars, noted, historyVars>>

\* Mutant: the address file is forgotten.
WipeRest_KeepsAddresses ==
    /\ step \in {"forget", "destroy"}
    /\ wrapped' = FALSE /\ step' = "idle"
    /\ UNCHANGED <<backend, secret, cached, subject, unused, uiVars, noted, historyVars>>

\* SecureKeyStore.wipe: then the address file, then the wrap key.
WipeRest ==
    \/ /\ step = "forget"
       /\ cached' = Absent /\ step' = "destroy"
       /\ UNCHANGED <<backend, secret, wrapped, subject, unused, uiVars, noted, historyVars>>
    \/ /\ step = "destroy"
       /\ wrapped' = FALSE /\ step' = "idle"
       /\ UNCHANGED <<backend, secret, cached, subject, unused, uiVars, noted, historyVars>>

\* SecureKeyStore.wipe looks at no result: a file that is not deleted stays, so does
\* a wrap key whose deletion throws, and the wipe goes on as if it were gone.
DeleteFails ==
    /\ backend = "secure" /\ faults < MaxFaults
    /\ faults' = faults + 1
    /\ \/ /\ screen = "shell" /\ step = "idle" /\ HasWallet
          /\ step' = "forget" /\ kept' = TRUE /\ UNCHANGED cut
       \/ step = "forget" /\ step' = "destroy" /\ cut' = TRUE /\ UNCHANGED kept
       \/ step = "destroy" /\ step' = "idle" /\ UNCHANGED <<cut, kept>>
    /\ UNCHANGED <<storeVars, subject, unused, uiVars, noted, spoiled>>

-----------------------------------------------------------------------------
(* Faults.                                                                 *)

\* The phrase of a seed that is or may be stored goes unseen when the screen goes.
Unseen == ({subject, shown} \cap AllSeeds) \ noted

\* The webview reloads: the state of the UI is gone, the command runs on.
Reload ==
    /\ faults < MaxFaults
    /\ faults' = faults + 1
    /\ spoiled' = spoiled \cup Unseen
    /\ screen' = "loading" /\ busy' = "none" /\ shown' = Absent
    /\ UNCHANGED <<storeVars, step, subject, unused, noted, cut, kept>>

\* The process dies: memory is gone, files stay, the one being written truncated.
CrashStore ==
    /\ faults < MaxFaults
    /\ faults' = faults + 1
    /\ spoiled' = spoiled \cup Unseen
    /\ cut' = (cut \/ step = "forget")
    /\ IF backend = "dev" THEN secret' = Absent /\ cached' = Absent
                          ELSE /\ cached' \in {cached} \cup (IF step = "derive" THEN {Absent} ELSE {})
                               /\ UNCHANGED secret
    /\ step' = "idle" /\ subject' = Absent
    /\ screen' = "loading" /\ busy' = "none" /\ shown' = Absent
    /\ UNCHANGED <<backend, wrapped, unused, noted, kept>>

KeyNext ==
    \/ Boot \/ BootFails \/ Switch \/ CreateWallet
    \/ \E s \in AllSeeds : RestoreWallet(s)
    \/ StoreSeed \/ WriteSeed \/ StoreFails \/ CacheAddresses \/ CacheFails \/ DeriveFails
    \/ Answer \/ NotePhrase \/ Wipe \/ WipeRest \/ DeleteFails \/ Reload

-----------------------------------------------------------------------------
(* Properties.                                                             *)

\* setup_new_wallet, restore_from_phrase: a wallet is never silently overwritten;
\* only a wipe makes room for another seed.
NeverOverwritten ==
    [][(secret \in AllSeeds) => (secret' \in {secret, Absent})]_keyVars

\* stash: the cached addresses are those of the stored seed, whatever failed or
\* died on the way; the Android backend, whose store leaves the address file
\* alone, needs that no wipe left that file behind.
AddressesMatchSeed ==
    secret \in AllSeeds /\ cached # Absent => cached = secret \/ cut

\* create_wallet shows the phrase once: a wallet in use is one whose phrase the
\* user has, or one whose setup was hit by a fault.
PhraseKept ==
    secret \in AllSeeds /\ step = "idle" =>
        secret \in noted \/ shown = secret \/ secret \in spoiled

\* SecureKeyStore: a seed file that is whole can be decrypted, as the wrap key is
\* made before the file and destroyed after it, unless a wipe that could not delete
\* the file destroyed the key all the same.
WholeIsReadable == backend = "secure" /\ secret \in AllSeeds => wrapped \/ kept
=============================================================================
