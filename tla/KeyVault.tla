------------------------------- MODULE KeyVault -------------------------------
(***************************************************************************)
(* Haven-AOL (dsh-haven-aol): sealing under a bucket's shared key, opening  *)
(* with a key the gate canister grants, and holding attestations it mints.  *)
(* Keys and receipts are asked for once: they are looked up in memory,      *)
(* shared while being made, and merged into a file before the call returns. *)
(*                                                                         *)
(* A call is one tool call.  The mounted runtime seals; a call that signs   *)
(* by the vault has a runtime of its own.  A key or receipt is told by the  *)
(* call that made it; what the gate grants for a slot is always the same.   *)
(* Receipts expire after thirty days, which no run waits for.               *)
(***************************************************************************)
EXTENDS Naturals, Sequences, FiniteSets

CONSTANTS
  Asks,        \* the tool calls, numbered from 1
  Slots,       \* buckets, derivation inputs or records: what a key is for
  Requests,    \* the operation and slot a tool call may ask for
  MaxLosses    \* bound on crashes and failing writes

ASSUME AsksAssumption == Asks \subseteq Nat \ {0} /\ IsFiniteSet(Asks)
ASSUME RequestsAssumption == Requests \subseteq {"seal", "sealOnce", "decrypt", "attest"} \X Slots
ASSUME LossesAssumption == MaxLosses \in Nat

VARIABLES
  vault,       \* the wallet signs digests itself
  keyFile,     \* the key store: epoch keys and vet keys
  ledger,      \* the receipt ledger
  ask,         \* the calls
  cache,       \* runtime -> its two key caches
  loading,     \* runtime -> its key store is not loaded, being loaded, loaded
  saved,       \* runtime -> savedSizes
  saveChain,   \* runtime -> the calls whose saves are chained
  merged,      \* runtime -> the content its save is about to write, or None
  receipts,    \* sharedReceipts
  ledgerRead,  \* receiptsLoadedPaths has the path
  minting,     \* attestPending
  losses,      \* history: crashes and failing writes
  known,       \* history: what a call that returned had made durable
  excused      \* history: what a failing write or an overlapping save may have lost

keyVars == <<keyFile, cache, loading, saved, saveChain, merged>>
receiptVars == <<ledger, receipts, ledgerRead, minting>>
vaultVars == <<vault, ask, keyVars, receiptVars, losses, known, excused>>

Mount == 0
Runtimes == Asks \cup {Mount}
KeyOps == {"seal", "decrypt"}
Nobody == 0
None == [epochs |-> <<>>, vets |-> <<>>]

Caches == [epochs : [Slots -> Asks \cup {Nobody}], vets : SUBSET Slots]
NoKeys == [epochs |-> [s \in Slots |-> Nobody], vets |-> {}]
NoReceipts == [s \in Slots |-> Nobody]
Idle == [op |-> "none", slot |-> CHOOSE s \in Slots : TRUE, at |-> "new",
         knows |-> {}, reads |-> NoReceipts]
Over == {"returned", "failed", "lost"}

Item(c) == <<ask[c].op, ask[c].slot>>
(* The runtime of a call (runtimeForCall).                                  *)
RuntimeOf(op, c) == IF vault /\ op \in {"decrypt", "attest"} THEN c ELSE Mount
Rt(c) == RuntimeOf(ask[c].op, c)
At(c, stage) == [ask[c] EXCEPT !.at = stage]
End(stage) == [Idle EXCEPT !.at = stage]
Lose == losses < MaxLosses /\ losses' = losses + 1

KeySizes(k) == <<Cardinality({s \in Slots : k.epochs[s] # Nobody}), Cardinality(k.vets)>>
(* Mutant: a merge keeps what it starts from and takes nothing in.          *)
StoredOnly(f, g) == f

(* Two maps of receipts or keys; the first wins.                            *)
MergeMaps(f, g) == [s \in Slots |-> IF f[s] # Nobody THEN f[s] ELSE g[s]]

(* Mutant: the keys in memory replace the stored ones.                      *)
KeysReplaced(base, k) == k

(* What is stored wins over what is in memory.                              *)
MergeKeys(base, k) ==
  [epochs |-> MergeMaps(base.epochs, k.epochs), vets |-> base.vets \cup k.vets]

-----------------------------------------------------------------------------
VaultInit ==
  /\ vault \in BOOLEAN
  /\ keyFile = NoKeys /\ ledger = NoReceipts
  /\ ask = [c \in Asks |-> Idle]
  /\ cache = [r \in Runtimes |-> NoKeys] /\ loading = [r \in Runtimes |-> "no"]
  /\ saved = [r \in Runtimes |-> <<0, 0>>] /\ saveChain = [r \in Runtimes |-> <<>>]
  /\ merged = [r \in Runtimes |-> None]
  /\ receipts = NoReceipts /\ ledgerRead = FALSE /\ minting = NoReceipts
  /\ losses = 0 /\ known = {} /\ excused = {}

ReadingLedger == \E c \in Asks : ask[c].at = "ledger"

(* The c-th call asks for op.  History: it knows what is known, but for     *)
(* receipts only when nobody is reading the ledger.                         *)
Called(c, op, at) ==
  /\ ask[c].at = "new" /\ \A d \in Asks : d < c => ask[d].at # "new"
  /\ \E s \in Slots :
       /\ <<op, s>> \in Requests
       /\ ask' = [ask EXCEPT ![c] =
            [op |-> op, slot |-> s, at |-> at, reads |-> NoReceipts,
             knows |-> {i \in known : i[1] # "attest" \/ ~ReadingLedger}]]
  /\ UNCHANGED <<vault, keyFile, cache, saved, saveChain, merged, ledger, receipts, minting,
                 losses, known, excused>>

(* It waits for the key store of its runtime, which it may be first to read. *)
WantsStore(r) ==
  /\ loading' = IF loading[r] = "no" THEN [loading EXCEPT ![r] = "now"] ELSE loading
  /\ UNCHANGED ledgerRead

BeginSeal(c) ==
  \E op \in {"seal", "sealOnce"} : Called(c, op, "load") /\ WantsStore(Mount)

(* Metadata that does not parse ends a decrypt before that.                 *)
BeginDecrypt(c) ==
  \/ Called(c, "decrypt", "load") /\ WantsStore(RuntimeOf("decrypt", c))
  \/ Called(c, "decrypt", "failed") /\ UNCHANGED <<loading, ledgerRead>>

(* It waits for the receipts, unless somebody has marked them as read.      *)
BeginAttest(c) ==
  /\ Called(c, "attest", IF ledgerRead THEN "check" ELSE "ledger")
  /\ ledgerRead' = TRUE /\ UNCHANGED loading

(* The store is read and its keys are put into the caches; when it cannot   *)
(* be read the runtime starts empty.                                        *)
StoreLoads(r) ==
  /\ loading[r] = "now"
  /\ \/ /\ cache' = [cache EXCEPT ![r] = MergeKeys(keyFile, @)]
        /\ UNCHANGED <<losses, excused>>
     \/ Lose /\ excused' = excused \cup (KeyOps \X Slots) /\ UNCHANGED cache
  /\ saved' = [saved EXCEPT ![r] = KeySizes(cache'[r])]
  /\ loading' = [loading EXCEPT ![r] = "yes"]
  /\ UNCHANGED <<vault, ask, keyFile, saveChain, merged, receiptVars, known>>

-----------------------------------------------------------------------------
(* Keys: getOrCreate, getOrFetch and persistKeys.                           *)

Filler(r, op, s) ==
  {c \in Asks : ask[c].at = "filling" /\ Rt(c) = r /\ Item(c) = <<op, s>> /\ op \in KeyOps}
Joiners(c) ==
  {j \in Asks : ask[j].at = "joined" /\ Rt(j) = Rt(c) /\ Item(j) = Item(c)}
HasKey(r, op, s) ==
  \/ op = "seal" /\ cache[r].epochs[s] # Nobody
  \/ op = "decrypt" /\ s \in cache[r].vets

(* Those who waited for one fill go on one after the other, in some order.  *)
Queues(S) == {q \in [1..Cardinality(S) -> S] : \A c \in S : \E i \in DOMAIN q : q[i] = c}

(* The calls S have their key: they return at once when the cache has not   *)
(* grown since it was saved, else each chains a save and waits for it.      *)
Persists(r, S) ==
  LET grew == KeySizes(cache'[r]) # saved[r] IN
  /\ ask' = [c \in Asks |->
       IF c \in S
       THEN IF grew THEN At(c, "saving") ELSE End("returned")
       ELSE ask[c]]
  /\ \E q \in Queues(S) :
       saveChain' = IF grew THEN [saveChain EXCEPT ![r] = @ \o q] ELSE saveChain

Ready(c) == ask[c].at = "load" /\ loading[Rt(c)] = "yes"

(* The key is in memory.                                                    *)
Hit(c) ==
  /\ Ready(c) /\ HasKey(Rt(c), ask[c].op, ask[c].slot)
  /\ UNCHANGED cache
  /\ Persists(Rt(c), {c})
  /\ UNCHANGED <<vault, keyFile, loading, saved, merged, receiptVars, losses, known, excused>>

(* It is not: the call waits for the fill that runs, or starts one.  A key  *)
(* that is not shared is always made.                                       *)
Miss(c) ==
  /\ Ready(c) /\ ~HasKey(Rt(c), ask[c].op, ask[c].slot)
  /\ ask' = [ask EXCEPT ![c] =
       At(c, IF Filler(Rt(c), ask[c].op, ask[c].slot) = {} THEN "filling" ELSE "joined")]
  /\ UNCHANGED <<vault, keyVars, receiptVars, losses, known, excused>>

(* A seal whose version, threshold or oracle is not acceptable.             *)
Refuses(c) ==
  /\ Ready(c) /\ ask[c].op \in {"seal", "sealOnce"}
  /\ ask' = [ask EXCEPT ![c] = End("failed")]
  /\ UNCHANGED <<vault, keyVars, receiptVars, losses, known, excused>>

(* The verification key is there and a fresh key is wrapped under it, or    *)
(* the gate has granted the slot's key; a key of its own is not kept.       *)
Fills(c) ==
  LET r == Rt(c)
      s == ask[c].slot
  IN
  /\ ask[c].at = "filling"
  /\ cache' = [cache EXCEPT
       ![r].epochs[s] = IF ask[c].op = "seal" THEN c ELSE @,
       ![r].vets = IF ask[c].op = "decrypt" THEN @ \cup {s} ELSE @]
  /\ IF ask[c].op = "sealOnce"
     THEN ask' = [ask EXCEPT ![c] = End("returned")] /\ UNCHANGED saveChain
     ELSE Persists(r, {c} \cup Joiners(c))
  /\ UNCHANGED <<vault, keyFile, loading, saved, merged, receiptVars, losses, known, excused>>

(* No signature, no answer or a refusal: nothing is kept, all who wait fail. *)
FillFails(c) ==
  /\ ask[c].at = "filling"
  /\ ask' = [d \in Asks |-> IF d \in {c} \cup Joiners(c) THEN End("failed") ELSE ask[d]]
  /\ UNCHANGED <<vault, keyVars, receiptVars, losses, known, excused>>

(* A save reads the file and merges the caches into it.  History: a save of *)
(* another runtime that has read and not written loses what this one saves, *)
(* or the other way round.                                                  *)
SaveReads(r) ==
  /\ saveChain[r] # <<>> /\ merged[r] = None
  /\ merged' = [merged EXCEPT ![r] = MergeKeys(keyFile, cache[r])]
  /\ excused' = IF \E q \in Runtimes : merged[q] # None
                THEN excused \cup (KeyOps \X Slots) ELSE excused
  /\ UNCHANGED <<vault, ask, keyFile, cache, loading, saved, saveChain, receiptVars, losses, known>>

(* It replaces the file, or fails and says nothing; either way the caches   *)
(* as they are now count as saved.                                          *)
SaveWrites(r) ==
  LET c == Head(saveChain[r]) IN
  /\ merged[r] # None
  /\ \/ /\ keyFile' = merged[r] /\ known' = known \cup {Item(c)}
        /\ UNCHANGED <<losses, excused>>
     \/ Lose /\ excused' = excused \cup (KeyOps \X Slots) /\ UNCHANGED <<keyFile, known>>
  /\ saved' = [saved EXCEPT ![r] = KeySizes(cache[r])]
  /\ merged' = [merged EXCEPT ![r] = None]
  /\ saveChain' = [saveChain EXCEPT ![r] = Tail(@)]
  /\ ask' = [ask EXCEPT ![c] = End("returned")]
  /\ UNCHANGED <<vault, cache, loading, receiptVars>>

-----------------------------------------------------------------------------
(* Receipts: attestHolding and mintAttestation.                             *)

(* The ledger is read and merged; what memory has by now wins.              *)
LedgerLoads(c) ==
  /\ ask[c].at = "ledger"
  /\ receipts' = MergeMaps(receipts, ledger)
  /\ ask' = [ask EXCEPT ![c] = At(c, "check")]
  /\ UNCHANGED <<vault, keyVars, ledger, ledgerRead, minting, losses, known, excused>>

Check(c) ==
  LET s == ask[c].slot IN
  /\ ask[c].at = "check"
  /\ IF receipts[s] # Nobody
     THEN ask' = [ask EXCEPT ![c] = End("returned")]
          /\ UNCHANGED minting
     ELSE IF minting[s] # Nobody
     THEN ask' = [ask EXCEPT ![c] = At(c, "waiting")] /\ UNCHANGED minting
     ELSE ask' = [ask EXCEPT ![c] = At(c, "signing")] /\ minting' = [minting EXCEPT ![s] = c]
  /\ UNCHANGED <<vault, keyVars, ledger, receipts, ledgerRead, losses, known, excused>>

(* The canister attests, and its answer is checked against what was asked.  *)
Mints(c) ==
  /\ ask[c].at = "signing"
  /\ receipts' = [receipts EXCEPT ![ask[c].slot] = c]
  /\ ask' = [ask EXCEPT ![c] = At(c, "minted")]
  /\ UNCHANGED <<vault, keyVars, ledger, ledgerRead, minting, losses, known, excused>>

Waiting(c) == {d \in Asks : ask[d].at = "waiting" /\ ask[d].slot = ask[c].slot}

(* It refuses, or its answer is lost.                                       *)
MintFails(c) ==
  /\ ask[c].at = "signing"
  /\ minting' = [minting EXCEPT ![ask[c].slot] = Nobody]
  /\ ask' = [d \in Asks |-> IF d \in {c} \cup Waiting(c) THEN End("failed") ELSE ask[d]]
  /\ UNCHANGED <<vault, keyVars, ledger, receipts, ledgerRead, losses, known, excused>>

(* The ledger is read again, and what memory holds is merged into it.       *)
LedgerMerges(c) ==
  /\ ask[c].at = "minted"
  /\ ask' = [ask EXCEPT ![c] = [@ EXCEPT !.at = "writing", !.reads = MergeMaps(ledger, receipts)]]
  /\ excused' = IF \E d \in Asks : ask[d].at = "writing"
                THEN excused \cup ({"attest"} \X Slots) ELSE excused
  /\ UNCHANGED <<vault, keyVars, receiptVars, losses, known>>

(* It is written, or not; all who wait get what the merge says.             *)
LedgerWrites(c) ==
  LET s == ask[c].slot IN
  /\ ask[c].at = "writing"
  /\ \/ /\ ledger' = ask[c].reads /\ known' = known \cup {Item(c)}
        /\ UNCHANGED <<losses, excused>>
     \/ Lose /\ excused' = excused \cup {Item(c)} /\ UNCHANGED <<ledger, known>>
  /\ minting' = [minting EXCEPT ![s] = Nobody]
  /\ ask' = [d \in Asks |->
       IF d \in {c} \cup Waiting(c)
       THEN End("returned") ELSE ask[d]]
  /\ UNCHANGED <<vault, keyVars, receipts, ledgerRead>>

-----------------------------------------------------------------------------
VaultCrash ==
  /\ Lose
  /\ ask' = [c \in Asks |-> IF ask[c].at \in Over \cup {"new"} THEN ask[c]
                            ELSE End("lost")]
  /\ cache' = [r \in Runtimes |-> NoKeys] /\ loading' = [r \in Runtimes |-> "no"]
  /\ saved' = [r \in Runtimes |-> <<0, 0>>] /\ saveChain' = [r \in Runtimes |-> <<>>]
  /\ merged' = [r \in Runtimes |-> None]
  /\ receipts' = NoReceipts /\ ledgerRead' = FALSE /\ minting' = NoReceipts
  /\ UNCHANGED <<vault, keyFile, ledger, known, excused>>

VaultNext ==
  \/ \E c \in Asks :
       \/ BeginSeal(c) \/ BeginDecrypt(c) \/ BeginAttest(c) \/ Hit(c) \/ Miss(c) \/ Refuses(c) \/ Fills(c) \/ FillFails(c)
       \/ LedgerLoads(c) \/ Check(c) \/ Mints(c) \/ MintFails(c) \/ LedgerMerges(c) \/ LedgerWrites(c)
  \/ \E r \in Runtimes : StoreLoads(r) \/ SaveReads(r) \/ SaveWrites(r)
  \/ VaultCrash

VaultSpec == VaultInit /\ [][VaultNext]_vaultVars

-----------------------------------------------------------------------------
(* Every part has its type; a key is told by the call that made it.         *)
VaultTypeOK ==
  /\ vault \in BOOLEAN /\ keyFile \in Caches /\ ledger \in [Slots -> Asks \cup {Nobody}]
  /\ \A c \in Asks : ask[c].op # "none" => Item(c) \in Requests
  /\ cache \in [Runtimes -> Caches] /\ loading \in [Runtimes -> {"no", "now", "yes"}]
  /\ saveChain \in [Runtimes -> Seq(Asks)]
  /\ receipts \in [Slots -> Asks \cup {Nobody}] /\ ledgerRead \in BOOLEAN
  /\ minting \in [Slots -> Asks \cup {Nobody}] /\ losses \in 0..MaxLosses

(* A call does not ask the gate for a key, or the wallet and the canister   *)
(* for a receipt, when an earlier call that returned before it began had    *)
(* made that key or receipt durable: not after a restart, not in a runtime  *)
(* of its own and not while others save (AolRuntime cachedVetKey, seal and  *)
(* attestHolding).  What a write that failed or overlapped another may have *)
(* lost is excused, and so is a receipt while the ledger is being read.     *)
NotMadeAgain ==
  \A c \in Asks : ask[c].at \in {"filling", "signing"} => Item(c) \notin ask[c].knows \ excused

(* A key or a receipt that is stored stays stored as it is, while no save   *)
(* has failed or overlapped another: a bucket's files keep one sealing key, *)
(* and one receipt serves every later call (saveKeyStore,                   *)
(* saveReceiptLedger: first persisted wins).                                *)
StoredIsKept ==
  [][excused = {} =>
       /\ keyFile.vets \subseteq keyFile'.vets
       /\ \A s \in Slots :
            /\ keyFile.epochs[s] \in {Nobody, keyFile'.epochs[s]}
            /\ ledger[s] \in {Nobody, ledger'[s]}]_vaultVars
=============================================================================
