----------------------------- MODULE Stores_proofs -----------------------------
(***************************************************************************)
(* Proofs about the three stores whose callers count on an earlier call not *)
(* being made again: the keys and receipts of KeyVault (NotAgain,           *)
(* FirstStoredWins), the catalog of ArkivLedger (OneEntity) and the piece   *)
(* ledger of SynapsePins (PinsKept).  The stores share no state; each has   *)
(* its inductive invariant, and nothing of one is used for another.  And    *)
(* about the records the catalog holds, in HavenRecord (RecordsFound), and  *)
(* the files that are sealed under the keys, in SealedFile (SealedOpens).   *)
(***************************************************************************)
EXTENDS KeyVault, ArkivLedger, SynapsePins, HavenRecord, SealedFile, FiniteSetTheorems, TLAPS

-----------------------------------------------------------------------------
(* KeyVault: the key stores and the receipt ledger.                         *)

AskStages ==
  {"new", "load", "filling", "joined", "saving", "ledger", "check", "signing", "waiting",
   "minted", "writing"} \cup Over
AskOps == {"seal", "sealOnce", "decrypt", "attest", "none"}
SomeSlots == Slots \cup {Idle.slot}
Ledgers == [Slots -> Asks \cup {Nobody}]
AskRecords ==
  [op : AskOps, slot : SomeSlots, at : AskStages, knows : SUBSET (AskOps \X SomeSlots), reads : Ledgers]

VaultType ==
  /\ vault \in BOOLEAN /\ keyFile \in Caches /\ ledger \in Ledgers /\ receipts \in Ledgers
  /\ ask \in [Asks -> AskRecords]
  /\ cache \in [Runtimes -> Caches] /\ loading \in [Runtimes -> {"no", "now", "yes"}]
  /\ saveChain \in [Runtimes -> Seq(Asks)] /\ ledgerRead \in BOOLEAN
  /\ merged \in [Runtimes -> Caches \cup {None}]
  /\ known \subseteq (AskOps \ {"sealOnce"}) \X SomeSlots

(* What a call that returned has made durable and no failure excuses.       *)
Lasting(op, s) == <<op, s>> \in known /\ <<op, s>> \notin excused
Holds(k, op, s) ==
  \/ op = "seal" /\ k.epochs[s] # Nobody
  \/ op = "decrypt" /\ s \in k.vets

(* k has every key of f, as it is there.                                    *)
Extends(k, f) ==
  f.vets \subseteq k.vets /\ \A s \in Slots : f.epochs[s] \in {Nobody, k.epochs[s]}
KeysLost == KeyOps \X Slots \subseteq excused
AttestLost == {"attest"} \X Slots \subseteq excused

(* A call whose save is chained has its key in memory.                      *)
ChainFits(r, c) ==
  /\ ask[c].at # "new" /\ ask[c].op \in KeyOps \cup {"none"}
  /\ ask[c].op \in KeyOps => Rt(c) = r /\ Holds(cache[r], ask[c].op, ask[c].slot)

(* The key store, and what is about to replace it, have what is lasting;    *)
(* so has a mounted runtime that has loaded it.                             *)
KeysFit ==
  /\ \A op \in KeyOps, s \in Slots : Lasting(op, s) =>
       /\ Holds(keyFile, op, s)
       /\ loading[Mount] = "yes" /\ (op = "seal" \/ ~vault) => Holds(cache[Mount], op, s)
  /\ \A r \in Runtimes : merged[r] # None =>
       /\ saveChain[r] # <<>>
       /\ LET c == Head(saveChain[r]) IN ask[c].op \in KeyOps => Holds(merged[r], ask[c].op, ask[c].slot)
       /\ ~KeysLost => /\ Extends(merged[r], keyFile)
                       /\ \A q \in Runtimes \ {r} : merged[q] = None
  /\ \A r \in Runtimes : \A k \in 1..Len(saveChain[r]) : ChainFits(r, saveChain[r][k])

(* What a call knows: the key it knows of is in the cache of its runtime,   *)
(* the receipt it knows of is in memory when it looks.                      *)
AskFits(c) ==
  LET a == ask[c] IN
  /\ a.op # "none" => a.slot \in Slots
  /\ a.at = "new" => a.op = "none" /\ loading[c] = "no"
  /\ a.at \in {"ledger", "check", "signing", "waiting", "minted", "writing"} => a.op = "attest"
  /\ a.at \in {"load", "joined", "filling", "saving"} => a.op \in KeyOps \cup {"sealOnce"}
  /\ a.knows \subseteq known
  /\ a.op \in KeyOps /\ Item(c) \in a.knows \ excused /\ loading[Rt(c)] = "yes" =>
       Holds(cache[Rt(c)], a.op, a.slot)
  /\ a.at \in {"filling", "signing"} => Item(c) \notin a.knows \ excused
  /\ a.at = "check" /\ Item(c) \in a.knows \ excused => receipts[a.slot] # Nobody
  /\ a.at \in {"minted", "writing"} => receipts[a.slot] # Nobody
  /\ a.at = "writing" => a.reads[a.slot] # Nobody
  /\ a.at = "writing" /\ ~AttestLost =>
       /\ \A s \in Slots : ledger[s] \in {Nobody, a.reads[s]}
       /\ \A d \in Asks \ {c} : ask[d].at # "writing"

(* The ledger has what is lasting; so has memory once it was read.          *)
ReceiptsFit ==
  \A s \in Slots : Lasting("attest", s) =>
    /\ ledger[s] # Nobody
    /\ ledgerRead /\ ~ReadingLedger => receipts[s] # Nobody

VaultInv == VaultType /\ KeysFit /\ (\A c \in Asks : AskFits(c)) /\ ReceiptsFit

-----------------------------------------------------------------------------
LEMMA EndType ==
  ASSUME NEW stage \in AskStages
  PROVE  /\ End(stage) \in AskRecords /\ End(stage).op = "none" /\ End(stage).at = stage
         /\ End(stage).knows = {}
<1>1. NoReceipts \in Ledgers
  BY DEF NoReceipts, Ledgers
<1>2. PICK slot \in SomeSlots : slot = Idle.slot
  BY DEF SomeSlots
<1>3. Idle = [op |-> "none", slot |-> slot, at |-> "new", knows |-> {}, reads |-> NoReceipts]
  BY <1>2 DEF Idle
<1>4. "none" \in AskOps /\ "new" \in AskStages
  BY DEF AskOps, AskStages
<1>5. Idle \in AskRecords
  BY <1>1, <1>3, <1>4 DEF AskRecords
<1>6. End(stage) = [Idle EXCEPT !.at = stage]
  BY DEF End
<1>7. QED BY <1>3, <1>5, <1>6 DEF AskRecords

LEMMA AtType ==
  ASSUME VaultType, NEW c \in Asks, NEW stage \in AskStages
  PROVE  /\ At(c, stage) \in AskRecords /\ At(c, stage).at = stage
         /\ At(c, stage).op = ask[c].op /\ At(c, stage).slot = ask[c].slot
         /\ At(c, stage).knows = ask[c].knows /\ At(c, stage).reads = ask[c].reads
<1>1. ask[c] \in AskRecords
  BY DEF VaultType
<1>2. At(c, stage) = [ask[c] EXCEPT !.at = stage]
  BY DEF At
<1>3. QED BY <1>1, <1>2 DEF AskRecords

LEMMA Stages ==
  /\ {"new", "load", "filling", "joined", "saving", "ledger", "check", "signing", "waiting",
      "minted", "writing", "returned", "failed", "lost"} = AskStages
  /\ Nobody \notin Asks /\ Mount \notin Asks
BY AsksAssumption DEF AskStages, Over, Nobody, Mount

LEMMA MapsMerge ==
  ASSUME NEW f \in Ledgers, NEW g \in Ledgers
  PROVE  /\ MergeMaps(f, g) \in Ledgers
         /\ \A s \in Slots : /\ f[s] \in {Nobody, MergeMaps(f, g)[s]}
                             /\ f[s] # Nobody \/ g[s] # Nobody => MergeMaps(f, g)[s] # Nobody
BY DEF MergeMaps, Ledgers

LEMMA KeysMerge ==
  ASSUME NEW f \in Caches, NEW g \in Caches
  PROVE  /\ MergeKeys(f, g) \in Caches /\ Extends(MergeKeys(f, g), f)
         /\ \A op, s : s \in Slots /\ (Holds(f, op, s) \/ Holds(g, op, s)) => Holds(MergeKeys(f, g), op, s)
<1>1. f.epochs \in Ledgers /\ g.epochs \in Ledgers /\ f.vets \in SUBSET Slots /\ g.vets \in SUBSET Slots
  BY DEF Caches, Ledgers
<1>2. /\ MergeMaps(f.epochs, g.epochs) \in Ledgers
      /\ \A s \in Slots :
           /\ f.epochs[s] \in {Nobody, MergeMaps(f.epochs, g.epochs)[s]}
           /\ f.epochs[s] # Nobody \/ g.epochs[s] # Nobody => MergeMaps(f.epochs, g.epochs)[s] # Nobody
  BY <1>1, MapsMerge
<1>3. /\ MergeKeys(f, g).epochs = MergeMaps(f.epochs, g.epochs)
      /\ MergeKeys(f, g).vets = f.vets \cup g.vets
      /\ MergeKeys(f, g) \in Caches
  BY <1>1, <1>2 DEF MergeKeys, Caches, Ledgers
<1>4. QED BY <1>2, <1>3 DEF Extends, Holds

(* What is held stays held in a store that has all of it.                   *)
LEMMA HoldsOn ==
  ASSUME NEW f, NEW k, Extends(k, f), NEW op, NEW s \in Slots, Holds(f, op, s)
  PROVE  Holds(k, op, s)
BY DEF Extends, Holds

(* A runtime's cache has all it had.                                        *)
CacheGrows ==
  \A r \in Runtimes, op \in KeyOps, s \in Slots : Holds(cache[r], op, s) => Holds(cache'[r], op, s)

(* A call that was asked is the call it was, or has ended.                  *)
CallsGoOn ==
  \A c \in Asks : ask[c].at # "new" =>
    /\ ask'[c].at # "new" /\ ask'[c].op \in {ask[c].op, "none"}
    /\ ask'[c].op # "none" => ask'[c].slot = ask[c].slot

LEMMA ChainStays ==
  ASSUME VaultInv, CallsGoOn, CacheGrows, vault' = vault, NEW r \in Runtimes, NEW c \in Asks, ChainFits(r, c)
  PROVE  ChainFits(r, c)'
<1>1. /\ ask[c].at # "new" /\ ask[c].op \in KeyOps \cup {"none"}
      /\ ask[c].op \in KeyOps => Rt(c) = r /\ Holds(cache[r], ask[c].op, ask[c].slot)
  BY DEF ChainFits
<1>2. ask[c].op # "none" => ask[c].slot \in Slots
  BY DEF VaultInv, AskFits
<1>3. /\ ask'[c].at # "new" /\ ask'[c].op \in {ask[c].op, "none"}
      /\ ask'[c].op # "none" => ask'[c].slot = ask[c].slot
  BY <1>1 DEF CallsGoOn
<1>4. ASSUME ask'[c].op \in KeyOps
      PROVE  Rt(c)' = r /\ Holds(cache'[r], ask'[c].op, ask'[c].slot)
  <2>1. ask'[c].op = ask[c].op /\ ask'[c].slot = ask[c].slot /\ ask[c].op \in KeyOps /\ ask[c].slot \in Slots
    BY <1>2, <1>3, <1>4 DEF KeyOps
  <2>2. Rt(c)' = Rt(c)
    BY <2>1 DEF Rt, RuntimeOf
  <2>3. QED BY <1>1, <2>1, <2>2 DEF CacheGrows
<1>5. QED BY <1>1, <1>3, <1>4 DEF ChainFits

(* A step of the calls, which may chain more saves: the key side.           *)
LEMMA KeysStay ==
  ASSUME VaultInv, CallsGoOn, CacheGrows, vault' = vault, keyFile' = keyFile, merged' = merged,
         loading'[Mount] = "yes" => loading[Mount] = "yes",
         excused \subseteq excused', \A i \in known' \ known : i[1] \notin KeyOps,
         \A r \in Runtimes : \E q \in Seq(Asks) :
           saveChain'[r] = saveChain[r] \o q /\ \A k \in 1..Len(q) : ChainFits(r, q[k])'
  PROVE  KeysFit'
<1>0. Mount \in Runtimes
  BY DEF Runtimes
<1>1. ASSUME NEW op \in KeyOps, NEW s \in Slots, Lasting(op, s)'
      PROVE  /\ Holds(keyFile', op, s)
             /\ loading'[Mount] = "yes" /\ (op = "seal" \/ ~vault') => Holds(cache'[Mount], op, s)
  <2>1. Lasting(op, s)
    BY <1>1 DEF Lasting
  <2>2. QED BY <1>0, <2>1 DEF VaultInv, KeysFit, CacheGrows
<1>2. ASSUME NEW r \in Runtimes PROVE \A k \in 1..Len(saveChain'[r]) : ChainFits(r, saveChain[r][k])'
  <2>1. PICK q \in Seq(Asks) : saveChain'[r] = saveChain[r] \o q /\ \A k \in 1..Len(q) : ChainFits(r, q[k])'
    OBVIOUS
  <2>2. saveChain[r] \in Seq(Asks)
    BY DEF VaultInv, VaultType
  <2>3. TAKE k \in 1..Len(saveChain'[r])
  <2>4. CASE k <= Len(saveChain[r])
    <3>1. k \in 1..Len(saveChain[r]) /\ saveChain'[r][k] = saveChain[r][k] /\ saveChain[r][k] \in Asks
      BY <2>1, <2>2, <2>4
    <3>2. PICK c \in Asks : c = saveChain[r][k]
      BY <3>1
    <3>3. ChainFits(r, c)
      BY <3>1, <3>2 DEF VaultInv, KeysFit
    <3>4. ChainFits(r, c)'
      BY <3>3, ChainStays
    <3>5. QED BY <3>1, <3>2, <3>4 DEF ChainFits, Rt, RuntimeOf
  <2>5. CASE ~(k <= Len(saveChain[r]))
    <3>1. PICK j \in 1..Len(q) : saveChain'[r][k] = q[j]
      <4>1. k - Len(saveChain[r]) \in 1..Len(q) /\ saveChain'[r][k] = q[k - Len(saveChain[r])]
        BY <2>1, <2>2, <2>5
      <4>2. QED BY <4>1
    <3>2. PICK c : c = q[j]
      OBVIOUS
    <3>3. ChainFits(r, c)'
      BY <2>1, <3>2
    <3>4. QED BY <3>1, <3>2, <3>3 DEF ChainFits, Rt, RuntimeOf
  <2>6. QED BY <2>4, <2>5
<1>3. ASSUME NEW r \in Runtimes, merged'[r] # None
      PROVE  /\ saveChain'[r] # <<>>
             /\ LET c == Head(saveChain'[r]) IN
                ask'[c].op \in KeyOps => Holds(merged'[r], ask'[c].op, ask'[c].slot)
             /\ ~KeysLost' => /\ Extends(merged'[r], keyFile')
                              /\ \A q \in Runtimes \ {r} : merged'[q] = None
  <2>1. PICK q \in Seq(Asks) : saveChain'[r] = saveChain[r] \o q
    OBVIOUS
  <2>2. saveChain[r] \in Seq(Asks) /\ saveChain[r] # <<>>
    BY <1>3 DEF VaultInv, VaultType, KeysFit
  <2>3. PICK c \in Asks : c = Head(saveChain[r]) /\ c = saveChain[r][1] /\ 1 \in 1..Len(saveChain[r])
    BY <2>2
  <2>4. saveChain'[r] # <<>> /\ Head(saveChain'[r]) = c
    BY <2>1, <2>2, <2>3
  <2>5. ask[c].op \in KeyOps => Holds(merged[r], ask[c].op, ask[c].slot)
    BY <1>3, <2>3 DEF VaultInv, KeysFit
  <2>6. ask[c].at # "new"
    BY <2>3 DEF VaultInv, KeysFit, ChainFits
  <2>7. ask'[c].op \in KeyOps => Holds(merged'[r], ask'[c].op, ask'[c].slot)
    BY <2>5, <2>6 DEF CallsGoOn, KeyOps
  <2>8. ~KeysLost' => ~KeysLost
    BY DEF KeysLost
  <2>9. ~KeysLost => Extends(merged[r], keyFile) /\ \A p \in Runtimes \ {r} : merged[p] = None
    BY <1>3 DEF VaultInv, KeysFit
  <2>10. QED BY <2>4, <2>7, <2>8, <2>9
<1>4. QED BY <1>1, <1>2, <1>3 DEF KeysFit

(* The receipt side, when the receipts are as they were.                    *)
LEMMA ReceiptsStay ==
  ASSUME VaultInv, ledger' = ledger, receipts' = receipts, excused \subseteq excused',
         \A i \in known' \ known : i[1] # "attest",
         ledgerRead' /\ ~ReadingLedger' => ledgerRead /\ ~ReadingLedger
  PROVE  ReceiptsFit'
<1>1. ASSUME NEW s \in Slots, Lasting("attest", s)'
      PROVE  ledger[s] # Nobody /\ (ledgerRead' /\ ~ReadingLedger' => receipts[s] # Nobody)
  <2>1. Lasting("attest", s)
    BY <1>1 DEF Lasting
  <2>2. QED BY <2>1 DEF VaultInv, ReceiptsFit
<1>2. QED BY <1>1 DEF ReceiptsFit

(* A call that a step leaves as it is.                                      *)
LEMMA AskStays ==
  ASSUME VaultInv, NEW d \in Asks, ask'[d] = ask[d], vault' = vault,
         known \subseteq known', excused \subseteq excused',
         ask[d].at = "new" => loading'[d] = "no",
         ask[d].op \in KeyOps /\ Item(d) \in ask[d].knows \ excused' /\ loading'[Rt(d)] = "yes" =>
           Holds(cache'[Rt(d)], ask[d].op, ask[d].slot),
         \A s \in Slots : receipts[s] # Nobody => receipts'[s] # Nobody,
         ask[d].at = "writing" /\ ~AttestLost' =>
           ledger' = ledger /\ \A e \in Asks \ {d} : ask'[e].at # "writing"
  PROVE  AskFits(d)'
<1>1. AskFits(d)
  BY DEF VaultInv
<1>2. Item(d)' = Item(d) /\ Rt(d)' = Rt(d)
  BY DEF Item, Rt, RuntimeOf
<1>3. ~AttestLost' => ~AttestLost
  BY DEF AttestLost
<1>4. ask[d].at \in {"minted", "writing", "check"} => ask[d].slot \in Slots
  BY <1>1 DEF AskFits
<1>5. /\ ask[d].op # "none" => ask[d].slot \in Slots
      /\ ask[d].at = "new" => ask[d].op = "none" /\ loading'[d] = "no"
      /\ ask[d].at \in {"ledger", "check", "signing", "waiting", "minted", "writing"} => ask[d].op = "attest"
      /\ ask[d].at \in {"load", "joined", "filling", "saving"} => ask[d].op \in KeyOps \cup {"sealOnce"}
      /\ ask[d].knows \subseteq known'
  BY <1>1 DEF AskFits
<1>6. /\ ask[d].at \in {"filling", "signing"} => Item(d) \notin ask[d].knows \ excused'
      /\ ask[d].at = "check" /\ Item(d) \in ask[d].knows \ excused' => receipts'[ask[d].slot] # Nobody
      /\ ask[d].at \in {"minted", "writing"} => receipts'[ask[d].slot] # Nobody
      /\ ask[d].at = "writing" => ask[d].reads[ask[d].slot] # Nobody
  BY <1>1, <1>4 DEF AskFits
<1>7. ask[d].at = "writing" /\ ~AttestLost' =>
       /\ \A s \in Slots : ledger'[s] \in {Nobody, ask[d].reads[s]}
       /\ \A e \in Asks \ {d} : ask'[e].at # "writing"
  BY <1>1, <1>3 DEF AskFits
<1>8. QED BY <1>2, <1>5, <1>6, <1>7 DEF AskFits

LEMMA ChainSame ==
  ASSUME VaultType, saveChain' = saveChain
  PROVE  \A r \in Runtimes : \E q \in Seq(Asks) :
           saveChain'[r] = saveChain[r] \o q /\ \A k \in 1..Len(q) : ChainFits(r, q[k])'
<1>1. TAKE r \in Runtimes
<1>2. PICK s \in Seq(Asks) : s = saveChain[r]
  BY DEF VaultType
<1>a. <<>> \in Seq(Asks)
  OBVIOUS
<1>3. PICK q \in Seq(Asks) : q = <<>>
  BY <1>a
<1>4. s \o q = s
  BY <1>3
<1>5. \A k \in 1..Len(q) : ChainFits(r, q[k])'
  BY <1>3
<1>6. QED BY <1>2, <1>4, <1>5

(* A call begins.                                                           *)
LEMMA CalledStep ==
  ASSUME VaultInv, NEW c \in Asks, NEW op \in {"seal", "sealOnce", "decrypt", "attest"}, NEW at \in AskStages,
         Called(c, op, at),
         IF op = "attest"
         THEN at = (IF ledgerRead THEN "check" ELSE "ledger") /\ ledgerRead' = TRUE
         ELSE at \in {"load", "failed"} /\ ledgerRead' = ledgerRead,
         loading' \in [Runtimes -> {"no", "now", "yes"}],
         \A r \in Runtimes : loading'[r] = "yes" => loading[r] = "yes",
         \A d \in Asks \ {c} : loading'[d] = loading[d]
  PROVE  VaultInv'
<1>0. /\ VaultType /\ ask \in [Asks -> AskRecords] /\ c \in Runtimes /\ Mount \in Runtimes
  BY DEF VaultInv, VaultType, Runtimes
<1>1. /\ ask[c].at = "new" /\ vault' = vault /\ keyFile' = keyFile /\ cache' = cache
      /\ saveChain' = saveChain /\ merged' = merged /\ ledger' = ledger /\ receipts' = receipts
      /\ known' = known /\ excused' = excused
  BY Zenon DEF Called
<1>2. PICK s \in Slots :
        ask' = [ask EXCEPT ![c] =
          [op |-> op, slot |-> s, at |-> at, reads |-> NoReceipts,
           knows |-> {i \in known : i[1] # "attest" \/ ~ReadingLedger}]]
  BY Zenon DEF Called
<1>3. PICK knows \in SUBSET known : knows = {i \in known : i[1] # "attest" \/ ~ReadingLedger}
  OBVIOUS
<1>4. PICK a : a = [op |-> op, slot |-> s, at |-> at, reads |-> NoReceipts, knows |-> knows]
  OBVIOUS
<1>5. a \in AskRecords /\ a.op = op /\ a.slot = s /\ a.at = at /\ a.knows = knows
  <2>1. NoReceipts \in Ledgers
    BY DEF NoReceipts, Ledgers
  <2>2. op \in AskOps /\ s \in SomeSlots
    BY DEF AskOps, SomeSlots
  <2>3. knows \in SUBSET (AskOps \X SomeSlots)
    BY <1>0 DEF VaultType
  <2>4. QED BY <1>4, <2>1, <2>2, <2>3 DEF AskRecords
<1>6. ask' = [ask EXCEPT ![c] = a]
  BY <1>2, <1>3, <1>4, Zenon
<1>7. ask'[c] = a /\ (\A d \in Asks \ {c} : ask'[d] = ask[d]) /\ ask' \in [Asks -> AskRecords]
  BY <1>0, <1>5, <1>6
<1>8. VaultType'
  <2>1. ledgerRead' \in BOOLEAN
    BY <1>0 DEF VaultType
  <2>2. QED BY <1>0, <1>1, <1>7, <2>1 DEF VaultType
<1>9. CallsGoOn /\ CacheGrows
  BY <1>1, <1>7 DEF CallsGoOn, CacheGrows
<1>10. KeysFit'
  BY <1>0, <1>1, <1>9, ChainSame, KeysStay
<1>11. at = "ledger" => ReadingLedger'
  BY <1>5, <1>7 DEF ReadingLedger
<1>12. ~ReadingLedger' => ~ReadingLedger
  BY <1>1, <1>7 DEF ReadingLedger
<1>13. ReceiptsFit'
  BY <1>1, <1>11, <1>12, ReceiptsStay
<1>14. ASSUME NEW d \in Asks \ {c} PROVE AskFits(d)'
  <2>1. AskFits(d) /\ ask'[d] = ask[d] /\ ask[d] \in AskRecords
    BY <1>0, <1>7 DEF VaultInv
  <2>2. Rt(d) \in Runtimes
    BY DEF Rt, RuntimeOf, Runtimes
  <2>3. ask[d].at = "writing" /\ ~AttestLost => \A e \in Asks \ {d} : ask[e].at # "writing"
    BY <2>1 DEF AskFits
  <2>4. ask[d].at = "writing" /\ ~AttestLost' => \A e \in Asks \ {d} : ask'[e].at # "writing"
    BY <1>1, <1>5, <1>7, <2>3 DEF AttestLost
  <2>5. ask[d].at = "new" => loading'[d] = "no"
    BY <2>1 DEF AskFits
  <2>6. ask[d].op \in KeyOps /\ Item(d) \in ask[d].knows \ excused' /\ loading'[Rt(d)] = "yes" =>
          Holds(cache'[Rt(d)], ask[d].op, ask[d].slot)
    BY <1>1, <2>1, <2>2 DEF AskFits
  <2>7. QED BY <1>1, <2>1, <2>4, <2>5, <2>6, AskStays
<1>15. AskFits(c)'
  <2>1. loading[c] = "no"
    BY <1>1 DEF VaultInv, AskFits
  <2>2. Item(c)' = <<op, s>> /\ Rt(c)' = RuntimeOf(op, c)
    BY <1>1, <1>5, <1>7 DEF Item, Rt, RuntimeOf
  <2>3. ASSUME op \in KeyOps, <<op, s>> \in knows \ excused, loading'[RuntimeOf(op, c)] = "yes"
        PROVE  Holds(cache[RuntimeOf(op, c)], op, s)
    <3>1. RuntimeOf(op, c) \in Runtimes /\ loading[RuntimeOf(op, c)] = "yes"
      BY <1>0, <2>3 DEF RuntimeOf
    <3>2. RuntimeOf(op, c) = Mount /\ (op = "seal" \/ ~vault)
      BY <2>1, <2>3, <3>1 DEF RuntimeOf, KeyOps
    <3>3. Lasting(op, s)
      BY <2>3 DEF Lasting
    <3>4. QED BY <2>3, <3>1, <3>2, <3>3 DEF VaultInv, KeysFit
  <2>4. ASSUME at = "check", <<op, s>> \in knows \ excused
        PROVE  receipts[s] # Nobody
    <3>1. op = "attest" /\ ledgerRead
      BY <2>4
    <3>2. ~ReadingLedger /\ Lasting(op, s)
      BY <1>3, <2>4, <3>1 DEF Lasting
    <3>3. QED BY <3>1, <3>2 DEF VaultInv, ReceiptsFit
  <2>5. at \in {"load", "failed", "check", "ledger"}
    OBVIOUS
  <2>6. at \in {"check", "ledger"} => op = "attest"
    OBVIOUS
  <2>7. at = "load" => op \in KeyOps \cup {"sealOnce"}
    BY DEF KeyOps
  <2>8. QED BY <1>1, <1>3, <1>5, <1>7, <2>2, <2>3, <2>4, <2>5, <2>6, <2>7 DEF AskFits
<1>16. QED BY <1>8, <1>10, <1>13, <1>14, <1>15 DEF VaultInv

LEMMA BeginStep ==
  ASSUME VaultInv, NEW c \in Asks, BeginSeal(c) \/ BeginDecrypt(c) \/ BeginAttest(c)
  PROVE  VaultInv'
<1>0. loading \in [Runtimes -> {"no", "now", "yes"}] /\ c \in Runtimes /\ Mount \in Runtimes
  BY DEF VaultInv, VaultType, Runtimes
<1>1. ASSUME NEW r \in {Mount, c}, WantsStore(r)
      PROVE  /\ loading' \in [Runtimes -> {"no", "now", "yes"}] /\ ledgerRead' = ledgerRead
             /\ \A q \in Runtimes : loading'[q] = "yes" => loading[q] = "yes"
             /\ \A d \in Asks \ {c} : loading'[d] = loading[d]
  <2>1. ledgerRead' = ledgerRead /\ (loading' = loading \/ loading' = [loading EXCEPT ![r] = "now"])
    BY <1>1 DEF WantsStore
  <2>2. \A d \in Asks \ {c} : d # r /\ d \in Runtimes
    BY Stages DEF Runtimes
  <2>3. QED BY <1>0, <2>1, <2>2
<1>2. "load" \in AskStages /\ "failed" \in AskStages /\ "check" \in AskStages /\ "ledger" \in AskStages
  BY Stages
<1>3. CASE BeginSeal(c)
  <2>1. PICK op \in {"seal", "sealOnce"} : Called(c, op, "load") /\ WantsStore(Mount)
    BY <1>3 DEF BeginSeal
  <2>2. QED BY <1>1, <1>2, <2>1, CalledStep
<1>4. CASE BeginDecrypt(c)
  <2>1. CASE Called(c, "decrypt", "load") /\ WantsStore(RuntimeOf("decrypt", c))
    <3>1. PICK r \in {Mount, c} : r = RuntimeOf("decrypt", c)
      BY DEF RuntimeOf
    <3>2. QED BY <1>1, <1>2, <2>1, <3>1, CalledStep
  <2>2. CASE Called(c, "decrypt", "failed") /\ UNCHANGED <<loading, ledgerRead>>
    BY <1>0, <1>2, <2>2, CalledStep
  <2>3. QED BY <1>4, <2>1, <2>2 DEF BeginDecrypt
<1>5. CASE BeginAttest(c)
  <2>1. Called(c, "attest", IF ledgerRead THEN "check" ELSE "ledger") /\ ledgerRead' = TRUE /\ loading' = loading
    BY <1>5 DEF BeginAttest
  <2>2. PICK at \in {"check", "ledger"} : at = IF ledgerRead THEN "check" ELSE "ledger"
    OBVIOUS
  <2>3. Called(c, "attest", at)
    BY <2>1, <2>2
  <2>4. QED BY <1>0, <1>2, <2>1, <2>2, <2>3, CalledStep
<1>6. QED BY <1>3, <1>4, <1>5

(* A runtime reads the key store.                                           *)
LEMMA StoreLoadsStep ==
  ASSUME VaultInv, NEW r \in Runtimes, StoreLoads(r)
  PROVE  VaultInv'
<1>0. /\ VaultType /\ cache \in [Runtimes -> Caches] /\ loading \in [Runtimes -> {"no", "now", "yes"}]
      /\ keyFile \in Caches /\ Mount \in Runtimes
  BY DEF VaultInv, VaultType, Runtimes
<1>1. /\ loading[r] = "now" /\ loading' = [loading EXCEPT ![r] = "yes"]
      /\ vault' = vault /\ ask' = ask /\ keyFile' = keyFile /\ saveChain' = saveChain /\ merged' = merged
      /\ ledger' = ledger /\ receipts' = receipts /\ ledgerRead' = ledgerRead /\ known' = known
  BY Zenon DEF StoreLoads, receiptVars
<1>2. \/ cache' = [cache EXCEPT ![r] = MergeKeys(keyFile, cache[r])] /\ excused' = excused
      \/ cache' = cache /\ excused' = excused \cup (KeyOps \X Slots)
  BY Zenon DEF StoreLoads
<1>3. /\ cache' \in [Runtimes -> Caches] /\ CacheGrows /\ excused \subseteq excused'
      /\ \A op \in KeyOps, s \in Slots :
           Holds(keyFile, op, s) /\ <<op, s>> \notin excused' => Holds(cache'[r], op, s)
  <2>1. CASE cache' = [cache EXCEPT ![r] = MergeKeys(keyFile, cache[r])] /\ excused' = excused
    <3>1. /\ MergeKeys(keyFile, cache[r]) \in Caches
          /\ \A op, s : s \in Slots /\ (Holds(keyFile, op, s) \/ Holds(cache[r], op, s)) =>
               Holds(MergeKeys(keyFile, cache[r]), op, s)
      BY <1>0, KeysMerge
    <3>2. PICK k \in Caches : k = MergeKeys(keyFile, cache[r])
      BY <3>1
    <3>3. cache' \in [Runtimes -> Caches] /\ cache'[r] = k /\ \A q \in Runtimes \ {r} : cache'[q] = cache[q]
      BY <1>0, <2>1, <3>2
    <3>4. QED BY <2>1, <3>1, <3>2, <3>3 DEF CacheGrows
  <2>2. CASE cache' = cache /\ excused' = excused \cup (KeyOps \X Slots)
    BY <1>0, <2>2 DEF CacheGrows
  <2>3. QED BY <1>2, <2>1, <2>2
<1>4. VaultType'
  BY <1>0, <1>1, <1>3 DEF VaultType
<1>5. CallsGoOn
  BY <1>1 DEF CallsGoOn
<1>6. loading'[r] = "yes" /\ \A q \in Runtimes \ {r} : loading'[q] = loading[q]
  BY <1>0, <1>1
<1>7. ReadingLedger' = ReadingLedger
  BY <1>1 DEF ReadingLedger
<1>8. ReceiptsFit'
  BY <1>1, <1>3, <1>7, ReceiptsStay
<1>9. KeysFit'
  <2>1. ASSUME NEW op \in KeyOps, NEW s \in Slots, Lasting(op, s)'
        PROVE  /\ Holds(keyFile', op, s)
               /\ loading'[Mount] = "yes" /\ (op = "seal" \/ ~vault') => Holds(cache'[Mount], op, s)
    <3>1. Lasting(op, s) /\ <<op, s>> \notin excused'
      BY <1>1, <1>3, <2>1 DEF Lasting
    <3>2. Holds(keyFile, op, s)
      BY <3>1 DEF VaultInv, KeysFit
    <3>3. CASE r = Mount
      BY <1>1, <1>3, <3>1, <3>2, <3>3
    <3>4. CASE r # Mount
      BY <1>0, <1>1, <1>3, <1>6, <3>1, <3>2, <3>4 DEF VaultInv, KeysFit, CacheGrows
    <3>5. QED BY <3>3, <3>4
  <2>2. ASSUME NEW q \in Runtimes PROVE \A k \in 1..Len(saveChain'[q]) : ChainFits(q, saveChain[q][k])'
    <3>1. TAKE k \in 1..Len(saveChain'[q])
    <3>2. PICK c \in Asks : c = saveChain[q][k] /\ saveChain'[q][k] = c
      BY <1>0, <1>1 DEF VaultType
    <3>3. ChainFits(q, c)
      BY <1>1, <3>2 DEF VaultInv, KeysFit
    <3>4. ChainFits(q, c)'
      BY <1>1, <1>3, <1>5, <3>3, ChainStays
    <3>5. QED BY <3>2, <3>4 DEF ChainFits, Rt, RuntimeOf
  <2>3. ASSUME NEW q \in Runtimes, merged[q] # None
        PROVE  /\ saveChain[q] # <<>>
               /\ LET c == Head(saveChain[q]) IN
                  ask[c].op \in KeyOps => Holds(merged[q], ask[c].op, ask[c].slot)
               /\ ~KeysLost' => /\ Extends(merged[q], keyFile)
                                /\ \A p \in Runtimes \ {q} : merged[p] = None
    BY <1>3, <2>3 DEF VaultInv, KeysFit, KeysLost
  <2>4. QED BY <1>1, <2>1, <2>2, <2>3 DEF KeysFit
<1>10. ASSUME NEW d \in Asks PROVE AskFits(d)'
  <2>1. AskFits(d) /\ Rt(d) \in Runtimes /\ d \in Runtimes
    BY DEF VaultInv, Rt, RuntimeOf, Runtimes
  <2>2. ask[d].at = "new" => loading'[d] = "no"
    BY <1>1, <1>6, <2>1 DEF AskFits
  <2>3. ASSUME ask[d].op \in KeyOps, Item(d) \in ask[d].knows \ excused', loading'[Rt(d)] = "yes"
        PROVE  Holds(cache'[Rt(d)], ask[d].op, ask[d].slot)
    <3>1. ask[d].slot \in Slots /\ Item(d) = <<ask[d].op, ask[d].slot>> /\ Item(d) \in known \ excused
      BY <1>3, <2>1, <2>3 DEF AskFits, Item, KeyOps
    <3>2. CASE Rt(d) = r
      <4>1. Lasting(ask[d].op, ask[d].slot)
        BY <3>1 DEF Lasting
      <4>2. Holds(keyFile, ask[d].op, ask[d].slot)
        BY <2>3, <3>1, <4>1 DEF VaultInv, KeysFit
      <4>3. QED BY <1>3, <2>3, <3>1, <3>2, <4>2
    <3>3. CASE Rt(d) # r
      <4>1. Holds(cache[Rt(d)], ask[d].op, ask[d].slot)
        BY <1>3, <1>6, <2>1, <2>3, <3>3 DEF AskFits
      <4>2. QED BY <2>1, <2>3, <3>1, <4>1, <1>3 DEF CacheGrows
    <3>4. QED BY <3>2, <3>3
  <2>4. ask[d].at = "writing" /\ ~AttestLost' => \A e \in Asks \ {d} : ask'[e].at # "writing"
    BY <1>1, <1>3, <2>1 DEF AskFits, AttestLost
  <2>5. QED BY <1>1, <1>3, <2>2, <2>3, <2>4, AskStays
<1>11. QED BY <1>4, <1>8, <1>9, <1>10 DEF VaultInv

(* Calls that wait for a key go on or end.                                  *)
LEMMA KeyCalls ==
  ASSUME VaultInv, NEW S \in SUBSET Asks, ask' \in [Asks -> AskRecords],
         \A d \in S :
           /\ ask[d].at \in {"load", "joined", "filling"}
           /\ \/ \E stage \in Over : ask'[d] = End(stage)
              \/ \E stage \in {"saving", "filling", "joined"} :
                   /\ ask'[d] = At(d, stage)
                   /\ stage = "filling" => Item(d) \notin ask[d].knows \ excused,
         \A d \in Asks \ S : ask'[d] = ask[d],
         cache' \in [Runtimes -> Caches], CacheGrows,
         saveChain' \in [Runtimes -> Seq(Asks)],
         \A r \in Runtimes : \E q \in Seq(Asks) :
           saveChain'[r] = saveChain[r] \o q /\ \A k \in 1..Len(q) : ChainFits(r, q[k])',
         vault' = vault, keyFile' = keyFile, loading' = loading, merged' = merged,
         ledger' = ledger, receipts' = receipts, ledgerRead' = ledgerRead,
         known' = known, excused' = excused
  PROVE  VaultInv'
<1>0. VaultType /\ ask \in [Asks -> AskRecords]
  BY DEF VaultInv, VaultType
<1>1. VaultType'
  BY <1>0 DEF VaultType
<1>2. ASSUME NEW d \in S
      PROVE  \/ /\ ask'[d].op = "none" /\ ask'[d].at \in Over /\ ask'[d].knows = {}
             \/ /\ ask'[d].at \in {"saving", "filling", "joined"}
                /\ ask'[d].op = ask[d].op /\ ask'[d].slot = ask[d].slot /\ ask'[d].knows = ask[d].knows
                /\ ask'[d].at = "filling" => Item(d) \notin ask[d].knows \ excused
  <2>1. CASE \E stage \in Over : ask'[d] = End(stage)
    <3>1. PICK stage \in Over : ask'[d] = End(stage)
      BY <2>1
    <3>2. stage \in AskStages
      BY DEF AskStages
    <3>3. QED BY <3>1, <3>2, EndType
  <2>2. CASE \E stage \in {"saving", "filling", "joined"} :
               /\ ask'[d] = At(d, stage)
               /\ stage = "filling" => Item(d) \notin ask[d].knows \ excused
    <3>1. PICK stage \in {"saving", "filling", "joined"} :
            /\ ask'[d] = At(d, stage)
            /\ stage = "filling" => Item(d) \notin ask[d].knows \ excused
      BY <2>2
    <3>2. stage \in AskStages
      BY DEF AskStages
    <3>3. QED BY <1>0, <3>1, <3>2, AtType
  <2>3. QED BY <2>1, <2>2
<1>3. CallsGoOn
  BY <1>2 DEF CallsGoOn, Over
<1>4. KeysFit'
  BY <1>3, KeysStay
<1>5. ReadingLedger' = ReadingLedger
  <2>1. \A d \in Asks : ask'[d].at = "ledger" <=> ask[d].at = "ledger"
    BY <1>2 DEF Over
  <2>2. QED BY <2>1 DEF ReadingLedger
<1>6. ReceiptsFit'
  BY <1>5, ReceiptsStay
<1>7. ASSUME NEW d \in Asks \ S PROVE AskFits(d)'
  <2>1. AskFits(d) /\ Rt(d) \in Runtimes
    BY DEF VaultInv, Rt, RuntimeOf, Runtimes
  <2>2. ask[d].at = "new" => loading'[d] = "no"
    BY <2>1 DEF AskFits
  <2>3. ASSUME ask[d].op \in KeyOps, Item(d) \in ask[d].knows \ excused', loading'[Rt(d)] = "yes"
        PROVE  Holds(cache'[Rt(d)], ask[d].op, ask[d].slot)
    <3>1. ask[d].slot \in Slots /\ Holds(cache[Rt(d)], ask[d].op, ask[d].slot)
      BY <2>1, <2>3 DEF AskFits, KeyOps
    <3>2. QED BY <2>1, <2>3, <3>1 DEF CacheGrows
  <2>4. ask[d].at = "writing" /\ ~AttestLost' => \A e \in Asks \ {d} : ask'[e].at # "writing"
    <3>1. ask[d].at = "writing" /\ ~AttestLost => \A e \in Asks \ {d} : ask[e].at # "writing"
      BY <2>1 DEF AskFits
    <3>2. \A e \in Asks : ask'[e].at = "writing" => ask[e].at = "writing"
      BY <1>2 DEF Over
    <3>3. QED BY <3>1, <3>2 DEF AttestLost
  <2>5. QED BY <2>2, <2>3, <2>4, AskStays
<1>8. ASSUME NEW d \in S PROVE AskFits(d)'
  <2>1. /\ AskFits(d) /\ Rt(d) \in Runtimes /\ ask[d].op \in KeyOps \cup {"sealOnce"}
        /\ ask[d].slot \in Slots
    BY DEF VaultInv, AskFits, Rt, RuntimeOf, Runtimes, KeyOps
  <2>2. CASE ask'[d].op = "none" /\ ask'[d].at \in Over /\ ask'[d].knows = {}
    BY <2>2 DEF AskFits, Over, KeyOps
  <2>3. CASE /\ ask'[d].at \in {"saving", "filling", "joined"}
             /\ ask'[d].op = ask[d].op /\ ask'[d].slot = ask[d].slot /\ ask'[d].knows = ask[d].knows
             /\ ask'[d].at = "filling" => Item(d) \notin ask[d].knows \ excused
    <3>1. Item(d)' = Item(d) /\ Rt(d)' = Rt(d)
      BY <2>3 DEF Item, Rt, RuntimeOf
    <3>2. ASSUME ask[d].op \in KeyOps, Item(d) \in ask[d].knows \ excused, loading[Rt(d)] = "yes"
          PROVE  Holds(cache'[Rt(d)], ask[d].op, ask[d].slot)
      BY <2>1, <3>2 DEF AskFits, CacheGrows
    <3>3. ask[d].knows \subseteq known
      BY <2>1 DEF AskFits
    <3>4. QED BY <2>1, <2>3, <3>1, <3>2, <3>3 DEF AskFits
  <2>4. QED BY <1>2, <2>2, <2>3
<1>9. QED BY <1>1, <1>4, <1>6, <1>7, <1>8 DEF VaultInv

LEMMA KeyCallsSame ==
  ASSUME VaultInv, NEW S \in SUBSET Asks, ask' \in [Asks -> AskRecords],
         \A d \in S :
           /\ ask[d].at \in {"load", "joined", "filling"}
           /\ \/ ask'[d] \in {End("failed"), End("returned")}
              \/ \E stage \in {"filling", "joined"} :
                   ask'[d] = At(d, stage) /\ Item(d) \notin ask[d].knows \ excused,
         \A d \in Asks \ S : ask'[d] = ask[d],
         cache' \in [Runtimes -> Caches], CacheGrows, saveChain' = saveChain,
         vault' = vault, keyFile' = keyFile, loading' = loading, merged' = merged,
         ledger' = ledger, receipts' = receipts, ledgerRead' = ledgerRead,
         known' = known, excused' = excused
  PROVE  VaultInv'
<1>1. VaultType /\ saveChain' \in [Runtimes -> Seq(Asks)]
  BY DEF VaultInv, VaultType
<1>2. \A r \in Runtimes : \E q \in Seq(Asks) :
        saveChain'[r] = saveChain[r] \o q /\ \A k \in 1..Len(q) : ChainFits(r, q[k])'
  BY <1>1, ChainSame
<1>3. "failed" \in Over /\ "returned" \in Over
  BY DEF Over
<1>4. ASSUME NEW d \in S
      PROVE  /\ ask[d].at \in {"load", "joined", "filling"}
             /\ \/ \E stage \in Over : ask'[d] = End(stage)
                \/ \E stage \in {"saving", "filling", "joined"} :
                     /\ ask'[d] = At(d, stage)
                     /\ stage = "filling" => Item(d) \notin ask[d].knows \ excused
  BY <1>3
<1>5. QED BY <1>1, <1>2, <1>4, KeyCalls

(* They have their key, and save what the cache has that was not saved.     *)
LEMMA PersistsStep ==
  ASSUME VaultInv, NEW S \in SUBSET Asks, NEW r \in Runtimes, Persists(r, S),
         \A d \in S :
           /\ ask[d].at \in {"load", "joined", "filling"} /\ ask[d].op \in KeyOps /\ Rt(d) = r
           /\ Holds(cache'[r], ask[d].op, ask[d].slot),
         cache' \in [Runtimes -> Caches], CacheGrows,
         vault' = vault, keyFile' = keyFile, loading' = loading, merged' = merged,
         ledger' = ledger, receipts' = receipts, ledgerRead' = ledgerRead,
         known' = known, excused' = excused
  PROVE  VaultInv'
<1>0. VaultType /\ ask \in [Asks -> AskRecords] /\ saveChain \in [Runtimes -> Seq(Asks)]
  BY DEF VaultInv, VaultType
<1>1. PICK grew \in BOOLEAN : grew = (KeySizes(cache'[r]) # saved[r])
  OBVIOUS
<1>2. ask' = [c \in Asks |->
        IF c \in S THEN IF grew THEN At(c, "saving") ELSE End("returned") ELSE ask[c]]
  BY <1>1, Zenon DEF Persists
<1>3. PICK q \in Queues(S) :
        saveChain' = IF grew THEN [saveChain EXCEPT ![r] = @ \o q] ELSE saveChain
  BY <1>1, Zenon DEF Persists
<1>4. q \in Seq(Asks) /\ \A k \in 1..Len(q) : q[k] \in S
  <2>1. Cardinality(S) \in Nat
    BY AsksAssumption, FS_Subset, FS_CardinalityType
  <2>2. q \in [1..Cardinality(S) -> S]
    BY DEF Queues
  <2>3. QED BY <2>1, <2>2
<1>5. "saving" \in AskStages /\ "returned" \in AskStages /\ "returned" \in Over
  BY DEF AskStages, Over
<1>6. ask' \in [Asks -> AskRecords]
  <2>1. \A c \in Asks : At(c, "saving") \in AskRecords /\ End("returned") \in AskRecords
    BY <1>0, <1>5, AtType, EndType
  <2>2. QED BY <1>0, <1>2, <2>1
<1>7. /\ \A d \in S : ask'[d] = IF grew THEN At(d, "saving") ELSE End("returned")
      /\ \A d \in Asks \ S : ask'[d] = ask[d]
  BY <1>2
<1>8. saveChain' \in [Runtimes -> Seq(Asks)]
  <2>1. saveChain[r] \o q \in Seq(Asks)
    BY <1>0, <1>4
  <2>2. QED BY <1>0, <1>3, <2>1
<1>9. ASSUME NEW p \in Runtimes
      PROVE  \E u \in Seq(Asks) : saveChain'[p] = saveChain[p] \o u /\ \A k \in 1..Len(u) : ChainFits(p, u[k])'
  <2>1. CASE grew /\ p = r
    <3>1. saveChain'[p] = saveChain[p] \o q
      BY <1>0, <1>3, <2>1
    <3>2. ASSUME NEW k \in 1..Len(q) PROVE ChainFits(p, q[k])'
      <4>1. PICK d \in S : d = q[k]
        BY <1>4
      <4>2. /\ ask'[d].at = "saving" /\ ask'[d].op = ask[d].op /\ ask'[d].slot = ask[d].slot
        BY <1>0, <1>5, <1>7, <2>1, AtType
      <4>3. Rt(d)' = Rt(d)
        BY <4>2 DEF Rt, RuntimeOf
      <4>4. ChainFits(p, d)'
        BY <2>1, <4>2, <4>3 DEF ChainFits
      <4>5. QED BY <4>1, <4>4
    <3>3. QED BY <1>4, <3>1, <3>2
  <2>2. CASE ~(grew /\ p = r)
    <3>1. saveChain'[p] = saveChain[p]
      BY <1>0, <1>3, <2>2
    <3>2. PICK s \in Seq(Asks) : s = saveChain[p]
      BY <1>0
    <3>3. <<>> \in Seq(Asks)
      OBVIOUS
    <3>4. PICK u \in Seq(Asks) : u = <<>>
      BY <3>3
    <3>5. s \o u = s /\ \A k \in 1..Len(u) : ChainFits(p, u[k])'
      BY <3>4
    <3>6. QED BY <3>1, <3>2, <3>5
  <2>3. QED BY <2>1, <2>2
<1>10. ASSUME NEW d \in S
       PROVE  /\ ask[d].at \in {"load", "joined", "filling"}
              /\ \/ \E stage \in Over : ask'[d] = End(stage)
                 \/ \E stage \in {"saving", "filling", "joined"} :
                      /\ ask'[d] = At(d, stage)
                      /\ stage = "filling" => Item(d) \notin ask[d].knows \ excused
  BY <1>5, <1>7
<1>11. QED BY <1>6, <1>7, <1>8, <1>9, <1>10, KeyCalls

(* The steps of a call that asks for a key.                                 *)
LEMMA KeyStep ==
  ASSUME VaultInv, NEW c \in Asks, Hit(c) \/ Miss(c) \/ Refuses(c) \/ Fills(c) \/ FillFails(c)
  PROVE  VaultInv'
<1>0. /\ VaultType /\ ask \in [Asks -> AskRecords] /\ saveChain \in [Runtimes -> Seq(Asks)]
      /\ cache \in [Runtimes -> Caches] /\ AskFits(c) /\ Rt(c) \in Runtimes
  BY DEF VaultInv, VaultType, Rt, RuntimeOf, Runtimes
<1>1. \A r, op, s : HasKey(r, op, s) <=> Holds(cache[r], op, s)
  BY DEF HasKey, Holds
<1>2. {"saving", "filling", "joined", "returned", "failed"} \subseteq AskStages /\ {"returned", "failed"} \subseteq Over
  BY DEF AskStages, Over
<1>3. CASE Hit(c)
  <2>1. /\ ask[c].at = "load" /\ Holds(cache[Rt(c)], ask[c].op, ask[c].slot) /\ cache' = cache
        /\ Persists(Rt(c), {c})
        /\ vault' = vault /\ keyFile' = keyFile /\ loading' = loading /\ merged' = merged
        /\ ledger' = ledger /\ receipts' = receipts /\ ledgerRead' = ledgerRead
        /\ known' = known /\ excused' = excused
    BY <1>1, <1>3 DEF Hit, Ready, receiptVars
  <2>2. ask[c].op \in KeyOps /\ CacheGrows
    BY <2>1 DEF Holds, KeyOps, CacheGrows
  <2>3. QED BY <1>0, <2>1, <2>2, PersistsStep
<1>4. CASE Miss(c)
  <2>1. PICK stage \in {"filling", "joined"} : ask' = [ask EXCEPT ![c] = At(c, stage)]
    BY <1>4 DEF Miss
  <2>2. /\ ask[c].at = "load" /\ loading[Rt(c)] = "yes" /\ ~Holds(cache[Rt(c)], ask[c].op, ask[c].slot)
        /\ vault' = vault /\ keyFile' = keyFile /\ cache' = cache /\ loading' = loading
        /\ saveChain' = saveChain /\ merged' = merged
        /\ ledger' = ledger /\ receipts' = receipts /\ ledgerRead' = ledgerRead
        /\ known' = known /\ excused' = excused
    BY <1>1, <1>4 DEF Miss, Ready, receiptVars, keyVars
  <2>3. Item(c) \notin ask[c].knows \ excused
    <3>1. ask[c].op \in KeyOps \cup {"sealOnce"} /\ ask[c].knows \subseteq known
      BY <1>0, <2>2 DEF AskFits
    <3>2. CASE ask[c].op \in KeyOps
      BY <1>0, <2>2, <3>2 DEF AskFits
    <3>3. CASE ask[c].op = "sealOnce"
      <4>1. Item(c) \notin known
        BY <1>0, <3>3 DEF Item, VaultType
      <4>2. QED BY <3>1, <4>1
    <3>4. QED BY <3>1, <3>2, <3>3
  <2>4. At(c, stage) \in AskRecords
    BY <1>0, <1>2, AtType
  <2>5. ask'[c] = At(c, stage) /\ (\A d \in Asks \ {c} : ask'[d] = ask[d]) /\ ask' \in [Asks -> AskRecords]
    BY <1>0, <2>1, <2>4
  <2>6. CacheGrows
    BY <2>2 DEF CacheGrows
  <2>7. PICK S \in SUBSET Asks : S = {c}
    OBVIOUS
  <2>8. cache' \in [Runtimes -> Caches]
    BY <1>0, <2>2
  <2>9. QED BY <2>2, <2>3, <2>5, <2>6, <2>7, <2>8, KeyCallsSame
<1>5. CASE Refuses(c)
  <2>1. /\ ask[c].at = "load" /\ ask' = [ask EXCEPT ![c] = End("failed")]
        /\ vault' = vault /\ keyFile' = keyFile /\ cache' = cache /\ loading' = loading
        /\ saveChain' = saveChain /\ merged' = merged
        /\ ledger' = ledger /\ receipts' = receipts /\ ledgerRead' = ledgerRead
        /\ known' = known /\ excused' = excused
    BY <1>5 DEF Refuses, Ready, receiptVars, keyVars
  <2>2. End("failed") \in AskRecords
    BY <1>2, EndType
  <2>3. ask'[c] = End("failed") /\ (\A d \in Asks \ {c} : ask'[d] = ask[d]) /\ ask' \in [Asks -> AskRecords]
    BY <1>0, <2>1, <2>2
  <2>4. CacheGrows
    BY <2>1 DEF CacheGrows
  <2>5. PICK S \in SUBSET Asks : S = {c}
    OBVIOUS
  <2>6. cache' \in [Runtimes -> Caches]
    BY <1>0, <2>1
  <2>7. QED BY <2>1, <2>3, <2>4, <2>5, <2>6, KeyCallsSame
<1>6. CASE FillFails(c)
  <2>1. /\ ask[c].at = "filling"
        /\ ask' = [d \in Asks |-> IF d \in {c} \cup Joiners(c) THEN End("failed") ELSE ask[d]]
        /\ vault' = vault /\ keyFile' = keyFile /\ cache' = cache /\ loading' = loading
        /\ saveChain' = saveChain /\ merged' = merged
        /\ ledger' = ledger /\ receipts' = receipts /\ ledgerRead' = ledgerRead
        /\ known' = known /\ excused' = excused
    BY <1>6, Zenon DEF FillFails, receiptVars, keyVars
  <2>2. End("failed") \in AskRecords
    BY <1>2, EndType
  <2>3. PICK S \in SUBSET Asks : S = {c} \cup Joiners(c)
    BY DEF Joiners
  <2>4. /\ ask' \in [Asks -> AskRecords] /\ \A d \in S : ask'[d] = End("failed")
        /\ \A d \in Asks \ S : ask'[d] = ask[d]
    BY <1>0, <2>1, <2>2, <2>3
  <2>5. \A d \in S : ask[d].at \in {"filling", "joined"}
    BY <2>1, <2>3 DEF Joiners
  <2>6. CacheGrows
    BY <2>1 DEF CacheGrows
  <2>7. cache' \in [Runtimes -> Caches]
    BY <1>0, <2>1
  <2>8. QED BY <2>1, <2>4, <2>5, <2>6, <2>7, KeyCallsSame, ZenonT(60)
<1>7. CASE Fills(c)
  <2>1. /\ ask[c].at = "filling"
        /\ vault' = vault /\ keyFile' = keyFile /\ loading' = loading /\ merged' = merged
        /\ ledger' = ledger /\ receipts' = receipts /\ ledgerRead' = ledgerRead
        /\ known' = known /\ excused' = excused
    BY <1>7, Zenon DEF Fills, receiptVars
  <2>2. PICK r \in Runtimes, s \in Slots : r = Rt(c) /\ s = ask[c].slot
    BY <1>0, <2>1 DEF AskFits, KeyOps
  <2>3. cache' = [cache EXCEPT
           ![r].epochs[s] = IF ask[c].op = "seal" THEN c ELSE @,
           ![r].vets = IF ask[c].op = "decrypt" THEN @ \cup {s} ELSE @]
    BY <1>7, <2>2, Zenon DEF Fills
  <2>a. cache[r] \in Caches /\ cache[r].epochs \in Ledgers
    BY <1>0 DEF Caches, Ledgers
  <2>b. PICK i \in Asks \cup {Nobody} : i = IF ask[c].op = "seal" THEN c ELSE cache[r].epochs[s]
    BY <2>a DEF Ledgers
  <2>c. PICK e \in Ledgers : e = [cache[r].epochs EXCEPT ![s] = i]
    <3>1. [cache[r].epochs EXCEPT ![s] = i] \in Ledgers
      BY <2>a DEF Ledgers
    <3>2. QED BY <3>1
  <2>d. PICK v \in SUBSET Slots : v = IF ask[c].op = "decrypt" THEN cache[r].vets \cup {s} ELSE cache[r].vets
    BY <2>a DEF Caches
  <2>4. PICK k \in Caches : k = [epochs |-> e, vets |-> v]
    BY DEF Caches, Ledgers
  <2>7. cache' = [cache EXCEPT ![r] = k]
    <3>2. cache' = [cache EXCEPT ![r].epochs = e, ![r].vets = v]
      BY <2>3, <2>b, <2>c, <2>d
    <3>3. [cache EXCEPT ![r].epochs = e, ![r].vets = v][r] = k
      BY <1>0, <2>4, <2>a DEF Caches
    <3>4. QED BY <1>0, <3>2, <3>3
  <2>8. cache' \in [Runtimes -> Caches] /\ cache'[r] = k /\ \A q \in Runtimes \ {r} : cache'[q] = cache[q]
    BY <1>0, <2>7
  <2>9. /\ \A op \in KeyOps, u \in Slots : Holds(cache[r], op, u) => Holds(k, op, u)
        /\ ask[c].op \in KeyOps => Holds(k, ask[c].op, s)
    BY <2>4, <2>a, <2>b, <2>c, <2>d, Stages DEF Caches, Ledgers, Holds, KeyOps
  <2>10. CacheGrows
    BY <2>8, <2>9 DEF CacheGrows
  <2>11. CASE ask[c].op = "sealOnce"
    <3>1. ask' = [ask EXCEPT ![c] = End("returned")] /\ saveChain' = saveChain
      BY <1>7, <2>11, Zenon DEF Fills
    <3>2. End("returned") \in AskRecords
      BY <1>2, EndType
    <3>3. ask'[c] = End("returned") /\ (\A d \in Asks \ {c} : ask'[d] = ask[d]) /\ ask' \in [Asks -> AskRecords]
      BY <1>0, <3>1, <3>2
    <3>4. PICK S \in SUBSET Asks : S = {c}
      OBVIOUS
    <3>5. QED BY <2>1, <2>8, <2>10, <3>1, <3>3, <3>4, KeyCallsSame
  <2>12. CASE ask[c].op # "sealOnce"
    <3>1. Persists(r, {c} \cup Joiners(c))
      BY <1>7, <2>2, <2>12, Zenon DEF Fills
    <3>2. PICK S \in SUBSET Asks : S = {c} \cup Joiners(c)
      BY DEF Joiners
    <3>3. ask[c].op \in KeyOps
      BY <1>0, <2>1, <2>12 DEF AskFits
    <3>4. ASSUME NEW d \in S
          PROVE  /\ ask[d].at \in {"filling", "joined"} /\ ask[d].op \in KeyOps /\ Rt(d) = r
                 /\ Holds(cache'[r], ask[d].op, ask[d].slot)
      <4>1. /\ ask[d].at \in {"filling", "joined"} /\ Rt(d) = Rt(c)
            /\ ask[d].op = ask[c].op /\ ask[d].slot = ask[c].slot
        BY <2>1, <3>2 DEF Joiners, Item
      <4>2. QED BY <2>2, <2>8, <2>9, <3>3, <4>1
    <3>5. QED BY <2>1, <2>8, <2>10, <3>1, <3>2, <3>4, PersistsStep
  <2>13. QED BY <2>11, <2>12
<1>8. QED BY <1>3, <1>4, <1>5, <1>6, <1>7

(* A save reads the file, and has what the file and the cache have.         *)
LEMMA SaveReadsStep ==
  ASSUME VaultInv, NEW r \in Runtimes, SaveReads(r)
  PROVE  VaultInv'
<1>0. /\ VaultType /\ cache \in [Runtimes -> Caches] /\ saveChain \in [Runtimes -> Seq(Asks)]
      /\ keyFile \in Caches
  BY DEF VaultInv, VaultType
<1>1. /\ saveChain[r] # <<>> /\ merged[r] = None
      /\ merged' = [merged EXCEPT ![r] = MergeKeys(keyFile, cache[r])]
      /\ excused' = IF \E q \in Runtimes : merged[q] # None
                    THEN excused \cup (KeyOps \X Slots) ELSE excused
      /\ vault' = vault /\ ask' = ask /\ keyFile' = keyFile /\ cache' = cache /\ loading' = loading
      /\ saveChain' = saveChain
      /\ ledger' = ledger /\ receipts' = receipts /\ ledgerRead' = ledgerRead /\ known' = known
  BY Zenon DEF SaveReads, receiptVars
<1>2. PICK k \in Caches : k = MergeKeys(keyFile, cache[r])
  BY <1>0, KeysMerge
<1>3. /\ Extends(k, keyFile)
      /\ \A op, s : s \in Slots /\ Holds(cache[r], op, s) => Holds(k, op, s)
  BY <1>0, <1>2, KeysMerge
<1>4. /\ merged' \in [Runtimes -> Caches \cup {None}] /\ merged'[r] = k
      /\ \A q \in Runtimes \ {r} : merged'[q] = merged[q]
  BY <1>0, <1>1, <1>2 DEF VaultType
<1>5. excused \subseteq excused' /\ (excused' = excused \/ KeysLost')
  BY <1>1 DEF KeysLost
<1>6. ~KeysLost' => \A q \in Runtimes : merged[q] = None
  BY <1>1 DEF KeysLost
<1>7. VaultType'
  BY <1>0, <1>1, <1>4 DEF VaultType
<1>8. KeysFit'
  <2>1. ASSUME NEW op \in KeyOps, NEW s \in Slots, Lasting(op, s)'
        PROVE  /\ Holds(keyFile', op, s)
               /\ loading'[Mount] = "yes" /\ (op = "seal" \/ ~vault') => Holds(cache'[Mount], op, s)
    <3>1. Lasting(op, s)
      BY <1>1, <1>5, <2>1 DEF Lasting
    <3>2. QED BY <1>1, <3>1 DEF VaultInv, KeysFit
  <2>2. ASSUME NEW q \in Runtimes PROVE \A j \in 1..Len(saveChain'[q]) : ChainFits(q, saveChain[q][j])'
    BY <1>1 DEF VaultInv, KeysFit, ChainFits, Rt, RuntimeOf
  <2>3. ASSUME NEW q \in Runtimes, merged'[q] # None
        PROVE  /\ saveChain[q] # <<>>
               /\ LET c == Head(saveChain[q]) IN
                  ask[c].op \in KeyOps => Holds(merged'[q], ask[c].op, ask[c].slot)
               /\ ~KeysLost' => /\ Extends(merged'[q], keyFile)
                                /\ \A p \in Runtimes \ {q} : merged'[p] = None
    <3>1. CASE q = r
      <4>1. PICK c \in Asks : c = Head(saveChain[r]) /\ c = saveChain[r][1] /\ 1 \in 1..Len(saveChain[r])
        BY <1>0, <1>1
      <4>2. ChainFits(r, c)
        BY <4>1 DEF VaultInv, KeysFit
      <4>3. ask[c].op \in KeyOps => Holds(k, ask[c].op, ask[c].slot)
        <5>1. ask[c].op \in KeyOps => ask[c].slot \in Slots /\ Holds(cache[r], ask[c].op, ask[c].slot)
          BY <4>2 DEF ChainFits, VaultInv, AskFits, KeyOps
        <5>2. QED BY <1>3, <5>1
      <4>4. QED BY <1>1, <1>3, <1>4, <1>6, <2>3, <3>1, <4>1, <4>3
    <3>2. CASE q # r
      BY <1>4, <1>6, <2>3, <3>2 DEF VaultInv, KeysFit
    <3>3. QED BY <3>1, <3>2
  <2>4. QED BY <1>1, <2>1, <2>2, <2>3 DEF KeysFit
<1>9. ReadingLedger' = ReadingLedger
  BY <1>1 DEF ReadingLedger
<1>10. ReceiptsFit'
  BY <1>1, <1>5, <1>9, ReceiptsStay
<1>11. ASSUME NEW d \in Asks PROVE AskFits(d)'
  <2>1. AskFits(d)
    BY DEF VaultInv
  <2>2. ask[d].at = "new" => loading'[d] = "no"
    BY <1>1, <2>1 DEF AskFits
  <2>3. ASSUME ask[d].op \in KeyOps, Item(d) \in ask[d].knows \ excused', loading'[Rt(d)] = "yes"
        PROVE  Holds(cache'[Rt(d)], ask[d].op, ask[d].slot)
    BY <1>1, <1>5, <2>1, <2>3 DEF AskFits
  <2>4. ask[d].at = "writing" /\ ~AttestLost' => \A e \in Asks \ {d} : ask'[e].at # "writing"
    BY <1>1, <1>5, <2>1 DEF AskFits, AttestLost
  <2>5. QED BY <1>1, <1>5, <2>2, <2>3, <2>4, AskStays
<1>12. QED BY <1>7, <1>8, <1>10, <1>11 DEF VaultInv

(* It replaces the file, or fails.                                          *)
LEMMA SaveWritesStep ==
  ASSUME VaultInv, NEW r \in Runtimes, SaveWrites(r)
  PROVE  VaultInv'
<1>0. /\ VaultType /\ cache \in [Runtimes -> Caches] /\ saveChain \in [Runtimes -> Seq(Asks)]
      /\ keyFile \in Caches /\ ask \in [Asks -> AskRecords]
  BY DEF VaultInv, VaultType
<1>1. /\ merged[r] # None
      /\ merged' = [merged EXCEPT ![r] = None]
      /\ saveChain' = [saveChain EXCEPT ![r] = Tail(@)]
      /\ ask' = [ask EXCEPT ![Head(saveChain[r])] = End("returned")]
      /\ vault' = vault /\ cache' = cache /\ loading' = loading
      /\ ledger' = ledger /\ receipts' = receipts /\ ledgerRead' = ledgerRead
  BY Zenon DEF SaveWrites, receiptVars
<1>2. PICK c \in Asks, rest \in Seq(Asks) :
        /\ c = Head(saveChain[r]) /\ c = saveChain[r][1] /\ 1 \in 1..Len(saveChain[r])
        /\ rest = Tail(saveChain[r])
        /\ \A k \in 1..Len(rest) : k + 1 \in 1..Len(saveChain[r]) /\ rest[k] = saveChain[r][k + 1]
  <2>1. saveChain[r] \in Seq(Asks) /\ saveChain[r] # <<>>
    BY <1>0, <1>1 DEF VaultInv, KeysFit
  <2>2. PICK s \in Seq(Asks) : s = saveChain[r] /\ s # <<>>
    BY <2>1
  <2>3. /\ Tail(s) \in Seq(Asks) /\ Head(s) \in Asks /\ Head(s) = s[1] /\ 1 \in 1..Len(s)
        /\ \A k \in 1..Len(Tail(s)) : k + 1 \in 1..Len(s) /\ Tail(s)[k] = s[k + 1]
    BY <2>2
  <2>4. QED BY <2>2, <2>3
<1>3. \/ keyFile' = merged[r] /\ known' = known \cup {Item(c)} /\ excused' = excused
      \/ keyFile' = keyFile /\ known' = known /\ excused' = excused \cup (KeyOps \X Slots)
  BY <1>2, Zenon DEF SaveWrites
<1>4. "returned" \in AskStages /\ "returned" \in Over
  BY DEF AskStages, Over
<1>5. /\ ask' \in [Asks -> AskRecords] /\ \A d \in Asks \ {c} : ask'[d] = ask[d]
      /\ ask'[c].op = "none" /\ ask'[c].at = "returned" /\ ask'[c].knows = {}
  BY <1>0, <1>1, <1>2, <1>4, EndType
<1>6. ChainFits(r, c) /\ (ask[c].op \in KeyOps => Holds(merged[r], ask[c].op, ask[c].slot))
  BY <1>1, <1>2 DEF VaultInv, KeysFit
<1>7. /\ ask[c].at # "new" /\ ask[c].op \in KeyOps \cup {"none"}
      /\ ask[c].op \in KeyOps => Rt(c) = r /\ Holds(cache[r], ask[c].op, ask[c].slot)
      /\ Item(c) = <<ask[c].op, ask[c].slot>>
  BY <1>6 DEF ChainFits, Item
<1>8. /\ saveChain' \in [Runtimes -> Seq(Asks)] /\ saveChain'[r] = rest
      /\ \A q \in Runtimes \ {r} : saveChain'[q] = saveChain[q]
  BY <1>0, <1>1, <1>2
<1>10. \A q \in Runtimes \ {r} : merged'[q] = merged[q]
  BY <1>1
<1>11. VaultType'
  <2>1. Item(c) \in (AskOps \ {"sealOnce"}) \X SomeSlots
    BY <1>0, <1>7 DEF AskRecords, KeyOps
  <2>2. keyFile' \in Caches /\ known' \subseteq (AskOps \ {"sealOnce"}) \X SomeSlots
    BY <1>0, <1>1, <1>3, <2>1 DEF VaultType
  <2>3. merged' \in [Runtimes -> Caches \cup {None}]
    BY <1>0, <1>1 DEF VaultType
  <2>4. QED BY <1>0, <1>1, <1>5, <1>8, <2>2, <2>3 DEF VaultType
<1>12. excused \subseteq excused' /\ known \subseteq known' /\ CacheGrows
  BY <1>1, <1>3 DEF CacheGrows
<1>13. CallsGoOn
  BY <1>5 DEF CallsGoOn
<1>14. ~KeysLost' => keyFile' = merged[r] /\ ~KeysLost
  BY <1>3 DEF KeysLost
<1>15. KeysFit'
  <2>1. ASSUME NEW op \in KeyOps, NEW s \in Slots, Lasting(op, s)'
        PROVE  /\ Holds(keyFile', op, s)
               /\ loading'[Mount] = "yes" /\ (op = "seal" \/ ~vault') => Holds(cache'[Mount], op, s)
    <3>1. <<op, s>> \in known' /\ <<op, s>> \notin excused' /\ <<op, s>> \notin excused
      BY <1>12, <2>1 DEF Lasting
    <3>2. ~KeysLost' /\ keyFile' = merged[r] /\ known' = known \cup {Item(c)}
      BY <1>3, <1>14, <3>1 DEF KeysLost
    <3>3. CASE <<op, s>> \in known
      <4>1. Lasting(op, s)
        BY <3>1, <3>3 DEF Lasting
      <4>2. Holds(keyFile, op, s) /\ Extends(merged[r], keyFile)
        BY <1>1, <1>14, <3>2, <4>1 DEF VaultInv, KeysFit
      <4>3. Holds(merged[r], op, s)
        BY <4>2, HoldsOn
      <4>4. QED BY <1>1, <3>2, <4>1, <4>3 DEF VaultInv, KeysFit
    <3>4. CASE <<op, s>> = Item(c)
      <4>1. op = ask[c].op /\ s = ask[c].slot
        BY <1>7, <3>4
      <4>2. op = "seal" \/ ~vault => Rt(c) = Mount
        BY <4>1 DEF Rt, RuntimeOf
      <4>3. QED BY <1>1, <1>6, <1>7, <3>2, <4>1, <4>2
    <3>5. QED BY <3>1, <3>2, <3>3, <3>4
  <2>2. ASSUME NEW q \in Runtimes PROVE \A k \in 1..Len(saveChain'[q]) : ChainFits(q, saveChain[q][k])'
    <3>1. TAKE k \in 1..Len(saveChain'[q])
    <3>2. PICK d \in Asks : d = saveChain'[q][k]
      BY <1>8
    <3>3. ChainFits(q, d)
      <4>1. CASE q = r
        <5>1. PICK j \in 1..Len(saveChain[r]) : d = saveChain[r][j]
          BY <1>2, <1>8, <3>2, <4>1
        <5>2. QED BY <4>1, <5>1 DEF VaultInv, KeysFit
      <4>2. CASE q # r
        BY <1>8, <3>2, <4>2 DEF VaultInv, KeysFit
      <4>3. QED BY <4>1, <4>2
    <3>4. ChainFits(q, d)'
      BY <1>1, <1>12, <1>13, <3>3, ChainStays
    <3>5. QED BY <3>2, <3>4 DEF ChainFits, Rt, RuntimeOf
  <2>3. ASSUME NEW q \in Runtimes, merged'[q] # None
        PROVE  /\ saveChain'[q] # <<>>
               /\ LET d == Head(saveChain'[q]) IN
                  ask'[d].op \in KeyOps => Holds(merged'[q], ask'[d].op, ask'[d].slot)
               /\ ~KeysLost' => /\ Extends(merged'[q], keyFile')
                                /\ \A p \in Runtimes \ {q} : merged'[p] = None
    <3>1. q # r
      <4>1. merged'[r] = None
        BY <1>0, <1>1 DEF VaultType
      <4>2. QED BY <2>3, <4>1
    <3>2. merged[q] # None /\ merged'[q] = merged[q] /\ saveChain'[q] = saveChain[q]
      BY <1>8, <1>10, <2>3, <3>1
    <3>3. PICK d \in Asks : d = Head(saveChain[q])
      BY <1>0, <3>2 DEF VaultInv, KeysFit
    <3>4. ask'[d].op \in KeyOps => Holds(merged[q], ask'[d].op, ask'[d].slot)
      BY <1>5, <3>2, <3>3 DEF VaultInv, KeysFit, KeyOps
    <3>5. KeysLost'
      BY <1>1, <1>14, <3>1, <3>2 DEF VaultInv, KeysFit
    <3>6. QED BY <3>2, <3>3, <3>4, <3>5 DEF VaultInv, KeysFit
  <2>4. QED BY <2>1, <2>2, <2>3 DEF KeysFit
<1>16. ReadingLedger' = ReadingLedger
  <2>1. ask[c].at # "ledger"
    BY <1>7 DEF VaultInv, AskFits, KeyOps
  <2>2. QED BY <1>5, <2>1 DEF ReadingLedger
<1>17. ReceiptsFit'
  <2>1. \A i \in known' \ known : i[1] # "attest"
    BY <1>3, <1>7 DEF KeyOps
  <2>2. QED BY <1>1, <1>12, <1>16, <2>1, ReceiptsStay
<1>18. ASSUME NEW d \in Asks \ {c} PROVE AskFits(d)'
  <2>1. AskFits(d) /\ ask'[d] = ask[d]
    BY <1>5 DEF VaultInv
  <2>2. ask[d].at = "new" => loading'[d] = "no"
    BY <1>1, <2>1 DEF AskFits
  <2>3. ASSUME ask[d].op \in KeyOps, Item(d) \in ask[d].knows \ excused', loading'[Rt(d)] = "yes"
        PROVE  Holds(cache'[Rt(d)], ask[d].op, ask[d].slot)
    BY <1>1, <1>12, <2>1, <2>3 DEF AskFits
  <2>4. ask[d].at = "writing" /\ ~AttestLost' => \A e \in Asks \ {d} : ask'[e].at # "writing"
    BY <1>5, <1>12, <2>1 DEF AskFits, AttestLost
  <2>5. QED BY <1>1, <1>12, <2>1, <2>2, <2>3, <2>4, AskStays
<1>19. AskFits(c)'
  BY <1>5 DEF AskFits, KeyOps
<1>20. QED BY <1>11, <1>15, <1>17, <1>18, <1>19 DEF VaultInv

(* A step of the calls that ask for receipts: the key side is as it was.    *)
ReceiptStep ==
  /\ vault' = vault /\ keyFile' = keyFile /\ cache' = cache /\ loading' = loading
  /\ saveChain' = saveChain /\ merged' = merged

LEMMA ReceiptCalls ==
  ASSUME VaultInv, ReceiptStep, NEW S \in SUBSET Asks,
         ask' \in [Asks -> AskRecords],
         \A d \in S : /\ ask[d].op = "attest" /\ ask'[d].op \in {"attest", "none"} /\ ask'[d].at # "new"
                      /\ ask'[d].op # "none" => ask'[d].slot = ask[d].slot,
         \A d \in Asks \ S : ask'[d] = ask[d],
         ledger' \in Ledgers, receipts' \in Ledgers, ledgerRead' \in BOOLEAN,
         known \subseteq known', excused \subseteq excused',
         \A i \in known' \ known : i \in {"attest"} \X Slots,
         \A s \in Slots : receipts[s] # Nobody => receipts'[s] # Nobody,
         \A d \in S : AskFits(d)',
         \A d \in Asks \ S : ask[d].at = "writing" /\ ~AttestLost' =>
           ledger' = ledger /\ \A e \in S : ask'[e].at # "writing",
         ReceiptsFit'
  PROVE  VaultInv'
<1>0. VaultType /\ cache \in [Runtimes -> Caches]
  BY DEF VaultInv, VaultType
<1>1. VaultType'
  <2>1. {"attest"} \X Slots \subseteq (AskOps \ {"sealOnce"}) \X SomeSlots
    BY DEF AskOps, SomeSlots
  <2>2. known' \subseteq (AskOps \ {"sealOnce"}) \X SomeSlots
    BY <1>0, <2>1 DEF VaultType
  <2>3. QED BY <1>0, <2>2 DEF VaultType, ReceiptStep
<1>2. CallsGoOn /\ CacheGrows
  <2>1. CacheGrows
    BY DEF CacheGrows, ReceiptStep
  <2>2. QED BY <2>1 DEF CallsGoOn
<1>3. KeysFit'
  <2>1. \A i \in known' \ known : i[1] \notin KeyOps
    BY DEF KeyOps
  <2>2. \A r \in Runtimes : \E q \in Seq(Asks) :
          saveChain'[r] = saveChain[r] \o q /\ \A k \in 1..Len(q) : ChainFits(r, q[k])'
    BY <1>0, ChainSame DEF ReceiptStep
  <2>3. QED BY <1>2, <2>1, <2>2, KeysStay DEF ReceiptStep
<1>4. ASSUME NEW d \in Asks \ S PROVE AskFits(d)'
  <2>1. AskFits(d) /\ ask'[d] = ask[d]
    BY DEF VaultInv
  <2>2. ask[d].at = "new" => loading'[d] = "no"
    BY <2>1 DEF AskFits, ReceiptStep
  <2>3. ASSUME ask[d].op \in KeyOps, Item(d) \in ask[d].knows \ excused', loading'[Rt(d)] = "yes"
        PROVE  Holds(cache'[Rt(d)], ask[d].op, ask[d].slot)
    BY <2>1, <2>3 DEF AskFits, ReceiptStep
  <2>4. ask[d].at = "writing" /\ ~AttestLost' =>
          ledger' = ledger /\ \A e \in Asks \ {d} : ask'[e].at # "writing"
    <3>1. ask[d].at = "writing" /\ ~AttestLost' => \A e \in Asks \ {d} : ask[e].at # "writing"
      BY <2>1 DEF AskFits, AttestLost
    <3>2. QED BY <3>1
  <2>5. QED BY <2>1, <2>2, <2>3, <2>4, AskStays DEF ReceiptStep
<1>5. QED BY <1>1, <1>3, <1>4 DEF VaultInv

(* One call goes on at stage, or ends.                                      *)
LEMMA ReceiptCall ==
  ASSUME VaultInv, NEW c \in Asks, ask[c].op = "attest",
         NEW stage \in {"check", "signing", "waiting", "minted"},
         ask' = [ask EXCEPT ![c] = At(c, stage)] \/ ask' = [ask EXCEPT ![c] = End("returned")]
  PROVE  /\ ask' \in [Asks -> AskRecords] /\ \A d \in Asks \ {c} : ask'[d] = ask[d]
         /\ \/ /\ ask'[c].at = stage /\ ask'[c].op = "attest" /\ ask'[c].slot = ask[c].slot
               /\ ask'[c].knows = ask[c].knows
            \/ ask'[c].at = "returned" /\ ask'[c].op = "none" /\ ask'[c].knows = {}
<1>1. ask \in [Asks -> AskRecords] /\ VaultType
  BY DEF VaultInv, VaultType
<1>2. stage \in AskStages /\ "returned" \in AskStages
  BY Stages
<1>3. CASE ask' = [ask EXCEPT ![c] = At(c, stage)]
  <2>1. PICK a \in AskRecords : a = At(c, stage)
    BY <1>1, <1>2, AtType
  <2>2. a.at = stage /\ a.op = ask[c].op /\ a.slot = ask[c].slot /\ a.knows = ask[c].knows
    BY <1>1, <1>2, <2>1, AtType
  <2>3. QED BY <1>1, <1>3, <2>1, <2>2
<1>4. CASE ask' = [ask EXCEPT ![c] = End("returned")]
  <2>1. PICK a \in AskRecords : a = End("returned")
    BY <1>2, EndType
  <2>2. a.at = "returned" /\ a.op = "none" /\ a.knows = {}
    BY <1>2, <2>1, EndType
  <2>3. QED BY <1>1, <1>4, <2>1, <2>2
<1>5. QED BY <1>3, <1>4

(* The ledger is read into memory.                                          *)
LEMMA LedgerLoadsStep ==
  ASSUME VaultInv, NEW c \in Asks, LedgerLoads(c)
  PROVE  VaultInv'
<1>0. /\ VaultType /\ ledger \in Ledgers /\ receipts \in Ledgers /\ AskFits(c)
  BY DEF VaultInv, VaultType
<1>1. /\ ask[c].at = "ledger" /\ receipts' = MergeMaps(receipts, ledger)
      /\ ask' = [ask EXCEPT ![c] = At(c, "check")] /\ ReceiptStep
      /\ ledger' = ledger /\ ledgerRead' = ledgerRead /\ known' = known /\ excused' = excused
  BY Zenon DEF LedgerLoads, ReceiptStep, keyVars
<1>2. /\ ask[c].op = "attest" /\ ask[c].slot \in Slots /\ ask[c].knows \subseteq known
  BY <1>0, <1>1 DEF AskFits
<1>3. /\ ask' \in [Asks -> AskRecords] /\ \A d \in Asks \ {c} : ask'[d] = ask[d]
      /\ \/ /\ ask'[c].at = "check" /\ ask'[c].op = "attest" /\ ask'[c].slot = ask[c].slot
            /\ ask'[c].knows = ask[c].knows
         \/ ask'[c].at = "returned" /\ ask'[c].op = "none" /\ ask'[c].knows = {}
  BY <1>1, <1>2, ReceiptCall
<1>4. /\ receipts' \in Ledgers
      /\ \A s \in Slots : receipts[s] # Nobody \/ ledger[s] # Nobody => receipts'[s] # Nobody
  BY <1>0, <1>1, MapsMerge
<1>5. ReceiptsFit'
  BY <1>1, <1>4 DEF VaultInv, ReceiptsFit, Lasting
<1>6. AskFits(c)'
  <2>1. CASE /\ ask'[c].at = "check" /\ ask'[c].op = "attest" /\ ask'[c].slot = ask[c].slot
             /\ ask'[c].knows = ask[c].knows
    <3>1. Item(c)' = <<"attest", ask[c].slot>>
      BY <2>1 DEF Item
    <3>2. <<"attest", ask[c].slot>> \in ask[c].knows \ excused => receipts'[ask[c].slot] # Nobody
      BY <1>2, <1>4 DEF VaultInv, ReceiptsFit, Lasting
    <3>3. QED BY <1>1, <1>2, <2>1, <3>1, <3>2 DEF AskFits, KeyOps
  <2>2. CASE ask'[c].at = "returned" /\ ask'[c].op = "none" /\ ask'[c].knows = {}
    BY <2>2 DEF AskFits, KeyOps
  <2>3. QED BY <1>3, <2>1, <2>2
<1>7. PICK S \in SUBSET Asks : S = {c}
  OBVIOUS
<1>8. ledger' \in Ledgers /\ ledgerRead' \in BOOLEAN
  BY <1>0, <1>1 DEF VaultType
<1>9. ASSUME NEW d \in S
      PROVE  /\ ask[d].op = "attest" /\ ask'[d].op \in {"attest", "none"} /\ ask'[d].at \notin {"new", "writing"}
             /\ ask'[d].op # "none" => ask'[d].slot = ask[d].slot
  BY <1>2, <1>3, <1>7
<1>10. \A d \in Asks \ S : ask'[d] = ask[d]
  BY <1>3, <1>7
<1>11. \A d \in S : AskFits(d)'
  BY <1>6, <1>7
<1>12. QED BY <1>1, <1>3, <1>4, <1>5, <1>8, <1>9, <1>10, <1>11, ReceiptCalls

(* A call looks for its receipt in memory, or mints one.                    *)
LEMMA CheckMintStep ==
  ASSUME VaultInv, NEW c \in Asks, Check(c) \/ Mints(c)
  PROVE  VaultInv'
<1>0. /\ VaultType /\ ledger \in Ledgers /\ receipts \in Ledgers /\ AskFits(c)
  BY DEF VaultInv, VaultType
<1>1. /\ ask[c].at \in {"check", "signing"} /\ ReceiptStep
      /\ ledger' = ledger /\ ledgerRead' = ledgerRead /\ known' = known /\ excused' = excused
  BY Zenon DEF Check, Mints, ReceiptStep, keyVars
<1>2. /\ ask[c].op = "attest" /\ ask[c].slot \in Slots /\ ask[c].knows \subseteq known
  BY <1>0, <1>1 DEF AskFits
<1>3. PICK stage \in {"signing", "waiting", "minted"} :
        /\ ask' = [ask EXCEPT ![c] = At(c, stage)] \/ ask' = [ask EXCEPT ![c] = End("returned")]
        /\ stage = "signing" => receipts[ask[c].slot] = Nobody /\ ask[c].at = "check"
        /\ stage = "minted" => receipts' = [receipts EXCEPT ![ask[c].slot] = c]
        /\ stage # "minted" => receipts' = receipts
  <2>1. CASE Check(c)
    BY <2>1 DEF Check
  <2>2. CASE Mints(c)
    <3>1. receipts' = [receipts EXCEPT ![ask[c].slot] = c] /\ ask' = [ask EXCEPT ![c] = At(c, "minted")]
      BY <2>2, Zenon DEF Mints
    <3>2. QED BY <3>1
  <2>3. QED BY <2>1, <2>2
<1>4. /\ ask' \in [Asks -> AskRecords] /\ \A d \in Asks \ {c} : ask'[d] = ask[d]
      /\ \/ /\ ask'[c].at = stage /\ ask'[c].op = "attest" /\ ask'[c].slot = ask[c].slot
            /\ ask'[c].knows = ask[c].knows
         \/ ask'[c].at = "returned" /\ ask'[c].op = "none" /\ ask'[c].knows = {}
  BY <1>2, <1>3, ReceiptCall
<1>5. /\ receipts' \in Ledgers
      /\ \A s \in Slots : receipts[s] # Nobody => receipts'[s] # Nobody
      /\ stage = "minted" => receipts'[ask[c].slot] # Nobody
  BY <1>0, <1>2, <1>3, Stages DEF Ledgers
<1>6. ReadingLedger' = ReadingLedger
  <2>1. ask[c].at # "ledger" /\ ask'[c].at # "ledger"
    BY <1>1, <1>4
  <2>2. QED BY <1>4, <2>1 DEF ReadingLedger
<1>7. ReceiptsFit'
  BY <1>1, <1>5, <1>6 DEF VaultInv, ReceiptsFit, Lasting
<1>8. AskFits(c)'
  <2>1. CASE /\ ask'[c].at = stage /\ ask'[c].op = "attest" /\ ask'[c].slot = ask[c].slot
             /\ ask'[c].knows = ask[c].knows
    <3>1. Item(c)' = Item(c)
      BY <1>2, <2>1 DEF Item
    <3>2. stage = "signing" => Item(c) \notin ask[c].knows \ excused
      BY <1>0, <1>3 DEF AskFits
    <3>3. QED BY <1>1, <1>2, <1>5, <2>1, <3>1, <3>2 DEF AskFits, KeyOps
  <2>2. CASE ask'[c].at = "returned" /\ ask'[c].op = "none" /\ ask'[c].knows = {}
    BY <2>2 DEF AskFits, KeyOps
  <2>3. QED BY <1>4, <2>1, <2>2
<1>9. PICK S \in SUBSET Asks : S = {c}
  OBVIOUS
<1>10. ledger' \in Ledgers /\ ledgerRead' \in BOOLEAN
  BY <1>0, <1>1 DEF VaultType
<1>11. ASSUME NEW d \in S
      PROVE  /\ ask[d].op = "attest" /\ ask'[d].op \in {"attest", "none"} /\ ask'[d].at \notin {"new", "writing"}
             /\ ask'[d].op # "none" => ask'[d].slot = ask[d].slot
  BY <1>2, <1>4, <1>9
<1>12. \A d \in Asks \ S : ask'[d] = ask[d]
  BY <1>4, <1>9
<1>13. \A d \in S : AskFits(d)'
  BY <1>8, <1>9
<1>14. QED BY <1>1, <1>4, <1>5, <1>7, <1>10, <1>11, <1>12, <1>13, ReceiptCalls

(* All who wait for a receipt end.                                          *)
LEMMA WaitersEnd ==
  ASSUME VaultInv, NEW c \in Asks, ask[c].at \in {"signing", "writing"}, NEW stage \in {"failed", "returned"},
         ask' = [d \in Asks |-> IF d \in {c} \cup Waiting(c) THEN End(stage) ELSE ask[d]]
  PROVE  /\ ask' \in [Asks -> AskRecords]
         /\ \A d \in {c} \cup Waiting(c) :
              /\ d \in Asks /\ ask[d].op = "attest" /\ ask[d].at \in {"signing", "writing", "waiting"}
              /\ ask'[d].op = "none" /\ ask'[d].at = stage /\ ask'[d].knows = {}
              /\ AskFits(d)'
         /\ \A d \in Asks \ ({c} \cup Waiting(c)) : ask'[d] = ask[d]
         /\ ReadingLedger' = ReadingLedger
<1>0. ask \in [Asks -> AskRecords]
  BY DEF VaultInv, VaultType
<1>1. PICK a \in AskRecords : a = End(stage)
  BY EndType, Stages
<1>2. a.at = stage /\ a.op = "none" /\ a.knows = {}
  BY <1>1, EndType, Stages
<1>3. PICK S \in SUBSET Asks : S = {c} \cup Waiting(c)
  BY DEF Waiting
<1>4. /\ ask' \in [Asks -> AskRecords] /\ \A d \in S : ask'[d] = a
      /\ \A d \in Asks \ S : ask'[d] = ask[d]
  BY <1>0, <1>1, <1>3
<1>5. \A d \in S : ask[d].at \in {"signing", "writing", "waiting"}
  BY <1>3 DEF Waiting
<1>6. \A d \in S : ask[d].op = "attest"
  BY <1>5 DEF VaultInv, AskFits
<1>7. ReadingLedger' = ReadingLedger
  BY <1>2, <1>4, <1>5 DEF ReadingLedger
<1>8. ASSUME NEW d \in S PROVE AskFits(d)'
  BY <1>2, <1>4 DEF AskFits, KeyOps
<1>9. QED BY <1>2, <1>3, <1>4, <1>5, <1>6, <1>7, <1>8

LEMMA MintFailsStep ==
  ASSUME VaultInv, NEW c \in Asks, MintFails(c)
  PROVE  VaultInv'
<1>0. /\ VaultType /\ ledger \in Ledgers /\ receipts \in Ledgers
  BY DEF VaultInv, VaultType
<1>1. /\ ask[c].at = "signing" /\ ReceiptStep
      /\ ask' = [d \in Asks |-> IF d \in {c} \cup Waiting(c) THEN End("failed") ELSE ask[d]]
      /\ ledger' = ledger /\ receipts' = receipts /\ ledgerRead' = ledgerRead
      /\ known' = known /\ excused' = excused
  BY Zenon DEF MintFails, ReceiptStep, keyVars
<1>2. /\ ask' \in [Asks -> AskRecords]
      /\ \A d \in {c} \cup Waiting(c) :
           /\ d \in Asks /\ ask[d].op = "attest" /\ ask[d].at \in {"signing", "writing", "waiting"}
           /\ ask'[d].op = "none" /\ ask'[d].at = "failed" /\ ask'[d].knows = {}
           /\ AskFits(d)'
      /\ \A d \in Asks \ ({c} \cup Waiting(c)) : ask'[d] = ask[d]
      /\ ReadingLedger' = ReadingLedger
  BY <1>1, WaitersEnd
<1>3. PICK S \in SUBSET Asks : S = {c} \cup Waiting(c)
  BY <1>2
<1>4. ReceiptsFit'
  BY <1>1, <1>2, ReceiptsStay
<1>5. /\ ledger' \in Ledgers /\ receipts' \in Ledgers /\ ledgerRead' \in BOOLEAN
  BY <1>0, <1>1 DEF VaultType
<1>6. QED BY <1>1, <1>2, <1>3, <1>4, <1>5, ReceiptCalls

(* The ledger is read again, and what memory has is merged into it.         *)
LEMMA LedgerMergesStep ==
  ASSUME VaultInv, NEW c \in Asks, LedgerMerges(c)
  PROVE  VaultInv'
<1>0. /\ VaultType /\ ledger \in Ledgers /\ receipts \in Ledgers /\ AskFits(c)
      /\ ask \in [Asks -> AskRecords] /\ ask[c] \in AskRecords
  BY DEF VaultInv, VaultType
<1>1. /\ ask[c].at = "minted" /\ ReceiptStep
      /\ ask' = [ask EXCEPT ![c] = [ask[c] EXCEPT !.at = "writing", !.reads = MergeMaps(ledger, receipts)]]
      /\ excused' = IF \E d \in Asks : ask[d].at = "writing"
                    THEN excused \cup ({"attest"} \X Slots) ELSE excused
      /\ ledger' = ledger /\ receipts' = receipts /\ ledgerRead' = ledgerRead /\ known' = known
  BY Zenon DEF LedgerMerges, ReceiptStep, receiptVars, keyVars
<1>2. PICK reads \in Ledgers : reads = MergeMaps(ledger, receipts)
  BY <1>0, MapsMerge
<1>3. \A s \in Slots : /\ ledger[s] \in {Nobody, reads[s]}
                       /\ ledger[s] # Nobody \/ receipts[s] # Nobody => reads[s] # Nobody
  BY <1>0, <1>2, MapsMerge
<1>4. PICK a \in AskRecords : a = [ask[c] EXCEPT !.at = "writing", !.reads = reads]
  BY <1>0, Stages DEF AskRecords
<1>5. /\ a.at = "writing" /\ a.reads = reads /\ a.op = ask[c].op /\ a.slot = ask[c].slot
      /\ a.knows = ask[c].knows
  BY <1>0, <1>4 DEF AskRecords
<1>6. /\ ask' \in [Asks -> AskRecords] /\ ask'[c] = a /\ \A d \in Asks \ {c} : ask'[d] = ask[d]
  BY <1>0, <1>1, <1>2, <1>4
<1>7. /\ ask[c].op = "attest" /\ ask[c].slot \in Slots /\ ask[c].knows \subseteq known
      /\ receipts[ask[c].slot] # Nobody
  BY <1>0, <1>1 DEF AskFits
<1>8. excused \subseteq excused' /\ (~AttestLost' => \A d \in Asks : ask[d].at # "writing")
  BY <1>1 DEF AttestLost
<1>9. AskFits(c)'
  <2>1. Item(c)' = Item(c)
    BY <1>5, <1>6 DEF Item
  <2>2. ~AttestLost' => \A d \in Asks \ {c} : ask'[d].at # "writing"
    BY <1>6, <1>8
  <2>3. QED BY <1>1, <1>3, <1>5, <1>6, <1>7, <2>1, <2>2, ZenonT(60) DEF AskFits, KeyOps
<1>10. ReadingLedger' = ReadingLedger
  BY <1>1, <1>5, <1>6 DEF ReadingLedger
<1>11. ReceiptsFit'
  BY <1>1, <1>8, <1>10, ReceiptsStay
<1>12. PICK S \in SUBSET Asks : S = {c}
  OBVIOUS
<1>13. ledger' \in Ledgers /\ receipts' \in Ledgers /\ ledgerRead' \in BOOLEAN
  BY <1>0, <1>1 DEF VaultType
<1>14. \A d \in S : /\ ask[d].op = "attest" /\ ask'[d].op \in {"attest", "none"} /\ ask'[d].at # "new"
                    /\ ask'[d].op # "none" => ask'[d].slot = ask[d].slot
  BY <1>5, <1>6, <1>7, <1>12
<1>15. \A d \in Asks \ S : ask'[d] = ask[d]
  BY <1>6, <1>12
<1>16. \A d \in S : AskFits(d)'
  BY <1>9, <1>12
<1>17. QED BY <1>1, <1>6, <1>8, <1>11, <1>13, <1>14, <1>15, <1>16, ReceiptCalls

(* It is written, or not.                                                   *)
LEMMA LedgerWritesStep ==
  ASSUME VaultInv, NEW c \in Asks, LedgerWrites(c)
  PROVE  VaultInv'
<1>0. /\ VaultType /\ ledger \in Ledgers /\ receipts \in Ledgers /\ AskFits(c)
      /\ ask \in [Asks -> AskRecords] /\ ask[c] \in AskRecords
  BY DEF VaultInv, VaultType
<1>1. /\ ask[c].at = "writing" /\ ReceiptStep
      /\ ask' = [d \in Asks |-> IF d \in {c} \cup Waiting(c) THEN End("returned") ELSE ask[d]]
      /\ receipts' = receipts /\ ledgerRead' = ledgerRead
  BY Zenon DEF LedgerWrites, ReceiptStep, keyVars
<1>2. \/ ledger' = ask[c].reads /\ known' = known \cup {Item(c)} /\ excused' = excused
      \/ ledger' = ledger /\ known' = known /\ excused' = excused \cup {Item(c)}
  BY Zenon DEF LedgerWrites
<1>3. /\ ask' \in [Asks -> AskRecords]
      /\ \A d \in {c} \cup Waiting(c) :
           /\ d \in Asks /\ ask[d].op = "attest" /\ ask[d].at \in {"signing", "writing", "waiting"}
           /\ ask'[d].op = "none" /\ ask'[d].at = "returned" /\ ask'[d].knows = {}
           /\ AskFits(d)'
      /\ \A d \in Asks \ ({c} \cup Waiting(c)) : ask'[d] = ask[d]
      /\ ReadingLedger' = ReadingLedger
  BY <1>1, WaitersEnd
<1>4. PICK S \in SUBSET Asks : S = {c} \cup Waiting(c)
  BY <1>3
<1>5. /\ ask[c].op = "attest" /\ ask[c].slot \in Slots /\ receipts[ask[c].slot] # Nobody
      /\ ask[c].reads[ask[c].slot] # Nobody
      /\ ~AttestLost => /\ \A s \in Slots : ledger[s] \in {Nobody, ask[c].reads[s]}
                        /\ \A d \in Asks \ {c} : ask[d].at # "writing"
      /\ Item(c) = <<"attest", ask[c].slot>>
  BY <1>0, <1>1 DEF AskFits, Item
<1>6. /\ known \subseteq known' /\ excused \subseteq excused'
      /\ \A i \in known' \ known : i \in {"attest"} \X Slots
  BY <1>2, <1>5
<1>7. ledger' \in Ledgers /\ receipts' \in Ledgers /\ ledgerRead' \in BOOLEAN
  BY <1>0, <1>1, <1>2 DEF VaultType, AskRecords
<1>8. ReceiptsFit'
  <2>1. ASSUME NEW s \in Slots, Lasting("attest", s)'
        PROVE  ledger'[s] # Nobody /\ (ledgerRead /\ ~ReadingLedger => receipts[s] # Nobody)
    <3>1. <<"attest", s>> \in known' /\ <<"attest", s>> \notin excused' /\ <<"attest", s>> \notin excused
      BY <1>6, <2>1 DEF Lasting
    <3>2. CASE <<"attest", s>> \in known
      <4>1. ledger[s] # Nobody /\ (ledgerRead /\ ~ReadingLedger => receipts[s] # Nobody)
        BY <3>1, <3>2 DEF VaultInv, ReceiptsFit, Lasting
      <4>2. ~AttestLost
        BY <3>1 DEF AttestLost
      <4>3. ledger'[s] # Nobody
        BY <1>2, <1>5, <4>1, <4>2
      <4>4. QED BY <4>1, <4>3
    <3>3. CASE <<"attest", s>> \notin known
      <4>1. s = ask[c].slot /\ ledger' = ask[c].reads
        BY <1>2, <1>5, <3>1, <3>3
      <4>2. QED BY <1>5, <4>1
    <3>4. QED BY <3>2, <3>3
  <2>2. QED BY <1>1, <1>3, <2>1 DEF ReceiptsFit
<1>9. ASSUME NEW d \in Asks \ S, ask[d].at = "writing"
      PROVE  AttestLost'
  <2>1. d \in Asks \ {c}
    BY <1>4, <1>9
  <2>2. AttestLost
    BY <1>5, <1>9, <2>1
  <2>3. excused \subseteq excused'
    BY <1>6
  <2>4. QED BY <2>2, <2>3 DEF AttestLost
<1>10. /\ \A d \in S : /\ ask[d].op = "attest" /\ ask'[d].op = "none" /\ ask'[d].at = "returned"
                       /\ AskFits(d)'
       /\ \A d \in Asks \ S : ask'[d] = ask[d]
  BY <1>3, <1>4
<1>11. \A d \in Asks \ S : ask[d].at = "writing" /\ ~AttestLost' =>
         ledger' = ledger /\ \A e \in S : ask'[e].at # "writing"
  BY <1>9
<1>12. /\ ask' \in [Asks -> AskRecords] /\ ReceiptStep
       /\ \A s \in Slots : receipts[s] # Nobody => receipts'[s] # Nobody
  BY <1>1, <1>3
<1>13. QED BY <1>6, <1>7, <1>8, <1>10, <1>11, <1>12, ReceiptCalls

(* The process ends: only the files are left.                               *)
LEMMA VaultCrashStep ==
  ASSUME VaultInv, VaultCrash
  PROVE  VaultInv'
<1>0. VaultType /\ ask \in [Asks -> AskRecords] /\ Mount \in Runtimes
  BY DEF VaultInv, VaultType, Runtimes
<1>1. /\ ask' = [c \in Asks |-> IF ask[c].at \in Over \cup {"new"} THEN ask[c] ELSE End("lost")]
      /\ cache' = [r \in Runtimes |-> NoKeys] /\ loading' = [r \in Runtimes |-> "no"]
      /\ saveChain' = [r \in Runtimes |-> <<>>] /\ merged' = [r \in Runtimes |-> None]
      /\ receipts' = NoReceipts /\ ledgerRead' = FALSE
      /\ vault' = vault /\ keyFile' = keyFile /\ ledger' = ledger /\ known' = known /\ excused' = excused
  BY Zenon DEF VaultCrash
<1>2. "lost" \in AskStages /\ "lost" \in Over
  BY DEF AskStages, Over
<1>3. PICK a \in AskRecords : a = End("lost") /\ a.op = "none" /\ a.at = "lost" /\ a.knows = {}
  BY <1>2, EndType
<1>4. \A c \in Asks : ask'[c] = IF ask[c].at \in Over \cup {"new"} THEN ask[c] ELSE a
  BY <1>1, <1>3
<1>5. VaultType'
  <2>1. ask' \in [Asks -> AskRecords]
    BY <1>0, <1>1, <1>3
  <2>2. NoReceipts \in Ledgers /\ NoKeys \in Caches
    BY DEF NoReceipts, NoKeys, Ledgers, Caches
  <2>3. <<>> \in Seq(Asks)
    OBVIOUS
  <2>4. /\ cache' \in [Runtimes -> Caches] /\ loading' \in [Runtimes -> {"no", "now", "yes"}]
        /\ saveChain' \in [Runtimes -> Seq(Asks)] /\ merged' \in [Runtimes -> Caches \cup {None}]
    BY <1>1, <2>2, <2>3
  <2>5. QED BY <1>0, <1>1, <2>1, <2>2, <2>4 DEF VaultType
<1>6. KeysFit'
  <2>1. ASSUME NEW op \in KeyOps, NEW s \in Slots, Lasting(op, s)'
        PROVE  /\ Holds(keyFile', op, s)
               /\ loading'[Mount] = "yes" /\ (op = "seal" \/ ~vault') => Holds(cache'[Mount], op, s)
    <3>1. Lasting(op, s)
      BY <1>1, <2>1 DEF Lasting
    <3>2. Holds(keyFile, op, s) /\ loading'[Mount] = "no"
      BY <1>0, <1>1, <3>1 DEF VaultInv, KeysFit
    <3>3. QED BY <1>1, <3>2
  <2>2. ASSUME NEW r \in Runtimes PROVE \A k \in 1..Len(saveChain'[r]) : ChainFits(r, saveChain[r][k])'
    <3>1. saveChain'[r] = <<>>
      BY <1>1
    <3>2. QED BY <3>1
  <2>3. \A r \in Runtimes : merged'[r] = None
    BY <1>1
  <2>4. QED BY <2>1, <2>2, <2>3 DEF KeysFit
<1>7. ReceiptsFit'
  BY <1>1 DEF VaultInv, ReceiptsFit, Lasting
<1>8. ASSUME NEW c \in Asks PROVE AskFits(c)'
  <2>1. AskFits(c) /\ c \in Runtimes
    BY DEF VaultInv, Runtimes
  <2>2. Rt(c)' \in Runtimes
    BY <2>1, <1>0 DEF Rt, RuntimeOf
  <2>3. loading'[c] = "no" /\ loading'[Rt(c)'] = "no"
    BY <1>1, <2>1, <2>2
  <2>4. CASE ask[c].at \in Over \cup {"new"}
    <3>1. ask'[c] = ask[c]
      BY <1>4, <2>4
    <3>2. /\ ask[c].op # "none" => ask[c].slot \in Slots
          /\ ask[c].at = "new" => ask[c].op = "none"
          /\ ask[c].knows \subseteq known
      BY <2>1 DEF AskFits
    <3>3. QED BY <1>1, <2>3, <2>4, <3>1, <3>2 DEF AskFits, Over
  <2>5. CASE ask[c].at \notin Over \cup {"new"}
    <3>1. ask'[c] = a
      BY <1>4, <2>5
    <3>2. QED BY <1>3, <3>1 DEF AskFits, KeyOps
  <2>6. QED BY <2>4, <2>5
<1>9. QED BY <1>5, <1>6, <1>7, <1>8 DEF VaultInv

LEMMA VaultStarts ==
  ASSUME VaultInit
  PROVE  VaultInv
<1>1. /\ vault \in BOOLEAN /\ keyFile = NoKeys /\ ledger = NoReceipts
      /\ ask = [c \in Asks |-> Idle]
      /\ cache = [r \in Runtimes |-> NoKeys] /\ loading = [r \in Runtimes |-> "no"]
      /\ saveChain = [r \in Runtimes |-> <<>>] /\ merged = [r \in Runtimes |-> None]
      /\ receipts = NoReceipts /\ ledgerRead = FALSE /\ known = {} /\ excused = {}
  BY DEF VaultInit
<1>2. "new" \in AskStages
  BY DEF AskStages
<1>3. PICK a \in AskRecords : a = End("new") /\ a.op = "none" /\ a.at = "new" /\ a.knows = {}
  BY <1>2, EndType
<1>4. a = Idle
  BY <1>3 DEF End, Idle
<1>5. \A c \in Asks : ask[c] = a
  BY <1>1, <1>4
<1>6. VaultType
  <2>1. NoReceipts \in Ledgers /\ NoKeys \in Caches
    BY DEF NoReceipts, NoKeys, Ledgers, Caches
  <2>2. <<>> \in Seq(Asks)
    OBVIOUS
  <2>3. /\ cache \in [Runtimes -> Caches] /\ loading \in [Runtimes -> {"no", "now", "yes"}]
        /\ saveChain \in [Runtimes -> Seq(Asks)] /\ merged \in [Runtimes -> Caches \cup {None}]
    BY <1>1, <2>1, <2>2
  <2>4. ask \in [Asks -> AskRecords]
    BY <1>1, <1>3, <1>4
  <2>5. QED BY <1>1, <2>1, <2>3, <2>4 DEF VaultType
<1>7. \A i : i \notin known
  BY <1>1
<1>8. KeysFit
  <2>1. \A r \in Runtimes : saveChain[r] = <<>> /\ merged[r] = None
    BY <1>1
  <2>2. \A r \in Runtimes : 1..Len(saveChain[r]) = {}
    BY <2>1
  <2>3. QED BY <1>7, <2>1, <2>2 DEF KeysFit, Lasting
<1>9. ReceiptsFit
  BY <1>7 DEF ReceiptsFit, Lasting
<1>10. \A c \in Asks : AskFits(c)
  <2>1. TAKE c \in Asks
  <2>2. c \in Runtimes
    BY DEF Runtimes
  <2>3. loading[c] = "no"
    BY <1>1, <2>2
  <2>4. QED BY <1>3, <1>5, <2>3 DEF AskFits, KeyOps
<1>11. QED BY <1>6, <1>8, <1>9, <1>10 DEF VaultInv

LEMMA VaultStays ==
  ASSUME VaultInv, UNCHANGED vaultVars
  PROVE  VaultInv'
<1>1. /\ vault' = vault /\ keyFile' = keyFile /\ ledger' = ledger /\ ask' = ask
      /\ cache' = cache /\ loading' = loading /\ saveChain' = saveChain /\ merged' = merged
      /\ receipts' = receipts /\ ledgerRead' = ledgerRead /\ known' = known /\ excused' = excused
  BY DEF vaultVars, keyVars, receiptVars
<1>2. VaultType'
  BY <1>1 DEF VaultInv, VaultType
<1>3. KeysFit'
  BY <1>1 DEF VaultInv, KeysFit, ChainFits, Lasting, KeysLost, Rt, RuntimeOf
<1>4. ReceiptsFit'
  BY <1>1 DEF VaultInv, ReceiptsFit, Lasting, ReadingLedger
<1>5. \A c \in Asks : AskFits(c)'
  BY <1>1 DEF VaultInv, AskFits, Item, Rt, RuntimeOf, AttestLost
<1>6. QED BY <1>2, <1>3, <1>4, <1>5 DEF VaultInv

LEMMA VaultStep ==
  ASSUME VaultInv, [VaultNext]_vaultVars
  PROVE  VaultInv'
<1>1. ASSUME NEW c \in Asks, BeginSeal(c) \/ BeginDecrypt(c) \/ BeginAttest(c) PROVE VaultInv'
  BY <1>1, BeginStep
<1>2. ASSUME NEW c \in Asks, Hit(c) \/ Miss(c) \/ Refuses(c) \/ Fills(c) \/ FillFails(c) PROVE VaultInv'
  BY <1>2, KeyStep
<1>3. ASSUME NEW c \in Asks, Check(c) \/ Mints(c) PROVE VaultInv'
  BY <1>3, CheckMintStep
<1>4. ASSUME NEW c \in Asks, LedgerLoads(c) PROVE VaultInv'
  BY <1>4, LedgerLoadsStep
<1>5. ASSUME NEW c \in Asks, MintFails(c) PROVE VaultInv'
  BY <1>5, MintFailsStep
<1>6. ASSUME NEW c \in Asks, LedgerMerges(c) PROVE VaultInv'
  BY <1>6, LedgerMergesStep
<1>7. ASSUME NEW c \in Asks, LedgerWrites(c) PROVE VaultInv'
  BY <1>7, LedgerWritesStep
<1>8. ASSUME NEW r \in Runtimes, StoreLoads(r) PROVE VaultInv'
  BY <1>8, StoreLoadsStep
<1>9. ASSUME NEW r \in Runtimes, SaveReads(r) PROVE VaultInv'
  BY <1>9, SaveReadsStep
<1>10. ASSUME NEW r \in Runtimes, SaveWrites(r) PROVE VaultInv'
  BY <1>10, SaveWritesStep
<1>11. CASE VaultCrash
  BY <1>11, VaultCrashStep
<1>12. CASE UNCHANGED vaultVars
  BY <1>12, VaultStays
<1>13. QED
  BY <1>1, <1>2, <1>3, <1>4, <1>5, <1>6, <1>7, <1>8, <1>9, <1>10, <1>11, <1>12 DEF VaultNext

(* No key and no receipt that an earlier call made durable is made again    *)
(* (NotMadeAgain), for every number of calls, slots and losses: not after a *)
(* restart, not in another runtime, not while others save.                  *)
THEOREM NotAgain == VaultSpec => []NotMadeAgain
<1>1. VaultInit => VaultInv
  BY VaultStarts
<1>2. VaultInv /\ [VaultNext]_vaultVars => VaultInv'
  BY VaultStep
<1>3. VaultInv => NotMadeAgain
  BY DEF VaultInv, AskFits, NotMadeAgain
<1>4. QED BY <1>1, <1>2, <1>3, PTL DEF VaultSpec

(* What the two files keep in a step.                                       *)
FilesKept ==
  excused = {} =>
    /\ keyFile.vets \subseteq keyFile'.vets
    /\ \A s \in Slots : /\ keyFile.epochs[s] \in {Nobody, keyFile'.epochs[s]}
                        /\ ledger[s] \in {Nobody, ledger'[s]}

LEMMA FilesSame ==
  ASSUME keyFile' = keyFile, ledger' = ledger
  PROVE  FilesKept
BY DEF FilesKept

LEMMA FilesStep ==
  ASSUME VaultInv, [VaultNext]_vaultVars
  PROVE  FilesKept
<1>1. ASSUME NEW r \in Runtimes, SaveWrites(r)
      PROVE  FilesKept
  <2>1. merged[r] # None /\ ledger' = ledger /\ keyFile' \in {merged[r], keyFile}
    BY <1>1, Zenon DEF SaveWrites, receiptVars
  <2>2. CASE keyFile' = merged[r] /\ excused = {} /\ Slots # {}
    <3>1. PICK s \in Slots : TRUE
      BY <2>2
    <3>2. <<"seal", s>> \in KeyOps \X Slots /\ <<"seal", s>> \notin excused
      BY <2>2 DEF KeyOps
    <3>3. ~KeysLost
      BY <3>2, Zenon DEF KeysLost
    <3>4. Extends(merged[r], keyFile)
      BY <2>1, <3>3 DEF VaultInv, KeysFit
    <3>5. QED BY <2>1, <2>2, <3>4 DEF Extends, FilesKept
  <2>3. CASE keyFile' = merged[r] /\ Slots = {}
    <3>1. keyFile \in Caches
      BY DEF VaultInv, VaultType
    <3>2. keyFile.vets = {}
      BY <2>3, <3>1 DEF Caches
    <3>3. QED BY <2>3, <3>2 DEF FilesKept
  <2>4. CASE excused # {}
    BY <2>4 DEF FilesKept
  <2>5. CASE keyFile' = keyFile
    BY <2>1, <2>5, FilesSame
  <2>6. QED BY <2>1, <2>2, <2>3, <2>4, <2>5
<1>2. ASSUME NEW c \in Asks, LedgerWrites(c)
      PROVE  FilesKept
  <2>1. ask[c].at = "writing" /\ keyFile' = keyFile /\ ledger' \in {ask[c].reads, ledger}
    BY <1>2, Zenon DEF LedgerWrites, keyVars
  <2>2. ASSUME excused = {}, NEW s \in Slots, ledger' = ask[c].reads
        PROVE  ledger[s] \in {Nobody, ledger'[s]}
    <3>1. <<"attest", s>> \in {"attest"} \X Slots /\ <<"attest", s>> \notin excused
      BY <2>2
    <3>2. ~AttestLost
      BY <3>1, Zenon DEF AttestLost
    <3>3. QED BY <2>1, <2>2, <3>2 DEF VaultInv, AskFits
  <2>3. QED BY <2>1, <2>2 DEF FilesKept
<1>3. ASSUME NEW c \in Asks, BeginSeal(c) \/ BeginDecrypt(c) \/ BeginAttest(c)
      PROVE  keyFile' = keyFile /\ ledger' = ledger
  BY <1>3, Zenon DEF BeginSeal, BeginDecrypt, BeginAttest, Called
<1>4. ASSUME NEW c \in Asks, Hit(c) \/ Miss(c) \/ Refuses(c) \/ Fills(c) \/ FillFails(c)
      PROVE  keyFile' = keyFile /\ ledger' = ledger
  BY <1>4, Zenon DEF Hit, Miss, Refuses, Fills, FillFails, keyVars, receiptVars
<1>5. ASSUME NEW c \in Asks, Check(c) \/ Mints(c) \/ LedgerLoads(c) \/ MintFails(c) \/ LedgerMerges(c)
      PROVE  keyFile' = keyFile /\ ledger' = ledger
  BY <1>5, Zenon DEF Check, Mints, LedgerLoads, MintFails, LedgerMerges, keyVars, receiptVars
<1>6. ASSUME NEW r \in Runtimes, StoreLoads(r) \/ SaveReads(r)
      PROVE  keyFile' = keyFile /\ ledger' = ledger
  BY <1>6, Zenon DEF StoreLoads, SaveReads, receiptVars
<1>7. ASSUME VaultCrash \/ UNCHANGED vaultVars
      PROVE  keyFile' = keyFile /\ ledger' = ledger
  BY <1>7, Zenon DEF VaultCrash, vaultVars, keyVars, receiptVars
<1>8. QED
  BY <1>1, <1>2, <1>3, <1>4, <1>5, <1>6, <1>7, FilesSame DEF VaultNext

(* A stored key or receipt stays stored as it is while no save has failed   *)
(* or overlapped another (StoredIsKept), for every number of runtimes.      *)
THEOREM FirstStoredWins == VaultSpec => StoredIsKept
<1>1. VaultInit => VaultInv
  BY VaultStarts
<1>2. VaultInv /\ [VaultNext]_vaultVars => VaultInv'
  BY VaultStep
<1>3. VaultInv /\ [VaultNext]_vaultVars =>
        [excused = {} =>
           /\ keyFile.vets \subseteq keyFile'.vets
           /\ \A s \in Slots : /\ keyFile.epochs[s] \in {Nobody, keyFile'.epochs[s]}
                               /\ ledger[s] \in {Nobody, ledger'[s]}]_vaultVars
  BY FilesStep DEF FilesKept
<1>4. QED BY <1>1, <1>2, <1>3, PTL DEF VaultSpec, StoredIsKept

-----------------------------------------------------------------------------
(* ArkivLedger: the catalog.                                                *)

CallStages ==
  {"new", "run", "check", "finding", "found", "awaits", "joined", "sent", "landed",
   "adrift", "returned", "failed"}
JobContents == UNION {{j.contents[k] : k \in DOMAIN j.contents} : j \in Jobs}
Entities == [had : SUBSET JobContents, now : JobContents]
CallRecords ==
  [job : Jobs \cup {NoJob}, at : CallStages, of : Calls \cup {NoCall}, result : Seq(Nat),
   again : BOOLEAN, there : BOOLEAN]

LedgerType ==
  /\ chain \in Seq(Entities) /\ \A i \in 1..Len(chain) : chain[i].now \in chain[i].had
  /\ call \in [Calls -> CallRecords]
  /\ promises \in [Jobs -> Calls \cup {NoCall}]

(* The k-th entity of c's result has had the content of its record.         *)
Made(c, k) ==
  /\ call[c].result[k] \in 1..Len(chain)
  /\ call[c].job.contents[k] \in chain[call[c].result[k]].had

(* What each stage of a call knows: its job, the part of its result it has, *)
(* whom it waits for, and that what was there still is.                     *)
CallFits(c) ==
  LET job == call[c].job
      at == call[c].at
      result == call[c].result
  IN
  /\ at \notin {"new", "failed"} => job \in Jobs
  /\ job \in Jobs /\ ~Creates(c) => job.entity \in 1..Len(chain)
  /\ at = "check" => result = <<>>
  /\ at \in {"finding", "found"} => Creates(c)
  /\ at = "finding" => Len(result) < Len(job.contents)
  /\ at \in {"finding", "found", "landed", "returned"} /\ Creates(c) =>
       \A k \in 1..Len(result) : Made(c, k)
  /\ at \in {"found", "landed", "returned"} =>
       IF Creates(c) THEN Len(result) = Len(job.contents)
                     ELSE job.contents[1] \in chain[job.entity].had
  /\ call[c].there => at \in {"check", "finding", "found"} /\ Creates(c) /\ AllThere(job)
  /\ call[c].of # NoCall =>
       /\ at \in {"awaits", "joined"}
       /\ call[call[c].of].job = job /\ call[call[c].of].at \in {"sent", "landed"}

(* The attempt that is kept for a job is of that job, under way or done; an *)
(* attempt under way is the kept one, and one that is done keeps another    *)
(* from being made.                                                         *)
KeptFits ==
  /\ \A j \in Jobs : promises[j] # NoCall =>
       call[promises[j]].job = j /\ call[promises[j]].at \in {"sent", "landed", "returned"}
  /\ \A c \in Calls :
       /\ call[c].at \in {"sent", "landed"} => promises[call[c].job] = c
       /\ call[c].at = "returned" =>
            promises[call[c].job] # NoCall /\ call[promises[call[c].job]].at = "returned"

LedgerInv == LedgerType /\ (\A c \in Calls : CallFits(c)) /\ KeptFits

LEMMA JobTypes ==
  ASSUME NEW job \in Jobs
  PROVE  /\ \A k \in 1..Len(job.contents) : job.contents[k] \in JobContents
         /\ Len(job.contents) \in Nat \ {0} /\ DOMAIN job.contents = 1..Len(job.contents)
         /\ job.op \in {"create", "update"}
         /\ job.op = "update" => job.entity \in Nat \ {0} /\ Len(job.contents) = 1
BY JobsAssumption DEF JobContents

LEMMA UnusedType == Unused \in CallRecords /\ NoCall \notin Calls
<1>1. <<>> \in Seq(Nat) /\ "new" \in CallStages
  BY DEF CallStages
<1>2. Unused \in CallRecords
  BY <1>1 DEF Unused, CallRecords
<1>3. QED BY <1>2, CallsAssumption DEF NoCall

(* A call without an answer.                                                *)
LEMMA ClearType ==
  ASSUME LedgerType, NEW c \in Calls, NEW at \in {"run", "failed", "adrift"}
  PROVE  /\ Clear(c, at) \in CallRecords /\ Clear(c, at).at = at /\ Clear(c, at).of = NoCall
         /\ Clear(c, at).result = <<>>
         /\ at = "failed" => Clear(c, at).there = FALSE /\ Clear(c, at).job = NoJob
         /\ at # "failed" => Clear(c, at).job = call[c].job /\ Clear(c, at).there = call[c].there
<1>0. call[c] \in CallRecords
  BY DEF LedgerType
<1>1. CASE at = "failed"
  <2>1. PICK u \in CallRecords : u = Unused
    BY UnusedType
  <2>2. u.of = NoCall /\ u.result = <<>> /\ u.there = FALSE /\ u.job = NoJob
    BY <2>1 DEF Unused
  <2>3. Clear(c, at) = [u EXCEPT !.at = "failed"] /\ "failed" \in CallStages
    BY <1>1, <2>1 DEF Clear, CallStages
  <2>4. QED BY <1>1, <2>2, <2>3 DEF CallRecords
<1>2. CASE at # "failed"
  <2>1. at \in CallStages /\ <<>> \in Seq(Nat) /\ NoCall \in Calls \cup {NoCall}
    BY DEF CallStages
  <2>2. Clear(c, at) = [call[c] EXCEPT !.at = at, !.of = NoCall, !.result = <<>>]
    BY <1>2 DEF Clear
  <2>3. QED BY <1>0, <1>2, <2>1, <2>2 DEF CallRecords
<1>3. QED BY <1>1, <1>2

(* The chain only grows: an entity that has had a content has had it.       *)
Grown ==
  /\ chain' \in Seq(Entities) /\ Len(chain) <= Len(chain')
  /\ \A i \in 1..Len(chain) : chain[i].had \subseteq chain'[i].had
  /\ \A i \in 1..Len(chain') : chain'[i].now \in chain'[i].had

LEMMA SameChain ==
  ASSUME LedgerType, chain' = chain
  PROVE  Grown /\ \A job \in Jobs : AllThere(job)' = AllThere(job)
BY DEF Grown, LedgerType, AllThere, Holding

(* A call that a step leaves as it is still fits.                           *)
LEMMA FitsStays ==
  ASSUME LedgerType, NEW d \in Calls, CallFits(d), Grown,
         call'[d].job = call[d].job, call'[d].at = call[d].at,
         call'[d].result = call[d].result, call'[d].of = call[d].of,
         call'[d].there => call[d].there /\ AllThere(call[d].job)',
         call[d].of # NoCall => /\ call'[call[d].of].job = call[call[d].of].job
                                /\ call'[call[d].of].at \in {"sent", "landed"}
  PROVE  CallFits(d)'
<1>0. call[d] \in CallRecords /\ Len(chain) \in Nat /\ Len(chain') \in Nat
  BY DEF LedgerType, Grown
<1>1. \A i \in 1..Len(chain) : i \in 1..Len(chain')
  BY <1>0 DEF Grown
<1>2. ASSUME NEW k, Made(d, k) PROVE Made(d, k)'
  BY <1>1, <1>2 DEF Made, Grown
<1>3. call[d].job \in Jobs /\ ~Creates(d) => call[d].job.entity \in 1..Len(chain')
  BY <1>1 DEF CallFits
<1>4. Creates(d)' = Creates(d)
  BY DEF Creates
<1>5. ASSUME call[d].at \in {"found", "landed", "returned"}, ~Creates(d)
      PROVE  call[d].job.contents[1] \in chain'[call[d].job.entity].had
  BY <1>5 DEF CallFits, Grown
<1>6. QED BY <1>2, <1>3, <1>4, <1>5 DEF CallFits

(* A step of one call that waits for nothing and that nobody waits for.     *)
LEMMA ArkivCall ==
  ASSUME LedgerInv, NEW c \in Calls, NEW p \in CallRecords, call' = [call EXCEPT ![c] = p],
         chain' = chain, promises' = promises,
         call[c].at \notin {"sent", "landed", "returned"}, p.at \notin {"sent", "landed"},
         p.at = "returned" =>
           /\ p.job \in Jobs /\ promises[p.job] # NoCall
           /\ call[promises[p.job]].at = "returned",
         CallFits(c)'
  PROVE  LedgerInv'
<1>0. call \in [Calls -> CallRecords] /\ LedgerType
  BY DEF LedgerInv, LedgerType
<1>1. call' \in [Calls -> CallRecords] /\ call'[c] = p /\ \A d \in Calls : d # c => call'[d] = call[d]
  BY <1>0
<1>2. LedgerType'
  BY <1>1 DEF LedgerInv, LedgerType
<1>3. ASSUME NEW d \in Calls, d # c PROVE CallFits(d)'
  <2>1. CallFits(d) /\ Grown /\ (\A job \in Jobs : AllThere(job)' = AllThere(job))
    BY <1>0, SameChain DEF LedgerInv
  <2>2. call[d].there => call[d].job \in Jobs /\ AllThere(call[d].job)
    BY <2>1 DEF CallFits
  <2>3. call[d].of # NoCall => call[d].of # c /\ call[d].of \in Calls
    BY <1>0, <2>1 DEF CallFits, CallRecords
  <2>4. call[d].of # NoCall => /\ call'[call[d].of].job = call[call[d].of].job
                               /\ call'[call[d].of].at \in {"sent", "landed"}
    BY <1>1, <2>1, <2>3 DEF CallFits
  <2>5. QED BY <1>0, <1>1, <1>3, <2>1, <2>2, <2>4, FitsStays
<1>4. KeptFits'
  <2>1. \A j \in Jobs : promises[j] # NoCall => promises[j] \in Calls /\ promises[j] # c
    BY <1>0 DEF LedgerInv, LedgerType, KeptFits
  <2>2. \A j \in Jobs : promises'[j] # NoCall =>
          call'[promises'[j]].job = j /\ call'[promises'[j]].at \in {"sent", "landed", "returned"}
    BY <1>1, <2>1 DEF LedgerInv, KeptFits
  <2>3. ASSUME NEW d \in Calls
        PROVE  /\ call'[d].at \in {"sent", "landed"} => promises'[call'[d].job] = d
               /\ call'[d].at = "returned" =>
                    /\ promises'[call'[d].job] # NoCall
                    /\ call'[promises'[call'[d].job]].at = "returned"
    <3>1. CASE d = c
      BY <1>1, <2>1, <3>1
    <3>2. CASE d # c
      <4>1. call[d].at = "returned" => call[d].job \in Jobs
        BY DEF LedgerInv, CallFits
      <4>2. QED BY <1>1, <2>1, <3>2, <4>1 DEF LedgerInv, KeptFits
    <3>3. QED BY <3>1, <3>2
  <2>4. QED BY <2>2, <2>3 DEF KeptFits
<1>5. QED BY <1>2, <1>3, <1>4 DEF LedgerInv

LEMMA AskStep ==
  ASSUME LedgerInv, NEW c \in Calls, AskCreate(c) \/ AskBatch(c) \/ AskUpdate(c)
  PROVE  LedgerInv'
<1>0. chain \in Seq(Entities)
  BY DEF LedgerInv, LedgerType
<1>a. PICK jobs \in SUBSET Jobs :
        Ask(c, jobs) /\ \A job \in jobs : job.op = "create" \/ job.entity \in DOMAIN chain
  <2>1. CASE AskCreate(c)
    <3>1. Ask(c, {j \in Jobs : j.op = "create" /\ Len(j.contents) = 1})
      BY <2>1 DEF AskCreate
    <3>2. QED BY <3>1
  <2>2. CASE AskBatch(c)
    <3>1. Ask(c, {j \in Jobs : j.op = "create" /\ Len(j.contents) > 1})
      BY <2>2 DEF AskBatch
    <3>2. QED BY <3>1
  <2>3. CASE AskUpdate(c)
    <3>1. Ask(c, {j \in Jobs : j.op = "update" /\ j.entity \in DOMAIN chain})
      BY <2>3 DEF AskUpdate
    <3>2. QED BY <3>1
  <2>4. QED BY <2>1, <2>2, <2>3
<1>1. PICK job \in jobs, stage \in {"run", "check", "failed"} :
        call' = [call EXCEPT ![c] = [Unused EXCEPT
             !.job = job, !.at = stage, !.again = stage = "check",
             !.there = stage = "check" /\ job.op = "create" /\ AllThere(job)]]
  BY <1>a, Zenon DEF Ask
<1>b. job \in Jobs /\ (job.op = "create" \/ job.entity \in DOMAIN chain)
  BY <1>a
<1>2. call[c].at = "new" /\ chain' = chain /\ promises' = promises
  BY <1>a DEF Ask
<1>3. PICK again \in BOOLEAN : again = (stage = "check")
  OBVIOUS
<1>4. PICK there \in BOOLEAN : there = (stage = "check" /\ job.op = "create" /\ AllThere(job))
  OBVIOUS
<1>5. PICK p : p = [Unused EXCEPT !.job = job, !.at = stage, !.again = again, !.there = there]
  OBVIOUS
<1>6. call' = [call EXCEPT ![c] = p]
  BY <1>1, <1>3, <1>4, <1>5, Zenon
<1>7. Unused.result = <<>> /\ Unused.of = NoCall
  BY DEF Unused
<1>8. stage \in CallStages
  BY DEF CallStages
<1>9. /\ p \in CallRecords /\ p.job = job /\ p.at = stage /\ p.there = there
      /\ p.result = <<>> /\ p.of = NoCall
  BY <1>5, <1>7, <1>8, <1>b, UnusedType DEF CallRecords
<1>10. call'[c] = p
  BY <1>6 DEF LedgerInv, LedgerType
<1>11. CallFits(c)'
  <2>1. AllThere(job)' = AllThere(job)
    BY <1>2, SameChain DEF LedgerInv
  <2>2. job.op # "create" => job.entity \in 1..Len(chain')
    BY <1>0, <1>b, <1>2
  <2>3. QED BY <1>4, <1>b, <1>9, <1>10, <2>1, <2>2 DEF CallFits, Creates
<1>12. QED BY <1>2, <1>6, <1>9, <1>11, ArkivCall

(* A call gets the kept attempt's result, or waits for it.                  *)
LEMMA AttachStep ==
  ASSUME LedgerInv, NEW c \in Calls, NEW stage \in {"awaits", "joined"},
         call[c].at \in {"check", "run"}, Kept(c), Attach(c, stage),
         chain' = chain, promises' = promises
  PROVE  LedgerInv'
<1>0. call[c] \in CallRecords /\ call[c].job \in Jobs /\ CallFits(c)
  BY DEF LedgerInv, LedgerType, CallFits
<1>1. PICK prior \in Calls : prior = promises[call[c].job]
  BY <1>0 DEF LedgerInv, LedgerType, Kept
<1>2. /\ call[prior] \in CallRecords /\ CallFits(prior) /\ call[prior].job = call[c].job
      /\ call[prior].at \in {"sent", "landed", "returned"}
  BY <1>0, <1>1 DEF LedgerInv, LedgerType, KeptFits, Kept
<1>3. prior # NoCall
  BY UnusedType
<1>4. "awaits" \in CallStages /\ "joined" \in CallStages /\ "returned" \in CallStages
  BY DEF CallStages
<1>5. Creates(prior) = Creates(c) /\ Creates(c)' = (call'[c].job.op = "create")
  BY <1>2 DEF Creates
<1>6. PICK done \in BOOLEAN : done = (call[prior].at = "returned")
  OBVIOUS
<1>7. PICK at \in CallStages : at = IF done THEN "returned" ELSE stage
  BY <1>4
<1>8. PICK again \in BOOLEAN : again = (call[c].again /\ ~done)
  OBVIOUS
<1>9. PICK of \in Calls \cup {NoCall} : of = IF done THEN NoCall ELSE prior
  OBVIOUS
<1>10. PICK result \in Seq(Nat) : result = IF done THEN call[prior].result ELSE call[c].result
  BY <1>0, <1>2 DEF CallRecords
<1>11. PICK p : p = [call[c] EXCEPT !.at = at, !.there = FALSE, !.again = again, !.of = of,
                                    !.result = result]
  OBVIOUS
<1>12. call' = [call EXCEPT ![c] = p]
  <2>1. call' = [call EXCEPT ![c] = [call[c] EXCEPT
          !.at = IF done THEN "returned" ELSE stage, !.there = FALSE, !.again = @ /\ ~done,
          !.of = IF done THEN NoCall ELSE prior, !.result = IF done THEN call[prior].result ELSE @]]
    BY <1>1, <1>6, Zenon DEF Attach
  <2>2. [call[c] EXCEPT
          !.at = IF done THEN "returned" ELSE stage, !.there = FALSE, !.again = @ /\ ~done,
          !.of = IF done THEN NoCall ELSE prior, !.result = IF done THEN call[prior].result ELSE @]
        = p
    BY <1>0, <1>7, <1>8, <1>9, <1>10, <1>11 DEF CallRecords
  <2>3. QED BY <2>1, <2>2, Zenon
<1>13. /\ p \in CallRecords /\ p.job = call[c].job /\ p.at = at /\ p.there = FALSE
       /\ p.of = of /\ p.result = result
  BY <1>0, <1>7, <1>8, <1>9, <1>10, <1>11 DEF CallRecords
<1>14. call'[c] = p
  BY <1>12 DEF LedgerInv, LedgerType
<1>15. CallFits(c)'
  <2>1. CASE done
    <3>1. at = "returned" /\ of = NoCall /\ result = call[prior].result
      BY <1>7, <1>9, <1>10, <2>1
    <3>2. ASSUME NEW k, Made(prior, k) PROVE Made(c, k)'
      BY <1>2, <1>13, <1>14, <3>1, <3>2 DEF Made
    <3>3. /\ call'[c].job = call[c].job /\ call'[c].at = "returned" /\ call'[c].there = FALSE
          /\ call'[c].of = NoCall /\ call'[c].result = call[prior].result
      BY <1>13, <1>14, <3>1
    <3>4. CASE Creates(c)
      <4>1. /\ Len(call[prior].result) = Len(call[c].job.contents)
            /\ \A k \in 1..Len(call[prior].result) : Made(prior, k)
        BY <1>2, <1>5, <1>6, <2>1, <3>4 DEF CallFits
      <4>2. QED BY <1>0, <3>2, <3>3, <3>4, <4>1 DEF CallFits, Creates
    <3>5. CASE ~Creates(c)
      <4>1. /\ call[c].job.contents[1] \in chain[call[c].job.entity].had
            /\ call[c].job.entity \in 1..Len(chain)
        BY <1>0, <1>2, <1>5, <1>6, <2>1, <3>5 DEF CallFits
      <4>2. QED BY <1>0, <3>3, <3>5, <4>1 DEF CallFits, Creates
    <3>6. QED BY <3>4, <3>5
  <2>2. CASE ~done
    <3>1. at = stage /\ of = prior
      BY <1>7, <1>9, <2>2
    <3>2. call'[prior] = call[prior]
      BY <1>2, <1>12 DEF LedgerInv, LedgerType
    <3>3. /\ call'[c].job = call[c].job /\ call'[c].at = stage /\ call'[c].there = FALSE
          /\ call'[c].of = prior
      BY <1>13, <1>14, <3>1
    <3>4. call'[call'[c].of] = call[prior]
      BY <3>2, <3>3
    <3>5. call[c].job \in Jobs /\ ~Creates(c) => call[c].job.entity \in 1..Len(chain)
      BY <1>0 DEF CallFits
    <3>6. call[prior].at \in {"sent", "landed"}
      BY <1>2, <1>6, <2>2
    <3>7. QED BY <1>0, <1>2, <1>5, <3>3, <3>4, <3>5, <3>6 DEF CallFits, Creates
  <2>3. QED BY <2>1, <2>2
<1>16. at = "returned" => call[promises[p.job]].at = "returned"
  BY <1>1, <1>6, <1>7, <1>13
<1>17. at \notin {"sent", "landed"}
  BY <1>7
<1>18. QED BY <1>0, <1>1, <1>3, <1>12, <1>13, <1>15, <1>16, <1>17, ArkivCall

(* The chain is asked for one more record, and has it.                      *)
LEMMA FindsStep ==
  ASSUME LedgerInv, NEW c \in Calls, CheckFinds(c)
  PROVE  LedgerInv'
<1>0. call[c] \in CallRecords /\ CallFits(c) /\ LedgerType
  BY DEF LedgerInv, LedgerType
<1>1. call[c].at \in {"check", "finding"} /\ chain' = chain /\ promises' = promises /\ Creates(c)
  BY DEF CheckFinds, Finding
<1>2. /\ call[c].job \in Jobs /\ call[c].result \in Seq(Nat)
      /\ call[c].at = "check" => call[c].result = <<>>
      /\ Len(call[c].result) < Len(call[c].job.contents)
  <2>1. call[c].job \in Jobs
    BY <1>0, <1>1 DEF CallFits
  <2>2. Len(call[c].job.contents) \in Nat \ {0}
    BY <2>1, JobTypes
  <2>3. QED BY <1>0, <1>1, <2>1, <2>2 DEF CallFits, CallRecords
<1>a. PICK r \in Seq(Nat) : r = call[c].result
  BY <1>2
<1>b. PICK n \in Nat : n = Len(r)
  BY <1>a
<1>c. PICK m \in Nat : m = Len(call[c].job.contents)
  BY <1>2, JobTypes
<1>d. n < m
  BY <1>2, <1>a, <1>b, <1>c
<1>3. PICK i \in Holding(Sought(c)) :
        call' = [call EXCEPT ![c] = [call[c] EXCEPT !.result = Append(@, i),
          !.at = IF n + 1 = m THEN "found" ELSE "finding"]]
  BY <1>a, <1>b, <1>c, Zenon DEF CheckFinds
<1>4. i \in 1..Len(chain) /\ i \in Nat /\ chain[i].now = Sought(c) /\ chain[i].now \in chain[i].had
  BY <1>0 DEF Holding, LedgerType
<1>5. PICK at \in {"found", "finding"} :
        at = IF n + 1 = m THEN "found" ELSE "finding"
  OBVIOUS
<1>6. PICK result : result = Append(r, i)
  OBVIOUS
<1>7. PICK p : p = [call[c] EXCEPT !.result = result, !.at = at]
  OBVIOUS
<1>8. call' = [call EXCEPT ![c] = p]
  <2>1. call' = [call EXCEPT ![c] = [call[c] EXCEPT !.result = result, !.at = at]]
    BY <1>3, <1>5, <1>6, <1>a, Zenon
  <2>2. QED BY <1>7, <2>1
<1>9. /\ result \in Seq(Nat) /\ Len(result) = n + 1
      /\ \A k \in 1..n : result[k] = r[k]
      /\ result[n + 1] = i
  <2>1. i \in Nat
    BY <1>4
  <2>2. QED BY <1>b, <1>6, <2>1
<1>10. at \in CallStages
  BY DEF CallStages
<1>11. /\ p \in CallRecords /\ p.job = call[c].job /\ p.at = at /\ p.there = call[c].there
       /\ p.of = call[c].of /\ p.result = result
  BY <1>0, <1>7, <1>9, <1>10 DEF CallRecords
<1>12. call'[c] = p
  BY <1>8 DEF LedgerInv, LedgerType
<1>13. Creates(c)'
  BY <1>1, <1>11, <1>12 DEF Creates
<1>14. ASSUME NEW k \in 1..Len(result) PROVE Made(c, k)'
  <2>1. CASE k = n + 1
    BY <1>1, <1>4, <1>9, <1>11, <1>12, <1>a, <1>b, <2>1 DEF Made, Sought
  <2>2. CASE k # n + 1
    <3>1. k \in 1..n
      BY <1>9, <2>2
    <3>2. Made(c, k)
      <4>1. CASE call[c].at = "check"
        <5>1. n = 0
          BY <1>2, <1>a, <1>b, <4>1
        <5>2. QED BY <3>1, <5>1
      <4>2. CASE call[c].at = "finding"
        BY <1>0, <1>1, <1>a, <1>b, <3>1, <4>2 DEF CallFits
      <4>3. QED BY <1>1, <4>1, <4>2
    <3>3. QED BY <1>1, <1>9, <1>11, <1>12, <1>a, <3>1, <3>2 DEF Made
  <2>3. QED BY <2>1, <2>2
<1>15. call[c].of = NoCall
  BY <1>0, <1>1 DEF CallFits
<1>16. call[c].there => AllThere(call[c].job)'
  BY <1>0, <1>1, <1>2, <1>11, <1>12, SameChain DEF CallFits
<1>17. at = "found" => Len(result) = Len(call[c].job.contents)
  BY <1>5, <1>9, <1>c
<1>18. at = "finding" => Len(result) < Len(call[c].job.contents)
  BY <1>5, <1>9, <1>c, <1>d
<1>19. CallFits(c)'
  BY <1>2, <1>5, <1>11, <1>12, <1>13, <1>14, <1>15, <1>16, <1>17, <1>18 DEF CallFits, Creates
<1>20. QED BY <1>1, <1>5, <1>8, <1>11, <1>19, ArkivCall

(* The guard has no answer from the chain.                                  *)
LEMMA UnknownStep ==
  ASSUME LedgerInv, NEW c \in Calls, CheckUnknown(c) \/ CheckFails(c)
  PROVE  LedgerInv'
<1>0. call[c] \in CallRecords /\ CallFits(c) /\ LedgerType
  BY DEF LedgerInv, LedgerType
<1>1. call[c].at \in {"check", "finding"} /\ chain' = chain /\ promises' = promises
  BY DEF CheckUnknown, CheckFails, Finding
<1>2. call[c].job \in Jobs
  BY <1>0, <1>1 DEF CallFits
<1>3. PICK at \in {"run", "failed"}, p \in CallRecords :
        /\ call' = [call EXCEPT ![c] = p] /\ p.at = at /\ p.of = NoCall /\ p.result = <<>>
        /\ p.there = FALSE /\ p.job \in {call[c].job, NoJob}
        /\ at = "run" => p.job = call[c].job
  <2>1. CASE CheckUnknown(c)
    <3>1. PICK at \in {"run", "failed"} : call' = [call EXCEPT ![c] = Clear(c, at)]
      BY <2>1 DEF CheckUnknown, Undecided
    <3>2. call[c].there = FALSE
      <4>1. SUFFICES ASSUME call[c].there PROVE FALSE
        BY <1>0 DEF CallRecords
      <4>2. Creates(c) /\ AllThere(call[c].job) /\ Holding(Sought(c)) = {}
        BY <1>0, <2>1, <4>1 DEF CallFits, CheckUnknown
      <4>3. Len(call[c].result) + 1 \in DOMAIN call[c].job.contents
        <5>1. Len(call[c].job.contents) \in Nat \ {0} /\ DOMAIN call[c].job.contents = 1..Len(call[c].job.contents)
          BY <1>2, JobTypes
        <5>2. Len(call[c].result) \in Nat /\ Len(<<>>) = 0
          BY <1>0 DEF CallRecords
        <5>3. Len(call[c].result) < Len(call[c].job.contents)
          BY <1>0, <1>1, <5>1, <5>2 DEF CallFits
        <5>4. QED BY <5>1, <5>2, <5>3
      <4>4. QED BY <4>2, <4>3, Zenon DEF AllThere, Sought
    <3>3. PICK p \in CallRecords : p = Clear(c, at)
      BY <1>0, ClearType
    <3>4. /\ p.at = at /\ p.of = NoCall /\ p.result = <<>> /\ p.there = FALSE
          /\ p.job \in {call[c].job, NoJob}
          /\ at = "run" => p.job = call[c].job
      BY <1>0, <3>2, <3>3, ClearType
    <3>5. QED BY <3>1, <3>3, <3>4
  <2>2. CASE CheckFails(c)
    <3>1. PICK at \in {"run", "failed"} :
            call' = [call EXCEPT ![c] = [Clear(c, at) EXCEPT !.there = FALSE]]
      BY <2>2 DEF CheckFails, Undecided
    <3>2. PICK q \in CallRecords : q = Clear(c, at)
      BY <1>0, ClearType
    <3>3. /\ q.at = at /\ q.of = NoCall /\ q.result = <<>> /\ q.job \in {call[c].job, NoJob}
          /\ at = "run" => q.job = call[c].job
      BY <1>0, <3>2, ClearType
    <3>4. PICK p : p = [q EXCEPT !.there = FALSE]
      OBVIOUS
    <3>5. call' = [call EXCEPT ![c] = p]
      BY <3>1, <3>2, <3>4, Zenon
    <3>6. /\ p \in CallRecords /\ p.at = at /\ p.of = NoCall /\ p.result = <<>>
          /\ p.there = FALSE /\ p.job = q.job
      BY <3>2, <3>3, <3>4 DEF CallRecords
    <3>7. QED BY <3>3, <3>5, <3>6
  <2>3. QED BY <2>1, <2>2
<1>4. call'[c] = p
  BY <1>3 DEF LedgerInv, LedgerType
<1>5. CallFits(c)'
  <2>1. at = "run" => p.job \in Jobs /\ (~Creates(c)' => p.job.entity \in 1..Len(chain))
    BY <1>0, <1>2, <1>3, <1>4 DEF CallFits, Creates
  <2>a. NoJob \notin Jobs
    BY JobsAssumption DEF NoJob
  <2>2. at = "failed" /\ p.job \in Jobs /\ ~Creates(c)' => p.job.entity \in 1..Len(chain)
    BY <1>0, <1>2, <1>3, <1>4, <2>a DEF CallFits, Creates
  <2>3. QED BY <1>1, <1>3, <1>4, <2>1, <2>2 DEF CallFits, Creates
<1>6. QED BY <1>1, <1>3, <1>5, ArkivCall

(* A step that sends an attempt.                                            *)
LEMMA SendsStep ==
  ASSUME LedgerInv, NEW c \in Calls, Sends(c)
  PROVE  LedgerInv'
<1>0. /\ call[c] \in CallRecords /\ CallFits(c) /\ LedgerType /\ call \in [Calls -> CallRecords]
      /\ promises \in [Jobs -> Calls \cup {NoCall}] /\ c # NoCall
  BY UnusedType DEF LedgerInv, LedgerType
<1>1. /\ call[c].at = "run" /\ promises[call[c].job] = NoCall /\ chain' = chain
      /\ call' = [call EXCEPT ![c].at = "sent"]
      /\ promises' = [promises EXCEPT ![call[c].job] = c]
  BY DEF Sends, Kept
<1>2. PICK job \in Jobs : job = call[c].job
  BY <1>0, <1>1 DEF CallFits
<1>3. /\ call'[c].job = job /\ call'[c].at = "sent" /\ call'[c].of = call[c].of
      /\ call'[c].there = call[c].there /\ call'[c] \in CallRecords
      /\ \A d \in Calls : d # c => call'[d] = call[d]
      /\ call' \in [Calls -> CallRecords]
  BY <1>0, <1>1, <1>2 DEF CallRecords, CallStages
<1>4. /\ promises' \in [Jobs -> Calls \cup {NoCall}] /\ promises'[job] = c
      /\ \A j \in Jobs : j # job => promises'[j] = promises[j]
  BY <1>0, <1>1, <1>2
<1>5. LedgerType'
  BY <1>0, <1>1, <1>3, <1>4 DEF LedgerType
<1>6. Grown /\ (\A j \in Jobs : AllThere(j)' = AllThere(j))
  BY <1>0, <1>1, SameChain
<1>7. CallFits(c)'
  <2>1. call[c].of = NoCall /\ ~call[c].there
    BY <1>0, <1>1 DEF CallFits
  <2>2. ~Creates(c) => job.entity \in 1..Len(chain)
    BY <1>0, <1>2 DEF CallFits
  <2>3. QED BY <1>1, <1>2, <1>3, <2>1, <2>2 DEF CallFits, Creates
<1>8. ASSUME NEW d \in Calls, d # c PROVE CallFits(d)'
  <2>1. CallFits(d)
    BY DEF LedgerInv
  <2>2. call[d].there => call[d].job \in Jobs /\ AllThere(call[d].job)
    BY <2>1 DEF CallFits
  <2>3. call[d].of # NoCall => call[d].of # c /\ call[d].of \in Calls
    BY <1>0, <1>1, <2>1 DEF CallFits, CallRecords
  <2>4. call[d].of # NoCall => /\ call'[call[d].of].job = call[call[d].of].job
                               /\ call'[call[d].of].at \in {"sent", "landed"}
    BY <1>3, <2>1, <2>3 DEF CallFits
  <2>5. QED BY <1>0, <1>3, <1>6, <1>8, <2>1, <2>2, <2>4, FitsStays
<1>9. KeptFits'
  <2>1. \A j \in Jobs : promises[j] # NoCall => promises[j] \in Calls /\ promises[j] # c
    BY <1>0, <1>1 DEF LedgerInv, KeptFits
  <2>2. ASSUME NEW j \in Jobs, promises'[j] # NoCall
        PROVE  call'[promises'[j]].job = j /\ call'[promises'[j]].at \in {"sent", "landed", "returned"}
    BY <1>3, <1>4, <2>1, <2>2 DEF LedgerInv, KeptFits
  <2>3. ASSUME NEW d \in Calls
        PROVE  /\ call'[d].at \in {"sent", "landed"} => promises'[call'[d].job] = d
               /\ call'[d].at = "returned" =>
                    /\ promises'[call'[d].job] # NoCall
                    /\ call'[promises'[call'[d].job]].at = "returned"
    <3>1. CASE d = c
      BY <1>3, <1>4, <3>1
    <3>2. CASE d # c
      <4>1. call[d].at \in {"sent", "landed", "returned"} => call[d].job \in Jobs
        BY DEF LedgerInv, CallFits
      <4>2. call[d].at \in {"sent", "landed", "returned"} => call[d].job # job
        BY <1>0, <1>1, <1>2, <3>2, UnusedType DEF LedgerInv, KeptFits
      <4>3. QED BY <1>3, <1>4, <2>1, <3>2, <4>1, <4>2 DEF LedgerInv, KeptFits
    <3>3. QED BY <3>1, <3>2
  <2>4. QED BY <2>2, <2>3 DEF KeptFits
<1>10. QED BY <1>5, <1>7, <1>8, <1>9 DEF LedgerInv

(* A transaction's step leaves everyone's stage but its own as it is.       *)
LEMMA LandsFits ==
  ASSUME LedgerInv, NEW c \in Calls, NEW p \in CallRecords, Grown, promises' = promises,
         call' \in [Calls -> CallRecords], call'[c] = p,
         \A d \in Calls : d # c =>
           /\ call'[d].job = call[d].job /\ call'[d].at = call[d].at
           /\ call'[d].result = call[d].result /\ call'[d].of = call[d].of
           /\ call'[d].there => call[d].there /\ AllThere(call[d].job)',
         \/ call[c].at = "sent" /\ p.at = "landed" /\ p.job = call[c].job
         \/ call[c].at = "adrift" /\ p.at = "failed",
         CallFits(c)'
  PROVE  LedgerInv'
<1>0. /\ call[c] \in CallRecords /\ LedgerType /\ call \in [Calls -> CallRecords]
      /\ promises \in [Jobs -> Calls \cup {NoCall}]
  BY DEF LedgerInv, LedgerType
<1>1. LedgerType'
  BY <1>0 DEF LedgerType, Grown
<1>2. ASSUME NEW d \in Calls, d # c PROVE CallFits(d)'
  <2>1. CallFits(d)
    BY DEF LedgerInv
  <2>2. call[d].of # NoCall => /\ call'[call[d].of].job = call[call[d].of].job
                               /\ call'[call[d].of].at \in {"sent", "landed"}
    <3>1. SUFFICES ASSUME call[d].of # NoCall
                   PROVE  /\ call'[call[d].of].job = call[call[d].of].job
                          /\ call'[call[d].of].at \in {"sent", "landed"}
      OBVIOUS
    <3>2. call[d].of \in Calls /\ call[call[d].of].at \in {"sent", "landed"}
      BY <1>0, <2>1, <3>1 DEF CallFits, CallRecords
    <3>3. QED BY <3>2
  <2>3. QED BY <1>0, <1>2, <2>1, <2>2, FitsStays
<1>3. KeptFits'
  <2>1. \A j \in Jobs : promises[j] # NoCall => promises[j] \in Calls
    BY <1>0
  <2>2. ASSUME NEW j \in Jobs, promises[j] # NoCall
        PROVE  call'[promises[j]].job = j /\ call'[promises[j]].at \in {"sent", "landed", "returned"}
    BY <2>1, <2>2 DEF LedgerInv, KeptFits
  <2>3. ASSUME NEW d \in Calls
        PROVE  /\ call'[d].at \in {"sent", "landed"} => promises[call'[d].job] = d
               /\ call'[d].at = "returned" =>
                    /\ promises[call'[d].job] # NoCall
                    /\ call'[promises[call'[d].job]].at = "returned"
    <3>1. CASE d = c
      BY <3>1 DEF LedgerInv, KeptFits
    <3>2. CASE d # c
      <4>1. call[d].at = "returned" => call[d].job \in Jobs
        BY DEF LedgerInv, CallFits
      <4>2. call[d].at = "returned" => promises[call[d].job] \in Calls \ {c}
        BY <1>0, <4>1 DEF LedgerInv, KeptFits
      <4>3. QED BY <3>2, <4>2 DEF LedgerInv, KeptFits
    <3>3. QED BY <3>1, <3>2
  <2>4. QED BY <2>2, <2>3 DEF KeptFits
<1>4. QED BY <1>1, <1>2, <1>3 DEF LedgerInv

LEMMA LandsStep ==
  ASSUME LedgerInv, NEW c \in Calls, Lands(c)
  PROVE  LedgerInv'
<1>0. /\ call[c] \in CallRecords /\ CallFits(c) /\ LedgerType /\ call \in [Calls -> CallRecords]
      /\ chain \in Seq(Entities) /\ Len(chain) \in Nat
  BY DEF LedgerInv, LedgerType
<1>1. call[c].at \in {"sent", "adrift"} /\ promises' = promises
  BY Zenon DEF Lands
<1>2. PICK job \in Jobs : job = call[c].job
  BY <1>0, <1>1 DEF CallFits
<1>3. PICK made :
        made = [k \in DOMAIN job.contents |-> [had |-> {job.contents[k]}, now |-> job.contents[k]]]
  OBVIOUS
<1>4. PICK ids : ids = IF Creates(c) THEN [k \in DOMAIN made |-> Len(chain) + k] ELSE <<>>
  OBVIOUS
<1>5. PICK p : p = IF call[c].at = "adrift" THEN Clear(c, "failed")
                   ELSE [call[c] EXCEPT !.at = "landed", !.result = ids]
  OBVIOUS
<1>6. PICK n \in Nat \ {0} : n = Len(job.contents) /\ DOMAIN job.contents = 1..n
  BY JobTypes
<1>7. made \in Seq(Entities) /\ Len(made) = n /\ DOMAIN made = 1..n
  <2>1. \A k \in 1..n : [had |-> {job.contents[k]}, now |-> job.contents[k]] \in Entities
    BY <1>6, JobTypes DEF Entities
  <2>2. made \in [1..n -> Entities]
    BY <1>3, <1>6, <2>1
  <2>3. QED BY <2>2
<1>8. ids \in Seq(Nat) /\ (Creates(c) => Len(ids) = n)
  <2>1. CASE Creates(c)
    <3>1. ids \in [1..n -> Nat]
      BY <1>0, <1>4, <1>7, <2>1
    <3>2. QED BY <3>1
  <2>2. CASE ~Creates(c)
    BY <1>4, <2>2
  <2>3. QED BY <2>1, <2>2
<1>9. /\ p \in CallRecords /\ p.of = NoCall /\ p.there = FALSE
      /\ call[c].at = "sent" => p.at = "landed" /\ p.job = job /\ p.result = ids
      /\ call[c].at = "adrift" => p.at = "failed" /\ p.job = NoJob
  <2>1. CASE call[c].at = "adrift"
    <3>1. p = Clear(c, "failed")
      BY <1>5, <2>1
    <3>2. QED BY <1>0, <2>1, <3>1, ClearType
  <2>2. CASE call[c].at = "sent"
    <3>1. call[c].of = NoCall /\ call[c].there = FALSE
      BY <1>0, <2>2 DEF CallFits, CallRecords
    <3>2. p = [call[c] EXCEPT !.at = "landed", !.result = ids] /\ "landed" \in CallStages
      BY <1>5, <2>2 DEF CallStages
    <3>3. QED BY <1>0, <1>2, <1>8, <2>2, <3>1, <3>2 DEF CallRecords
  <2>3. QED BY <1>1, <2>1, <2>2
<1>10. NoJob \notin Jobs
  BY JobsAssumption DEF NoJob
<1>11. CASE Creates(c) /\ chain' = chain \o made /\ call' = [call EXCEPT ![c] = p]
  <2>1. call' \in [Calls -> CallRecords] /\ call'[c] = p /\ \A d \in Calls : d # c => call'[d] = call[d]
    BY <1>0, <1>9, <1>11
  <2>2. /\ chain' \in Seq(Entities) /\ Len(chain') = Len(chain) + n
        /\ \A i \in 1..Len(chain) : chain'[i] = chain[i]
        /\ \A k \in 1..n : chain'[Len(chain) + k] = made[k]
    <3>1. chain' = chain \o made
      BY <1>11, Zenon
    <3>2. chain \o made \in Seq(Entities) /\ Len(chain \o made) = Len(chain) + n
      BY <1>0, <1>7
    <3>3. \A i \in 1..Len(chain) : (chain \o made)[i] = chain[i]
      BY <1>0, <1>7
    <3>4. \A k \in 1..n : (chain \o made)[Len(chain) + k] = made[k]
      BY <1>0, <1>7
    <3>5. QED BY <3>1, <3>2, <3>3, <3>4
  <2>3. \A k \in 1..n : made[k].had = {job.contents[k]} /\ made[k].now = job.contents[k]
    BY <1>3, <1>6
  <2>4. Grown
    <3>1. Len(chain) <= Len(chain')
      BY <1>0, <2>2
    <3>2. ASSUME NEW i \in 1..Len(chain') PROVE chain'[i].now \in chain'[i].had
      <4>1. CASE i \in 1..Len(chain)
        BY <1>0, <2>2, <4>1 DEF LedgerType
      <4>2. CASE i \notin 1..Len(chain)
        <5>1. PICK k \in 1..n : i = Len(chain) + k
          <6>1. i - Len(chain) \in 1..n /\ i = Len(chain) + (i - Len(chain))
            BY <1>0, <2>2, <3>2, <4>2
          <6>2. QED BY <6>1
        <5>2. QED BY <2>2, <2>3, <5>1
      <4>3. QED BY <4>1, <4>2
    <3>3. QED BY <2>2, <3>1, <3>2 DEF Grown
  <2>5. ASSUME NEW j \in Jobs, AllThere(j) PROVE AllThere(j)'
    <3>1. ASSUME NEW x, NEW i \in Holding(x) PROVE i \in Holding(x)'
      <4>1. i \in 1..Len(chain) /\ chain[i].now = x
        BY <1>0 DEF Holding
      <4>2. i \in 1..Len(chain')
        BY <1>0, <2>2, <4>1
      <4>3. QED BY <2>2, <4>1, <4>2 DEF Holding
    <3>2. QED BY <2>5, <3>1 DEF AllThere
  <2>6. CallFits(c)'
    <3>1. CASE call[c].at = "sent"
      <4>1. /\ call'[c].job = job /\ call'[c].at = "landed" /\ call'[c].of = NoCall
            /\ call'[c].there = FALSE /\ call'[c].result = ids
        BY <1>9, <2>1, <3>1
      <4>2. ASSUME NEW k \in 1..Len(ids) PROVE Made(c, k)'
        <5>1. k \in 1..n /\ ids[k] = Len(chain) + k
          BY <1>4, <1>7, <1>8, <1>11
        <5>2. Len(chain) + k \in 1..Len(chain')
          BY <1>0, <2>2, <5>1
        <5>3. QED BY <2>2, <2>3, <4>1, <5>1, <5>2 DEF Made
      <4>3. Creates(c)'
        BY <1>2, <1>11, <4>1 DEF Creates
      <4>4. QED BY <1>6, <1>8, <1>11, <4>1, <4>2, <4>3 DEF CallFits
    <3>2. CASE call[c].at = "adrift"
      BY <1>9, <1>10, <2>1, <3>2 DEF CallFits
    <3>3. QED BY <1>1, <3>1, <3>2
  <2>7. ASSUME NEW d \in Calls, d # c
        PROVE  /\ call'[d].job = call[d].job /\ call'[d].at = call[d].at
               /\ call'[d].result = call[d].result /\ call'[d].of = call[d].of
               /\ call'[d].there => call[d].there /\ AllThere(call[d].job)'
    <3>1. call'[d] = call[d]
      BY <2>1, <2>7
    <3>2. call[d].there => call[d].job \in Jobs /\ AllThere(call[d].job)
      BY DEF LedgerInv, CallFits
    <3>3. QED BY <2>5, <3>1, <3>2
  <2>8. QED BY <1>1, <1>2, <1>9, <2>1, <2>4, <2>6, <2>7, LandsFits
<1>12. CASE /\ ~Creates(c)
            /\ chain' = [chain EXCEPT ![job.entity] =
                 [had |-> @.had \cup {job.contents[1]}, now |-> job.contents[1]]]
            /\ call' = [d \in Calls |-> IF d = c THEN p ELSE [call[d] EXCEPT !.there = FALSE]]
  <2>1. call' \in [Calls -> CallRecords] /\ call'[c] = p
    BY <1>0, <1>9, <1>12 DEF CallRecords
  <2>2. ASSUME NEW d \in Calls, d # c
        PROVE  /\ call'[d].job = call[d].job /\ call'[d].at = call[d].at
               /\ call'[d].result = call[d].result /\ call'[d].of = call[d].of
               /\ call'[d].there => call[d].there /\ AllThere(call[d].job)'
    <3>1. call[d] \in CallRecords /\ call'[d] = [call[d] EXCEPT !.there = FALSE]
      BY <1>0, <1>12, <2>2
    <3>2. QED BY <3>1 DEF CallRecords
  <2>3. job.entity \in 1..Len(chain) /\ job.contents[1] \in JobContents
    <3>1. job.entity \in 1..Len(chain)
      BY <1>0, <1>2, <1>12 DEF CallFits
    <3>2. QED BY <1>6, <3>1, JobTypes
  <2>4. PICK e \in Entities : e = [had |-> chain[job.entity].had \cup {job.contents[1]}, now |-> job.contents[1]]
    <3>1. chain[job.entity] \in Entities
      BY <1>0, <2>3
    <3>2. QED BY <2>3, <3>1 DEF Entities
  <2>5. chain' = [chain EXCEPT ![job.entity] = e]
    BY <1>12, <2>4
  <2>6. e.had = chain[job.entity].had \cup {job.contents[1]} /\ e.now = job.contents[1]
    BY <2>4
  <2>7. /\ chain' \in Seq(Entities) /\ Len(chain') = Len(chain) /\ chain'[job.entity] = e
        /\ \A i \in 1..Len(chain) : i # job.entity => chain'[i] = chain[i]
    <3>1. chain \in [1..Len(chain) -> Entities]
      BY <1>0
    <3>2. [chain EXCEPT ![job.entity] = e] \in [1..Len(chain) -> Entities]
      BY <2>4, <3>1, Zenon
    <3>3. chain' \in Seq(Entities) /\ Len(chain') = Len(chain)
      BY <1>0, <2>5, <3>2
    <3>4. QED BY <2>3, <2>5, <3>1, <3>3
  <2>8. Grown
    <3>1. ASSUME NEW i \in 1..Len(chain)
          PROVE  chain[i].had \subseteq chain'[i].had /\ chain'[i].now \in chain'[i].had
      <4>1. chain[i].now \in chain[i].had
        BY <1>0 DEF LedgerType
      <4>2. CASE i = job.entity
        BY <2>6, <2>7, <4>2
      <4>3. CASE i # job.entity
        BY <2>7, <4>1, <4>3
      <4>4. QED BY <4>2, <4>3
    <3>2. chain' \in Seq(Entities) /\ Len(chain) <= Len(chain')
      BY <1>0, <2>7
    <3>3. QED BY <2>7, <3>1, <3>2 DEF Grown
  <2>9. CallFits(c)'
    <3>1. CASE call[c].at = "sent"
      <4>1. /\ call'[c].job = job /\ call'[c].at = "landed" /\ call'[c].of = NoCall
            /\ call'[c].there = FALSE /\ ~Creates(c)'
        BY <1>2, <1>9, <1>12, <2>1, <3>1 DEF Creates
      <4>2. job.contents[1] \in chain'[job.entity].had /\ job.entity \in 1..Len(chain')
        BY <2>3, <2>6, <2>7
      <4>3. QED BY <4>1, <4>2 DEF CallFits
    <3>2. CASE call[c].at = "adrift"
      BY <1>9, <1>10, <2>1, <3>2 DEF CallFits
    <3>3. QED BY <1>1, <3>1, <3>2
  <2>10. QED BY <1>1, <1>2, <1>9, <2>1, <2>2, <2>8, <2>9, LandsFits
<1>13. QED
  <2>1. \/ Creates(c) /\ chain' = chain \o made /\ call' = [call EXCEPT ![c] = p]
        \/ /\ ~Creates(c)
           /\ chain' = [chain EXCEPT ![job.entity] =
                [had |-> @.had \cup {job.contents[1]}, now |-> job.contents[1]]]
           /\ call' = [d \in Calls |-> IF d = c THEN p ELSE [call[d] EXCEPT !.there = FALSE]]
    BY <1>2, <1>3, <1>4, <1>5, Zenon DEF Lands
  <2>2. QED BY <1>11, <1>12, <2>1

(* The receipt arrives.                                                     *)
LEMMA AnswersStep ==
  ASSUME LedgerInv, NEW c \in Calls, Answers(c)
  PROVE  LedgerInv'
<1>0. /\ call \in [Calls -> CallRecords] /\ LedgerType /\ call[c].at = "landed"
      /\ chain' = chain /\ promises' = promises
  <2>1. call[c].at = "landed" /\ chain' = chain /\ promises' = promises
    BY Zenon DEF Answers
  <2>2. QED BY <2>1 DEF LedgerInv, LedgerType
<1>1. /\ CallFits(c) /\ call[c].job \in Jobs /\ call[c].of = NoCall /\ promises[call[c].job] = c
      /\ call[c] \in CallRecords /\ c # NoCall
  BY <1>0, UnusedType DEF LedgerInv, CallFits, KeptFits
<1>2. PICK result \in Seq(Nat) : result = call[c].result
  BY <1>1 DEF CallRecords
<1>3. \A d \in Calls : call'[d] =
        IF d = c \/ call[d].of = c
        THEN [call[d] EXCEPT !.at = "returned", !.of = NoCall, !.again = FALSE, !.result = result]
        ELSE call[d]
  BY <1>2, Zenon DEF Answers
<1>4. ASSUME NEW d \in Calls
      PROVE  /\ call'[d] \in CallRecords
             /\ d = c \/ call[d].of = c =>
                  /\ call'[d].job = call[d].job /\ call'[d].job = call[c].job
                  /\ call'[d].at = "returned"
                  /\ call'[d].of = NoCall /\ call'[d].there = FALSE /\ call'[d].result = result
             /\ ~(d = c \/ call[d].of = c) => call'[d] = call[d]
  <2>1. CASE d = c \/ call[d].of = c
    <3>1. call[d].job = call[c].job /\ call[d].there = FALSE /\ call[d] \in CallRecords
      BY <1>0, <1>1, <2>1 DEF LedgerInv, CallFits, CallRecords
    <3>2. "returned" \in CallStages /\ NoCall \in Calls \cup {NoCall}
      BY DEF CallStages
    <3>3. call'[d] = [call[d] EXCEPT !.at = "returned", !.of = NoCall, !.again = FALSE, !.result = result]
      BY <1>3, <2>1, Zenon
    <3>4. QED BY <2>1, <3>1, <3>2, <3>3 DEF CallRecords
  <2>2. CASE ~(d = c \/ call[d].of = c)
    <3>1. call'[d] = call[d]
      BY <1>3, <2>2, Zenon
    <3>2. QED BY <1>0, <2>2, <3>1
  <2>3. QED BY <2>1, <2>2
<1>5. LedgerType'
  <2> DEFINE F(d) == IF d = c \/ call[d].of = c
                     THEN [call[d] EXCEPT !.at = "returned", !.of = NoCall, !.again = FALSE,
                                          !.result = call[c].result]
                     ELSE call[d]
  <2>1. call' = [d \in Calls |-> F(d)]
    BY Zenon DEF Answers
  <2> HIDE DEF F
  <2>2. QED BY <1>0, <1>4, <2>1 DEF LedgerType
<1>6. Grown /\ (\A j \in Jobs : AllThere(j)' = AllThere(j))
  BY <1>0, SameChain
<1>7. ASSUME NEW d \in Calls PROVE CallFits(d)'
  <2>1. CASE d = c \/ call[d].of = c
    <3>1. Creates(d)' = Creates(c)
      BY <1>4, <2>1 DEF Creates
    <3>2. CASE Creates(c)
      <4>1. Len(result) = Len(call[c].job.contents) /\ \A k \in 1..Len(result) : Made(c, k)
        BY <1>0, <1>1, <1>2, <3>2 DEF CallFits
      <4>2. \A k \in 1..Len(result) : Made(d, k)'
        BY <1>0, <1>2, <1>4, <2>1, <4>1 DEF Made
      <4>3. QED BY <1>1, <1>4, <2>1, <3>1, <3>2, <4>1, <4>2 DEF CallFits
    <3>3. CASE ~Creates(c)
      <4>1. call[c].job.contents[1] \in chain[call[c].job.entity].had /\ call[c].job.entity \in 1..Len(chain)
        BY <1>0, <1>1, <3>3 DEF CallFits
      <4>2. QED BY <1>0, <1>1, <1>4, <2>1, <3>1, <3>3, <4>1 DEF CallFits
    <3>4. QED BY <3>2, <3>3
  <2>2. CASE ~(d = c \/ call[d].of = c)
    <3>1. CallFits(d) /\ call'[d] = call[d]
      BY <1>4, <2>2 DEF LedgerInv
    <3>2. call[d].there => call[d].job \in Jobs /\ AllThere(call[d].job)
      BY <3>1 DEF CallFits
    <3>3. call[d].of # NoCall => /\ call'[call[d].of].job = call[call[d].of].job
                                 /\ call'[call[d].of].at \in {"sent", "landed"}
      <4>1. SUFFICES ASSUME call[d].of # NoCall
                     PROVE  /\ call'[call[d].of].job = call[call[d].of].job
                            /\ call'[call[d].of].at \in {"sent", "landed"}
        OBVIOUS
      <4>2. PICK e \in Calls : e = call[d].of
        BY <1>0, <4>1 DEF CallRecords
      <4>3. call[e].at \in {"sent", "landed"}
        BY <3>1, <4>1, <4>2 DEF CallFits
      <4>4. call[e].of = NoCall
        BY <4>3 DEF LedgerInv, CallFits
      <4>5. call'[e] = call[e]
        BY <1>1, <1>4, <2>2, <4>2, <4>4
      <4>6. QED BY <4>2, <4>3, <4>5
    <3>4. QED BY <1>0, <1>6, <3>1, <3>2, <3>3, FitsStays
  <2>3. QED BY <2>1, <2>2
<1>8. KeptFits'
  <2>1. \A d \in Calls : call[d].at \in {"sent", "landed", "returned"} => call[d].of = NoCall /\ call[d].job \in Jobs
    BY DEF LedgerInv, CallFits
  <2>2. ASSUME NEW j \in Jobs, promises[j] # NoCall
        PROVE  /\ call'[promises[j]].job = j /\ call'[promises[j]].at \in {"sent", "landed", "returned"}
               /\ call[promises[j]].at = "returned" => call'[promises[j]].at = "returned"
    <3>1. promises[j] \in Calls /\ call[promises[j]].job = j /\ call[promises[j]].of = NoCall
      BY <1>0, <2>1, <2>2 DEF LedgerInv, LedgerType, KeptFits
    <3>2. QED BY <1>1, <1>4, <2>2, <3>1 DEF LedgerInv, KeptFits
  <2>3. ASSUME NEW d \in Calls
        PROVE  /\ call'[d].at \in {"sent", "landed"} => promises[call'[d].job] = d
               /\ call'[d].at = "returned" =>
                    /\ promises[call'[d].job] # NoCall
                    /\ call'[promises[call'[d].job]].at = "returned"
    <3>1. CASE d = c \/ call[d].of = c
      <4>1. call'[d].job = call[c].job /\ call'[d].at = "returned" /\ call'[c].at = "returned"
        BY <1>4, <3>1
      <4>2. QED BY <1>1, <4>1
    <3>2. CASE ~(d = c \/ call[d].of = c)
      <4>1. call'[d] = call[d]
        BY <1>4, <3>2
      <4>2. call[d].at = "returned" =>
              /\ call[d].job \in Jobs /\ promises[call[d].job] # NoCall
              /\ call[promises[call[d].job]].at = "returned"
        BY <2>1 DEF LedgerInv, KeptFits
      <4>3. call[d].at \in {"sent", "landed"} => promises[call[d].job] = d
        BY DEF LedgerInv, KeptFits
      <4>4. QED BY <2>2, <4>1, <4>2, <4>3
    <3>3. QED BY <3>1, <3>2
  <2>4. QED BY <1>0, <2>2, <2>3 DEF KeptFits
<1>9. QED BY <1>5, <1>7, <1>8 DEF LedgerInv

(* The attempt fails: nobody keeps it or waits for it any more.             *)
LEMMA FailsStep ==
  ASSUME LedgerInv, NEW c \in Calls, Fails(c)
  PROVE  LedgerInv'
<1>0. /\ call \in [Calls -> CallRecords] /\ LedgerType /\ call[c].at \in {"sent", "landed"}
      /\ chain' = chain /\ promises \in [Jobs -> Calls \cup {NoCall}]
      /\ promises' = [promises EXCEPT ![call[c].job] = IF @ = c THEN NoCall ELSE @]
  <2>1. /\ call[c].at \in {"sent", "landed"} /\ chain' = chain
        /\ promises' = [promises EXCEPT ![call[c].job] = IF @ = c THEN NoCall ELSE @]
    BY Zenon DEF Fails
  <2>2. QED BY <2>1 DEF LedgerInv, LedgerType
<1>1. PICK job \in Jobs : job = call[c].job
  BY <1>0 DEF LedgerInv, CallFits
<1>2. CallFits(c) /\ call[c].of = NoCall /\ promises[job] = c /\ c # NoCall
  BY <1>0, <1>1, UnusedType DEF LedgerInv, CallFits, KeptFits
<1>3. PICK end \in {"failed", "adrift"}, at \in [Calls -> Undecided] :
        /\ end = "adrift" => call[c].at = "sent"
        /\ \A d \in Calls : at[d] = "run" => call[d].at = "awaits" /\ call[d].of = c
        /\ call' = [d \in Calls |->
             IF d = c THEN Clear(c, end) ELSE IF call[d].of = c THEN Clear(d, at[d]) ELSE call[d]]
  BY Zenon DEF Fails
<1>4. /\ call'[c] \in CallRecords /\ call'[c].at = end /\ call'[c].of = NoCall
      /\ call'[c].there = FALSE
      /\ call'[c].job = IF end = "failed" THEN NoJob ELSE job
  <2>1. call'[c] = Clear(c, end)
    BY <1>3
  <2>2. call[c].there = FALSE
    BY <1>0, <1>2 DEF CallFits, CallRecords
  <2>3. /\ Clear(c, end) \in CallRecords /\ Clear(c, end).at = end /\ Clear(c, end).of = NoCall
        /\ end = "failed" => Clear(c, end).there = FALSE /\ Clear(c, end).job = NoJob
        /\ end # "failed" => Clear(c, end).job = call[c].job /\ Clear(c, end).there = call[c].there
    BY <1>0, ClearType
  <2>4. QED BY <1>1, <2>1, <2>2, <2>3
<1>5. ASSUME NEW d \in Calls, d # c, call[d].of = c
      PROVE  /\ call'[d] \in CallRecords /\ call'[d].at \in {"run", "failed"}
             /\ call'[d].of = NoCall /\ call'[d].there = FALSE
             /\ call'[d].job = IF call'[d].at = "failed" THEN NoJob ELSE call[d].job
             /\ CallFits(d) /\ call[d].job = job
  <2>1. call'[d] = Clear(d, at[d]) /\ at[d] \in {"run", "failed"}
    BY <1>3, <1>5 DEF Undecided
  <2>2. CallFits(d) /\ call[d].job = job /\ call[d].there = FALSE
    BY <1>0, <1>1, <1>2, <1>5 DEF LedgerInv, CallFits, CallRecords
  <2>3. PICK s \in {"run", "failed", "adrift"} : s = at[d]
    BY <2>1
  <2>4. /\ Clear(d, s) \in CallRecords /\ Clear(d, s).at = s /\ Clear(d, s).of = NoCall
        /\ s = "failed" => Clear(d, s).there = FALSE /\ Clear(d, s).job = NoJob
        /\ s # "failed" => Clear(d, s).job = call[d].job /\ Clear(d, s).there = call[d].there
    BY <1>0, ClearType
  <2>5. QED BY <2>1, <2>2, <2>3, <2>4
<1>6. \A d \in Calls : d # c /\ call[d].of # c => call'[d] = call[d]
  BY <1>3
<1>7. /\ promises' \in [Jobs -> Calls \cup {NoCall}] /\ promises'[job] = NoCall
      /\ \A j \in Jobs : j # job => promises'[j] = promises[j]
  BY <1>0, <1>1, <1>2
<1>8. LedgerType'
  <2> DEFINE F(d) == IF d = c THEN Clear(c, end)
                     ELSE IF call[d].of = c THEN Clear(d, at[d]) ELSE call[d]
  <2>1. call' = [d \in Calls |-> F(d)]
    BY <1>3
  <2> HIDE DEF F
  <2>2. \A d \in Calls : call'[d] \in CallRecords
    BY <1>0, <1>4, <1>5, <1>6
  <2>3. QED BY <1>0, <1>7, <2>1, <2>2 DEF LedgerType
<1>9. Grown /\ (\A j \in Jobs : AllThere(j)' = AllThere(j))
  BY <1>0, SameChain
<1>10. NoJob \notin Jobs
  BY JobsAssumption DEF NoJob
<1>11. ASSUME NEW d \in Calls PROVE CallFits(d)'
  <2>1. CASE d = c
    <3>1. ~Creates(c)' /\ call'[c].job \in Jobs => job.entity \in 1..Len(chain) /\ call'[c].job = job
      BY <1>1, <1>2, <1>4, <1>10 DEF CallFits, Creates
    <3>2. QED BY <1>0, <1>4, <1>10, <2>1, <3>1 DEF CallFits, Creates
  <2>2. CASE d # c /\ call[d].of = c
    <3>1. ~Creates(d)' /\ call'[d].job \in Jobs => job.entity \in 1..Len(chain) /\ call'[d].job = job
      BY <1>1, <1>5, <1>10, <2>2 DEF CallFits, Creates
    <3>2. call'[d].at = "run" => call'[d].job \in Jobs
      BY <1>5, <2>2
    <3>3. QED BY <1>0, <1>5, <2>2, <3>1, <3>2 DEF CallFits, Creates
  <2>3. CASE d # c /\ call[d].of # c
    <3>1. CallFits(d) /\ call'[d] = call[d]
      BY <1>6, <2>3 DEF LedgerInv
    <3>2. call[d].there => call[d].job \in Jobs /\ AllThere(call[d].job)
      BY <3>1 DEF CallFits
    <3>3. call[d].of # NoCall => /\ call'[call[d].of].job = call[call[d].of].job
                                 /\ call'[call[d].of].at \in {"sent", "landed"}
      <4>1. SUFFICES ASSUME call[d].of # NoCall
                     PROVE  /\ call'[call[d].of].job = call[call[d].of].job
                            /\ call'[call[d].of].at \in {"sent", "landed"}
        OBVIOUS
      <4>2. PICK e \in Calls : e = call[d].of
        BY <1>0, <4>1 DEF CallRecords
      <4>3. call[e].at \in {"sent", "landed"}
        BY <3>1, <4>1, <4>2 DEF CallFits
      <4>4. call[e].of = NoCall
        BY <4>3 DEF LedgerInv, CallFits
      <4>5. call'[e] = call[e]
        BY <1>2, <1>6, <2>3, <4>2, <4>4
      <4>6. QED BY <4>2, <4>3, <4>5
    <3>4. QED BY <1>0, <1>9, <3>1, <3>2, <3>3, FitsStays
  <2>4. QED BY <2>1, <2>2, <2>3
<1>12. KeptFits'
  <2>1. \A d \in Calls : call[d].at \in {"sent", "landed", "returned"} => call[d].of = NoCall /\ call[d].job \in Jobs
    BY DEF LedgerInv, CallFits
  <2>2. ASSUME NEW j \in Jobs, promises'[j] # NoCall
        PROVE  /\ j # job /\ promises'[j] = promises[j] /\ promises[j] \in Calls \ {c}
               /\ call'[promises[j]] = call[promises[j]]
    <3>1. j # job /\ promises'[j] = promises[j]
      BY <1>7, <2>2
    <3>2. promises[j] \in Calls /\ call[promises[j]].job = j /\ call[promises[j]].of = NoCall
      BY <1>0, <2>1, <2>2, <3>1 DEF LedgerInv, KeptFits
    <3>3. promises[j] # c
      BY <1>1, <3>1, <3>2
    <3>4. QED BY <1>2, <1>6, <3>1, <3>2, <3>3
  <2>3. \A j \in Jobs : promises'[j] # NoCall =>
          call'[promises'[j]].job = j /\ call'[promises'[j]].at \in {"sent", "landed", "returned"}
    BY <1>0, <2>2 DEF LedgerInv, KeptFits
  <2>4. ASSUME NEW d \in Calls, call'[d].at \in {"sent", "landed", "returned"}
        PROVE  /\ d # c /\ call'[d] = call[d] /\ call[d].job \in Jobs \ {job}
               /\ promises'[call[d].job] = promises[call[d].job]
    <3>1. d # c
      BY <1>4, <2>4
    <3>2. call[d].of # c
      BY <1>5, <2>4, <3>1
    <3>3. call'[d] = call[d] /\ call[d].job \in Jobs
      BY <1>6, <2>1, <2>4, <3>1, <3>2
    <3>4. call[d].job # job
      <4>1. call[d].at \in {"sent", "landed"} => promises[call[d].job] = d
        BY DEF LedgerInv, KeptFits
      <4>2. call[d].at = "returned" => call[promises[call[d].job]].at = "returned"
        BY DEF LedgerInv, KeptFits
      <4>3. QED BY <1>0, <1>2, <2>4, <3>1, <3>3, <4>1, <4>2
    <3>5. QED BY <1>7, <3>1, <3>3, <3>4
  <2>5. ASSUME NEW d \in Calls
        PROVE  /\ call'[d].at \in {"sent", "landed"} => promises'[call'[d].job] = d
               /\ call'[d].at = "returned" =>
                    /\ promises'[call'[d].job] # NoCall
                    /\ call'[promises'[call'[d].job]].at = "returned"
    <3>1. CASE call'[d].at \in {"sent", "landed"}
      BY <2>4, <3>1 DEF LedgerInv, KeptFits
    <3>2. CASE call'[d].at = "returned"
      <4>1. /\ promises'[call'[d].job] # NoCall
            /\ call[promises'[call'[d].job]].at = "returned"
        BY <2>4, <3>2 DEF LedgerInv, KeptFits
      <4>2. QED BY <2>2, <2>4, <3>2, <4>1
    <3>3. QED BY <3>1, <3>2
  <2>6. QED BY <2>3, <2>5 DEF KeptFits
<1>13. QED BY <1>8, <1>11, <1>12 DEF LedgerInv

(* The process ends.                                                        *)
LEMMA ArkivCrashStep ==
  ASSUME LedgerInv, ArkivCrash
  PROVE  LedgerInv'
<1>0. /\ call \in [Calls -> CallRecords] /\ LedgerType /\ chain' = chain
      /\ promises' = [j \in Jobs |-> NoCall]
      /\ call' = [c \in Calls |->
           CASE call[c].at = "new" -> call[c]
             [] call[c].at \in {"sent", "adrift"} -> [call[c] EXCEPT !.at = "adrift"]
             [] OTHER -> Clear(c, "failed")]
  <2>1. chain' = chain /\ promises' = [j \in Jobs |-> NoCall]
    BY Zenon DEF ArkivCrash
  <2>2. call' = [c \in Calls |->
           CASE call[c].at = "new" -> call[c]
             [] call[c].at \in {"sent", "adrift"} -> [call[c] EXCEPT !.at = "adrift"]
             [] OTHER -> Clear(c, "failed")]
    BY Zenon DEF ArkivCrash
  <2>3. QED BY <2>1, <2>2 DEF LedgerInv, LedgerType
<1>1. NoJob \notin Jobs
  BY JobsAssumption DEF NoJob
<1>2. Grown /\ (\A j \in Jobs : AllThere(j)' = AllThere(j))
  BY <1>0, SameChain
<1>3. ASSUME NEW c \in Calls
      PROVE  /\ call'[c] \in CallRecords /\ call'[c].at \in {"new", "adrift", "failed"}
             /\ CallFits(c)'
  <2>1. call[c] \in CallRecords /\ CallFits(c)
    BY <1>0 DEF LedgerInv
  <2>2. CASE call[c].at = "new"
    <3>1. call'[c] = call[c]
      BY <1>0, <2>2
    <3>2. call[c].of = NoCall /\ ~call[c].there
      BY <2>1, <2>2 DEF CallFits
    <3>3. QED BY <1>0, <1>2, <2>1, <2>2, <3>1, <3>2, FitsStays
  <2>3. CASE call[c].at \in {"sent", "adrift"}
    <3>1. call'[c] = [call[c] EXCEPT !.at = "adrift"] /\ "adrift" \in CallStages
      BY <1>0, <2>3 DEF CallStages
    <3>2. /\ call'[c] \in CallRecords /\ call'[c].at = "adrift" /\ call'[c].job = call[c].job
          /\ call'[c].of = call[c].of /\ call'[c].there = call[c].there
      BY <2>1, <3>1 DEF CallRecords
    <3>3. call[c].of = NoCall /\ ~call[c].there /\ call[c].job \in Jobs
      BY <2>1, <2>3 DEF CallFits
    <3>4. ~Creates(c) => call[c].job.entity \in 1..Len(chain)
      BY <2>1, <3>3 DEF CallFits
    <3>5. QED BY <1>0, <3>2, <3>3, <3>4 DEF CallFits, Creates
  <2>4. CASE call[c].at \notin {"new", "sent", "adrift"}
    <3>1. call'[c] = Clear(c, "failed")
      BY <1>0, <2>4
    <3>2. /\ call'[c] \in CallRecords /\ call'[c].at = "failed" /\ call'[c].job = NoJob
          /\ call'[c].of = NoCall /\ call'[c].there = FALSE
      BY <1>0, <3>1, ClearType
    <3>3. QED BY <1>1, <3>2 DEF CallFits
  <2>5. QED BY <2>2, <2>3, <2>4
<1>4. LedgerType'
  <2> DEFINE F(c) == CASE call[c].at = "new" -> call[c]
                       [] call[c].at \in {"sent", "adrift"} -> [call[c] EXCEPT !.at = "adrift"]
                       [] OTHER -> Clear(c, "failed")
  <2>1. call' = [c \in Calls |-> F(c)]
    BY <1>0, Zenon
  <2> HIDE DEF F
  <2>2. QED BY <1>0, <1>3, <2>1 DEF LedgerType
<1>5. KeptFits'
  BY <1>0, <1>3 DEF KeptFits
<1>6. QED BY <1>3, <1>4, <1>5 DEF LedgerInv

LEMMA ArkivStep ==
  ASSUME LedgerInv, [ArkivNext]_arkivVars
  PROVE  LedgerInv'
<1>1. ASSUME NEW c \in Calls, AskCreate(c) \/ AskBatch(c) \/ AskUpdate(c) PROVE LedgerInv'
  BY <1>1, AskStep
<1>2. ASSUME NEW c \in Calls, CheckKept(c) PROVE LedgerInv'
  <2>1. call[c].at = "check" /\ Kept(c) /\ Attach(c, "awaits") /\ chain' = chain /\ promises' = promises
    BY <1>2 DEF CheckKept
  <2>2. QED BY <2>1, AttachStep
<1>3. ASSUME NEW c \in Calls, CheckFinds(c) PROVE LedgerInv'
  BY <1>3, FindsStep
<1>4. ASSUME NEW c \in Calls, CheckUnknown(c) \/ CheckFails(c) PROVE LedgerInv'
  BY <1>4, UnknownStep
<1>5. ASSUME NEW c \in Calls, Joins(c) PROVE LedgerInv'
  <2>1. call[c].at = "run" /\ Kept(c) /\ Attach(c, "joined") /\ chain' = chain /\ promises' = promises
    BY <1>5 DEF Joins
  <2>2. QED BY <2>1, AttachStep
<1>6. ASSUME NEW c \in Calls, Sends(c) PROVE LedgerInv'
  BY <1>6, SendsStep
<1>7. ASSUME NEW c \in Calls, Lands(c) PROVE LedgerInv'
  BY <1>7, LandsStep
<1>8. ASSUME NEW c \in Calls, Answers(c) PROVE LedgerInv'
  BY <1>8, AnswersStep
<1>9. ASSUME NEW c \in Calls, Fails(c) PROVE LedgerInv'
  BY <1>9, FailsStep
<1>10. CASE ArkivCrash
  BY <1>10, ArkivCrashStep
<1>11. CASE UNCHANGED arkivVars
  <2>1. chain' = chain /\ call' = call /\ promises' = promises
    BY <1>11 DEF arkivVars
  <2>2. LedgerType'
    BY <2>1 DEF LedgerInv, LedgerType
  <2>3. \A c \in Calls : CallFits(c)'
    BY <2>1 DEF LedgerInv, CallFits, Made, Creates, AllThere, Holding
  <2>4. KeptFits'
    BY <2>1 DEF LedgerInv, KeptFits
  <2>5. QED BY <2>2, <2>3, <2>4 DEF LedgerInv
<1>12. QED
  BY <1>1, <1>2, <1>3, <1>4, <1>5, <1>6, <1>7, <1>8, <1>9, <1>10, <1>11 DEF ArkivNext

(* A create is sent once for as long as the process or the chain can tell,   *)
(* and a call that has a result has one entity for each of its records,      *)
(* with that record's content (dsh-arkiv createEntity, createEntities,       *)
(* updateEntity, checkCreate and checkBatch).                                *)
THEOREM OneEntity == ArkivSpec => []OneEntityPerRecord
<1>1. ArkivInit => LedgerInv
  <2>1. SUFFICES ASSUME ArkivInit PROVE LedgerInv
    OBVIOUS
  <2>2. /\ chain = <<>> /\ call = [c \in Calls |-> Unused] /\ promises = [j \in Jobs |-> NoCall]
    BY <2>1 DEF ArkivInit
  <2>3. LedgerType
    BY <2>2, UnusedType DEF LedgerType
  <2>4. /\ Unused.at = "new" /\ Unused.of = NoCall /\ Unused.there = FALSE /\ Unused.job \notin Jobs
    BY JobsAssumption DEF Unused, NoJob
  <2>5. \A c \in Calls : CallFits(c)
    BY <2>2, <2>4 DEF CallFits
  <2>6. KeptFits
    BY <2>2, <2>4 DEF KeptFits
  <2>7. QED BY <2>3, <2>5, <2>6 DEF LedgerInv
<1>2. LedgerInv /\ [ArkivNext]_arkivVars => LedgerInv'
  BY ArkivStep
<1>3. LedgerInv => OneEntityPerRecord
  <2>1. SUFFICES ASSUME LedgerInv PROVE NotCreatedAgain /\ ResultsExist
    BY DEF OneEntityPerRecord
  <2>2. ASSUME NEW c \in Calls, call[c].at = "sent"
        PROVE  /\ ~call[c].there
               /\ \A d \in Calls \ {c} :
                    call[d].job = call[c].job => call[d].at \notin {"sent", "landed", "returned"}
    <3>1. ~call[c].there /\ promises[call[c].job] = c
      BY <2>1, <2>2 DEF LedgerInv, CallFits, KeptFits
    <3>2. ASSUME NEW d \in Calls \ {c}, call[d].job = call[c].job
          PROVE  call[d].at \notin {"sent", "landed", "returned"}
      BY <2>1, <2>2, <3>1, <3>2 DEF LedgerInv, KeptFits
    <3>3. QED BY <3>1, <3>2
  <2>3. ASSUME NEW c \in Calls, call[c].at \in {"returned", "found"}
        PROVE  IF Creates(c)
               THEN /\ Len(call[c].result) = Len(call[c].job.contents)
                    /\ \A k \in DOMAIN call[c].result :
                         call[c].job.contents[k] \in chain[call[c].result[k]].had
               ELSE call[c].job.contents[1] \in chain[call[c].job.entity].had
    <3>1. DOMAIN call[c].result = 1..Len(call[c].result)
      BY <2>1 DEF LedgerInv, LedgerType, CallRecords
    <3>2. CallFits(c)
      BY <2>1 DEF LedgerInv
    <3>3. QED BY <2>3, <3>1, <3>2 DEF CallFits, Made
  <2>4. QED BY <2>2, <2>3 DEF NotCreatedAgain, ResultsExist
<1>4. QED BY <1>1, <1>2, <1>3, PTL DEF ArkivSpec

-----------------------------------------------------------------------------
(* SynapsePins: the piece ledger.                                           *)

PinStages ==
  {"new", "unknown", "store", "check", "upload", "sign", "record", "load", "write",
   "rename", "pinned", "absent", "claimed", "failed", "lost"}
StoreStages == {"unknown", "store", "upload", "sign", "record", "write", "rename"}
PinRecords ==
  [op : {"none", "path", "cid", "status"}, of : Contents \cup {Unsaid}, at : PinStages,
   next : {"none", "pin", "tell", "verdict"}, tries : 0..2, fd : Pins \cup {NoFile},
   body : SUBSET (Contents \cup {"record", "check"}), knows : BOOLEAN]

Loading(c) == pin[c].at = "load"

(* A call that is in a stage of its store has not saved yet.                *)
CallShape(c) ==
  /\ pin[c].at = "new" => pin[c] = Fresh
  /\ pin[c].op # "none" => Of(c) \in Contents
  /\ pin[c].at \in StoreStages => pin[c].op = "path"
  /\ pin[c].at = "check" => pin[c].op # "none"
  /\ Loading(c) => /\ pin[c].body \in {{"record"}, {"check"}} /\ pin[c].op # "none"
                   /\ ledgerLoaded
                   /\ pin[c].body = {"record"} => pin[c].op = "path"
  /\ Saving(c) => pin[c].body \subseteq Contents /\ pin[c].fd \in Pins

(* Whatever overlaps: calls and files have their shapes, and one call reads *)
(* the ledger.                                                              *)
ShapeInv ==
  /\ pin \in [Pins -> PinRecords]
  /\ files \in [Pins -> {Torn} \cup SUBSET Contents]
  /\ pieces \subseteq Contents /\ {tmp, disk} \subseteq Pins \cup {NoFile}
  /\ ledgerLoaded \in BOOLEAN /\ unread \in BOOLEAN /\ excuse \in BOOLEAN
  /\ \A c \in Pins : CallShape(c)
  /\ \A c, d \in Pins : Loading(c) /\ Loading(d) => c = d

(* The piece is with a provider, and about to be recorded.                  *)
Signed(c) ==
  \/ pin[c].at \in {"record", "write", "rename"}
  \/ Loading(c) /\ pin[c].body = {"record"}

(* While nothing has overlapped or failed: one save at a time, which no     *)
(* load runs beside, writes all that is recorded to a file of its own; and  *)
(* what is recorded is in the ledger file, with a provider, and in memory   *)
(* once the file is read.                                                   *)
Orderly ==
  /\ \A c, d \in Pins : Saving(c) => ~Loading(d) /\ (Saving(d) => c = d)
  /\ \A c \in Pins : Saving(c) =>
       /\ tmp = c /\ pin[c].fd = c
       /\ recorded \cup {Of(c)} \subseteq pin[c].body /\ pin[c].body \subseteq pieces
       /\ pin[c].at = "rename" => files[c] = pin[c].body
  /\ tmp # NoFile => Saving(tmp)
  /\ disk # NoFile => disk \in Pins /\ pin[disk].op # "path" /\ pin[disk].at # "new"
  /\ recorded \subseteq Written /\ recorded \subseteq held
  /\ ledgerLoaded /\ ~unread /\ (\A c \in Pins : ~Loading(c)) => recorded \subseteq pieces
  /\ \A c \in Pins : Signed(c) => Of(c) \in held
  /\ \A c, d \in Pins : Loading(c) /\ c # d => ~pin[d].knows
  /\ \A c \in Pins :
       /\ pin[c].knows => Of(c) \in recorded
       /\ unread \/ pin[c].at \in {"absent", "claimed"} => ~pin[c].knows

PinsInv == excuse \/ Orderly

(* A step of one call that neither reads nor writes the ledger file: what   *)
(* it makes of the call's record p decides.                                 *)
FitsShape(p) ==
  /\ p \in PinRecords /\ p.at \notin {"new", "write", "rename", "load"}
  /\ p.op # "none" => p.of \in Contents
  /\ p.at \in StoreStages => p.op = "path"
  /\ p.at = "check" => p.op # "none"
FitsOrder(c, p) ==
  /\ p.op = "path" => pin[c].op = "path" \/ pin[c].at = "new"
  /\ p.at = "record" => p.of \in held'
  /\ p.knows => /\ p.of \in recorded
                /\ pin[c].knows \/ (~unread /\ \A d \in Pins : ~Loading(d))
  /\ p.at \in {"absent", "claimed"} => ~p.knows

LEMMA CallStep ==
  ASSUME ShapeInv, PinsInv, NEW c \in Pins, NEW p, FitsShape(p),
         pin' = [pin EXCEPT ![c] = p], pin[c].at \notin {"write", "rename", "load"},
         UNCHANGED <<pieces, ledgerLoaded, unread, fileVars, recorded>>,
         excuse' \in {excuse, TRUE},
         excuse' \/ (held \subseteq held' /\ FitsOrder(c, p))
  PROVE  ShapeInv' /\ PinsInv'
<1>1. pin \in [Pins -> PinRecords] /\ pin' \in [Pins -> PinRecords]
  BY DEF ShapeInv, CallShape, FitsShape
<1>2. pin'[c] = p /\ \A d \in Pins \ {c} : pin'[d] = pin[d]
  BY <1>1
<1>3. \A d \in Pins : Loading(d)' => Loading(d) /\ d # c
  BY <1>2 DEF Loading, FitsShape
<1>4. \A d \in Pins : Saving(d)' => Saving(d) /\ d # c
  BY <1>2 DEF Saving, FitsShape
<1>5. \A d \in Pins : Saving(d) => Saving(d)' /\ d # c
  BY <1>2 DEF Saving
<1>6. ShapeInv'
  <2>1. ASSUME NEW d \in Pins
        PROVE CallShape(d)'
    <3>1. CASE d = c
      BY <1>2, <1>3, <1>4, <3>1 DEF FitsShape, Of, CallShape
    <3>2. CASE d # c
      BY <1>2, <1>3, <1>4, <3>2 DEF ShapeInv, CallShape, Of
    <3>3. QED BY <3>1, <3>2
  <2>2. \A d, e \in Pins : Loading(d)' /\ Loading(e)' => d = e
    BY <1>3 DEF ShapeInv, CallShape
  <2>3. QED BY <1>1, <2>1, <2>2 DEF ShapeInv, CallShape, fileVars
<1>7. ASSUME ~excuse' PROVE Orderly'
  <2>1. Orderly /\ held \subseteq held' /\ FitsOrder(c, p)
    BY <1>7 DEF PinsInv
  <2>2. \A d, e \in Pins : Saving(d)' => ~Loading(e)' /\ (Saving(e)' => d = e)
    BY <1>3, <1>4, <2>1 DEF Orderly
  <2>3. ASSUME NEW d \in Pins, Saving(d)'
        PROVE  /\ tmp' = d /\ pin'[d].fd = d
               /\ recorded' \cup {Of(d)'} \subseteq pin'[d].body /\ pin'[d].body \subseteq pieces'
               /\ pin'[d].at = "rename" => files'[d] = pin'[d].body
    BY <1>2, <1>4, <2>1, <2>3 DEF Orderly, fileVars, Of
  <2>4. tmp' # NoFile => Saving(tmp)'
    BY <1>5, <2>1 DEF Orderly, fileVars, ShapeInv, CallShape
  <2>5. disk' # NoFile => disk' \in Pins /\ pin'[disk'].op # "path" /\ pin'[disk'].at # "new"
    <3>1. SUFFICES ASSUME disk # NoFile
                   PROVE  disk \in Pins /\ pin'[disk].op # "path" /\ pin'[disk].at # "new"
      BY DEF fileVars
    <3>2. disk \in Pins /\ pin[disk].op # "path" /\ pin[disk].at # "new"
      BY <2>1, <3>1 DEF Orderly
    <3>3. QED BY <1>2, <2>1, <3>2 DEF FitsOrder, FitsShape
  <2>6. recorded' \subseteq Written' /\ recorded' \subseteq held'
    BY <2>1 DEF Orderly, fileVars, Written
  <2>7. ledgerLoaded' /\ ~unread' /\ (\A d \in Pins : ~Loading(d)') => recorded' \subseteq pieces'
    BY <1>2, <2>1 DEF Orderly, Loading
  <2>8. ASSUME NEW d \in Pins, Signed(d)' PROVE Of(d)' \in held'
    <3>1. CASE d = c
      BY <1>2, <2>1, <2>8, <3>1 DEF Signed, FitsShape, FitsOrder, Loading, Of
    <3>2. CASE d # c
      BY <1>2, <2>1, <2>8, <3>2 DEF Orderly, Signed, Loading, Of
    <3>3. QED BY <3>1, <3>2
  <2>9. ASSUME NEW d \in Pins, NEW e \in Pins, Loading(d)', d # e, pin'[e].knows PROVE FALSE
    <3>1. Loading(d) /\ d # c
      BY <1>3, <2>9
    <3>2. pin[e].knows
      BY <1>2, <2>1, <2>9, <3>1 DEF FitsOrder
    <3>3. QED BY <2>1, <2>9, <3>1, <3>2 DEF Orderly
  <2>10. ASSUME NEW d \in Pins
         PROVE  /\ pin'[d].knows => Of(d)' \in recorded'
                /\ unread' \/ pin'[d].at \in {"absent", "claimed"} => ~pin'[d].knows
    <3>1. CASE d = c
      <4>1. unread => ~pin[c].knows
        BY <2>1 DEF Orderly
      <4>2. QED BY <1>2, <2>1, <3>1, <4>1 DEF FitsOrder, Of
    <3>2. CASE d # c
      BY <1>2, <2>1, <3>2 DEF Orderly, Of
    <3>3. QED BY <3>1, <3>2
  <2>11. QED BY <2>2, <2>3, <2>4, <2>5, <2>6, <2>7, <2>8, <2>9, <2>10 DEF Orderly
<1>8. QED BY <1>6, <1>7 DEF PinsInv

LEMMA FreshType == Fresh \in PinRecords
<1>1. 0 \in 0..2 /\ "new" \in PinStages
  BY DEF PinStages
<1>2. QED BY <1>1 DEF Fresh, PinRecords

(* A call that no longer counts on what it knew.                            *)
LEMMA ForgetType ==
  /\ [Fresh EXCEPT !.knows = FALSE] = Fresh
  /\ \A r \in PinRecords :
       /\ [r EXCEPT !.knows = FALSE] \in PinRecords
       /\ [r EXCEPT !.knows = FALSE].at = r.at /\ [r EXCEPT !.knows = FALSE].op = r.op
       /\ [r EXCEPT !.knows = FALSE].of = r.of /\ [r EXCEPT !.knows = FALSE].body = r.body
       /\ [r EXCEPT !.knows = FALSE].fd = r.fd /\ ~[r EXCEPT !.knows = FALSE].knows
<1>1. [Fresh EXCEPT !.knows = FALSE] = Fresh
  <2>1. PICK f \in PinRecords : f = Fresh
    BY FreshType
  <2>2. ~f.knows
    BY <2>1 DEF Fresh
  <2>3. [f EXCEPT !.knows = FALSE] = f
    BY <2>2 DEF PinRecords
  <2>4. QED BY <2>1, <2>3
<1>2. QED BY <1>1 DEF PinRecords

LEMMA EndedFits ==
  ASSUME NEW c \in Pins, NEW at \in {"pinned", "failed"}
  PROVE  FitsShape(Ended(at)) /\ FitsOrder(c, Ended(at))
<1>1. PICK p : p = Ended(at)
  OBVIOUS
<1>2. p = [op |-> "none", of |-> Unsaid, at |-> at, next |-> "none",
           tries |-> 0, fd |-> NoFile, body |-> {}, knows |-> FALSE]
  BY <1>1 DEF Ended, Fresh
<1>3. 0 \in 0..2 /\ at \in PinStages
  BY DEF PinStages
<1>4. /\ p \in PinRecords /\ p.at = at /\ p.op = "none" /\ p.knows = FALSE
  BY <1>2, <1>3 DEF PinRecords
<1>5. QED BY <1>1, <1>4, Zenon DEF FitsShape, FitsOrder, StoreStages

LEMMA QuietPins ==
  ASSUME ShapeInv, PinsInv, NEW c \in Pins,
         \/ Requested(c) \/ PinDecided(c) \/ Stores(c) \/ Uploads(c) \/ SelectionFails(c)
         \/ UploadFails(c) \/ Signs(c) \/ SignFails(c) \/ Pinned(c) \/ NotPinned(c)
  PROVE  ShapeInv' /\ PinsInv'
<1>0. pin \in [Pins -> PinRecords] /\ pin[c] \in PinRecords /\ excuse \in BOOLEAN
  BY DEF ShapeInv, CallShape
<1>1. /\ pin[c].op # "none" => Of(c) \in Contents
      /\ pin[c].at \in StoreStages => pin[c].op = "path"
      /\ pin[c].at = "check" => pin[c].op # "none"
  BY DEF ShapeInv, CallShape
<1>2. excuse \/ /\ pin[c].knows => Of(c) \in recorded
                /\ pin[c].at \in {"record", "write", "rename"} => Of(c) \in held
                /\ ledgerLoaded /\ ~unread /\ (\A d \in Pins : ~Loading(d)) => recorded \subseteq pieces
                /\ unread => ~pin[c].knows
                /\ \A d \in Pins : Loading(d) /\ d # c => ~pin[c].knows
                /\ recorded \subseteq held
  BY DEF PinsInv, Orderly, Signed
<1>3. ASSUME Requested(c) PROVE ShapeInv' /\ PinsInv'
  <2>1. PICK op \in {"path", "cid", "status"}, x \in Contents, again \in BOOLEAN :
       /\ op = "status" => ~again
       /\ pin' = [pin EXCEPT ![c] = [Fresh EXCEPT !.op = op, !.of = x,
            !.at = CASE again /\ op = "path" /\ x \notin uploads -> "unknown"
                     [] op = "path" /\ ~again -> "store"
                     [] OTHER -> "check",
            !.next = IF op = "status" THEN "tell" ELSE IF again THEN "verdict" ELSE "pin",
            !.knows = /\ x \in recorded /\ ~unread
                      /\ \A d \in Pins : pin[d].at # "load"]]
    BY <1>3, Zenon DEF Requested
  <2>0. pin[c].at = "new" /\ UNCHANGED <<held, pieces, ledgerLoaded, unread, fileVars, recorded, excuse>>
    BY <1>3, Zenon DEF Requested
  <2>2. PICK at : at = (CASE again /\ op = "path" /\ x \notin uploads -> "unknown"
                     [] op = "path" /\ ~again -> "store"
                     [] OTHER -> "check")
    OBVIOUS
  <2>3. at \in {"unknown", "store", "check"} /\ (at # "check" => op = "path")
    BY <2>2
  <2>4. PICK nx \in {"tell", "verdict", "pin"} :
          nx = IF op = "status" THEN "tell" ELSE IF again THEN "verdict" ELSE "pin"
    OBVIOUS
  <2>5. PICK kn \in BOOLEAN : kn = (/\ x \in recorded /\ ~unread
                                /\ \A d \in Pins : pin[d].at # "load")
    OBVIOUS
  <2>6. PICK p : p = [Fresh EXCEPT !.op = op, !.of = x, !.at = at, !.next = nx, !.knows = kn]
    OBVIOUS
  <2>7. pin' = [pin EXCEPT ![c] = p]
    BY <2>1, <2>2, <2>4, <2>5, <2>6, Zenon
  <2>8. p \in PinRecords /\ p.op = op /\ p.of = x /\ p.at = at /\ p.knows = kn
    <3>1. at \in PinStages
      BY <2>3 DEF PinStages
    <3>2. QED BY <2>6, <3>1, FreshType DEF PinRecords
  <2>9. FitsShape(p) /\ FitsOrder(c, p)
    <3>1. FitsShape(p)
      BY <2>3, <2>8 DEF FitsShape, StoreStages
    <3>2. FitsOrder(c, p)
      BY <2>0, <2>3, <2>5, <2>8 DEF FitsOrder, Loading
    <3>3. QED BY <3>1, <3>2
  <2>10. QED BY <2>0, <2>7, <2>9, CallStep
<1>4. ASSUME PinDecided(c) PROVE ShapeInv' /\ PinsInv'
  <2>1. CASE pin' = [pin EXCEPT ![c].at = "store", ![c].next = "pin"]
    <3>1. PICK p : p = [pin[c] EXCEPT !.at = "store", !.next = "pin"]
      OBVIOUS
    <3>2. pin' = [pin EXCEPT ![c] = p]
      BY <2>1, <3>1
    <3>3. /\ p \in PinRecords /\ p.at = "store"
          /\ p.op = pin[c].op /\ p.of = Of(c) /\ p.knows = pin[c].knows
      BY <1>0, <3>1 DEF PinRecords, PinStages, Of
    <3>4. pin[c].at = "unknown" /\ pin[c].op = "path"
      BY <1>1, <1>4 DEF PinDecided, StoreStages
    <3>5. FitsShape(p) /\ (excuse \/ FitsOrder(c, p))
      BY <1>1, <1>2, <3>3, <3>4 DEF FitsShape, FitsOrder, StoreStages
    <3>6. QED BY <1>4, <3>2, <3>4, <3>5, CallStep DEF PinDecided
  <2>2. CASE pin' = [pin EXCEPT ![c] = Ended("failed")]
    BY <1>4, <2>2, EndedFits, CallStep DEF PinDecided
  <2>3. QED BY <1>4, <2>1, <2>2 DEF PinDecided
<1>5. ASSUME Stores(c) PROVE ShapeInv' /\ PinsInv'
  <2>1. PICK at \in {"check", "upload"}, op \in {"path", "cid"} :
          /\ pin' = [pin EXCEPT ![c].at = at, ![c].op = op]
          /\ at = "upload" => op = "path"
    BY <1>0, <1>1, <1>5 DEF Stores, StoreStages
  <2>2. PICK p : p = [pin[c] EXCEPT !.at = at, !.op = op]
    OBVIOUS
  <2>3. pin' = [pin EXCEPT ![c] = p]
    BY <2>1, <2>2
  <2>4. /\ p \in PinRecords /\ p.at = at
        /\ p.op = op /\ p.of = Of(c) /\ p.knows = pin[c].knows
    BY <1>0, <2>2 DEF PinRecords, PinStages, Of
  <2>5. pin[c].at = "store" /\ pin[c].op = "path"
    BY <1>1, <1>5 DEF Stores, StoreStages
  <2>6. FitsShape(p) /\ (excuse \/ FitsOrder(c, p))
    BY <1>1, <1>2, <2>1, <2>4, <2>5 DEF FitsShape, FitsOrder, StoreStages
  <2>7. QED BY <1>5, <2>3, <2>5, <2>6, CallStep DEF Stores
<1>6. ASSUME Uploads(c) \/ Signs(c) PROVE ShapeInv' /\ PinsInv'
  <2>1. PICK at \in {"sign", "record"} :
          /\ Goes(c, at) /\ (at = "record" => Of(c) \in held')
          /\ pin[c].at \in {"upload", "sign"}
    BY <1>6 DEF Uploads, Signs
  <2>2. PICK p : p = [pin[c] EXCEPT !.at = at]
    OBVIOUS
  <2>3. pin' = [pin EXCEPT ![c] = p]
    BY <2>1, <2>2 DEF Goes
  <2>4. /\ p \in PinRecords /\ p.at = at
        /\ p.op = pin[c].op /\ p.of = Of(c) /\ p.knows = pin[c].knows
    BY <1>0, <2>2 DEF PinRecords, PinStages, Of
  <2>5. pin[c].op = "path" /\ held \subseteq held'
    BY <1>1, <1>6, <2>1 DEF Uploads, Signs, StoreStages
  <2>6. FitsShape(p) /\ (excuse \/ FitsOrder(c, p))
    BY <1>1, <1>2, <2>1, <2>4, <2>5 DEF FitsShape, FitsOrder, StoreStages
  <2>7. UNCHANGED <<pieces, ledgerLoaded, unread, fileVars, recorded, excuse>>
    BY <1>6 DEF Uploads, Signs
  <2>8. QED BY <2>1, <2>3, <2>5, <2>6, <2>7, CallStep
<1>7. ASSUME SelectionFails(c) PROVE ShapeInv' /\ PinsInv'
  <2>1. pin[c].at = "upload" /\ pin' = [pin EXCEPT ![c].tries = 1]
    BY <1>7 DEF SelectionFails
  <2>2. PICK p : p = [pin[c] EXCEPT !.tries = 1]
    OBVIOUS
  <2>3. pin' = [pin EXCEPT ![c] = p]
    BY <2>1, <2>2
  <2>4. /\ p \in PinRecords /\ p.at = "upload"
        /\ p.op = pin[c].op /\ p.of = Of(c) /\ p.knows = pin[c].knows
    BY <1>0, <2>1, <2>2 DEF PinRecords, PinStages, Of
  <2>5. pin[c].op = "path"
    BY <1>1, <2>1 DEF StoreStages
  <2>6. FitsShape(p) /\ (excuse \/ FitsOrder(c, p))
    BY <1>1, <1>2, <2>1, <2>4, <2>5 DEF FitsShape, FitsOrder, StoreStages
  <2>7. QED BY <1>7, <2>1, <2>3, <2>6, CallStep DEF SelectionFails
<1>8. ASSUME UploadFails(c) \/ SignFails(c) PROVE ShapeInv' /\ PinsInv'
  <2>1. /\ pin[c].at \in {"upload", "sign"} /\ held \subseteq held'
        /\ pin' = [pin EXCEPT ![c] = Ended("failed")]
        /\ UNCHANGED <<pieces, ledgerLoaded, unread, fileVars, recorded, excuse>>
    BY <1>8 DEF UploadFails, SignFails
  <2>2. QED BY <2>1, EndedFits, CallStep
<1>9. ASSUME Pinned(c) PROVE ShapeInv' /\ PinsInv'
  <2>1. pin[c].at = "check" /\ pin' = [pin EXCEPT ![c] = Ended("pinned")]
    BY <1>9 DEF Pinned
  <2>2. QED BY <1>9, <2>1, EndedFits, CallStep DEF Pinned
<1>10. ASSUME NotPinned(c) PROVE ShapeInv' /\ PinsInv'
  <2>0. /\ pin[c].at = "check" /\ ledgerLoaded /\ excuse' \in {excuse, TRUE}
        /\ excuse' \/ Of(c) \notin pieces \cap held
        /\ UNCHANGED <<held, pieces, ledgerLoaded, unread, fileVars, recorded>>
    BY <1>10 DEF NotPinned, LedgerReady
  <2>9. excuse => excuse'
    BY <2>0, Zenon
  <2>1. excuse' \/ ~pin[c].knows
    <3>1. SUFFICES ASSUME ~excuse', pin[c].knows PROVE FALSE
      OBVIOUS
    <3>2. ~excuse /\ ~Loading(c)
      BY <2>0, <2>9, <3>1 DEF Loading
    <3>3. \A d \in Pins : ~Loading(d)
      BY <1>2, <3>1, <3>2
    <3>4. Of(c) \in pieces \cap held
      BY <1>2, <2>0, <3>1, <3>2, <3>3
    <3>5. QED BY <2>0, <3>1, <3>4
  <2>2. ASSUME NEW at \in {"absent", "claimed"}, pin' = [pin EXCEPT ![c] = Told(c, at)]
        PROVE  ShapeInv' /\ PinsInv'
    <3>1. PICK p : p = Told(c, at)
      OBVIOUS
    <3>2. /\ p \in PinRecords /\ p.at = at
          /\ p.op = "none" /\ p.of = Of(c) /\ p.knows = pin[c].knows
      <4>1. p = [op |-> "none", of |-> Of(c), at |-> at, next |-> "none",
                 tries |-> 0, fd |-> NoFile, body |-> {}, knows |-> pin[c].knows]
        BY <3>1 DEF Told, Fresh
      <4>2. 0 \in 0..2 /\ at \in PinStages /\ Of(c) \in Contents \cup {Unsaid} /\ pin[c].knows \in BOOLEAN
        BY <1>0 DEF PinStages, PinRecords, Of
      <4>3. QED BY <4>1, <4>2 DEF PinRecords
    <3>3. FitsShape(p) /\ (excuse' \/ FitsOrder(c, p))
      BY <1>1, <1>2, <2>0, <2>1, <3>2 DEF FitsShape, FitsOrder, StoreStages
    <3>4. QED BY <2>0, <2>2, <3>1, <3>3, CallStep
  <2>3. ASSUME NEW p, pin' = [pin EXCEPT ![c] = p],
               /\ p \in PinRecords /\ p.at \in {"check", "store"} /\ (p.at = "store" => p.op = "path")
               /\ p.op = pin[c].op /\ p.of = Of(c) /\ p.knows = pin[c].knows
        PROVE  ShapeInv' /\ PinsInv'
    <3>3. FitsShape(p) /\ (excuse' \/ FitsOrder(c, p))
      BY <1>1, <1>2, <2>0, <2>1, <2>3 DEF FitsShape, FitsOrder, StoreStages
    <3>4. QED BY <2>0, <2>3, <3>3, CallStep
  <2>4. CASE pin[c].next = "tell"
    <3>1. pin' = [pin EXCEPT ![c] = Told(c, "absent")]
      BY <1>10, <2>4 DEF NotPinned
    <3>2. QED BY <2>2, <3>1
  <2>5. CASE pin[c].next = "pin"
    <3>1. pin' = [pin EXCEPT ![c] = Told(c, "claimed")]
      BY <1>10, <2>5 DEF NotPinned
    <3>2. QED BY <2>2, <3>1
  <2>6. CASE pin[c].next = "verdict" /\ pin[c].tries + 1 < CheckRetries
    <3>1. PICK p : p = [pin[c] EXCEPT !.tries = @ + 1]
      OBVIOUS
    <3>2. pin' = [pin EXCEPT ![c] = p]
      BY <1>10, <2>6, <3>1 DEF NotPinned
    <3>3. /\ p \in PinRecords /\ p.at = "check"
          /\ p.op = pin[c].op /\ p.of = Of(c) /\ p.knows = pin[c].knows
      <4>1. pin[c].tries + 1 \in 0..2
        BY <1>0, <2>6 DEF PinRecords, CheckRetries
      <4>2. QED BY <1>0, <2>0, <3>1, <4>1 DEF PinRecords, PinStages, Of
    <3>4. QED BY <2>3, <3>2, <3>3
  <2>7. CASE /\ pin[c].next \notin {"tell", "pin"}
            /\ ~(pin[c].next = "verdict" /\ pin[c].tries + 1 < CheckRetries)
    <3>0. PICK at \in {"store", "check"} : at = IF pin[c].op = "path" THEN "store" ELSE "check"
      OBVIOUS
    <3>1. PICK p : p = [pin[c] EXCEPT !.at = at, !.next = "pin", !.tries = 0]
      OBVIOUS
    <3>2. pin' = [pin EXCEPT ![c] = p]
      BY <1>10, <2>7, <3>0, <3>1 DEF NotPinned
    <3>3. /\ p \in PinRecords /\ p.at = at
          /\ p.op = pin[c].op /\ p.of = Of(c) /\ p.knows = pin[c].knows
      <4>1. 0 \in 0..2 /\ at \in PinStages
        BY DEF PinStages
      <4>2. QED BY <1>0, <3>1, <4>1 DEF PinRecords, Of
    <3>4. QED BY <2>3, <3>0, <3>2, <3>3
  <2>8. QED BY <2>4, <2>5, <2>6, <2>7
<1>11. QED BY <1>3, <1>4, <1>5, <1>6, <1>7, <1>8, <1>9, <1>10

(* A call marks the ledger as loaded and goes to read it.                   *)
LEMMA EnsuresStep ==
  ASSUME ShapeInv, PinsInv, NEW c \in Pins, EnsuresLedger(c)
  PROVE  ShapeInv' /\ PinsInv'
<1>0. /\ pin \in [Pins -> PinRecords] /\ pin[c].at \in {"record", "check"} /\ ~ledgerLoaded
      /\ ledgerLoaded' = TRUE
      /\ UNCHANGED <<held, uploads, pieces, unread, files, tmp, disk, recorded>>
  BY DEF EnsuresLedger, ShapeInv, CallShape, LedgerReady, fileVars
<1>1. PICK p : p = [pin[c] EXCEPT !.at = "load", !.body = {pin[c].at}]
  OBVIOUS
<1>2. /\ p \in PinRecords /\ p.at = "load" /\ p.body = {pin[c].at}
      /\ p.op = pin[c].op /\ p.of = pin[c].of /\ p.knows = pin[c].knows /\ p.fd = pin[c].fd
  <2>1. "load" \in PinStages /\ {pin[c].at} \in SUBSET (Contents \cup {"record", "check"})
    BY <1>0 DEF PinStages
  <2>2. pin[c] \in PinRecords
    BY <1>0
  <2>3. PICK b \in SUBSET (Contents \cup {"record", "check"}) : b = {pin[c].at}
    BY <2>1
  <2>4. p = [pin[c] EXCEPT !.at = "load", !.body = b]
    BY <1>1, <2>3
  <2>5. QED BY <2>1, <2>2, <2>3, <2>4 DEF PinRecords
<1>3. /\ pin'[c] = p /\ pin' \in [Pins -> PinRecords]
      /\ \A d \in Pins \ {c} :
           /\ pin'[d] \in PinRecords /\ pin'[d].at = pin[d].at /\ pin'[d].op = pin[d].op
           /\ pin'[d].of = pin[d].of /\ pin'[d].body = pin[d].body /\ pin'[d].fd = pin[d].fd
           /\ ~pin'[d].knows /\ (pin[d].at = "new" => pin'[d] = [pin[d] EXCEPT !.knows = FALSE])
  <2>1. pin' = [d \in Pins |-> IF d = c THEN p ELSE [pin[d] EXCEPT !.knows = FALSE]]
    BY <1>1 DEF EnsuresLedger
  <2>2. ASSUME NEW d \in Pins \ {c}
        PROVE  /\ [pin[d] EXCEPT !.knows = FALSE] \in PinRecords
               /\ [pin[d] EXCEPT !.knows = FALSE].at = pin[d].at
               /\ [pin[d] EXCEPT !.knows = FALSE].op = pin[d].op
               /\ [pin[d] EXCEPT !.knows = FALSE].of = pin[d].of
               /\ [pin[d] EXCEPT !.knows = FALSE].body = pin[d].body
               /\ [pin[d] EXCEPT !.knows = FALSE].fd = pin[d].fd
               /\ ~[pin[d] EXCEPT !.knows = FALSE].knows
    <3>1. pin[d] \in PinRecords
      BY <1>0
    <3>2. QED BY <3>1, ForgetType
  <2>3. QED BY <1>2, <2>1, <2>2
<1>4. \A d \in Pins : ~Loading(d)
  BY <1>0 DEF ShapeInv, CallShape
<1>5. \A d \in Pins : (Loading(d)' <=> d = c) /\ (Saving(d)' <=> Saving(d))
  BY <1>0, <1>2, <1>3, <1>4 DEF Loading, Saving
<1>6. ShapeInv'
  <2>1. ASSUME NEW d \in Pins, d # c, pin'[d].at = "new" PROVE pin'[d] = Fresh
    <3>1. pin[d] = Fresh /\ pin'[d] = [pin[d] EXCEPT !.knows = FALSE]
      BY <1>3, <2>1 DEF ShapeInv, CallShape
    <3>2. QED BY <3>1, ForgetType
  <2>2. ASSUME NEW d \in Pins
        PROVE CallShape(d)'
    <3>1. CASE d # c
      BY <1>3, <1>5, <2>1, <3>1 DEF ShapeInv, CallShape, Of, Saving
    <3>2. CASE d = c
      <4>1. pin[c].op # "none" /\ (pin[c].at = "record" => pin[c].op = "path") /\ Of(c) \in Contents
        BY <1>0 DEF ShapeInv, CallShape, StoreStages
      <4>2. QED BY <1>0, <1>2, <1>3, <3>2, <4>1 DEF Of, Loading, Saving, StoreStages, CallShape
    <3>3. QED BY <3>1, <3>2
  <2>3. \A d, e \in Pins : Loading(d)' /\ Loading(e)' => d = e
    BY <1>5
  <2>4. excuse' \in BOOLEAN
    BY DEF EnsuresLedger
  <2>5. QED BY <1>0, <1>3, <2>2, <2>3, <2>4 DEF ShapeInv, CallShape
<1>7. ASSUME ~excuse' PROVE Orderly'
  <2>1. ~excuse /\ \A d \in Pins : ~Saving(d)
    BY <1>7 DEF EnsuresLedger
  <2>2. Orderly
    BY <2>1 DEF PinsInv
  <2>3. tmp' = NoFile
    BY <1>0, <2>1, <2>2 DEF Orderly, ShapeInv, CallShape
  <2>4. disk' # NoFile => disk' \in Pins /\ pin'[disk'].op # "path" /\ pin'[disk'].at # "new"
    BY <1>0, <1>2, <1>3, <2>2 DEF Orderly
  <2>5. recorded' \subseteq Written' /\ recorded' \subseteq held'
    BY <1>0, <2>2 DEF Orderly, Written
  <2>6. ASSUME NEW d \in Pins, Signed(d)' PROVE Of(d)' \in held'
    <3>1. Signed(d)
      BY <1>0, <1>2, <1>3, <1>4, <2>6 DEF Signed, Loading
    <3>2. QED BY <1>0, <1>2, <1>3, <2>2, <3>1 DEF Orderly, Of
  <2>7. ASSUME NEW d \in Pins
        PROVE  /\ pin'[d].knows => Of(d)' \in recorded'
               /\ unread' \/ pin'[d].at \in {"absent", "claimed"} => ~pin'[d].knows
    BY <1>0, <1>2, <1>3, <2>2 DEF Orderly, Of
  <2>8. \A d, e \in Pins : Loading(d)' /\ d # e => ~pin'[e].knows
    BY <1>3, <1>5
  <2>9. QED BY <1>5, <2>1, <2>3, <2>4, <2>5, <2>6, <2>7, <2>8 DEF Orderly
<1>8. QED BY <1>6, <1>7 DEF PinsInv

(* What a step that changes one call's record leaves of the others.         *)
LEMMA OneCall ==
  ASSUME ShapeInv, NEW c \in Pins, NEW p \in PinRecords, pin' = [pin EXCEPT ![c] = p],
         p.at # "new", p.op # "none" => p.of \in Contents,
         p.at \in StoreStages => p.op = "path", p.at = "check" => p.op # "none",
         p.at # "load", ledgerLoaded' = ledgerLoaded,
         p.at \in {"write", "rename"} => p.body \subseteq Contents /\ p.fd \in Pins
  PROVE  /\ pin' \in [Pins -> PinRecords]
         /\ \A d \in Pins : CallShape(d)'
         /\ \A d, e \in Pins : Loading(d)' /\ Loading(e)' => d = e
         /\ \A d \in Pins : Loading(d)' => Loading(d) /\ d # c
         /\ \A d \in Pins : d # c => pin'[d] = pin[d]
         /\ pin'[c] = p
<1>1. pin \in [Pins -> PinRecords] /\ pin' \in [Pins -> PinRecords]
  BY DEF ShapeInv, CallShape
<1>2. pin'[c] = p /\ \A d \in Pins : d # c => pin'[d] = pin[d]
  BY <1>1
<1>3. \A d \in Pins : Loading(d)' => Loading(d) /\ d # c
  BY <1>2 DEF Loading
<1>4. ASSUME NEW d \in Pins
      PROVE CallShape(d)'
  <2>1. CASE d = c
    BY <1>2, <2>1 DEF Of, Loading, Saving, CallShape
  <2>2. CASE d # c
    BY <1>2, <1>3, <2>2 DEF ShapeInv, CallShape, Of, Saving
  <2>3. QED BY <2>1, <2>2
<1>5. \A d, e \in Pins : Loading(d)' /\ Loading(e)' => d = e
  BY <1>3 DEF ShapeInv, CallShape
<1>6. QED BY <1>1, <1>2, <1>3, <1>4, <1>5

(* The ledger file is read into memory.                                     *)
LEMMA LoadsStep ==
  ASSUME ShapeInv, PinsInv, NEW c \in Pins, Loads(c)
  PROVE  ShapeInv' /\ PinsInv'
<1>0. /\ pin[c] \in PinRecords /\ Loading(c) /\ pieces' = pieces \cup Written
      /\ UNCHANGED <<held, ledgerLoaded, unread, files, tmp, disk, recorded, excuse>>
  BY DEF Loads, ShapeInv, fileVars, Loading
<1>1. PICK back \in {"record", "check"} :
        pin[c].body = {back} /\ pin' = [pin EXCEPT ![c].at = back, ![c].body = {}]
  <2>1. pin[c].body \in {{"record"}, {"check"}}
    BY <1>0 DEF ShapeInv, CallShape
  <2>2. PICK back \in pin[c].body : pin' = [pin EXCEPT ![c].at = back, ![c].body = {}]
    BY DEF Loads
  <2>3. pin[c].body = {back} /\ back \in {"record", "check"}
    BY <2>1
  <2>4. QED BY <2>2, <2>3
<1>2. PICK p : p = [pin[c] EXCEPT !.at = back, !.body = {}]
  OBVIOUS
<1>11. pin' = [pin EXCEPT ![c] = p]
  BY <1>1, <1>2
<1>3. /\ p \in PinRecords /\ p.at = back /\ p.op = pin[c].op /\ p.of = pin[c].of
      /\ p.knows = pin[c].knows
  BY <1>0, <1>2 DEF PinRecords, PinStages
<1>4. /\ pin[c].op # "none" /\ (back = "record" => pin[c].op = "path") /\ pin[c].of \in Contents
  BY <1>0, <1>1 DEF ShapeInv, CallShape, Of
<1>5. /\ pin' \in [Pins -> PinRecords] /\ (\A d \in Pins : CallShape(d)')
      /\ \A d \in Pins : Loading(d)' => Loading(d) /\ d # c
      /\ \A d \in Pins : d # c => pin'[d] = pin[d]
      /\ pin'[c] = p
  BY <1>0, <1>3, <1>4, <1>11, OneCall DEF StoreStages
<1>6. \A d \in Pins : ~Loading(d)'
  BY <1>0, <1>5 DEF ShapeInv
<1>7. Written \subseteq Contents
  BY DEF Written, ShapeInv
<1>8. ShapeInv'
  BY <1>0, <1>5, <1>6, <1>7 DEF ShapeInv
<1>9. ASSUME ~excuse' PROVE Orderly'
  <2>1. Orderly
    BY <1>0, <1>9 DEF PinsInv
  <2>2. \A d \in Pins : ~Saving(d)' /\ ~Saving(d)
    BY <1>0, <1>1, <1>3, <1>5, <2>1 DEF Orderly, Saving
  <2>3. tmp' = NoFile
    BY <1>0, <2>1, <2>2 DEF Orderly, ShapeInv
  <2>4. disk' # NoFile => disk' \in Pins /\ pin'[disk'].op # "path" /\ pin'[disk'].at # "new"
    BY <1>0, <1>3, <1>5, <2>1 DEF Orderly
  <2>5. recorded' \subseteq Written' /\ recorded' \subseteq held' /\ recorded' \subseteq pieces'
    BY <1>0, <2>1 DEF Orderly, Written
  <2>6. ASSUME NEW d \in Pins, Signed(d)' PROVE Of(d)' \in held'
    <3>1. Signed(d)
      BY <1>0, <1>1, <1>3, <1>5, <1>6, <2>6 DEF Signed
    <3>2. QED BY <1>0, <1>3, <1>5, <2>1, <3>1 DEF Orderly, Of
  <2>7. ASSUME NEW d \in Pins
        PROVE  /\ pin'[d].knows => Of(d)' \in recorded'
               /\ unread' \/ pin'[d].at \in {"absent", "claimed"} => ~pin'[d].knows
    BY <1>0, <1>3, <1>5, <2>1 DEF Orderly, Of
  <2>8. QED BY <1>6, <2>2, <2>3, <2>4, <2>5, <2>6, <2>7 DEF Orderly
<1>10. QED BY <1>8, <1>9 DEF PinsInv

(* The file could not be read: the ledger in memory stays as it was, and    *)
(* the call that read it counts on nothing.                                 *)
LEMMA LoadFailsStep ==
  ASSUME ShapeInv, PinsInv, NEW c \in Pins, LoadFails(c)
  PROVE  ShapeInv' /\ PinsInv'
<1>0. /\ pin[c] \in PinRecords /\ Loading(c) /\ unread' = TRUE
      /\ UNCHANGED <<held, pieces, ledgerLoaded, files, tmp, disk, recorded, excuse>>
  BY DEF LoadFails, ShapeInv, fileVars, Loading
<1>1. PICK back \in {"record", "check"} :
        /\ pin[c].body = {back}
        /\ pin' = [pin EXCEPT ![c].at = back, ![c].body = {}, ![c].knows = FALSE]
  <2>1. pin[c].body \in {{"record"}, {"check"}}
    BY <1>0 DEF ShapeInv, CallShape
  <2>2. PICK back \in pin[c].body :
          pin' = [pin EXCEPT ![c].at = back, ![c].body = {}, ![c].knows = FALSE]
    BY Zenon DEF LoadFails
  <2>3. pin[c].body = {back} /\ back \in {"record", "check"}
    BY <2>1
  <2>4. QED BY <2>2, <2>3
<1>2. PICK p : p = [pin[c] EXCEPT !.at = back, !.body = {}, !.knows = FALSE]
  OBVIOUS
<1>11. pin' = [pin EXCEPT ![c] = p]
  BY <1>1, <1>2
<1>3. p \in PinRecords /\ p.at = back /\ p.op = pin[c].op /\ p.of = pin[c].of /\ ~p.knows
  BY <1>0, <1>2 DEF PinRecords, PinStages
<1>4. /\ pin[c].op # "none" /\ (back = "record" => pin[c].op = "path") /\ pin[c].of \in Contents
  BY <1>0, <1>1 DEF ShapeInv, CallShape, Of
<1>5. /\ pin' \in [Pins -> PinRecords] /\ (\A d \in Pins : CallShape(d)')
      /\ \A d \in Pins : Loading(d)' => Loading(d) /\ d # c
      /\ \A d \in Pins : d # c => pin'[d] = pin[d]
      /\ pin'[c] = p
  BY <1>0, <1>3, <1>4, <1>11, OneCall DEF StoreStages
<1>6. \A d \in Pins : ~Loading(d)'
  BY <1>0, <1>5 DEF ShapeInv
<1>8. ShapeInv'
  BY <1>0, <1>5, <1>6 DEF ShapeInv
<1>9. ASSUME ~excuse' PROVE Orderly'
  <2>1. Orderly
    BY <1>0, <1>9 DEF PinsInv
  <2>2. \A d \in Pins : ~Saving(d)' /\ ~Saving(d)
    BY <1>0, <1>1, <1>3, <1>5, <2>1 DEF Orderly, Saving
  <2>3. tmp' = NoFile
    BY <1>0, <2>1, <2>2 DEF Orderly, ShapeInv
  <2>4. disk' # NoFile => disk' \in Pins /\ pin'[disk'].op # "path" /\ pin'[disk'].at # "new"
    BY <1>0, <1>3, <1>5, <2>1 DEF Orderly
  <2>5. recorded' \subseteq Written' /\ recorded' \subseteq held'
    BY <1>0, <2>1 DEF Orderly, Written
  <2>6. ASSUME NEW d \in Pins, Signed(d)' PROVE Of(d)' \in held'
    <3>1. Signed(d)
      BY <1>0, <1>1, <1>3, <1>5, <1>6, <2>6 DEF Signed
    <3>2. QED BY <1>0, <1>3, <1>5, <2>1, <3>1 DEF Orderly, Of
  <2>7. \A d \in Pins : ~pin'[d].knows
    BY <1>0, <1>3, <1>5, <2>1 DEF Orderly
  <2>8. QED BY <1>0, <1>6, <2>2, <2>3, <2>4, <2>5, <2>6, <2>7 DEF Orderly
<1>10. QED BY <1>8, <1>9 DEF PinsInv

(* A piece enters the ledger, and a save of all of it begins.               *)
LEMMA RecordsStep ==
  ASSUME ShapeInv, PinsInv, NEW c \in Pins, Records(c)
  PROVE  ShapeInv' /\ PinsInv'
<1>0. /\ pin[c] \in PinRecords /\ pin[c].at = "record" /\ ledgerLoaded
      /\ pieces' = pieces \cup {Of(c)}
      /\ UNCHANGED <<held, ledgerLoaded, unread, disk, recorded>>
      /\ pin[c].op = "path" /\ Of(c) \in Contents
  BY DEF Records, ShapeInv, CallShape, LedgerReady, StoreStages
<1>1. PICK fd \in Pins :
        /\ fd = IF tmp = NoFile THEN c ELSE tmp
        /\ pin' = [pin EXCEPT ![c].at = "write", ![c].body = pieces', ![c].fd = fd]
        /\ files' = [files EXCEPT ![fd] = Torn] /\ tmp' = fd
  <2>1. PICK fd : fd = IF tmp = NoFile THEN c ELSE tmp
    OBVIOUS
  <2>2. /\ pin' = [pin EXCEPT ![c].at = "write", ![c].body = pieces', ![c].fd = fd]
        /\ files' = [files EXCEPT ![fd] = Torn] /\ tmp' = fd
    BY <2>1 DEF Records
  <2>3. fd \in Pins
    BY <2>1 DEF ShapeInv
  <2>4. QED BY <2>1, <2>2, <2>3
<1>2. pieces' \subseteq Contents
  BY <1>0 DEF ShapeInv
<1>3. PICK b : b = pieces'
  OBVIOUS
<1>4. PICK p : p = [pin[c] EXCEPT !.at = "write", !.body = b, !.fd = fd]
  OBVIOUS
<1>10. pin' = [pin EXCEPT ![c] = p]
  BY <1>1, <1>3, <1>4
<1>5. /\ p \in PinRecords /\ p.at = "write" /\ p.op = pin[c].op /\ p.of = pin[c].of
      /\ p.knows = pin[c].knows /\ p.body = b /\ p.fd = fd
  BY <1>0, <1>2, <1>3, <1>4 DEF PinRecords, PinStages
<1>6. /\ pin' \in [Pins -> PinRecords] /\ (\A d \in Pins : CallShape(d)')
      /\ \A d, e \in Pins : Loading(d)' /\ Loading(e)' => d = e
      /\ \A d \in Pins : Loading(d)' => Loading(d) /\ d # c
      /\ \A d \in Pins : d # c => pin'[d] = pin[d]
      /\ pin'[c] = p
  BY <1>0, <1>1, <1>2, <1>3, <1>5, <1>10, OneCall DEF StoreStages, Of
<1>7. ShapeInv'
  BY <1>0, <1>1, <1>2, <1>6 DEF ShapeInv, Records
<1>8. ASSUME ~excuse' PROVE Orderly'
  <2>1. ~excuse /\ ~unread /\ \A d \in Pins : ~Saving(d) /\ ~Loading(d)
    BY <1>8 DEF Records, Loading
  <2>2. Orderly
    BY <2>1 DEF PinsInv
  <2>3. tmp = NoFile /\ fd = c
    BY <1>1, <2>1, <2>2 DEF Orderly, ShapeInv
  <2>4. \A d \in Pins : ~Loading(d)' /\ (Saving(d)' <=> d = c)
    BY <1>5, <1>6, <2>1 DEF Saving
  <2>5. recorded \subseteq pieces /\ disk # c
    BY <1>0, <2>1, <2>2, PinsAssumption DEF Orderly, NoFile
  <2>6. /\ tmp' = c /\ pin'[c].fd = c
        /\ recorded' \cup {Of(c)'} \subseteq pin'[c].body /\ pin'[c].body \subseteq pieces'
        /\ pin'[c].at # "rename"
    BY <1>0, <1>1, <1>3, <1>5, <1>6, <2>3, <2>5 DEF Of
  <2>7. disk' # NoFile => disk' \in Pins /\ pin'[disk'].op # "path" /\ pin'[disk'].at # "new"
    BY <1>0, <1>5, <1>6, <2>2 DEF Orderly
  <2>8. Written' = Written
    BY <1>0, <1>1, <2>3, <2>5 DEF Written, ShapeInv
  <2>9. recorded' \subseteq Written' /\ recorded' \subseteq held' /\ recorded' \subseteq pieces'
    BY <1>0, <2>2, <2>5, <2>8 DEF Orderly
  <2>10. ASSUME NEW d \in Pins, Signed(d)' PROVE Of(d)' \in held'
    <3>1. Signed(d)
      BY <1>0, <1>6, <2>4, <2>10 DEF Signed
    <3>2. QED BY <1>0, <1>5, <1>6, <2>2, <3>1 DEF Orderly, Of
  <2>11. ASSUME NEW d \in Pins
         PROVE  /\ pin'[d].knows => Of(d)' \in recorded'
                /\ unread' \/ pin'[d].at \in {"absent", "claimed"} => ~pin'[d].knows
    BY <1>0, <1>5, <1>6, <2>2 DEF Orderly, Of
  <2>12. QED BY <2>4, <2>6, <2>7, <2>9, <2>10, <2>11 DEF Orderly
<1>9. QED BY <1>7, <1>8 DEF PinsInv

(* The file it has open is written.                                         *)
LEMMA WritesStep ==
  ASSUME ShapeInv, PinsInv, NEW c \in Pins, Writes(c)
  PROVE  ShapeInv' /\ PinsInv'
<1>0. /\ pin[c] \in PinRecords /\ pin[c].at = "write" /\ Saving(c)
      /\ UNCHANGED <<held, pieces, ledgerLoaded, unread, tmp, disk, recorded, excuse>>
      /\ pin[c].op = "path" /\ Of(c) \in Contents /\ pin[c].body \subseteq Contents /\ pin[c].fd \in Pins
  BY DEF Writes, ShapeInv, CallShape, StoreStages, Saving
<1>1. PICK content \in {pin[c].body, Torn} :
        /\ files' = [files EXCEPT ![pin[c].fd] = content]
        /\ content # pin[c].body => \E d \in Pins \ {c} : Saving(d)
  BY DEF Writes, Saving
<1>2. pin' = [pin EXCEPT ![c].at = "rename"]
  BY DEF Writes, Goes
<1>4. PICK p : p = [pin[c] EXCEPT !.at = "rename"]
  OBVIOUS
<1>5. /\ p \in PinRecords /\ p.at = "rename" /\ p.op = pin[c].op /\ p.of = pin[c].of
      /\ p.knows = pin[c].knows /\ p.body = pin[c].body /\ p.fd = pin[c].fd
  BY <1>0, <1>4 DEF PinRecords, PinStages
<1>6. /\ pin' \in [Pins -> PinRecords] /\ (\A d \in Pins : CallShape(d)')
      /\ \A d, e \in Pins : Loading(d)' /\ Loading(e)' => d = e
      /\ \A d \in Pins : Loading(d)' => Loading(d) /\ d # c
      /\ \A d \in Pins : d # c => pin'[d] = pin[d]
      /\ pin'[c] = p
  BY <1>0, <1>2, <1>4, <1>5, OneCall DEF StoreStages, Of
<1>7. ShapeInv'
  BY <1>0, <1>1, <1>6 DEF ShapeInv
<1>8. ASSUME ~excuse' PROVE Orderly'
  <2>1. Orderly
    BY <1>0, <1>8 DEF PinsInv
  <2>2. pin[c].fd = c /\ tmp = c /\ content = pin[c].body
    BY <1>0, <1>1, <2>1 DEF Orderly
  <2>3. \A d \in Pins : ~Loading(d)' /\ ~Loading(d) /\ (Saving(d)' <=> d = c) /\ (Saving(d) <=> d = c)
    BY <1>0, <1>5, <1>6, <2>1 DEF Orderly, Saving
  <2>4. disk # c
    BY <1>0, <2>1, PinsAssumption DEF Orderly, NoFile
  <2>5. files'[c] = pin[c].body
    BY <1>1, <2>2 DEF ShapeInv
  <2>6. /\ tmp' = c /\ pin'[c].fd = c
        /\ recorded' \cup {Of(c)'} \subseteq pin'[c].body /\ pin'[c].body \subseteq pieces'
        /\ files'[c] = pin'[c].body
    BY <1>0, <1>5, <1>6, <2>1, <2>2, <2>5 DEF Orderly, Of
  <2>7. disk' # NoFile => disk' \in Pins /\ pin'[disk'].op # "path" /\ pin'[disk'].at # "new"
    BY <1>0, <1>5, <1>6, <2>1 DEF Orderly
  <2>8. Written' = Written
    BY <1>0, <1>1, <2>2, <2>4 DEF Written, ShapeInv
  <2>9. recorded' \subseteq Written' /\ recorded' \subseteq held' /\ recorded' \subseteq pieces'
    BY <1>0, <2>1, <2>6, <2>8 DEF Orderly
  <2>10. ASSUME NEW d \in Pins, Signed(d)' PROVE Of(d)' \in held'
    <3>1. Signed(d)
      BY <1>0, <1>6, <2>3, <2>10 DEF Signed
    <3>2. QED BY <1>0, <1>5, <1>6, <2>1, <3>1 DEF Orderly, Of
  <2>11. ASSUME NEW d \in Pins
         PROVE  /\ pin'[d].knows => Of(d)' \in recorded'
                /\ unread' \/ pin'[d].at \in {"absent", "claimed"} => ~pin'[d].knows
    BY <1>0, <1>5, <1>6, <2>1 DEF Orderly, Of
  <2>12. QED BY <2>3, <2>6, <2>7, <2>9, <2>10, <2>11 DEF Orderly
<1>9. QED BY <1>7, <1>8 DEF PinsInv

(* The call's record after its save.                                        *)
LEMMA SavedShape ==
  ASSUME ShapeInv, NEW c \in Pins, Saving(c), Saved(c), ledgerLoaded' = ledgerLoaded
  PROVE  /\ pin' \in [Pins -> PinRecords] /\ (\A d \in Pins : CallShape(d)')
         /\ \A d, e \in Pins : Loading(d)' /\ Loading(e)' => d = e
         /\ \A d \in Pins : Loading(d)' => Loading(d) /\ d # c
         /\ \A d \in Pins : d # c => pin'[d] = pin[d]
         /\ pin'[c].at = "check" /\ pin'[c].op = "cid" /\ pin'[c].of = pin[c].of
         /\ pin'[c].knows = pin[c].knows
<1>0. pin[c] \in PinRecords /\ pin[c].of \in Contents
  BY DEF ShapeInv, CallShape, Saving, StoreStages, Of
<1>4. PICK p : p = [pin[c] EXCEPT !.op = "cid", !.at = "check", !.body = {}, !.fd = NoFile, !.tries = 0]
  OBVIOUS
<1>5. /\ p \in PinRecords /\ p.at = "check" /\ p.op = "cid" /\ p.of = pin[c].of
      /\ p.knows = pin[c].knows
  <2>1. "check" \in PinStages /\ 0 \in 0..2 /\ NoFile \in Pins \cup {NoFile}
    BY DEF PinStages
  <2>2. QED BY <1>0, <1>4, <2>1 DEF PinRecords
<1>6. pin' = [pin EXCEPT ![c] = p]
  BY <1>4 DEF Saved
<1>7. QED BY <1>0, <1>5, <1>6, OneCall DEF StoreStages

(* The file takes the ledger's name.                                        *)
LEMMA RenamesStep ==
  ASSUME ShapeInv, PinsInv, NEW c \in Pins, Renames(c)
  PROVE  ShapeInv' /\ PinsInv'
<1>0. /\ pin[c].at = "rename" /\ Saving(c) /\ Saved(c) /\ tmp # NoFile
      /\ disk' = tmp /\ tmp' = NoFile
      /\ files' = IF disk = NoFile THEN files ELSE [files EXCEPT ![disk] = {}]
      /\ recorded' = recorded \cup {Of(c)}
      /\ UNCHANGED <<held, pieces, ledgerLoaded, unread, excuse>>
      /\ pin[c].op = "path"
  BY DEF Renames, Saving, ShapeInv, CallShape, StoreStages
<1>1. /\ pin' \in [Pins -> PinRecords] /\ (\A d \in Pins : CallShape(d)')
      /\ \A d, e \in Pins : Loading(d)' /\ Loading(e)' => d = e
      /\ \A d \in Pins : Loading(d)' => Loading(d) /\ d # c
      /\ \A d \in Pins : d # c => pin'[d] = pin[d]
      /\ pin'[c].at = "check" /\ pin'[c].op = "cid" /\ pin'[c].of = pin[c].of
      /\ pin'[c].knows = pin[c].knows
  BY <1>0, SavedShape
<1>2. ShapeInv'
  BY <1>0, <1>1 DEF ShapeInv
<1>3. ASSUME ~excuse' PROVE Orderly'
  <2>1. Orderly
    BY <1>0, <1>3 DEF PinsInv
  <2>2. tmp = c /\ recorded \cup {Of(c)} \subseteq files[c] /\ recorded' \subseteq pieces
    BY <1>0, <2>1 DEF Orderly
  <2>3. \A d \in Pins : ~Loading(d)' /\ ~Saving(d)' /\ ~Loading(d) /\ (Saving(d) => d = c)
    BY <1>0, <1>1, <2>1 DEF Orderly, Saving
  <2>4. disk # c
    BY <1>0, <2>1, PinsAssumption DEF Orderly, NoFile
  <2>5. files'[c] = files[c] /\ files[c] \subseteq Contents
    <3>1. files[c] = pin[c].body /\ pin[c].body \subseteq Contents
      BY <1>0, <2>1 DEF Orderly, ShapeInv, CallShape
    <3>2. QED BY <1>0, <2>4, <3>1 DEF ShapeInv
  <2>6. recorded' \subseteq Written'
    <3>1. files'[c] # Torn
      BY <2>5, ContentsAssumption DEF Torn
    <3>2. Written' = files[c]
      BY <1>0, <2>2, <2>5, <3>1 DEF Written
    <3>3. QED BY <1>0, <2>2, <3>2
  <2>7. disk' \in Pins /\ pin'[disk'].op # "path" /\ pin'[disk'].at # "new"
    BY <1>0, <1>1, <2>2
  <2>8. Of(c) \in held /\ recorded' \subseteq held'
    BY <1>0, <2>1 DEF Orderly, Signed
  <2>9. ASSUME NEW d \in Pins, Signed(d)' PROVE Of(d)' \in held'
    BY <1>0, <1>1, <2>1, <2>3, <2>9 DEF Signed, Orderly, Of
  <2>10. ASSUME NEW d \in Pins
         PROVE  /\ pin'[d].knows => Of(d)' \in recorded'
                /\ unread' \/ pin'[d].at \in {"absent", "claimed"} => ~pin'[d].knows
    BY <1>0, <1>1, <2>1 DEF Orderly, Of
  <2>11. QED BY <1>0, <2>2, <2>3, <2>6, <2>7, <2>8, <2>9, <2>10 DEF Orderly
<1>4. QED BY <1>2, <1>3 DEF PinsInv

LEMMA SaveFailsStep ==
  ASSUME ShapeInv, PinsInv, NEW c \in Pins, SaveFails(c)
  PROVE  ShapeInv' /\ PinsInv'
<1>0. /\ Saving(c) /\ Saved(c) /\ excuse' = TRUE
      /\ UNCHANGED <<pieces, ledgerLoaded, unread, files, tmp, disk>>
  BY DEF SaveFails, fileVars
<1>1. /\ pin' \in [Pins -> PinRecords] /\ (\A d \in Pins : CallShape(d)')
      /\ \A d, e \in Pins : Loading(d)' /\ Loading(e)' => d = e
  BY <1>0, SavedShape
<1>2. QED BY <1>0, <1>1 DEF ShapeInv, PinsInv

(* The process ends: the file that bears the ledger's name stays.           *)
LEMMA PinsCrashStep ==
  ASSUME ShapeInv, PinsInv, PinsCrash
  PROVE  ShapeInv' /\ PinsInv'
<1>0. /\ pin' = [c \in Pins |-> IF pin[c].at = "new" THEN pin[c] ELSE Ended("lost")]
      /\ pieces' = {} /\ ledgerLoaded' = FALSE /\ unread' = FALSE /\ tmp' = NoFile
      /\ files' = [f \in Pins |-> IF f = disk THEN files[f] ELSE {}]
      /\ UNCHANGED <<held, disk, recorded, excuse>>
  BY DEF PinsCrash
<1>1. PICK p : p = Ended("lost")
  OBVIOUS
<1>2. /\ p \in PinRecords /\ p.at = "lost" /\ p.op = "none" /\ p.knows = FALSE
  <2>1. "lost" \in PinStages
    BY DEF PinStages
  <2>2. p = [Fresh EXCEPT !.at = "lost"]
    BY <1>1 DEF Ended
  <2>3. Fresh.op = "none" /\ Fresh.knows = FALSE
    BY DEF Fresh
  <2>4. QED BY <2>1, <2>2, <2>3, FreshType DEF PinRecords
<1>3. \A c \in Pins : pin'[c] \in PinRecords /\ (pin[c].at = "new" => pin'[c] = Fresh)
                      /\ (pin[c].at # "new" => pin'[c] = p)
  BY <1>0, <1>1, <1>2, FreshType DEF ShapeInv, CallShape
<1>4. Fresh.at = "new" /\ Fresh.op = "none" /\ Fresh.knows = FALSE
  BY DEF Fresh
<1>5. \A c \in Pins : /\ ~Saving(c)' /\ ~Loading(c)' /\ ~Signed(c)' /\ CallShape(c)' /\ ~pin'[c].knows
                      /\ pin'[c].op = "none" /\ (pin[c].at # "new" => pin'[c].at # "new")
  BY <1>2, <1>3, <1>4 DEF Saving, Loading, Signed, CallShape, StoreStages
<1>6. files' \in [Pins -> {Torn} \cup SUBSET Contents]
  BY <1>0 DEF ShapeInv
<1>7. ShapeInv'
  BY <1>0, <1>3, <1>5, <1>6 DEF ShapeInv
<1>8. ASSUME ~excuse' PROVE Orderly'
  <2>1. Orderly
    BY <1>0, <1>8 DEF PinsInv
  <2>2. Written' = Written
    BY <1>0 DEF Written, ShapeInv
  <2>3. disk' # NoFile => disk' \in Pins /\ pin'[disk'].op # "path" /\ pin'[disk'].at # "new"
    BY <1>0, <1>5, <2>1 DEF Orderly
  <2>4. recorded' \subseteq Written' /\ recorded' \subseteq held'
    BY <1>0, <2>1, <2>2 DEF Orderly
  <2>5. QED BY <1>0, <1>5, <2>3, <2>4 DEF Orderly
<1>9. QED BY <1>7, <1>8 DEF PinsInv

LEMMA PinsStep ==
  ASSUME ShapeInv, PinsInv, [PinsNext]_pinVars
  PROVE  ShapeInv' /\ PinsInv'
<1>1. CASE PieceLost
  BY <1>1 DEF PieceLost, ShapeInv, CallShape, PinsInv, Loading, Saving, Of, fileVars
<1>2. CASE UNCHANGED pinVars
  BY <1>2 DEF pinVars, fileVars, ShapeInv, CallShape, PinsInv, Orderly, Loading, Saving, Signed, Of, Written
<1>3. QED
  BY <1>1, <1>2, QuietPins, EnsuresStep, LoadsStep, LoadFailsStep, RecordsStep, WritesStep,
     RenamesStep, SaveFailsStep, PinsCrashStep DEF PinsNext

(* PinsAreKept: a piece whose store has returned stays in the ledger file,  *)
(* through later stores, pins, failed reads and restarts, and is not denied *)
(* by a later read-back of a process that could read it                     *)
(* (FilecoinBackend.store, persistLedger, ensureLedger, checkPin).          *)
THEOREM PinsKept == PinsSpec => []PinsAreKept
<1>1. PinsInit => ShapeInv /\ PinsInv
  <2> SUFFICES ASSUME PinsInit PROVE ShapeInv /\ PinsInv
    OBVIOUS
  <2>2. Fresh.at = "new" /\ Fresh.op = "none" /\ Fresh.knows = FALSE
    BY DEF Fresh
  <2>3. \A c \in Pins : /\ pin[c] = Fresh /\ ~Saving(c) /\ ~Loading(c) /\ ~Signed(c) /\ CallShape(c)
    <3>1. \A c \in Pins : pin[c] = Fresh
      BY DEF PinsInit
    <3>2. QED BY <2>2, <3>1 DEF Saving, Loading, Signed, CallShape, StoreStages
  <2>4. ShapeInv
    <3>1. pin \in [Pins -> PinRecords]
      BY FreshType DEF PinsInit
    <3>2. files \in [Pins -> {Torn} \cup SUBSET Contents] /\ pieces \subseteq Contents
      BY DEF PinsInit
    <3>3. {tmp, disk} \subseteq Pins \cup {NoFile} /\ ledgerLoaded \in BOOLEAN /\ excuse \in BOOLEAN /\ unread \in BOOLEAN
      BY DEF PinsInit
    <3>4. QED BY <2>3, <3>1, <3>2, <3>3 DEF ShapeInv
  <2>5. Orderly
    <3>1. recorded = {} /\ tmp = NoFile /\ disk = NoFile
      BY DEF PinsInit
    <3>2. QED BY <2>2, <2>3, <3>1 DEF Orderly
  <2>6. QED BY <2>4, <2>5 DEF PinsInv
<1>2. ShapeInv /\ PinsInv /\ [PinsNext]_pinVars => (ShapeInv /\ PinsInv)'
  BY PinsStep
<1>3. PinsInv => PinsAreKept
  BY DEF PinsInv, Orderly, PinsAreKept, RecordedIsKept, NotForgotten
<1>4. QED BY <1>1, <1>2, <1>3, PTL DEF PinsSpec

-----------------------------------------------------------------------------
(* HavenRecord: what was accepted is found again and known again.           *)

(* Two spellings of the same digits are written alike.                      *)
LEMMA HexForms ==
  ASSUME NEW s, NEW b, NEW u, NEW p, NEW w, NEW q
  PROVE  /\ Hex(s, b, u, p).is = s /\ Hex(s, b, u, p).prefix = p
         /\ Lowered(Hex(s, b, u, p)) = Lowered(Hex(s, b, w, p))
         /\ Bare(Hex(s, b, u, p)) = Bare(Hex(s, b, w, q))
         /\ Prefixed(Hex(s, b, u, p)) = Prefixed(Hex(s, b, w, q))
<1> DEFINE D == {"is", "body", "upper", "prefix"}
<1>1. PICK h, k, l : h = Hex(s, b, u, p) /\ k = Hex(s, b, w, q) /\ l = Hex(s, b, w, p)
  OBVIOUS
<1>2. /\ h.is = s /\ h.body = b /\ h.prefix = p /\ DOMAIN h = D
      /\ k.is = s /\ k.body = b /\ DOMAIN k = D
      /\ l.is = s /\ l.body = b /\ l.prefix = p /\ DOMAIN l = D
  BY <1>1 DEF Hex
<1>3. Lowered(h) = Lowered(l)
  BY <1>2 DEF Lowered
<1>4. Bare(h) = Bare(k)
  <2>1. PICK i, j : i = [h EXCEPT !.upper = FALSE] /\ j = [k EXCEPT !.upper = FALSE]
    OBVIOUS
  <2>2. Bare(h) = [i EXCEPT !.prefix = FALSE] /\ Bare(k) = [j EXCEPT !.prefix = FALSE]
    BY <2>1 DEF Bare
  <2>3. /\ DOMAIN i = D /\ i.is = s /\ i.body = b /\ i.upper = FALSE
        /\ DOMAIN j = D /\ j.is = s /\ j.body = b /\ j.upper = FALSE
    BY <1>2, <2>1
  <2> QED
    BY <2>2, <2>3, ZenonT(60)
<1>5. Prefixed(h) = Prefixed(k)
  <2>1. PICK i, j : i = [h EXCEPT !.upper = FALSE] /\ j = [k EXCEPT !.upper = FALSE]
    OBVIOUS
  <2>2. Prefixed(h) = [i EXCEPT !.prefix = TRUE] /\ Prefixed(k) = [j EXCEPT !.prefix = TRUE]
    BY <2>1 DEF Prefixed
  <2>3. /\ DOMAIN i = D /\ i.is = s /\ i.body = b /\ i.upper = FALSE
        /\ DOMAIN j = D /\ j.is = s /\ j.body = b /\ j.upper = FALSE
    BY <1>2, <2>1
  <2>4. PICK i1, j1 : i1 = [i EXCEPT !.prefix = TRUE] /\ j1 = [j EXCEPT !.prefix = TRUE]
    OBVIOUS
  <2>5. /\ i1 = [x \in D |-> i1[x]] /\ j1 = [x \in D |-> j1[x]]
        /\ \A x \in D : i1[x] = j1[x]
    BY <2>3, <2>4
  <2>6. i1 = j1
    BY <2>5
  <2> QED
    BY <2>2, <2>4, <2>6
<1> QED
  BY <1>1, <1>2, <1>3, <1>4, <1>5

(* What an accepted record of a class may hold under a name.                *)
CellFits(class, x, v) ==
  \/ x = "gate_threshold" /\ requireThreshold(v)
  \/ x = "gate_token" /\ IsAddress(v)
  \/ x = "series_ref" /\ class = "part" /\ IsDigest(v)
  \/ x = "sha256_ct" /\ class # "series" /\ IsDigest(v)
  \/ x \in I32Facts /\ v.is = "number"
  \/ x \in {"grp", "title", "drip_id"} /\ IsString(v)

ClassOf(e) == GroupClass[e.attributes["grp"].text]

(* A group's class tells the parts from the rest.                           *)
LEMMA ClassFits ==
  ASSUME NEW v, classifyGroup(v)
  PROVE  /\ GroupClass[v.text] \in {"video", "series", "part", "generic"}
         /\ GroupClass[v.text] = "part" <=> v.text = "haven.video.drip.part"
         /\ IsString(v)
BY DEF classifyGroup, GroupClass, IsString

(* What validateHavenWrite answers, when it accepts.                        *)
LEMMA AcceptedRow ==
  ASSUME NEW e, validateHavenWrite(e).ok
  PROVE  LET a == e.attributes
             class == ClassOf(e)
         IN  /\ e.json /\ Has(a, "grp") /\ classifyGroup(a["grp"])
             /\ IfPresent(e, "expiresIn", resolveExpiresIn)
             /\ class = "series" => finishSeries(a, e.payload)
             /\ class = "part" => finishPart(a, e.payload)
             /\ class \in {"video", "generic"} => finishFull(class, a, e.payload)
             /\ validateHavenWrite(e) =
                  [ok |-> TRUE, grpClass |-> class,
                   attributes |-> [x \in DOMAIN a |-> CellOf(class, x, a[x])],
                   expiresIn |-> IF Has(e, "expiresIn") THEN e["expiresIn"].n ELSE DefaultLife[class]]
<1> DEFINE a == e.attributes
           class == ClassOf(e)
           Accepted == CASE class = "series" -> finishSeries(a, e.payload)
                         [] class = "part"   -> finishPart(a, e.payload)
                         [] OTHER            -> finishFull(class, a, e.payload)
           made == [ok |-> TRUE, grpClass |-> class,
                    attributes |-> [x \in DOMAIN a |-> CellOf(class, x, a[x])],
                    expiresIn |-> IF Has(e, "expiresIn") THEN e["expiresIn"].n ELSE DefaultLife[class]]
           good == /\ e.json
                   /\ Has(a, "grp") /\ classifyGroup(a["grp"])
                   /\ Accepted
                   /\ IfPresent(e, "expiresIn", resolveExpiresIn)
<1>1. validateHavenWrite(e) = IF good THEN made ELSE Refused
  BY Zenon DEF validateHavenWrite, ClassOf
<1> HIDE DEF made, good
<1>2. Refused.ok = FALSE
  BY DEF Refused
<1>3. good
  BY <1>1, <1>2
<1>4. validateHavenWrite(e) = made
  BY <1>1, <1>3
<1>5. Accepted /\ class \in {"video", "series", "part", "generic"}
  BY <1>3, ClassFits DEF good, ClassOf
<1>6. /\ class = "series" => finishSeries(a, e.payload)
      /\ class = "part" => finishPart(a, e.payload)
      /\ class \in {"video", "generic"} => finishFull(class, a, e.payload)
  <2> HIDE DEF class
  <2> QED
    BY <1>5
<1> QED
  BY <1>3, <1>4, <1>6 DEF good, made

(* ... in a full record or one of a group of its own, ...                  *)
LEMMA FullFits ==
  ASSUME NEW class, NEW a, NEW p, finishFull(class, a, p), class # "series",
         IsString(a["grp"]), NEW x \in DOMAIN a
  PROVE  CellFits(class, x, a[x])
<1>1. x \in GateAttributes \cup {"grp", "title", "gate_epoch", "sha256_ct", "mime", "dur_s"}
  BY DEF finishFull
<1>2. x = "title" => IsString(a[x])
  BY DEF finishFull, ShortString, SomeString
<1>3. x = "sha256_ct" => IsDigest(a[x])
  BY DEF finishFull
<1>4. x \in {"mime", "dur_s"} => a[x].is = "number"
  BY DEF finishFull, IfPresent, NaturalI32, requireI32
<1>5. x \in GateAttributes \cup {"gate_epoch"} =>
        /\ CorpusAgrees(a, p["gate"].of)
  BY DEF finishFull
<1>6. x = "gate_epoch" => a[x].is = "number"
  BY <1>5 DEF CorpusAgrees, Has, NaturalI32, requireI32
<1>7. x \in {"gate_type", "gate_chain"} => a[x].is = "number"
  BY <1>5 DEF CorpusAgrees, GateAttributes, Number
<1>8. x = "gate_token" => IsAddress(a[x])
  BY <1>5 DEF CorpusAgrees, GateAttributes
<1>9. x = "gate_threshold" => requireThreshold(a[x])
  BY <1>5 DEF CorpusAgrees, GateAttributes
<1> QED
  BY <1>1, <1>2, <1>3, <1>4, <1>6, <1>7, <1>8, <1>9 DEF CellFits, GateAttributes, I32Facts

(* ... in a series ...                                                     *)
LEMMA SeriesFits ==
  ASSUME NEW a, NEW p, finishSeries(a, p), IsString(a["grp"]), NEW x \in DOMAIN a
  PROVE  CellFits("series", x, a[x])
<1>1. x \in GateAttributes \cup {"grp", "title", "drip_id", "drip_total"}
  BY DEF finishSeries
<1>2. /\ IsString(a["title"]) /\ IsString(a["drip_id"])
      /\ a["drip_total"].is = "number" /\ a["gate_chain"].is = "number"
      /\ IsAddress(a["gate_token"]) /\ requireThreshold(a["gate_threshold"])
  BY DEF finishSeries, ShortString, SomeString, requireI32
<1>3. a["gate_type"].is = "number"
  BY DEF finishSeries, Number
<1> QED
  BY <1>1, <1>2, <1>3 DEF CellFits, GateAttributes, I32Facts

(* ... and in a part.                                                      *)
LEMMA PartFits ==
  ASSUME NEW a, NEW p, finishPart(a, p), IsString(a["grp"]), NEW x \in DOMAIN a
  PROVE  CellFits("part", x, a[x])
<1>1. x \in {"grp", "gate_type", "drip_id", "drip_idx", "series_ref", "mcap_usd", "sha256_ct"}
  BY DEF finishPart
<1>2. /\ IsString(a["drip_id"]) /\ a["drip_idx"].is = "number" /\ a["mcap_usd"].is = "number"
      /\ IsDigest(a["series_ref"]) /\ IsDigest(a["sha256_ct"])
  BY DEF finishPart, ShortString, SomeString, NaturalI32, requireI32
<1>3. a["gate_type"].is = "number"
  BY DEF finishPart, Number
<1> QED
  BY <1>1, <1>2, <1>3 DEF CellFits, I32Facts

(* Every attribute of an accepted record is of the kind its name says.      *)
LEMMA AcceptedFits ==
  ASSUME NEW e, validateHavenWrite(e).ok, NEW x \in DOMAIN e.attributes
  PROVE  CellFits(ClassOf(e), x, e.attributes[x])
<1>1. IsString(e.attributes["grp"]) /\ ClassOf(e) \in {"video", "series", "part", "generic"}
  BY AcceptedRow, ClassFits DEF ClassOf
<1>2. CASE ClassOf(e) = "series"
  BY <1>1, <1>2, AcceptedRow, SeriesFits
<1>3. CASE ClassOf(e) = "part"
  BY <1>1, <1>3, AcceptedRow, PartFits
<1>4. CASE ClassOf(e) \in {"video", "generic"}
  BY <1>1, <1>4, AcceptedRow, FullFits
<1> QED
  BY <1>1, <1>2, <1>3, <1>4

(* Spelt another way, an address or a digest keeps its digits and an amount  *)
(* its number.                                                              *)
LEMMA SpeltAs ==
  ASSUME NEW x, NEW v, WellMade(v), NEW u, u = v \/ u \in Spellings(x, v)
  PROVE  /\ x = "gate_token" /\ IsAddress(v) => IsAddress(u) /\ Lowered(u) = Lowered(v)
         /\ x \in {"sha256_ct", "series_ref"} /\ IsDigest(v) =>
              IsDigest(u) /\ Bare(u) = Bare(v) /\ Prefixed(u) = Prefixed(v)
         /\ x \in I32Facts \cup {"gate_threshold"} /\ v.is \in {"number", "digits"} =>
              /\ u.n = v.n /\ v.n \in Int
              /\ u = Number(v.n) \/ u = Digits(v.n)
              /\ u.is = "number" \/ u.is = "digits"
         /\ x \in {"grp", "title", "drip_id"} => u = v
<1>1. ASSUME x = "gate_token", IsAddress(v)
      PROVE  IsAddress(u) /\ Lowered(u) = Lowered(v)
  <2>1. v = Hex("hex40", v.body, v.upper, TRUE)
    BY <1>1 DEF IsAddress, WellMade
  <2>2. u = v \/ \E w \in BOOLEAN : u = Hex("hex40", v.body, w, TRUE)
    <3>1. Spellings("gate_token", v) = {Hex("hex40", v.body, w, TRUE) : w \in BOOLEAN}
      BY DEF Spellings, I32Facts
    <3> QED
      BY <1>1, <3>1
  <2>3. PICK w : u = Hex("hex40", v.body, w, TRUE)
    BY <2>1, <2>2
  <2>4. PICK b, z, t : b = v.body /\ z = v.upper /\ t = TRUE
    OBVIOUS
  <2>5. u = Hex("hex40", b, w, t) /\ v = Hex("hex40", b, z, t)
    BY <2>1, <2>3, <2>4
  <2>6. /\ Lowered(Hex("hex40", b, w, t)) = Lowered(Hex("hex40", b, z, t))
        /\ Hex("hex40", b, w, t).is = "hex40" /\ Hex("hex40", b, w, t).prefix = t
    BY HexForms
  <2>7. Lowered(u) = Lowered(v) /\ u.is = "hex40" /\ u.prefix
    BY <2>4, <2>5, <2>6
  <2> QED
    BY <2>7 DEF IsAddress
<1>2. ASSUME x \in {"sha256_ct", "series_ref"}, IsDigest(v)
      PROVE  IsDigest(u) /\ Bare(u) = Bare(v) /\ Prefixed(u) = Prefixed(v)
  <2>1. v = Hex("hex64", v.body, v.upper, v.prefix)
    BY <1>2 DEF IsDigest, WellMade
  <2>2. u = v \/ \E w, p \in BOOLEAN : u = Hex("hex64", v.body, w, p)
    BY <1>2 DEF Spellings, I32Facts
  <2>3. PICK w, p : u = Hex("hex64", v.body, w, p)
    BY <2>1, <2>2
  <2>4. PICK b, z, q : b = v.body /\ z = v.upper /\ q = v.prefix
    OBVIOUS
  <2>5. /\ u = Hex("hex64", b, w, p) /\ v = Hex("hex64", b, z, q)
    BY <2>1, <2>3, <2>4
  <2>6. /\ Bare(Hex("hex64", b, w, p)) = Bare(Hex("hex64", b, z, q))
        /\ Prefixed(Hex("hex64", b, w, p)) = Prefixed(Hex("hex64", b, z, q))
        /\ Hex("hex64", b, w, p).is = "hex64"
    BY HexForms
  <2>7. Bare(u) = Bare(v) /\ Prefixed(u) = Prefixed(v) /\ u.is = "hex64"
    BY <2>5, <2>6
  <2> QED
    BY <2>7 DEF IsDigest
<1>3. ASSUME x \in I32Facts \cup {"gate_threshold"}, v.is \in {"number", "digits"}
      PROVE  /\ u.n = v.n /\ v.n \in Int
             /\ u = Number(v.n) \/ u = Digits(v.n)
             /\ u.is = "number" \/ u.is = "digits"
  <2>1. v.n \in Int /\ (v = Number(v.n) \/ v = Digits(v.n))
    BY <1>3 DEF WellMade
  <2>2. u = v \/ u \in {Number(v.n), Digits(v.n)}
    BY <1>3 DEF Spellings, I32Facts
  <2>3. PICK n : n = v.n
    OBVIOUS
  <2>4. u = Number(n) \/ u = Digits(n)
    BY <2>1, <2>2, <2>3
  <2>5. u.n = n /\ (u.is = "number" \/ u.is = "digits")
    BY <2>4 DEF Number, Digits
  <2> QED
    BY <2>1, <2>3, <2>4, <2>5
<1>4. ASSUME x \in {"grp", "title", "drip_id"} PROVE u = v
  <2>1. /\ x # "gate_token" /\ x \notin {"sha256_ct", "series_ref"}
        /\ x \notin I32Facts \cup {"gate_threshold"}
    BY <1>4 DEF I32Facts
  <2>2. Spellings(x, v) = {v}
    BY <2>1 DEF Spellings
  <2> QED
    BY <2>2
<1> QED
  BY <1>1, <1>2, <1>3, <1>4

(* The cell that is sought is the cell that was written.                    *)
LEMMA CellFound ==
  ASSUME NEW class \in {"video", "series", "part", "generic"}, NEW x, NEW v, WellMade(v),
         CellFits(class, x, v), NEW u, u = v \/ u \in Spellings(x, v),
         NEW ofPart \in BOOLEAN, ofPart <=> class = "part",
         ~ FilterRefused(x, u), ~ (class = "series" /\ x = "gate_token")
  PROVE  Cell(Filter(x, u, ofPart)) = Cell(CellOf(class, x, v))
<1>1. CASE x = "gate_threshold"
  <2>1. v.is \in {"number", "digits"}
    BY <1>1 DEF CellFits, requireThreshold, I32Facts
  <2>2. u.n = v.n /\ u.is # "tagged"
    BY <1>1, <2>1, SpeltAs
  <2>3. Filter(x, u, ofPart) = Tagged("u256", Number(u.n))
    BY <1>1, <2>2 DEF Filter, SystemAttributes
  <2>4. CellOf(class, x, v) = Tagged("u256", Number(v.n))
    BY <1>1 DEF CellOf
  <2> QED
    BY <2>2, <2>3, <2>4
<1>2. CASE x = "gate_token"
  <2>1. IsAddress(v)
    BY <1>2 DEF CellFits, I32Facts
  <2>2. IsAddress(u) /\ Lowered(u) = Lowered(v)
    BY <1>2, <2>1, SpeltAs
  <2>3. Filter(x, u, ofPart) = Lowered(u)
    BY <1>2, <2>2 DEF Filter, SystemAttributes, IsAddress
  <2>4. CellOf(class, x, v) = Lowered(v)
    BY <1>2 DEF CellOf
  <2> QED
    BY <2>2, <2>3, <2>4
<1>3. CASE x = "series_ref"
  <2>1. IsDigest(v)
    BY <1>3 DEF CellFits, I32Facts
  <2>2. IsDigest(u) /\ Prefixed(u) = Prefixed(v)
    BY <1>3, <2>1, SpeltAs
  <2>3. Filter(x, u, ofPart) = Tagged("key", Prefixed(u))
    BY <1>3, <2>2 DEF Filter, SystemAttributes, IsDigest
  <2>4. CellOf(class, x, v) = Tagged("key", Prefixed(v))
    BY <1>3 DEF CellOf
  <2> QED
    BY <2>2, <2>3, <2>4
<1>4. CASE x = "sha256_ct"
  <2>1. IsDigest(v)
    BY <1>4 DEF CellFits, I32Facts
  <2>2. IsDigest(u) /\ Prefixed(u) = Prefixed(v) /\ Bare(u) = Bare(v)
    BY <1>4, <2>1, SpeltAs
  <2>3. Filter(x, u, ofPart) = IF ofPart THEN Tagged("bytes32", Prefixed(u)) ELSE Bare(u)
    BY <1>4, <2>2 DEF Filter, SystemAttributes, IsDigest
  <2>4. CellOf(class, x, v) = IF class = "part" THEN Tagged("bytes32", Prefixed(v)) ELSE Bare(v)
    BY <1>4 DEF CellOf
  <2> QED
    BY <2>2, <2>3, <2>4
<1>5. CASE x \in I32Facts
  <2>1. v.is = "number"
    BY <1>5 DEF CellFits, I32Facts
  <2>2. u.is = "number" \/ u.is = "digits"
    BY <1>5, <2>1, SpeltAs
  <2>3. u.is = "number"
    BY <1>5, <2>2 DEF FilterRefused, IsString, SystemAttributes, I32Facts
  <2>4. u = Number(v.n) /\ v = Number(v.n)
    <3>1. u = Number(v.n) \/ u = Digits(v.n)
      BY <1>5, <2>1, SpeltAs, SMTT(40)
    <3>2. Digits(v.n).is = "digits"
      BY DEF Digits
    <3> QED
      BY <2>1, <2>3, <3>1, <3>2 DEF WellMade
  <2>5. Filter(x, u, ofPart) = v
    BY <1>5, <2>3, <2>4 DEF Filter, SystemAttributes, I32Facts
  <2>6. CellOf(class, x, v) = v \/ CellOf(class, x, v) = Tagged("i32", v)
    BY <1>5 DEF CellOf, I32Facts
  <2>7. Cell(v) = v /\ Cell(Tagged("i32", v)) = v
    BY <2>1 DEF Cell, Tagged
  <2> QED
    BY <2>5, <2>6, <2>7
<1>6. CASE x \in {"grp", "title", "drip_id"}
  <2>1. IsString(v) /\ u = v
    BY <1>6, SpeltAs DEF CellFits, I32Facts
  <2>2. v.is # "tagged"
    BY <2>1 DEF IsString
  <2>3. Filter(x, u, ofPart) = v
    BY <1>6, <2>1, <2>2 DEF Filter, SystemAttributes
  <2>4. CellOf(class, x, v) = v \/ CellOf(class, x, v) = Tagged("str", v)
    BY <1>6 DEF CellOf, I32Facts
  <2>5. Cell(v) = v /\ Cell(Tagged("str", v)) = v
    BY <2>2 DEF Cell, Tagged
  <2> QED
    BY <2>3, <2>4, <2>5
<1> QED
  BY <1>1, <1>2, <1>3, <1>4, <1>5, <1>6 DEF CellFits

(* Attributes that differ in how an address, a digest or an amount is spelt. *)
SameButSpelt(a, w, x) ==
  /\ DOMAIN w = DOMAIN a /\ x \in DOMAIN a
  /\ \A y \in DOMAIN a : y # x => w[y] = a[y]
  /\ x \in {"gate_threshold", "gate_token", "series_ref", "sha256_ct"}
  /\ x = "gate_threshold" => requireThreshold(w[x]) /\ w[x].n = a[x].n
  /\ x = "gate_token" => IsAddress(w[x]) /\ Lowered(w[x]) = Lowered(a[x])
  /\ x \in {"series_ref", "sha256_ct"} =>
       IsDigest(w[x]) /\ Bare(w[x]) = Bare(a[x]) /\ Prefixed(w[x]) = Prefixed(a[x])

(* The searchable corpus agrees with the gate, however it is spelt.        *)
LEMMA CorpusAgain ==
  ASSUME NEW a, NEW w, NEW x, NEW g, SameButSpelt(a, w, x), CorpusAgrees(a, g)
  PROVE  CorpusAgrees(w, g)
<1>1. /\ w["gate_type"] = a["gate_type"] /\ w["gate_chain"] = a["gate_chain"]
      /\ Has(w, "gate_epoch") <=> Has(a, "gate_epoch")
      /\ Has(a, "gate_epoch") => w["gate_epoch"] = a["gate_epoch"]
      /\ GateAttributes \subseteq DOMAIN w
  BY DEF SameButSpelt, CorpusAgrees, GateAttributes, Has
<1>2. IsAddress(w["gate_token"]) /\ Lowered(w["gate_token"]) = Lowered(g["tokenAddress"])
  <2>1. IsAddress(a["gate_token"]) /\ Lowered(a["gate_token"]) = Lowered(g["tokenAddress"])
    BY DEF CorpusAgrees
  <2>2. "gate_token" \in DOMAIN a
    BY DEF CorpusAgrees, GateAttributes
  <2> QED
    BY <2>1, <2>2 DEF SameButSpelt
<1>3. requireThreshold(w["gate_threshold"]) /\ w["gate_threshold"].n = g["threshold"].n
  <2>1. requireThreshold(a["gate_threshold"]) /\ a["gate_threshold"].n = g["threshold"].n
    BY DEF CorpusAgrees
  <2>2. "gate_threshold" \in DOMAIN a
    BY DEF CorpusAgrees, GateAttributes
  <2> QED
    BY <2>1, <2>2 DEF SameButSpelt
<1>4. /\ a["gate_type"] \in {Number(1), Number(3)} /\ a["gate_type"] = g["version"]
      /\ a["gate_chain"] = Number(ChainId[g["chain"].text]) /\ gateThresholdValue(g["threshold"])
      /\ IF a["gate_type"] = Number(3)
         THEN Has(a, "gate_epoch") /\ NaturalI32(a["gate_epoch"]) /\ a["gate_epoch"] = g["epoch"]
         ELSE ~ Has(a, "gate_epoch")
  BY Zenon DEF CorpusAgrees
<1>5. IF w["gate_type"] = Number(3)
      THEN Has(w, "gate_epoch") /\ NaturalI32(w["gate_epoch"]) /\ w["gate_epoch"] = g["epoch"]
      ELSE ~ Has(w, "gate_epoch")
  BY <1>1, <1>4
<1> QED
  BY <1>1, <1>2, <1>3, <1>4, <1>5, Zenon DEF CorpusAgrees

(* So a full record is accepted again, ...                                 *)
LEMMA FullAgain ==
  ASSUME NEW class, NEW a, NEW w, NEW x, NEW p, SameButSpelt(a, w, x), finishFull(class, a, p)
  PROVE  finishFull(class, w, p)
<1>1. /\ NamedAsItsGroup(p, class) /\ validateCommonPayloadExtras(p, class)
      /\ requireLocator(p) /\ GatedAsItsLocator(p)
  BY DEF finishFull
<1>2. Has(w, "title") /\ ShortString(w["title"])
  BY DEF finishFull, SameButSpelt, Has
<1>3. IF Has(p, "piece")
      THEN CorpusAgrees(w, p["gate"].of)
      ELSE DOMAIN w \cap (GateAttributes \cup {"gate_epoch"}) = {}
  BY CorpusAgain DEF finishFull, SameButSpelt
<1>4. Has(w, "sha256_ct") /\ IsDigest(w["sha256_ct"])
  BY DEF finishFull, SameButSpelt, Has
<1>5. IfPresent(w, "mime", LAMBDA v : requireI32(v) /\ v.n \in 0 .. 14 /\ ~ Has(p, "ct"))
  BY DEF finishFull, SameButSpelt, IfPresent
<1>6. IfPresent(w, "dur_s", LAMBDA v : class = "video" /\ NaturalI32(v))
  BY DEF finishFull, SameButSpelt, IfPresent
<1>7. DOMAIN w \subseteq GateAttributes
            \cup {"grp", "title", "gate_epoch", "sha256_ct", "mime", "dur_s"}
  BY DEF finishFull, SameButSpelt
<1> QED
  BY <1>1, <1>2, <1>3, <1>4, <1>5, <1>6, <1>7 DEF finishFull

(* ... a series ...                                                        *)
LEMMA SeriesAgain ==
  ASSUME NEW a, NEW w, NEW x, NEW p, SameButSpelt(a, w, x), finishSeries(a, p)
  PROVE  finishSeries(w, p)
<1>1. /\ DOMAIN p \subseteq {"targets", "creator", "mime"}
      /\ Has(p, "targets") /\ p["targets"].is = "targets" /\ p["targets"].n > 0
      /\ IfPresent(p, "creator", IsString)
      /\ IfPresent(p, "mime", LAMBDA v : v.is = "number" /\ v.n \in 0 .. 14)
  BY DEF finishSeries
<1>2. DOMAIN w = GateAttributes \cup {"grp", "title", "drip_id", "drip_total"} /\ DOMAIN a = DOMAIN w
  BY DEF finishSeries, SameButSpelt
<1>3. /\ w["gate_type"] = a["gate_type"] /\ w["drip_total"] = a["drip_total"]
      /\ w["gate_chain"] = a["gate_chain"] /\ w["title"] = a["title"] /\ w["drip_id"] = a["drip_id"]
  BY <1>2 DEF SameButSpelt, GateAttributes
<1>4. IsAddress(w["gate_token"]) /\ requireThreshold(w["gate_threshold"])
  <2>1. IsAddress(a["gate_token"]) /\ requireThreshold(a["gate_threshold"])
    BY DEF finishSeries
  <2>2. "gate_token" \in DOMAIN a /\ "gate_threshold" \in DOMAIN a
    BY <1>2 DEF GateAttributes
  <2> QED
    BY <2>1, <2>2 DEF SameButSpelt
<1>5. /\ a["gate_type"] = Number(4) /\ a["drip_total"] = Number(p["targets"].n)
      /\ requireI32(a["drip_total"]) /\ requireI32(a["gate_chain"]) /\ a["gate_chain"].n > 0
      /\ ShortString(a["title"]) /\ ShortString(a["drip_id"])
  BY DEF finishSeries
<1> QED
  BY <1>1, <1>2, <1>3, <1>4, <1>5 DEF finishSeries

(* ... and a part.                                                         *)
LEMMA PartAgain ==
  ASSUME NEW a, NEW w, NEW x, NEW p, SameButSpelt(a, w, x), finishPart(a, p)
  PROVE  finishPart(w, p)
<1>1. /\ DOMAIN p = {"piece", "gate"} /\ p["piece"].is = "piece" /\ p["piece"].whole
      /\ parseGateJson(p["gate"]) /\ p["gate"].of["version"] = Number(4)
      /\ gateThresholdValue(p["gate"].of["threshold"])
  BY DEF finishPart
<1>2. /\ DOMAIN w = {"grp", "gate_type", "drip_id", "drip_idx", "series_ref", "mcap_usd", "sha256_ct"}
      /\ DOMAIN a = DOMAIN w
  BY DEF finishPart, SameButSpelt
<1>3. /\ w["gate_type"] = a["gate_type"] /\ w["drip_id"] = a["drip_id"]
      /\ w["drip_idx"] = a["drip_idx"] /\ w["mcap_usd"] = a["mcap_usd"]
  BY <1>2 DEF SameButSpelt
<1>4. IsDigest(w["series_ref"]) /\ IsDigest(w["sha256_ct"])
  <2>1. IsDigest(a["series_ref"]) /\ IsDigest(a["sha256_ct"])
    BY DEF finishPart
  <2> QED
    BY <1>2, <2>1 DEF SameButSpelt
<1>5. /\ a["gate_type"] = Number(4) /\ ShortString(a["drip_id"])
      /\ NaturalI32(a["drip_idx"]) /\ NaturalI32(a["mcap_usd"])
  BY DEF finishPart
<1> QED
  BY <1>1, <1>2, <1>3, <1>4, <1>5 DEF finishPart

(* Spelt another way, the same cells are written.                           *)
LEMMA CellsAgain ==
  ASSUME NEW class, NEW a, NEW w, NEW x, SameButSpelt(a, w, x), NEW y \in DOMAIN a
  PROVE  CellOf(class, y, w[y]) = CellOf(class, y, a[y])
<1>1. CASE y # x
  BY <1>1 DEF SameButSpelt
<1>2. CASE y = x /\ x = "gate_threshold"
  BY <1>2 DEF SameButSpelt, CellOf
<1>3. CASE y = x /\ x = "series_ref"
  BY <1>3 DEF SameButSpelt, CellOf
<1>4. CASE y = x /\ x = "sha256_ct"
  <2>1. Bare(w[x]) = Bare(a[x]) /\ Prefixed(w[x]) = Prefixed(a[x])
    BY <1>4 DEF SameButSpelt
  <2> QED
    BY <1>4, <2>1 DEF CellOf
<1>5. CASE y = x /\ x = "gate_token"
  <2>1. Lowered(w[x]) = Lowered(a[x])
    BY <1>5 DEF SameButSpelt
  <2> QED
    BY <1>5, <2>1 DEF CellOf
<1> QED
  BY <1>1, <1>2, <1>3, <1>4, <1>5 DEF SameButSpelt

(* A filter that is not refused seeks under each name what Filter makes.    *)
LEMMA FilterCells ==
  ASSUME NEW w, normalizeHavenWhere(w).ok
  PROVE  LET ofPart == Has(w, "grp") /\ w["grp"] = Text("haven.video.drip.part")
             f == normalizeHavenWhere(w)
         IN  /\ \A y \in DOMAIN w : ~ FilterRefused(y, w[y])
             /\ DOMAIN f.where = DOMAIN w
             /\ \A y \in DOMAIN w : f.where[y] = Filter(y, w[y], ofPart)
<1> DEFINE ofPart == Has(w, "grp") /\ w["grp"] = Text("haven.video.drip.part")
           refused == \E x \in DOMAIN w : FilterRefused(x, w[x])
           cells == [x \in DOMAIN w |-> Filter(x, w[x], ofPart)]
<1>1. normalizeHavenWhere(w) = IF refused THEN Refused ELSE [ok |-> TRUE, where |-> cells]
  BY Zenon DEF normalizeHavenWhere
<1>2. Refused.ok = FALSE
  BY DEF Refused
<1>3. ~ refused
  BY <1>1, <1>2
<1>4. normalizeHavenWhere(w).where = cells
  <2> HIDE DEF cells
  <2> QED
    BY <1>1, <1>3
<1> QED
  BY <1>3, <1>4

(* An accepted record is found by what its writer gave.                    *)
LEMMA Found ==
  ASSUME Asked(entry), row = validateHavenWrite(entry), row.ok
  PROVE  FoundAgain
<1>1. PICK a, class : a = entry.attributes /\ class = ClassOf(entry)
  OBVIOUS
<1>2. /\ Has(a, "grp") /\ classifyGroup(a["grp"]) /\ class = GroupClass[a["grp"].text]
      /\ row.grpClass = class /\ row.attributes = [x \in DOMAIN a |-> CellOf(class, x, a[x])]
  BY <1>1, AcceptedRow DEF ClassOf
<1>3. /\ class \in {"video", "series", "part", "generic"}
      /\ class = "part" <=> a["grp"] = Text("haven.video.drip.part")
  <2>1. /\ class = "part" <=> a["grp"].text = "haven.video.drip.part"
        /\ class \in {"video", "series", "part", "generic"}
    BY <1>2, ClassFits
  <2>2. a["grp"].is = "text" /\ "grp" \in DOMAIN a
    BY <1>2 DEF classifyGroup, Has
  <2>3. a["grp"] = Text(a["grp"].text)
    BY <1>1, <2>2 DEF Asked, WellMade
  <2>4. Text("haven.video.drip.part").text = "haven.video.drip.part"
    BY DEF Text
  <2> QED
    BY <2>1, <2>3, <2>4
<1>4. \A y \in DOMAIN a : WellMade(a[y]) /\ CellFits(class, y, a[y])
  BY <1>1, AcceptedFits DEF Asked
<1> SUFFICES ASSUME NEW x \in DOMAIN a, NEW v \in Spellings(x, a[x]),
                    normalizeHavenWhere([a EXCEPT ![x] = v]).ok,
                    NEW y \in DOMAIN normalizeHavenWhere([a EXCEPT ![x] = v]).where
             PROVE  \/ row.grpClass = "series" /\ y = "gate_token"
                    \/ Cell(normalizeHavenWhere([a EXCEPT ![x] = v]).where[y]) = Cell(row.attributes[y])
  BY <1>1 DEF FoundAgain
<1>5. PICK w : w = [a EXCEPT ![x] = v]
  OBVIOUS
<1>6. /\ DOMAIN w = DOMAIN a /\ w[x] = v /\ \A z \in DOMAIN a : z # x => w[z] = a[z]
  BY <1>5
<1>7. Has(w, "grp") /\ w["grp"] = a["grp"]
  <2>1. x = "grp" => v = a[x]
    BY <1>4, SpeltAs
  <2> QED
    BY <1>2, <1>6, <2>1 DEF Has
<1>8. PICK ofPart \in BOOLEAN : ofPart <=> Has(w, "grp") /\ w["grp"] = Text("haven.video.drip.part")
  OBVIOUS
<1>9. /\ y \in DOMAIN a /\ ~ FilterRefused(y, w[y])
      /\ normalizeHavenWhere(w).where[y] = Filter(y, w[y], ofPart)
  <2>1. /\ \A z \in DOMAIN w : ~ FilterRefused(z, w[z])
        /\ DOMAIN normalizeHavenWhere(w).where = DOMAIN w
        /\ \A z \in DOMAIN w : normalizeHavenWhere(w).where[z] =
             Filter(z, w[z], Has(w, "grp") /\ w["grp"] = Text("haven.video.drip.part"))
    BY <1>5, FilterCells, Zenon
  <2>2. ofPart = (Has(w, "grp") /\ w["grp"] = Text("haven.video.drip.part"))
    BY <1>8
  <2>3. \A z \in DOMAIN w : normalizeHavenWhere(w).where[z] = Filter(z, w[z], ofPart)
    BY <2>1, <2>2, Zenon
  <2> QED
    BY <1>5, <1>6, <2>1, <2>3
<1>10. w[y] = a[y] \/ w[y] \in Spellings(y, a[y])
  BY <1>6, <1>9
<1>11. ofPart <=> class = "part"
  BY <1>3, <1>7, <1>8
<1>12. CASE ~ (class = "series" /\ y = "gate_token")
  <2>1. Cell(Filter(y, w[y], ofPart)) = Cell(CellOf(class, y, a[y]))
    BY <1>3, <1>4, <1>9, <1>10, <1>11, <1>12, CellFound
  <2>2. row.attributes[y] = CellOf(class, y, a[y])
    BY <1>2, <1>9
  <2> QED
    BY <1>5, <1>9, <2>1, <2>2
<1> QED
  BY <1>2, <1>12

(* What validateHavenWrite asks for is all it asks for.                    *)
LEMMA Accepts ==
  ASSUME NEW e, NEW class, class = ClassOf(e), e.json, Has(e.attributes, "grp"),
         classifyGroup(e.attributes["grp"]), IfPresent(e, "expiresIn", resolveExpiresIn),
         class = "series" => finishSeries(e.attributes, e.payload),
         class = "part" => finishPart(e.attributes, e.payload),
         class \in {"video", "generic"} => finishFull(class, e.attributes, e.payload)
  PROVE  validateHavenWrite(e).ok
<1> DEFINE a == e.attributes
           Accepted == CASE ClassOf(e) = "series" -> finishSeries(a, e.payload)
                         [] ClassOf(e) = "part"   -> finishPart(a, e.payload)
                         [] OTHER                 -> finishFull(ClassOf(e), a, e.payload)
           made == [ok |-> TRUE, grpClass |-> ClassOf(e),
                    attributes |-> [x \in DOMAIN a |-> CellOf(ClassOf(e), x, a[x])],
                    expiresIn |-> IF Has(e, "expiresIn") THEN e["expiresIn"].n ELSE DefaultLife[ClassOf(e)]]
           good == /\ e.json
                   /\ Has(a, "grp") /\ classifyGroup(a["grp"])
                   /\ Accepted
                   /\ IfPresent(e, "expiresIn", resolveExpiresIn)
<1>1. validateHavenWrite(e) = IF good THEN made ELSE Refused
  BY Zenon DEF validateHavenWrite, ClassOf
<1>2. made.ok
  OBVIOUS
<1>3. class \in {"video", "series", "part", "generic"}
  BY ClassFits DEF ClassOf
<1>4. Accepted
  BY <1>3
<1> HIDE DEF made
<1> QED
  BY <1>1, <1>2, <1>4

(* A retry that spells a value in another way is the same write.           *)
LEMMA Retried ==
  ASSUME Asked(entry), row = validateHavenWrite(entry), row.ok
  PROVE  RetriesAgree
<1>1. PICK a, class : a = entry.attributes /\ class = ClassOf(entry)
  OBVIOUS
<1>2. /\ entry.json /\ Has(a, "grp") /\ classifyGroup(a["grp"]) /\ class = GroupClass[a["grp"].text]
      /\ IfPresent(entry, "expiresIn", resolveExpiresIn)
      /\ class = "series" => finishSeries(a, entry.payload)
      /\ class = "part" => finishPart(a, entry.payload)
      /\ class \in {"video", "generic"} => finishFull(class, a, entry.payload)
      /\ row = [ok |-> TRUE, grpClass |-> class,
                attributes |-> [x \in DOMAIN a |-> CellOf(class, x, a[x])],
                expiresIn |-> IF Has(entry, "expiresIn") THEN entry["expiresIn"].n ELSE DefaultLife[class]]
  BY <1>1, AcceptedRow DEF ClassOf
<1>3. \A y \in DOMAIN a : WellMade(a[y]) /\ CellFits(class, y, a[y])
  BY <1>1, AcceptedFits DEF Asked
<1> SUFFICES ASSUME NEW x \in DOMAIN a \ I32Facts, NEW v \in Spellings(x, a[x]),
                    ~ (v.is = "number" /\ v.n > SafeMax)
             PROVE  validateHavenWrite([entry EXCEPT !.attributes[x] = v]) = row
  BY <1>1 DEF RetriesAgree
<1>4. PICK w : w = [a EXCEPT ![x] = v]
  OBVIOUS
<1>5. PICK e : e = [entry EXCEPT !.attributes = w]
  OBVIOUS
<1>6. e = [entry EXCEPT !.attributes[x] = v]
  BY <1>1, <1>4, <1>5
<1>7. /\ e.attributes = w /\ e.json = entry.json /\ e.payload = entry.payload
      /\ DOMAIN e = DOMAIN entry /\ \A k \in DOMAIN entry : k # "attributes" => e[k] = entry[k]
  BY <1>5 DEF Asked
<1>8. CASE v = a[x]
  <2>1. w = a
    BY <1>1, <1>4, <1>8 DEF Asked
  <2>2. e = entry
    BY <1>1, <1>5, <2>1 DEF Asked
  <2> QED
    BY <1>6, <2>2
<1>9. CASE v # a[x]
  <2>1. /\ DOMAIN w = DOMAIN a /\ w[x] = v /\ \A y \in DOMAIN a : y # x => w[y] = a[y]
    BY <1>4
  <2>2. x \in {"gate_threshold", "gate_token", "series_ref", "sha256_ct"}
    <3>1. x \notin {"grp", "title", "drip_id"}
      BY <1>3, <1>9, SpeltAs
    <3> QED
      BY <1>3, <3>1 DEF CellFits
  <2>3. SameButSpelt(a, w, x)
    <3>1. ASSUME x = "gate_threshold" PROVE requireThreshold(v) /\ v.n = a[x].n
      <4>1. requireThreshold(a[x])
        BY <1>3, <3>1 DEF CellFits, I32Facts
      <4>2. PICK n : n = a[x].n
        OBVIOUS
      <4>3. v.n = n /\ n \in Int /\ (v.is = "number" \/ v.is = "digits")
        BY <1>3, <3>1, <4>1, <4>2, SpeltAs DEF requireThreshold
      <4>4. n \in 1 .. U256Max
        BY <4>1, <4>2, HavenBounds DEF requireThreshold
      <4>5. v.is = "number" => n \in 1 .. SafeMax
        BY <4>3, <4>4, HavenBounds
      <4> QED
        BY <4>2, <4>3, <4>4, <4>5 DEF requireThreshold
    <3>2. ASSUME x = "gate_token" PROVE IsAddress(v) /\ Lowered(v) = Lowered(a[x])
      <4>1. IsAddress(a[x])
        BY <1>3, <3>2 DEF CellFits, I32Facts
      <4> QED
        BY <1>3, <3>2, <4>1, SpeltAs
    <3>3. ASSUME x \in {"series_ref", "sha256_ct"}
          PROVE  IsDigest(v) /\ Bare(v) = Bare(a[x]) /\ Prefixed(v) = Prefixed(a[x])
      <4>1. IsDigest(a[x])
        BY <1>3, <3>3 DEF CellFits, I32Facts
      <4> QED
        BY <1>3, <3>3, <4>1, SpeltAs
    <3> QED
      BY <2>1, <2>2, <3>1, <3>2, <3>3 DEF SameButSpelt
  <2>4. w["grp"] = a["grp"] /\ "grp" \in DOMAIN w
    BY <1>2, <2>1, <2>2 DEF Has
  <2>5. class = ClassOf(e)
    BY <1>2, <1>7, <2>4 DEF ClassOf
  <2>6. /\ class = "series" => finishSeries(w, entry.payload)
        /\ class = "part" => finishPart(w, entry.payload)
        /\ class \in {"video", "generic"} => finishFull(class, w, entry.payload)
    BY <1>2, <2>3, SeriesAgain, PartAgain, FullAgain
  <2>7. IfPresent(e, "expiresIn", resolveExpiresIn)
    BY <1>2, <1>7 DEF IfPresent
  <2>8. validateHavenWrite(e).ok
    BY <1>2, <1>7, <2>4, <2>5, <2>6, <2>7, Accepts DEF Has
  <2>9. validateHavenWrite(e) =
          [ok |-> TRUE, grpClass |-> class,
           attributes |-> [y \in DOMAIN w |-> CellOf(class, y, w[y])],
           expiresIn |-> IF Has(e, "expiresIn") THEN e["expiresIn"].n ELSE DefaultLife[class]]
    BY <1>7, <2>5, <2>8, AcceptedRow
  <2>10. [y \in DOMAIN w |-> CellOf(class, y, w[y])] = [y \in DOMAIN a |-> CellOf(class, y, a[y])]
    BY <2>1, <2>3, CellsAgain
  <2>11. (IF Has(e, "expiresIn") THEN e["expiresIn"].n ELSE DefaultLife[class])
           = (IF Has(entry, "expiresIn") THEN entry["expiresIn"].n ELSE DefaultLife[class])
    BY <1>7 DEF Has
  <2> QED
    BY <1>2, <1>6, <2>9, <2>10, <2>11
<1> QED
  BY <1>8, <1>9

(* The record format of Haven (haven.ts of dsh-arkiv): whatever write is     *)
(* asked for, if it is accepted then a query by its own attributes, however  *)
(* one of them is spelt, is refused aloud or matches the cells that were    *)
(* written, and the write asked for again in another spelling is the same   *)
(* row.                                                                     *)
THEOREM RecordsFound == RecordSpec => []RecordsAreFound
<1> DEFINE Inv == /\ Asked(entry)
                  /\ row = Unwritten \/ row = validateHavenWrite(entry)
<1>1. Asked(entry) /\ row = Unwritten => Inv
  OBVIOUS
<1>2. Inv /\ [Write]_recordVars => Inv'
  <2> SUFFICES ASSUME Inv, [Write]_recordVars PROVE Inv'
    OBVIOUS
  <2>1. entry' = entry /\ (row' = row \/ row' = validateHavenWrite(entry))
    BY DEF Write, recordVars
  <2> QED
    BY <2>1
<1>3. Inv => RecordsAreFound
  <2> SUFFICES ASSUME Inv PROVE RecordsAreFound
    OBVIOUS
  <2>1. CASE row.ok
    <3>1. Unwritten.ok = FALSE
      BY DEF Unwritten
    <3>2. row = validateHavenWrite(entry)
      BY <2>1, <3>1
    <3> QED
      BY <2>1, <3>2, Found, Retried DEF RecordsAreFound
  <2>2. CASE ~ row.ok
    BY <2>2 DEF RecordsAreFound, FoundAgain, RetriesAgree
  <2> QED
    BY <2>1, <2>2
<1> HIDE DEF Inv
<1> QED
  BY <1>1, <1>2, <1>3, PTL DEF RecordSpec

-----------------------------------------------------------------------------
(* SealedFile: what opens is what was sealed.                               *)

Times(k) == k * ChunkSize

(* The bytes of a file in its first k chunks, those of its chunk k, and     *)
(* where the frame of that stands in an intact sealed file.                 *)
Upto(plain, k) == IF Times(k) < Len(plain) THEN Times(k) ELSE Len(plain)

Size(plain, k) == Upto(plain, k + 1) - Upto(plain, k)

Start(plain, k) == 2 + 3 * k + Upto(plain, k)

Cipher(iv, i, plain) == [is |-> "cipher", iv |-> iv, at |-> i, of |-> plain, key |-> "aes"]

Cells ==
    {IV} \cup {Word(n) : n \in Nat}
    \cup {Cipher(iv, i, plain) : iv \in Nat, i \in Nat, plain \in Seq(Bytes)}

(* What an intact file has at the place of frame k.                         *)
FrameAt(sealed, plain, k) ==
    /\ sealed[Start(plain, k)] = Word(k)
    /\ sealed[Start(plain, k) + 1] = Word(Size(plain, k) + 1)
    /\ \A i \in 1 .. Size(plain, k) + 1 :
          sealed[Start(plain, k) + 1 + i] = Cipher(k, i, Chunk(plain, k))

(* What stands behind the IV of a file sealed in frames, whatever storage   *)
(* did to it: ciphertext is of the chunk whose index its IV has.            *)
OfItsChunk(plain, c) ==
    c.is = "cipher" =>
       \E k, i \in Nat : Times(k) < Len(plain) /\ c = Cipher(k, i, Chunk(plain, k))

OfTheFile == layout = "framed" => \A i \in 1 .. Len(stored) : OfItsChunk(file, stored[i])

FramesStand ==
    (layout = "framed" /\ intact) =>
        /\ Len(stored) = 1 + 3 * frames + Upto(file, frames)
        /\ \A k \in Nat : k < frames => FrameAt(stored, file, k) /\ Times(k) < Len(file)
        /\ sealStage # "sealing" => Upto(file, frames) = Len(file)

SingleFits ==
    layout = "single" =>
        /\ \A i \in 2 .. Len(stored) : stored[i] = Cipher(BaseIV, i - 1, file)
        /\ sealStage = "sealing" => stored = <<IV>>
        /\ (intact /\ sealStage # "sealing") => Len(stored) = Len(file) + 2

ReaderFits ==
    sealStage = "opening" =>
        /\ reader = [key |-> reader.key, at |-> reader.at, expected |-> reader.expected,
                     bytes |-> reader.bytes]
        /\ {reader.at, reader.expected} \subseteq Nat /\ reader.at > 1
        /\ reader.bytes = SubSeq(file, 1, Upto(file, reader.expected))
        /\ layout = "single" => reader.expected = 0 /\ reader.at = 2 /\ ~ intact
        /\ intact =>
             /\ reader.key = "aes" /\ frames > 0
             /\ reader.expected <= frames /\ reader.at = Start(file, reader.expected)

SealedInv ==
    /\ file \in Seq(Bytes) /\ layout \in {"framed", "single"} /\ frames \in Nat
    /\ intact \in BOOLEAN /\ sealStage \in {"sealing", "stored", "opening", "done"}
    /\ stored \in Seq(Cells) /\ Len(stored) > 0
    /\ sealStage = "sealing" => intact
    /\ sealStage # "done" => opened = Failed
    /\ OfTheFile
    /\ FramesStand
    /\ SingleFits
    /\ ReaderFits
    /\ OpensAsSealed

(* Multiples of the chunk size.                                             *)
LEMMA TimesGrow ==
  /\ Times(0) = 0
  /\ \A k \in Nat : /\ Times(k) \in Nat /\ k <= Times(k)
                    /\ Times(k + 1) = Times(k) + ChunkSize
  /\ \A j, k \in Nat : j <= k => Times(j) <= Times(k)
PROOF
<1>1. ChunkSize \in Nat /\ ChunkSize > 0
  BY SealBounds
<1>2. Times(0) = 0
  BY <1>1 DEF Times
<1>3. ASSUME NEW k \in Nat
      PROVE  Times(k) \in Nat /\ k <= Times(k) /\ Times(k + 1) = Times(k) + ChunkSize
  <2>1. k * ChunkSize \in Nat /\ (k + 1) * ChunkSize = k * ChunkSize + ChunkSize
    BY <1>1
  <2>2. k <= k * ChunkSize
    BY <1>1
  <2> QED
    BY <2>1, <2>2 DEF Times
<1>4. ASSUME NEW j \in Nat, NEW k \in Nat, j <= k
      PROVE  Times(j) <= Times(k)
  <2>1. PICK d \in Nat : k = j + d
    <3>1. k - j \in Nat
      BY <1>4
    <3> QED
      BY <3>1
  <2>2. k * ChunkSize = j * ChunkSize + d * ChunkSize /\ d * ChunkSize \in Nat /\ j * ChunkSize \in Nat
    BY <1>1, <2>1
  <2> QED
    BY <2>2 DEF Times
<1> QED
  BY <1>2, <1>3, <1>4

(* The bytes of the chunks: none is empty or larger than ChunkSize, and     *)
(* they follow one another up to the end of the file.                       *)
LEMMA UptoGrows ==
  ASSUME NEW plain \in Seq(Bytes)
  PROVE  /\ Len(plain) \in Nat /\ Upto(plain, 0) = 0
         /\ \A k \in Nat : /\ Upto(plain, k) \in Nat /\ Upto(plain, k) \in 0 .. Len(plain)
                           /\ Upto(plain, k) <= Upto(plain, k + 1)
                           /\ Times(k) < Len(plain) =>
                                 Upto(plain, k) = Times(k) /\ Size(plain, k) \in 1 .. ChunkSize
         /\ \A j, k \in Nat : j <= k => Upto(plain, j) <= Upto(plain, k)
PROOF
<1>1. ChunkSize \in Nat /\ ChunkSize > 0
  BY SealBounds
<1>2. Len(plain) \in Nat
  OBVIOUS
<1>3. Upto(plain, 0) = 0
  BY <1>2, TimesGrow DEF Upto
<1>4. ASSUME NEW j \in Nat, NEW k \in Nat, j <= k
      PROVE  Upto(plain, j) <= Upto(plain, k) /\ Upto(plain, k) \in 0 .. Len(plain)
  <2>1. Times(j) \in Nat /\ Times(k) \in Nat /\ Times(j) <= Times(k)
    BY <1>4, TimesGrow
  <2> QED
    BY <2>1, <1>2 DEF Upto
<1>5. ASSUME NEW k \in Nat
      PROVE  /\ Upto(plain, k) \in Nat /\ Upto(plain, k) \in 0 .. Len(plain)
             /\ Upto(plain, k) <= Upto(plain, k + 1)
             /\ Times(k) < Len(plain) => Upto(plain, k) = Times(k) /\ Size(plain, k) \in 1 .. ChunkSize
  <2>1. Times(k) \in Nat /\ Times(k + 1) = Times(k) + ChunkSize
    BY TimesGrow
  <2> QED
    BY <2>1, <1>1, <1>2 DEF Upto, Size
<1> QED
  BY <1>2, <1>3, <1>4, <1>5

(* What stands where in a sequence put behind another, and in a part.       *)
LEMMA JoinedAt ==
  ASSUME NEW S, NEW s \in Seq(S), NEW t \in Seq(S)
  PROVE  /\ s \o t \in Seq(S) /\ Len(s \o t) = Len(s) + Len(t)
         /\ \A i \in 1 .. Len(s) : (s \o t)[i] = s[i]
         /\ \A i \in 1 .. Len(t) : (s \o t)[Len(s) + i] = t[i]
OBVIOUS

(* The same by the lengths.                                                 *)
LEMMA BehindAt ==
  ASSUME NEW S, NEW s \in Seq(S), NEW t \in Seq(S), NEW m \in Nat, NEW n \in Nat,
         Len(s) = m, Len(t) = n
  PROVE  /\ s \o t \in Seq(S) /\ Len(s \o t) = m + n
         /\ \A i \in 1 .. m : (s \o t)[i] = s[i]
         /\ \A i \in 1 .. n : (s \o t)[m + i] = t[i]
OBVIOUS

(* A part of a sequence.                                                    *)
LEMMA PartAt ==
  ASSUME NEW S, NEW s \in Seq(S), NEW m \in Nat, NEW n \in Nat, m > 0, n <= Len(s), m <= n + 1
  PROVE  /\ SubSeq(s, m, n) \in Seq(S) /\ Len(SubSeq(s, m, n)) = n - m + 1
         /\ \A i \in 1 .. n - m + 1 : SubSeq(s, m, n)[i] = s[m + i - 1]
OBVIOUS

(* Sequences alike everywhere are one.                                      *)
LEMMA AlikeAt ==
  ASSUME NEW S, NEW s \in Seq(S), NEW t \in Seq(S), Len(s) = Len(t),
         \A i \in 1 .. Len(s) : s[i] = t[i]
  PROVE  s = t
OBVIOUS

(* A chunk holds the bytes behind those of the chunks before it.            *)
LEMMA ChunkIs ==
  ASSUME NEW plain \in Seq(Bytes), NEW k \in Nat, Times(k) < Len(plain)
  PROVE  /\ Chunk(plain, k) \in Seq(Bytes) /\ Len(Chunk(plain, k)) = Size(plain, k)
         /\ SubSeq(plain, 1, Upto(plain, k)) \o Chunk(plain, k) = SubSeq(plain, 1, Upto(plain, k + 1))
PROOF
<1>1. PICK a : a = Upto(plain, k)
  OBVIOUS
<1>2. PICK b : b = Upto(plain, k + 1)
  OBVIOUS
<1>3. a \in 0 .. Len(plain) /\ b \in 0 .. Len(plain) /\ a <= b /\ a = Times(k) /\ Size(plain, k) = b - a
  BY <1>1, <1>2, UptoGrows DEF Size
<1>4. Chunk(plain, k) = SubSeq(plain, a + 1, b)
  BY <1>2, <1>3 DEF Chunk, Upto, Times
<1>5. SubSeq(plain, a + 1, b) \in Seq(Bytes) /\ Len(SubSeq(plain, a + 1, b)) = b - a
  BY <1>3
<1>6. SubSeq(plain, 1, a) \o SubSeq(plain, a + 1, b) = SubSeq(plain, 1, b)
  <2>1. PICK s : s = SubSeq(plain, 1, a)
    OBVIOUS
  <2>2. PICK t : t = SubSeq(plain, a + 1, b)
    OBVIOUS
  <2>3. PICK u : u = SubSeq(plain, 1, b)
    OBVIOUS
  <2>4. s \in Seq(Bytes) /\ Len(s) = a /\ \A i \in 1 .. a : s[i] = plain[i]
    BY <2>1, <1>3
  <2>5. t \in Seq(Bytes) /\ Len(t) = b - a /\ \A i \in 1 .. b - a : t[i] = plain[a + i]
    BY <2>2, <1>3
  <2>6. u \in Seq(Bytes) /\ Len(u) = b /\ \A i \in 1 .. b : u[i] = plain[i]
    <3>1. /\ SubSeq(plain, 1, b) \in Seq(Bytes) /\ Len(SubSeq(plain, 1, b)) = b - 1 + 1
          /\ \A i \in 1 .. b - 1 + 1 : SubSeq(plain, 1, b)[i] = plain[1 + i - 1]
      BY <1>3, PartAt
    <3> QED
      BY <3>1, <2>3, <1>3
  <2>7. PICK w : w = s \o t
    OBVIOUS
  <2>8. /\ w \in Seq(Bytes) /\ Len(w) = b
        /\ \A i \in 1 .. a : w[i] = s[i]
        /\ \A i \in 1 .. b - a : w[a + i] = t[i]
    <3>1. s \in Seq(Bytes) /\ t \in Seq(Bytes)
      BY <2>4, <2>5
    <3>2. /\ w \in Seq(Bytes) /\ Len(w) = Len(s) + Len(t)
          /\ \A i \in 1 .. Len(s) : w[i] = s[i]
          /\ \A i \in 1 .. Len(t) : w[Len(s) + i] = t[i]
      <4>1. /\ s \o t \in Seq(Bytes) /\ Len(s \o t) = Len(s) + Len(t)
            /\ \A i \in 1 .. Len(s) : (s \o t)[i] = s[i]
            /\ \A i \in 1 .. Len(t) : (s \o t)[Len(s) + i] = t[i]
        BY <3>1, JoinedAt
      <4> QED
        BY <4>1, <2>7, Zenon
    <3>3. Len(s) = a /\ Len(t) = b - a /\ a + (b - a) = b
      BY <2>4, <2>5, <1>3
    <3> QED
      BY <3>2, <3>3
  <2>9. ASSUME NEW i \in 1 .. Len(w)
        PROVE  w[i] = u[i]
    <3>1. CASE i <= a
      BY <3>1, <2>4, <2>6, <2>8, <1>3
    <3>2. CASE i > a
      <4>1. PICK j : j = i - a
        OBVIOUS
      <4>2. j \in 1 .. b - a /\ a + j = i
        BY <3>2, <4>1, <2>8, <1>3
      <4>3. w[a + j] = t[j] /\ t[j] = plain[a + j]
        BY <4>2, <2>5, <2>8
      <4>4. u[i] = plain[i]
        BY <2>6, <2>8
      <4> QED
        BY <4>2, <4>3, <4>4
    <3> QED
      BY <3>1, <3>2, <2>8, <1>3
  <2>10. Len(w) = Len(u)
    BY <2>6, <2>8
  <2>11. s \o t = u
    BY <2>6, <2>7, <2>8, <2>9, <2>10, AlikeAt
  <2> QED
    BY <2>11, <2>1, <2>2, <2>3
<1> QED
  BY <1>1, <1>2, <1>3, <1>4, <1>5, <1>6

(* What one encryption gives, cell by cell, and what opens it.              *)
LEMMA EncryptIs ==
  ASSUME NEW iv \in Nat, NEW p \in Seq(Bytes)
  PROVE  /\ Encrypt(iv, p) \in Seq(Cells) /\ Len(Encrypt(iv, p)) = Len(p) + 1
         /\ \A i \in 1 .. Len(p) + 1 : Encrypt(iv, p)[i] = Cipher(iv, i, p)
         /\ Decrypt(iv, "aes", Encrypt(iv, p)) = Opened(p)
PROOF
<1>1. PICK c : c = Encrypt(iv, p)
  OBVIOUS
<1>2. PICK n \in Nat : n = Len(p) + 1 /\ n > 0
  OBVIOUS
<1>3. c = [i \in 1 .. n |-> Cipher(iv, i, p)]
  BY <1>1, <1>2 DEF Encrypt, Cipher
<1>4. \A i \in 1 .. n : Cipher(iv, i, p) \in Cells
  BY DEF Cells
<1>5. c \in Seq(Cells) /\ Len(c) = n /\ \A i \in 1 .. n : c[i] = Cipher(iv, i, p)
  BY <1>3, <1>4
<1>6. c # <<>> /\ c[1].is = "cipher" /\ c[1].of = p
  BY <1>2, <1>5 DEF Cipher
<1>7. Decrypt(iv, "aes", c) = Opened(p)
  BY <1>1, <1>6 DEF Decrypt
<1> QED
  BY <1>1, <1>2, <1>5, <1>7

(* What decrypts begins with the first cell of an encryption under that IV. *)
LEMMA DecryptIs ==
  ASSUME NEW iv \in Nat, NEW key, NEW cells \in Seq(Cells), Decrypt(iv, key, cells).ok
  PROVE  /\ Len(cells) > 0 /\ cells[1].is = "cipher" /\ cells[1].of \in Seq(Bytes)
         /\ cells[1] = Cipher(iv, 1, cells[1].of)
         /\ Decrypt(iv, key, cells) = Opened(cells[1].of)
PROOF
<1>1. /\ cells # <<>> /\ cells[1].is = "cipher" /\ cells = Encrypt(iv, cells[1].of)
      /\ Decrypt(iv, key, cells) = Opened(cells[1].of)
  BY DEF Decrypt, Failed
<1>2. Len(cells) > 0 /\ cells[1] \in Cells
  BY <1>1
<1>3. PICK p : p = cells[1].of
  OBVIOUS
<1>4. p \in Seq(Bytes)
  BY <1>1, <1>2, <1>3 DEF Cells, IV, Word, Cipher
<1>5. cells[1] = Cipher(iv, 1, p)
  <2>1. 1 \in 1 .. Len(p) + 1
    BY <1>4
  <2>2. Encrypt(iv, p)[1] = Cipher(iv, 1, p)
    BY <1>4, <2>1, EncryptIs
  <2> QED
    BY <1>1, <1>3, <2>2
<1> QED
  BY <1>1, <1>2, <1>3, <1>4, <1>5

(* A frame: its index, the length of its ciphertext, the ciphertext.        *)
LEMMA FrameIs ==
  ASSUME NEW plain \in Seq(Bytes), NEW k \in Nat, Times(k) < Len(plain)
  PROVE  /\ Frame(plain, k) \in Seq(Cells) /\ Len(Frame(plain, k)) = Size(plain, k) + 3
         /\ Frame(plain, k)[1] = Word(k) /\ Frame(plain, k)[2] = Word(Size(plain, k) + 1)
         /\ \A i \in 1 .. Size(plain, k) + 1 : Frame(plain, k)[2 + i] = Cipher(k, i, Chunk(plain, k))
PROOF
<1>1. PICK p : p = Chunk(plain, k)
  OBVIOUS
<1>2. PICK n : n = Size(plain, k)
  OBVIOUS
<1>3. p \in Seq(Bytes) /\ Len(p) = n /\ n \in Nat
  BY <1>1, <1>2, ChunkIs, UptoGrows, SealBounds
<1>4. PICK c : c = Encrypt(k, p)
  OBVIOUS
<1>5. c \in Seq(Cells) /\ Len(c) = n + 1 /\ \A i \in 1 .. n + 1 : c[i] = Cipher(k, i, p)
  <2>1. Encrypt(k, p) \in Seq(Cells) /\ Len(Encrypt(k, p)) = Len(p) + 1
    BY <1>3, EncryptIs
  <2>2. \A i \in 1 .. Len(p) + 1 : Encrypt(k, p)[i] = Cipher(k, i, p)
    BY <1>3, EncryptIs
  <2> QED
    BY <1>3, <1>4, <2>1, <2>2
<1>6. PICK h : h = <<Word(k), Word(Len(c))>>
  OBVIOUS
<1>7. h \in Seq(Cells) /\ Len(h) = 2 /\ h[1] = Word(k) /\ h[2] = Word(n + 1)
  <2>1. Word(k) \in Cells /\ Word(n + 1) \in Cells /\ Len(c) = n + 1
    BY <1>3, <1>5 DEF Cells
  <2> QED
    BY <1>6, <2>1
<1>8. Frame(plain, k) = h \o c
  <2>1. Frame(plain, k) = <<Word(k), Word(Len(Encrypt(k, p)))>> \o Encrypt(k, p)
    BY <1>1 DEF Frame
  <2> QED
    BY <2>1, <1>4, <1>6, Zenon
<1>9. PICK f : f = Frame(plain, k)
  OBVIOUS
<1>10. /\ f \in Seq(Cells) /\ Len(f) = 2 + (n + 1)
       /\ \A i \in 1 .. 2 : f[i] = h[i]
       /\ \A i \in 1 .. n + 1 : f[2 + i] = c[i]
  <2>1. PICK m, q \in Nat : m = 2 /\ q = n + 1
    BY <1>3
  <2>2. h \in Seq(Cells) /\ c \in Seq(Cells) /\ Len(h) = m /\ Len(c) = q
    BY <1>3, <1>5, <1>7, <2>1
  <2>3. /\ h \o c \in Seq(Cells) /\ Len(h \o c) = m + q
        /\ \A i \in 1 .. m : (h \o c)[i] = h[i]
        /\ \A i \in 1 .. q : (h \o c)[m + i] = c[i]
    BY <2>2
  <2> QED
    BY <2>1, <2>3, <1>8, <1>9, Zenon
<1> QED
  <2>1. Len(f) = n + 3 /\ f[1] = Word(k) /\ f[2] = Word(n + 1)
    BY <1>3, <1>7, <1>10
  <2>2. \A i \in 1 .. n + 1 : f[2 + i] = Cipher(k, i, p)
    BY <1>3, <1>5, <1>10
  <2>3. f \in Seq(Cells)
    BY <1>10
  <2> QED
    BY <2>1, <2>2, <2>3, <1>1, <1>2, <1>9, Zenon

(* Where a frame ends the next begins.                                      *)
LEMMA StartsFollow ==
  ASSUME NEW plain \in Seq(Bytes)
  PROVE  /\ Start(plain, 0) = 2
         /\ \A k \in Nat : /\ Start(plain, k) \in Nat /\ Start(plain, k) > 1
                           /\ Size(plain, k) \in Nat
                           /\ Start(plain, k + 1) = Start(plain, k) + Size(plain, k) + 3
         /\ \A j, k \in Nat : j < k => Start(plain, j + 1) <= Start(plain, k)
PROOF
<1>1. Start(plain, 0) = 2
  BY UptoGrows DEF Start
<1>2. ASSUME NEW k \in Nat
      PROVE  /\ Start(plain, k) \in Nat /\ Start(plain, k) > 1
             /\ Size(plain, k) \in Nat
             /\ Start(plain, k + 1) = Start(plain, k) + Size(plain, k) + 3
  <2>1. k + 1 \in Nat
    OBVIOUS
  <2>2. Upto(plain, k) \in Nat /\ Upto(plain, k + 1) \in Nat /\ Upto(plain, k) <= Upto(plain, k + 1)
    BY <2>1, UptoGrows
  <2> QED
    BY <2>2 DEF Start, Size
<1>3. ASSUME NEW j \in Nat, NEW k \in Nat, j < k
      PROVE  Start(plain, j + 1) <= Start(plain, k)
  <2>1. j + 1 \in Nat /\ j + 1 <= k
    BY <1>3
  <2>2. Upto(plain, j + 1) \in Nat /\ Upto(plain, k) \in Nat /\ Upto(plain, j + 1) <= Upto(plain, k)
    BY <2>1, UptoGrows
  <2> QED
    BY <2>1, <2>2 DEF Start
<1> QED
  BY <1>1, <1>2, <1>3

(* A frame of the file put behind cells of the file.                        *)
LEMMA FrameBehind ==
  ASSUME NEW plain \in Seq(Bytes), NEW sealed \in Seq(Cells), NEW k \in Nat, Times(k) < Len(plain),
         \A i \in 1 .. Len(sealed) : OfItsChunk(plain, sealed[i])
  PROVE  \E grown :
         /\ grown = sealed \o Frame(plain, k)
         /\ grown \in Seq(Cells) /\ Len(grown) = Len(sealed) + Size(plain, k) + 3
         /\ \A i \in 1 .. Len(sealed) : grown[i] = sealed[i]
         /\ grown[Len(sealed) + 1] = Word(k) /\ grown[Len(sealed) + 2] = Word(Size(plain, k) + 1)
         /\ \A i \in 1 .. Size(plain, k) + 1 :
               grown[Len(sealed) + 2 + i] = Cipher(k, i, Chunk(plain, k))
         /\ \A i \in 1 .. Len(grown) : OfItsChunk(plain, grown[i])
PROOF
<1>1. PICK f : f = Frame(plain, k)
  OBVIOUS
<1>2. PICK n : n = Size(plain, k)
  OBVIOUS
<1>3. n \in Nat
  BY <1>2, StartsFollow
<1>4. /\ f \in Seq(Cells) /\ Len(f) = n + 3 /\ f[1] = Word(k) /\ f[2] = Word(n + 1)
      /\ \A i \in 1 .. n + 1 : f[2 + i] = Cipher(k, i, Chunk(plain, k))
  BY <1>1, <1>2, FrameIs
<1>5. PICK m \in Nat : m = Len(sealed)
  OBVIOUS
<1>6. PICK grown : grown = sealed \o Frame(plain, k)
  OBVIOUS
<1>7. /\ grown \in Seq(Cells) /\ Len(grown) = m + (n + 3)
      /\ \A i \in 1 .. m : grown[i] = sealed[i]
      /\ \A i \in 1 .. n + 3 : grown[m + i] = f[i]
  <2>1. f \in Seq(Cells) /\ Len(f) = n + 3 /\ Len(sealed) = m /\ n + 3 \in Nat
    BY <1>3, <1>4, <1>5
  <2>2. /\ sealed \o f \in Seq(Cells) /\ Len(sealed \o f) = m + (n + 3)
        /\ \A i \in 1 .. m : (sealed \o f)[i] = sealed[i]
        /\ \A i \in 1 .. n + 3 : (sealed \o f)[m + i] = f[i]
    BY <2>1, BehindAt
  <2> QED
    BY <2>2, <1>1, <1>6, Zenon
<1>8. grown[m + 1] = Word(k) /\ grown[m + 2] = Word(n + 1)
  BY <1>3, <1>4, <1>7
<1>9. ASSUME NEW i \in 1 .. n + 1
      PROVE  grown[m + 2 + i] = Cipher(k, i, Chunk(plain, k))
  <2>1. PICK j : j = 2 + i
    OBVIOUS
  <2>2. j \in 1 .. n + 3 /\ m + 2 + i = m + j
    BY <2>1, <1>3, <1>5
  <2> QED
    BY <2>1, <2>2, <1>4, <1>7
<1>10. ASSUME NEW i \in 1 .. Len(grown)
       PROVE  OfItsChunk(plain, grown[i])
  <2>1. CASE i <= m
    BY <2>1, <1>5, <1>7
  <2>2. CASE i > m + 2
    <3>1. PICK j : j = i - (m + 2)
      OBVIOUS
    <3>2. i \in Int /\ i <= m + (n + 3)
      BY <1>7, <1>3, <1>5
    <3>3. j \in 1 .. n + 1 /\ m + 2 + j = i /\ j \in Nat
      BY <2>2, <3>1, <3>2, <1>3, <1>5
    <3>4. grown[i] = Cipher(k, j, Chunk(plain, k))
      BY <3>3, <1>9
    <3> QED
      BY <3>3, <3>4 DEF OfItsChunk
  <2>3. CASE i = m + 1 \/ i = m + 2
    <3>1. grown[i].is = "word"
      BY <2>3, <1>8 DEF Word
    <3> QED
      BY <3>1 DEF OfItsChunk
  <2>4. i \in Int
    BY <1>7, <1>3, <1>5
  <2>5. i <= m \/ i > m + 2 \/ i = m + 1 \/ i = m + 2
    BY <2>4, <1>5
  <2> QED
    BY <2>1, <2>2, <2>3, <2>5, Zenon
<1>11. Len(grown) = Len(sealed) + n + 3
  BY <1>3, <1>5, <1>7
<1> QED
  BY <1>2, <1>5, <1>7, <1>8, <1>9, <1>10, <1>6, <1>11, Zenon

(* Nothing is sealed yet but the IV.                                        *)
LEMMA SealedStarts == SealInit => SealedInv
PROOF
<1> SUFFICES ASSUME SealInit
             PROVE  SealedInv
  OBVIOUS
<1>1. /\ layout \in {"framed", "single"} /\ sealStage = "sealing" /\ frames = 0
      /\ stored = <<IV>> /\ intact = TRUE /\ reader = NoReader /\ opened = Failed
  BY DEF SealInit
<1>2. file \in Seq(Bytes)
  <2>1. PICK n \in 0 .. FileMax : file \in [1 .. n -> Bytes]
    BY DEF SealInit
  <2>2. n \in Nat
    BY <2>1, SealBounds
  <2> QED
    BY <2>1, <2>2
<1>3. stored \in Seq(Cells) /\ Len(stored) = 1 /\ stored[1] = IV
  <2>1. IV \in Cells
    BY DEF Cells
  <2> QED
    BY <2>1, <1>1
<1>4. OfTheFile
  BY <1>3 DEF OfTheFile, OfItsChunk, IV
<1>5. FramesStand
  <2>1. Upto(file, 0) = 0
    BY <1>2, UptoGrows
  <2> QED
    BY <1>1, <1>3, <2>1 DEF FramesStand
<1>6. SingleFits
  BY <1>1, <1>3 DEF SingleFits
<1>7. ReaderFits
  BY <1>1 DEF ReaderFits
<1>8. OpensAsSealed
  BY <1>1 DEF OpensAsSealed, Failed
<1> QED
  BY <1>1, <1>2, <1>3, <1>4, <1>5, <1>6, <1>7, <1>8 DEF SealedInv

(* Sealing a chunk puts its frame behind those before it.                   *)
LEMMA ChunkSealed == SealedInv /\ encryptFileChunkedAesGcm => SealedInv'
PROOF
<1> SUFFICES ASSUME SealedInv, encryptFileChunkedAesGcm
             PROVE  SealedInv'
  OBVIOUS
<1>1. /\ sealStage = "sealing" /\ layout = "framed" /\ Times(frames) < Len(file)
      /\ stored' = stored \o Frame(file, frames) /\ frames' = frames + 1
      /\ file' = file /\ layout' = layout /\ sealStage' = sealStage /\ intact' = intact
      /\ reader' = reader /\ opened' = opened
  BY Zenon DEF encryptFileChunkedAesGcm, MoreChunks, Times
<1>2. /\ file \in Seq(Bytes) /\ frames \in Nat /\ stored \in Seq(Cells) /\ Len(stored) > 0
      /\ intact \in BOOLEAN /\ intact /\ opened = Failed
      /\ OfTheFile /\ FramesStand
  BY <1>1 DEF SealedInv
<1>3. PICK p : p = file
  OBVIOUS
<1>4. PICK k \in Nat : k = frames
  BY <1>2
<1>5. PICK s : s = stored
  OBVIOUS
<1>6. PICK n \in Nat : n = Size(p, k)
  BY <1>2, <1>3, StartsFollow
<1>7. /\ \A i \in 1 .. Len(s) : OfItsChunk(p, s[i])
      /\ Len(s) = 1 + 3 * k + Upto(p, k)
      /\ \A j \in Nat : j < k => FrameAt(s, p, j) /\ Times(j) < Len(p)
  BY <1>1, <1>2, <1>3, <1>4, <1>5 DEF OfTheFile, FramesStand
<1>8. p \in Seq(Bytes) /\ s \in Seq(Cells) /\ Len(s) > 0 /\ Times(k) < Len(p)
  BY <1>1, <1>2, <1>3, <1>4, <1>5
<1>9. PICK g :
        /\ g = s \o Frame(p, k)
        /\ g \in Seq(Cells) /\ Len(g) = Len(s) + Size(p, k) + 3
        /\ \A i \in 1 .. Len(s) : g[i] = s[i]
        /\ g[Len(s) + 1] = Word(k) /\ g[Len(s) + 2] = Word(Size(p, k) + 1)
        /\ \A i \in 1 .. Size(p, k) + 1 : g[Len(s) + 2 + i] = Cipher(k, i, Chunk(p, k))
        /\ \A i \in 1 .. Len(g) : OfItsChunk(p, g[i])
  BY <1>7, <1>8, FrameBehind
<1>10. /\ g \in Seq(Cells) /\ Len(g) = Len(s) + Size(p, k) + 3
       /\ \A i \in 1 .. Len(s) : g[i] = s[i]
       /\ g[Len(s) + 1] = Word(k) /\ g[Len(s) + 2] = Word(Size(p, k) + 1)
       /\ \A i \in 1 .. Size(p, k) + 1 : g[Len(s) + 2 + i] = Cipher(k, i, Chunk(p, k))
       /\ \A i \in 1 .. Len(g) : OfItsChunk(p, g[i])
  BY <1>9, Zenon
<1>11. stored' = g /\ file' = p /\ frames' = k + 1
  BY <1>1, <1>3, <1>4, <1>5, <1>9, Zenon
<1>12. p \in Seq(Bytes)
  BY <1>8
<1>13. Start(p, k) \in Nat /\ Start(p, k) > 1
  BY <1>12, StartsFollow
<1>14. Upto(p, k) \in Nat
  BY <1>12, UptoGrows
<1>15. PICK c \in Nat : c = Start(p, k)
  BY <1>13
<1>16. Len(s) + 1 = c /\ Len(s) \in Nat
  <2>1. Len(s) = 1 + 3 * k + Upto(p, k) /\ Len(s) \in Nat
    BY <1>7, <1>8
  <2> QED
    BY <2>1, <1>4, <1>15, <1>14 DEF Start
<1>17. FrameAt(g, p, k)
  <2>1. g[c] = Word(k) /\ g[c + 1] = Word(n + 1)
    BY <1>6, <1>10, <1>16, SMTT(40)
  <2>2. ASSUME NEW i \in 1 .. n + 1
        PROVE  g[c + 1 + i] = Cipher(k, i, Chunk(p, k))
    <3>1. c + 1 + i = Len(s) + 2 + i
      BY <1>16
    <3> QED
      BY <3>1, <1>6, <1>10
  <2> QED
    BY <2>1, <2>2, <1>6, <1>15 DEF FrameAt
<1>18. ASSUME NEW j \in Nat, j < k
       PROVE  FrameAt(g, p, j)
  <2>1. PICK b \in Nat : b = Start(p, j) /\ b > 1
    BY <1>8, StartsFollow
  <2>2. PICK m \in Nat : m = Size(p, j)
    BY <1>8, StartsFollow
  <2>3. Start(p, j + 1) = Start(p, j) + Size(p, j) + 3 /\ Start(p, j + 1) <= Start(p, k)
    BY <1>18, <1>12, StartsFollow
  <2>4. b + m + 3 <= c
    BY <1>15, <2>1, <2>2, <2>3
  <2>5. /\ s[b] = Word(j) /\ s[b + 1] = Word(m + 1)
        /\ \A i \in 1 .. m + 1 : s[b + 1 + i] = Cipher(j, i, Chunk(p, j))
    BY <1>7, <1>18, <2>1, <2>2 DEF FrameAt
  <2>6. \A i \in 0 .. m + 2 : b + i \in 1 .. Len(s)
    BY <2>1, <2>4, <1>16
  <2>7. \A i \in 0 .. m + 2 : g[b + i] = s[b + i]
    BY <2>6, <1>10
  <2>8. g[b] = Word(j) /\ g[b + 1] = Word(m + 1)
    <3>1. b = b + 0 /\ 0 \in 0 .. m + 2 /\ 1 \in 0 .. m + 2
      OBVIOUS
    <3> QED
      BY <3>1, <2>5, <2>7
  <2>9. ASSUME NEW i \in 1 .. m + 1
        PROVE  g[b + 1 + i] = Cipher(j, i, Chunk(p, j))
    <3>1. 1 + i \in 0 .. m + 2 /\ b + (1 + i) = b + 1 + i
      OBVIOUS
    <3>2. g[b + (1 + i)] = s[b + (1 + i)]
      BY <3>1, <2>7
    <3> QED
      BY <3>1, <3>2, <2>5
  <2> QED
    BY <2>1, <2>2, <2>8, <2>9 DEF FrameAt
<1>19. OfTheFile'
  BY <1>10, <1>11 DEF OfTheFile
<1>20. FramesStand'
  <2>1. Len(g) = 1 + 3 * (k + 1) + Upto(p, k + 1)
    <3>1. k + 1 \in Nat /\ Upto(p, k) \in Nat
      BY <1>8, UptoGrows
    <3>2. Upto(p, k + 1) \in Nat
      BY <3>1, <1>8, UptoGrows
    <3>3. Len(g) = Len(s) + Size(p, k) + 3 /\ Len(s) = 1 + 3 * k + Upto(p, k)
      BY <1>7, <1>10
    <3> QED
      BY <3>1, <3>2, <3>3 DEF Size
  <2>2. \A j \in Nat : j < k + 1 => FrameAt(g, p, j) /\ Times(j) < Len(p)
    BY <1>7, <1>8, <1>17, <1>18
  <2> QED
    BY <2>1, <2>2, <1>1, <1>11 DEF FramesStand
<1>21. SingleFits' /\ ReaderFits' /\ OpensAsSealed'
  <2>1. layout' # "single" /\ sealStage' = "sealing" /\ ~ opened'.ok
    BY <1>1, <1>2 DEF Failed
  <2> QED
    BY <2>1 DEF SingleFits, ReaderFits, OpensAsSealed
<1>22. Len(stored') > 0
  BY <1>6, <1>8, <1>10, <1>11, <1>16
<1> QED
  BY <1>1, <1>2, <1>3, <1>8, <1>10, <1>11, <1>19, <1>20, <1>21, <1>22 DEF SealedInv

(* The end of the sealing: every byte of the file is in a frame.            *)
LEMMA SealEnded == SealedInv /\ SealEnds => SealedInv'
PROOF
<1> SUFFICES ASSUME SealedInv, SealEnds
             PROVE  SealedInv'
  OBVIOUS
<1>1. /\ sealStage = "sealing" /\ layout = "framed" /\ ~ (Times(frames) < Len(file))
      /\ sealStage' = "stored"
      /\ file' = file /\ layout' = layout /\ frames' = frames /\ stored' = stored
      /\ intact' = intact /\ reader' = reader /\ opened' = opened
  BY Zenon DEF SealEnds, MoreChunks, Times
<1>2. /\ file \in Seq(Bytes) /\ frames \in Nat /\ stored \in Seq(Cells) /\ Len(stored) > 0
      /\ intact \in BOOLEAN /\ intact /\ opened = Failed
      /\ OfTheFile /\ FramesStand
  BY <1>1 DEF SealedInv
<1>3. OfTheFile'
  BY <1>1, <1>2 DEF OfTheFile
<1>4. FramesStand'
  <2>1. Upto(file, frames) = Len(file)
    BY <1>1 DEF Upto
  <2> QED
    BY <1>1, <1>2, <2>1 DEF FramesStand
<1>5. SingleFits' /\ ReaderFits' /\ OpensAsSealed'
  <2>1. layout' # "single" /\ sealStage' = "stored" /\ ~ opened'.ok
    BY <1>1, <1>2 DEF Failed
  <2> QED
    BY <2>1 DEF SingleFits, ReaderFits, OpensAsSealed
<1> QED
  BY <1>1, <1>2, <1>3, <1>4, <1>5 DEF SealedInv

(* The seal from before the framing.                                        *)
LEMMA SingleSealed == SealedInv /\ encryptFileAesGcm => SealedInv'
PROOF
<1> SUFFICES ASSUME SealedInv, encryptFileAesGcm
             PROVE  SealedInv'
  OBVIOUS
<1>1. /\ sealStage = "sealing" /\ layout = "single" /\ sealStage' = "stored"
      /\ stored' = stored \o Encrypt(BaseIV, file)
      /\ file' = file /\ layout' = layout /\ frames' = frames
      /\ intact' = intact /\ reader' = reader /\ opened' = opened
  BY Zenon DEF encryptFileAesGcm
<1>2. /\ file \in Seq(Bytes) /\ frames \in Nat /\ intact \in BOOLEAN /\ intact /\ opened = Failed
      /\ SingleFits
  BY <1>1 DEF SealedInv
<1>3. PICK p : p = file
  OBVIOUS
<1>4. p \in Seq(Bytes) /\ BaseIV \in Nat
  BY <1>2, <1>3 DEF BaseIV
<1>5. PICK n \in Nat : n = Len(p)
  BY <1>4
<1>6. PICK h : h = <<IV>>
  OBVIOUS
<1>7. h \in Seq(Cells) /\ Len(h) = 1
  <2>1. IV \in Cells
    BY DEF Cells
  <2> QED
    BY <2>1, <1>6
<1>8. PICK e : e = Encrypt(BaseIV, p)
  OBVIOUS
<1>9. e \in Seq(Cells) /\ Len(e) = n + 1 /\ \A i \in 1 .. n + 1 : e[i] = Cipher(BaseIV, i, p)
  <2>1. /\ Encrypt(BaseIV, p) \in Seq(Cells) /\ Len(Encrypt(BaseIV, p)) = Len(p) + 1
        /\ \A i \in 1 .. Len(p) + 1 : Encrypt(BaseIV, p)[i] = Cipher(BaseIV, i, p)
    BY <1>4, EncryptIs, Zenon
  <2> QED
    BY <2>1, <1>5, <1>8, Zenon
<1>10. PICK g : g = stored'
  OBVIOUS
<1>11. /\ g \in Seq(Cells) /\ Len(g) = n + 2
       /\ \A i \in 1 .. n + 1 : g[1 + i] = e[i]
  <2>1. /\ h \o e \in Seq(Cells) /\ Len(h \o e) = 1 + (n + 1)
        /\ \A i \in 1 .. n + 1 : (h \o e)[1 + i] = e[i]
    <3>1. PICK m, q \in Nat : m = 1 /\ q = n + 1
      OBVIOUS
    <3>2. h \in Seq(Cells) /\ e \in Seq(Cells) /\ Len(h) = m /\ Len(e) = q
      BY <1>7, <1>9, <3>1
    <3>3. /\ h \o e \in Seq(Cells) /\ Len(h \o e) = m + q
          /\ \A i \in 1 .. q : (h \o e)[m + i] = e[i]
      BY <3>2
    <3> QED
      BY <3>1, <3>3, Zenon
  <2>2. stored = h
    BY <1>1, <1>2, <1>6 DEF SingleFits
  <2>3. g = h \o e
    BY <1>1, <1>3, <1>8, <1>10, <2>2, Zenon
  <2>4. /\ g \in Seq(Cells) /\ Len(g) = 1 + (n + 1)
        /\ \A i \in 1 .. n + 1 : g[1 + i] = e[i]
    BY <2>1, <2>3, Zenon
  <2> QED
    BY <2>4
<1>12. ASSUME NEW i \in 2 .. n + 2
       PROVE  g[i] = Cipher(BaseIV, i - 1, p)
  <2>1. PICK j \in 1 .. n + 1 : 1 + j = i /\ j = i - 1
    OBVIOUS
  <2> QED
    BY <2>1, <1>9, <1>11
<1>13. SingleFits'
  <2>1. /\ \A i \in 2 .. Len(g) : g[i] = Cipher(BaseIV, i - 1, p)
        /\ Len(g) = Len(p) + 2
    BY <1>5, <1>11, <1>12
  <2>2. /\ \A i \in 2 .. Len(stored') : stored'[i] = Cipher(BaseIV, i - 1, file')
        /\ Len(stored') = Len(file') + 2
    BY <2>1, <1>1, <1>3, <1>10, Zenon
  <2> QED
    BY <2>2, <1>1 DEF SingleFits
<1>14. OfTheFile' /\ FramesStand' /\ ReaderFits' /\ OpensAsSealed'
  <2>1. layout' # "framed" /\ sealStage' = "stored" /\ ~ opened'.ok
    BY <1>1, <1>2 DEF Failed
  <2> QED
    BY <2>1 DEF OfTheFile, FramesStand, ReaderFits, OpensAsSealed
<1>15. stored' \in Seq(Cells) /\ Len(stored') > 0
  BY <1>10, <1>11
<1>16. /\ file' \in Seq(Bytes) /\ layout' \in {"framed", "single"} /\ frames' \in Nat
       /\ intact' \in BOOLEAN /\ sealStage' = "stored" /\ opened' = Failed
  BY <1>1, <1>2
<1> QED
  BY <1>13, <1>14, <1>15, <1>16 DEF SealedInv

(* What storage hands back is no longer intact, and its cells are of the    *)
(* file still.                                                              *)
LEMMA StillOfTheFile ==
  ASSUME SealedInv, sealStage = "stored", sealStage' = "stored", intact' = FALSE,
         file' = file, layout' = layout, frames' \in Nat, opened' = opened,
         stored' \in Seq(Cells), Len(stored') > 0, OfTheFile',
         layout = "single" => \A i \in 2 .. Len(stored') : stored'[i] = Cipher(BaseIV, i - 1, file)
  PROVE  SealedInv'
PROOF
<1>1. file \in Seq(Bytes) /\ layout \in {"framed", "single"} /\ opened = Failed
  BY DEF SealedInv
<1>2. FramesStand' /\ ReaderFits'
  BY DEF FramesStand, ReaderFits
<1>3. SingleFits'
  BY DEF SingleFits
<1>4. OpensAsSealed'
  BY <1>1 DEF OpensAsSealed, Failed
<1> QED
  BY <1>1, <1>2, <1>3, <1>4 DEF SealedInv

(* A prefix of the file.                                                    *)
LEMMA CutFits == SealedInv /\ StorageCuts => SealedInv'
PROOF
<1> SUFFICES ASSUME SealedInv, StorageCuts
             PROVE  SealedInv'
  OBVIOUS
<1>1. PICK n \in 1 .. Len(stored) - 1 : stored' = SubSeq(stored, 1, n)
  BY DEF StorageCuts
<1>2. /\ sealStage = "stored" /\ sealStage' = sealStage /\ intact' = FALSE
      /\ frames' = FramesMax /\ file' = file /\ layout' = layout /\ opened' = opened
  BY DEF StorageCuts
<1>3. stored \in Seq(Cells) /\ OfTheFile /\ SingleFits /\ FramesMax \in Nat
  BY SealBounds DEF SealedInv
<1>4. PICK s : s = stored
  OBVIOUS
<1>5. PICK g : g = stored'
  OBVIOUS
<1>6. n \in 1 .. Len(s) /\ s \in Seq(Cells)
  BY <1>3, <1>4
<1>7. g \in Seq(Cells) /\ Len(g) = n /\ \A i \in 1 .. n : g[i] = s[i]
  <2>1. /\ SubSeq(s, 1, n) \in Seq(Cells) /\ Len(SubSeq(s, 1, n)) = n
        /\ \A i \in 1 .. n : SubSeq(s, 1, n)[i] = s[i]
    BY <1>6
  <2>2. g = SubSeq(s, 1, n)
    BY <1>1, <1>4, <1>5, Zenon
  <2> QED
    BY <2>1, <2>2, Zenon
<1>8. n \in Nat /\ n > 0 /\ n <= Len(s) /\ Len(s) \in Nat
  BY <1>6
<1>9. OfTheFile'
  <2>1. layout = "framed" => \A i \in 1 .. Len(s) : OfItsChunk(file, s[i])
    BY <1>3, <1>4 DEF OfTheFile
  <2>2. layout = "framed" => \A i \in 1 .. Len(g) : OfItsChunk(file, g[i])
    BY <2>1, <1>7, <1>8
  <2> QED
    BY <2>2, <1>2, <1>5 DEF OfTheFile
<1>10. layout = "single" => \A i \in 2 .. Len(g) : g[i] = Cipher(BaseIV, i - 1, file)
  <2>1. layout = "single" => \A i \in 2 .. Len(s) : s[i] = Cipher(BaseIV, i - 1, file)
    BY <1>3, <1>4 DEF SingleFits
  <2> QED
    BY <2>1, <1>7, <1>8
<1>11. stored' \in Seq(Cells) /\ Len(stored') > 0
  BY <1>5, <1>7, <1>8
<1>12. layout = "single" => \A i \in 2 .. Len(stored') : stored'[i] = Cipher(BaseIV, i - 1, file)
  BY <1>5, <1>10
<1> QED
  BY <1>2, <1>3, <1>9, <1>11, <1>12, StillOfTheFile

(* All frames are lost.                                                     *)
LEMMA LossFits == SealedInv /\ StorageLoses => SealedInv'
PROOF
<1> SUFFICES ASSUME SealedInv, StorageLoses
             PROVE  SealedInv'
  OBVIOUS
<1>1. /\ sealStage = "stored" /\ layout = "framed" /\ stored' = <<IV>> /\ frames' = 0
      /\ intact' = FALSE /\ file' = file /\ layout' = layout /\ sealStage' = sealStage /\ opened' = opened
  BY DEF StorageLoses
<1>2. IV \in Cells
  BY DEF Cells
<1>3. stored' \in Seq(Cells) /\ Len(stored') = 1 /\ stored'[1] = IV
  BY <1>1, <1>2
<1>4. OfTheFile'
  BY <1>3 DEF OfTheFile, OfItsChunk, IV
<1>5. Len(stored') > 0 /\ frames' \in Nat /\ layout # "single"
  BY <1>1, <1>3
<1> QED
  BY <1>1, <1>3, <1>4, <1>5, StillOfTheFile

(* A frame comes back, behind those that came back before it.               *)
LEMMA ReturnFits == ASSUME NEW index \in Nat PROVE SealedInv /\ StorageReturns(index) => SealedInv'
PROOF
<1> SUFFICES ASSUME SealedInv, StorageReturns(index)
             PROVE  SealedInv'
  OBVIOUS
<1>1. /\ sealStage = "stored" /\ layout = "framed" /\ ~ intact /\ Times(index) < Len(file)
      /\ stored' = stored \o Frame(file, index) /\ frames' = frames + 1
      /\ file' = file /\ layout' = layout /\ sealStage' = sealStage /\ intact' = intact /\ opened' = opened
  BY Zenon DEF StorageReturns, Times
<1>2. /\ file \in Seq(Bytes) /\ stored \in Seq(Cells) /\ Len(stored) > 0 /\ OfTheFile
      /\ frames \in Nat /\ intact \in BOOLEAN
  BY DEF SealedInv
<1>3. PICK p : p = file
  OBVIOUS
<1>4. PICK s : s = stored
  OBVIOUS
<1>5. p \in Seq(Bytes) /\ s \in Seq(Cells) /\ Len(s) > 0 /\ Times(index) < Len(p)
  BY <1>1, <1>2, <1>3, <1>4
<1>6. \A i \in 1 .. Len(s) : OfItsChunk(p, s[i])
  BY <1>1, <1>2, <1>3, <1>4 DEF OfTheFile
<1>7. PICK g : /\ g = s \o Frame(p, index)
               /\ g \in Seq(Cells) /\ Len(g) = Len(s) + Size(p, index) + 3
               /\ \A i \in 1 .. Len(g) : OfItsChunk(p, g[i])
  BY <1>5, <1>6, FrameBehind
<1>8. stored' = g
  BY <1>1, <1>3, <1>4, <1>7, Zenon
<1>9. Size(p, index) \in Nat
  BY <1>5, StartsFollow
<1>10. g \in Seq(Cells) /\ Len(g) > 0
  <2>1. g \in Seq(Cells) /\ Len(g) = Len(s) + Size(p, index) + 3
    BY <1>7, Zenon
  <2> QED
    BY <2>1, <1>5, <1>9
<1>11. \A i \in 1 .. Len(g) : OfItsChunk(p, g[i])
  BY <1>7, Zenon
<1>12. OfTheFile'
  BY <1>1, <1>3, <1>8, <1>11, Zenon DEF OfTheFile
<1>13. /\ stored' \in Seq(Cells) /\ Len(stored') > 0 /\ sealStage' = "stored" /\ intact' = FALSE
       /\ frames' \in Nat /\ layout # "single"
  <2>1. stored' \in Seq(Cells) /\ Len(stored') > 0
    BY <1>8, <1>10, Zenon
  <2> QED
    BY <2>1, <1>1, <1>2
<1> QED
  BY <1>1, <1>12, <1>13, StillOfTheFile, Zenon

(* The first frame of an intact file of at least one byte, and what of it   *)
(* is read for the guess whether the file is framed.                        *)
LEMMA FrameDeclared ==
  ASSUME NEW plain \in Seq(Bytes), NEW sealed \in Seq(Cells), NEW k \in Nat, NEW noise,
         Times(k) < Len(plain), FrameAt(sealed, plain, k),
         NEW at, at = Start(plain, k), Start(plain, k + 1) <= Len(sealed) + 1
  PROVE  /\ Index(sealed, at, noise) = k
         /\ Declared(sealed, at, noise) = Size(plain, k) + 1
         /\ LengthOk(Size(plain, k) + 1)
         /\ at + HeaderCells + (Size(plain, k) + 1) = Start(plain, k + 1)
         /\ FrameAccepted(sealed, at, k, noise)
PROOF
<1>1. sealed[at] = Word(k) /\ sealed[at + 1] = Word(Size(plain, k) + 1)
  BY DEF FrameAt
<1>2. Index(sealed, at, noise) = k
  BY <1>1 DEF Index, readU32le, Word
<1>3. Declared(sealed, at, noise) = Size(plain, k) + 1
  BY <1>1 DEF Declared, readU32le, Word
<1>4. PICK n : n = Size(plain, k)
  OBVIOUS
<1>5. n \in 1 .. ChunkSize
  BY <1>4, UptoGrows
<1>6. LengthOk(n + 1)
  BY <1>5, SealBounds DEF LengthOk
<1>7. at \in Nat /\ Start(plain, k + 1) = at + n + 3
  BY <1>4, StartsFollow
<1>8. n \in Nat /\ n > 0
  BY <1>5, SealBounds
<1>9. PICK l \in Nat : l = Len(sealed)
  OBVIOUS
<1>10. at + n + 3 <= l + 1
  BY <1>7, <1>9
<1>11. FrameAccepted(sealed, at, k, noise)
  <2>1. at + HeaderCells - 1 <= l /\ at + HeaderCells + (n + 1) - 1 <= l
    BY <1>7, <1>8, <1>10, SMTT(40) DEF HeaderCells
  <2> QED
    BY <2>1, <1>2, <1>3, <1>4, <1>6, <1>9 DEF FrameAccepted
<1>12. at + HeaderCells + (n + 1) = Start(plain, k + 1)
  BY <1>7, <1>8 DEF HeaderCells
<1> QED
  BY <1>2, <1>3, <1>4, <1>6, <1>11, <1>12

(* The frame of an intact file opens to its chunk.                          *)
LEMMA FrameIsOpened ==
  ASSUME NEW plain \in Seq(Bytes), NEW sealed \in Seq(Cells), NEW k \in Nat,
         Times(k) < Len(plain), FrameAt(sealed, plain, k),
         NEW from \in Nat, from = Start(plain, k) + 2,
         NEW to \in Nat, to = Start(plain, k + 1) - 1, to <= Len(sealed)
  PROVE  Decrypt(k, "aes", SubSeq(sealed, from, to)) = Opened(Chunk(plain, k))
PROOF
<1>1. PICK n : n = Size(plain, k)
  OBVIOUS
<1>2. n \in Nat /\ Start(plain, k) \in Nat /\ Start(plain, k + 1) = Start(plain, k) + n + 3
  BY <1>1, StartsFollow
<1>3. PICK p : p = Chunk(plain, k)
  OBVIOUS
<1>4. p \in Seq(Bytes) /\ Len(p) = n
  BY <1>1, <1>3, ChunkIs
<1>5. PICK c : c = SubSeq(sealed, from, to)
  OBVIOUS
<1>6. from > 0 /\ to = from + n
  BY <1>2
<1>7. c \in Seq(Cells) /\ Len(c) = n + 1 /\ \A i \in 1 .. n + 1 : c[i] = sealed[from + i - 1]
  <2>1. /\ SubSeq(sealed, from, to) \in Seq(Cells) /\ Len(SubSeq(sealed, from, to)) = to - from + 1
        /\ \A i \in 1 .. to - from + 1 : SubSeq(sealed, from, to)[i] = sealed[from + i - 1]
    <3>1. from > 0 /\ to <= Len(sealed) /\ from <= to + 1
      BY <1>2, <1>6, SMTT(40)
    <3> QED
      BY <3>1, PartAt, SMTT(40)
  <2>2. to - from + 1 = n + 1
    BY <1>2, <1>6, SMTT(40)
  <2> QED
    BY <2>1, <2>2, <1>5
<1>8. ASSUME NEW i \in 1 .. n + 1
      PROVE  c[i] = Cipher(k, i, p)
  <2>1. sealed[Start(plain, k) + 1 + i] = Cipher(k, i, p)
    BY <1>1, <1>3 DEF FrameAt
  <2>2. from + i - 1 = Start(plain, k) + 1 + i
    BY <1>2
  <2> QED
    BY <2>1, <2>2, <1>7
<1>9. PICK e : e = Encrypt(k, p)
  OBVIOUS
<1>10. /\ e \in Seq(Cells) /\ Len(e) = n + 1 /\ \A i \in 1 .. n + 1 : e[i] = Cipher(k, i, p)
       /\ Decrypt(k, "aes", e) = Opened(p)
  <2>1. /\ Encrypt(k, p) \in Seq(Cells) /\ Len(Encrypt(k, p)) = Len(p) + 1
        /\ \A i \in 1 .. Len(p) + 1 : Encrypt(k, p)[i] = Cipher(k, i, p)
        /\ Decrypt(k, "aes", Encrypt(k, p)) = Opened(p)
    BY <1>4, EncryptIs, Zenon
  <2> QED
    BY <2>1, <1>4, <1>9, Zenon
<1>11. c = e
  <2>1. Len(c) = Len(e) /\ \A i \in 1 .. Len(c) : c[i] = e[i]
    BY <1>7, <1>8, <1>10
  <2>2. c \in Seq(Cells) /\ e \in Seq(Cells)
    BY <1>7, <1>10
  <2> QED
    BY <2>1, <2>2, AlikeAt
<1> QED
  BY <1>3, <1>5, <1>10, <1>11, Zenon

(* What opens among the cells of a file is one of its chunks, the one the   *)
(* IV it opened under is of.                                                *)
LEMMA OpensItsChunk ==
  ASSUME NEW plain, NEW k \in Nat, NEW key, NEW cells \in Seq(Cells),
         OfItsChunk(plain, cells[1]), Decrypt(k, key, cells).ok
  PROVE  Times(k) < Len(plain) /\ Decrypt(k, key, cells) = Opened(Chunk(plain, k))
PROOF
<1>1. /\ cells[1].is = "cipher" /\ cells[1] = Cipher(k, 1, cells[1].of)
      /\ Decrypt(k, key, cells) = Opened(cells[1].of)
  BY DecryptIs
<1>2. PICK c : c = cells[1]
  OBVIOUS
<1>3. PICK j, i \in Nat : Times(j) < Len(plain) /\ c = Cipher(j, i, Chunk(plain, j))
  BY <1>1, <1>2 DEF OfItsChunk
<1>4. j = k /\ c.of = Chunk(plain, k)
  <2>1. c.iv = k
    BY <1>1, <1>2 DEF Cipher
  <2>2. c.iv = j /\ c.of = Chunk(plain, j)
    BY <1>3 DEF Cipher
  <2> QED
    BY <2>1, <2>2
<1> QED
  BY <1>1, <1>2, <1>3, <1>4

(* Whole chunks from the start of the file are what may open.               *)
LEMMA PrefixFits ==
  ASSUME NEW plain \in Seq(Bytes), NEW k \in Nat
  PROVE  \E n \in 0 .. Len(plain) :
            /\ SubSeq(plain, 1, Upto(plain, k)) = SubSeq(plain, 1, n)
            /\ n = Len(plain) \/ \E j \in 0 .. n : n = j * ChunkSize
PROOF
<1>1. PICK n : n = Upto(plain, k)
  OBVIOUS
<1>2. n \in 0 .. Len(plain)
  BY <1>1, UptoGrows
<1>3. n = Len(plain) \/ \E j \in 0 .. n : n = j * ChunkSize
  <2>1. CASE Times(k) < Len(plain)
    <3>1. n = Times(k) /\ k <= n /\ n \in Nat
      BY <2>1, <1>1, TimesGrow DEF Upto
    <3>2. k \in 0 .. n /\ n = k * ChunkSize
      BY <3>1 DEF Times
    <3> QED
      BY <3>2
  <2>2. CASE ~ (Times(k) < Len(plain))
    BY <2>2, <1>1 DEF Upto
  <2> QED
    BY <2>1, <2>2
<1> QED
  BY <1>1, <1>2, <1>3

(* A file taken for framed: the reader stands at its first frame.           *)
LEMMA FramedOpened == ASSUME NEW key, NEW noise PROVE SealedInv /\ OpenFramed(key, noise) => SealedInv'
PROOF
<1> SUFFICES ASSUME SealedInv, OpenFramed(key, noise)
             PROVE  SealedInv'
  OBVIOUS
<1>1. /\ sealStage = "stored" /\ isChunkedPayload(stored, noise) /\ sealStage' = "opening"
      /\ reader' = [key |-> key, at |-> 2, expected |-> 0, bytes |-> <<>>]
      /\ intact' = (intact /\ key = "aes" /\ layout = "framed")
      /\ file' = file /\ layout' = layout /\ frames' = frames /\ stored' = stored /\ opened' = opened
  BY Zenon DEF OpenFramed
<1>2. /\ file \in Seq(Bytes) /\ layout \in {"framed", "single"} /\ frames \in Nat
      /\ intact \in BOOLEAN /\ stored \in Seq(Cells) /\ Len(stored) > 0 /\ opened = Failed
      /\ OfTheFile /\ FramesStand /\ SingleFits
  BY <1>1 DEF SealedInv
<1>3. intact' \in BOOLEAN /\ (intact' => intact /\ key = "aes" /\ layout = "framed")
  BY <1>1
<1>4. OfTheFile'
  BY <1>1, <1>2 DEF OfTheFile
<1>5. FramesStand'
  BY <1>1, <1>2, <1>3 DEF FramesStand
<1>6. SingleFits'
  BY <1>1, <1>2, <1>3 DEF SingleFits
<1>7. intact' => frames > 0
  <2>1. SUFFICES ASSUME intact', frames = 0
                 PROVE  FALSE
    BY <1>2
  <2>2. Len(stored) = 1 + 3 * 0 + Upto(file, 0)
    BY <2>1, <1>2, <1>3 DEF FramesStand
  <2>3. Upto(file, 0) = 0
    BY <1>2, UptoGrows
  <2>4. Len(stored) >= 3
    BY <1>1 DEF isChunkedPayload, HeaderCells
  <2> QED
    BY <2>2, <2>3, <2>4
<1>8. ReaderFits'
  <2>1. PICK r : r = reader'
    OBVIOUS
  <2>2. /\ r.key = key /\ r.at = 2 /\ r.expected = 0 /\ r.bytes = <<>>
        /\ r = [key |-> r.key, at |-> r.at, expected |-> r.expected, bytes |-> r.bytes]
    BY <2>1, <1>1
  <2>3. Upto(file, 0) = 0 /\ Start(file, 0) = 2
    BY <1>2, UptoGrows, StartsFollow
  <2>4. SubSeq(file, 1, 0) = <<>>
    BY <1>2
  <2>5. /\ {r.at, r.expected} \subseteq Nat /\ r.at > 1
        /\ r.bytes = SubSeq(file, 1, Upto(file, r.expected))
        /\ r.at = Start(file, r.expected)
    BY <2>2, <2>3, <2>4
  <2>6. r.expected <= frames
    BY <2>2, <1>2
  <2>7. layout = "single" => ~ intact'
    BY <1>3
  <2> QED
    BY <2>1, <2>2, <2>5, <2>6, <2>7, <1>1, <1>3, <1>7 DEF ReaderFits
<1>9. OpensAsSealed'
  <2>1. sealStage' = "opening" /\ ~ opened'.ok
    BY <1>1, <1>2 DEF Failed
  <2> QED
    BY <2>1 DEF OpensAsSealed
<1> QED
  BY <1>1, <1>2, <1>3, <1>4, <1>5, <1>6, <1>8, <1>9 DEF SealedInv

(* What stays when a file is done with.                                     *)
LEMMA DoneFits ==
  ASSUME SealedInv, sealStage # "sealing", sealStage' = "done", intact' \in BOOLEAN, intact' => intact,
         file' = file, layout' = layout, frames' = frames, stored' = stored, OpensAsSealed'
  PROVE  SealedInv'
PROOF
<1>1. /\ file \in Seq(Bytes) /\ layout \in {"framed", "single"} /\ frames \in Nat
      /\ stored \in Seq(Cells) /\ Len(stored) > 0 /\ OfTheFile /\ FramesStand /\ SingleFits
  BY DEF SealedInv
<1>2. OfTheFile' /\ FramesStand' /\ SingleFits'
  <2>1. OfTheFile'
    BY <1>1 DEF OfTheFile
  <2>2. FramesStand'
    BY <1>1 DEF FramesStand
  <2>3. SingleFits'
    BY <1>1 DEF SingleFits
  <2> QED
    BY <2>1, <2>2, <2>3
<1>3. ReaderFits'
  BY DEF ReaderFits
<1> QED
  BY <1>1, <1>2, <1>3 DEF SealedInv

(* An intact file of at least one byte is known to be framed.               *)
LEMMA KnownAsFramed ==
  ASSUME NEW noise, SealedInv, sealStage = "stored", layout = "framed", intact, file # <<>>
  PROVE  isChunkedPayload(stored, noise)
PROOF
<1>1. file \in Seq(Bytes) /\ stored \in Seq(Cells) /\ frames \in Nat /\ FramesStand
  BY DEF SealedInv
<1>2. PICK p : p = file
  OBVIOUS
<1>3. PICK s : s = stored
  OBVIOUS
<1>4. /\ Len(s) = 1 + 3 * frames + Upto(p, frames)
      /\ \A k \in Nat : k < frames => FrameAt(s, p, k) /\ Times(k) < Len(p)
      /\ Upto(p, frames) = Len(p)
  BY <1>1, <1>2, <1>3 DEF FramesStand
<1>5. p \in Seq(Bytes) /\ Len(p) \in Nat /\ Len(p) > 0
  BY <1>1, <1>2
<1>6. s \in Seq(Cells)
  BY <1>1, <1>3
<1>7. frames > 0
  <2>1. Upto(p, 0) = 0
    BY <1>5, UptoGrows
  <2>2. frames # 0
    BY <2>1, <1>4, <1>5
  <2> QED
    BY <2>2, <1>1
<1>8. PICK k \in Nat : k = 0
  OBVIOUS
<1>9. FrameAt(s, p, k) /\ Times(k) < Len(p)
  BY <1>4, <1>7, <1>8
<1>10. PICK at \in Nat : at = 2
  OBVIOUS
<1>11. at = Start(p, k) /\ Start(p, k + 1) <= Start(p, frames)
  BY <1>1, <1>5, <1>7, <1>8, <1>10, StartsFollow
<1>12. Start(p, frames) = Len(s) + 1
  <2>1. Len(s) = 1 + 3 * frames + Upto(p, frames)
    BY <1>4
  <2> QED
    BY <2>1, <1>1, <1>4, <1>5 DEF Start
<1>13. /\ Index(s, at, noise) = k
       /\ Declared(s, at, noise) = Size(p, k) + 1
       /\ LengthOk(Size(p, k) + 1)
       /\ at + HeaderCells + (Size(p, k) + 1) = Start(p, k + 1)
  BY <1>5, <1>6, <1>9, <1>11, <1>12, FrameDeclared
<1>14. PICK d : d = Size(p, k) + 1
  OBVIOUS
<1>15. d \in Nat /\ d > 1 /\ at + HeaderCells + d <= Len(s) + 1
  <2>1. Size(p, k) \in 1 .. ChunkSize
    BY <1>5, <1>9, UptoGrows
  <2>2. Size(p, k) \in Nat /\ Size(p, k) > 0
    BY <2>1, SealBounds
  <2> QED
    BY <2>2, <1>11, <1>12, <1>13, <1>14
<1>16. Len(s) \in Nat
  BY <1>6
<1>17. Len(s) >= 1 + HeaderCells /\ 1 + HeaderCells + d <= Len(s)
  BY <1>10, <1>15, <1>16 DEF HeaderCells
<1>18. /\ Index(s, 2, noise) = 0 /\ Declared(s, 2, noise) = d /\ LengthOk(d)
  BY <1>8, <1>10, <1>13, <1>14
<1> QED
  BY <1>3, <1>17, <1>18, Zenon DEF isChunkedPayload

(* A file taken for a single ciphertext: an intact framed file never is.    *)
LEMMA SingleOpened == ASSUME NEW key, NEW noise PROVE SealedInv /\ OpenSingle(key, noise) => SealedInv'
PROOF
<1> SUFFICES ASSUME SealedInv, OpenSingle(key, noise)
             PROVE  SealedInv'
  OBVIOUS
<1>1. /\ sealStage = "stored" /\ ~ isChunkedPayload(stored, noise) /\ sealStage' = "done"
      /\ opened' = Decrypt(BaseIV, key, Tail(stored))
      /\ intact' = (intact /\ key = "aes")
      /\ file' = file /\ layout' = layout /\ frames' = frames /\ stored' = stored
  BY Zenon DEF OpenSingle
<1>2. /\ file \in Seq(Bytes) /\ layout \in {"framed", "single"} /\ intact \in BOOLEAN
      /\ stored \in Seq(Cells) /\ Len(stored) > 0 /\ OfTheFile /\ SingleFits
  BY DEF SealedInv
<1>3. intact' \in BOOLEAN /\ (intact' => intact /\ key = "aes")
  BY <1>1, <1>2
<1>4. PICK p : p = file
  OBVIOUS
<1>5. PICK s : s = stored
  OBVIOUS
<1>6. PICK c : c = Tail(s)
  OBVIOUS
<1>7. p \in Seq(Bytes) /\ s \in Seq(Cells) /\ Len(s) > 0 /\ Len(s) \in Nat /\ Len(p) \in Nat /\ BaseIV \in Nat
  BY <1>2, <1>4, <1>5 DEF BaseIV
<1>8. c \in Seq(Cells) /\ Len(c) = Len(s) - 1 /\ \A i \in 1 .. Len(s) - 1 : c[i] = s[i + 1]
  <2>1. /\ Tail(s) \in Seq(Cells) /\ Len(Tail(s)) = Len(s) - 1
        /\ \A i \in 1 .. Len(s) - 1 : Tail(s)[i] = s[i + 1]
    BY <1>7
  <2> QED
    BY <2>1, <1>6, Zenon
<1>9. PICK o : o = Decrypt(BaseIV, key, c)
  OBVIOUS
<1>10. opened' = o
  BY <1>1, <1>5, <1>6, <1>9, Zenon
<1>11. ASSUME layout = "framed"
       PROVE  OpensAsSealed'
  <2>1. ~ intact' \/ file = <<>>
    BY <1>1, <1>3, <1>11, KnownAsFramed
  <2>2. ASSUME o.ok
        PROVE  \E n \in 0 .. Len(p) :
                  /\ o.bytes = SubSeq(p, 1, n)
                  /\ n = Len(p) \/ \E j \in 0 .. n : n = j * ChunkSize
    <3>1. c[1] = s[2] /\ 2 \in 1 .. Len(s)
      <4>1. Len(c) > 0
        BY <2>2, <1>7, <1>8, <1>9, DecryptIs
      <4> QED
        BY <4>1, <1>7, <1>8, SMTT(40)
    <3>2. OfItsChunk(p, c[1])
      BY <3>1, <1>2, <1>4, <1>5, <1>11 DEF OfTheFile
    <3>3. PICK k \in Nat : k = BaseIV /\ k = 0
      BY DEF BaseIV
    <3>4. Times(k) < Len(p) /\ o = Opened(Chunk(p, k))
      BY <2>2, <3>2, <3>3, <1>8, <1>9, OpensItsChunk, ZenonT(60)
    <3>5. Chunk(p, k) = SubSeq(p, 1, Upto(p, 1))
      <4>1. k * ChunkSize + 1 = 1 /\ k + 1 = 1
        BY <3>3, SealBounds
      <4> QED
        BY <4>1 DEF Chunk, Upto, Times
    <3>6. o.bytes = SubSeq(p, 1, Upto(p, 1))
      BY <3>4, <3>5 DEF Opened
    <3>7. \E n \in 0 .. Len(p) :
             /\ SubSeq(p, 1, Upto(p, 1)) = SubSeq(p, 1, n)
             /\ n = Len(p) \/ \E j \in 0 .. n : n = j * ChunkSize
      BY <1>7, PrefixFits
    <3> QED
      BY <3>6, <3>7, Zenon
  <2>3. /\ layout' # "single" /\ file' = p /\ opened' = o
        /\ ~ intact' \/ file' = <<>>
    BY <2>1, <1>1, <1>4, <1>10, <1>11
  <2> QED
    BY <2>2, <2>3, Zenon DEF OpensAsSealed
<1>12. ASSUME layout = "single"
       PROVE  OpensAsSealed'
  <2>1. /\ \A i \in 2 .. Len(s) : s[i] = Cipher(BaseIV, i - 1, p)
        /\ intact => Len(s) = Len(p) + 2
    BY <1>1, <1>2, <1>4, <1>5, <1>12 DEF SingleFits
  <2>2. ASSUME NEW i \in 1 .. Len(c)
        PROVE  c[i] = Cipher(BaseIV, i, p)
    <3>1. PICK j \in 2 .. Len(s) : j = i + 1
      BY <1>7, <1>8
    <3>2. i \in 1 .. Len(s) - 1 /\ j - 1 = i
      BY <3>1, <1>8
    <3> QED
      BY <3>1, <3>2, <2>1, <1>8
  <2>3. o.ok => o = Opened(p)
    <3>1. SUFFICES ASSUME o.ok
                   PROVE  o = Opened(p)
      OBVIOUS
    <3>2. Len(c) > 0 /\ o = Opened(c[1].of)
      BY <3>1, <1>7, <1>8, <1>9, DecryptIs
    <3>3. c[1].of = p
      <4>1. 1 \in 1 .. Len(c)
        BY <3>2, <1>7, <1>8
      <4>2. c[1] = Cipher(BaseIV, 1, p)
        BY <4>1, <2>2
      <4> QED
        BY <4>2 DEF Cipher
    <3> QED
      BY <3>2, <3>3
  <2>4. intact' => o = Opened(p)
    <3>1. SUFFICES ASSUME intact'
                   PROVE  o = Opened(p)
      OBVIOUS
    <3>2. Len(c) = Len(p) + 1 /\ key = "aes"
      BY <3>1, <2>1, <1>3, <1>7, <1>8
    <3>3. PICK e : e = Encrypt(BaseIV, p)
      OBVIOUS
    <3>4. /\ e \in Seq(Cells) /\ Len(e) = Len(p) + 1
          /\ \A i \in 1 .. Len(p) + 1 : e[i] = Cipher(BaseIV, i, p)
          /\ Decrypt(BaseIV, "aes", e) = Opened(p)
      <4>1. /\ Encrypt(BaseIV, p) \in Seq(Cells) /\ Len(Encrypt(BaseIV, p)) = Len(p) + 1
            /\ \A i \in 1 .. Len(p) + 1 : Encrypt(BaseIV, p)[i] = Cipher(BaseIV, i, p)
            /\ Decrypt(BaseIV, "aes", Encrypt(BaseIV, p)) = Opened(p)
        BY <1>7, EncryptIs, Zenon
      <4> QED
        BY <4>1, <3>3, Zenon
    <3>5. c = e
      <4>1. Len(c) = Len(e) /\ \A i \in 1 .. Len(c) : c[i] = e[i]
        BY <3>2, <3>4, <2>2
      <4>2. c \in Seq(Cells) /\ e \in Seq(Cells)
        BY <1>8, <3>4
      <4> QED
        BY <4>1, <4>2, AlikeAt
    <3> QED
      BY <3>2, <3>4, <3>5, <1>9, Zenon
  <2>5. p = SubSeq(p, 1, Len(p)) /\ Len(p) \in 0 .. Len(p)
    BY <1>7
  <2>6. o.ok => o.bytes = SubSeq(p, 1, Len(p))
    BY <2>3, <2>5 DEF Opened
  <2>7. file' = p /\ opened' = o
    BY <1>1, <1>4, <1>10
  <2> QED
    BY <2>4, <2>5, <2>6, <2>7, Zenon DEF OpensAsSealed
<1>13. OpensAsSealed'
  BY <1>2, <1>11, <1>12
<1> QED
  BY <1>1, <1>3, <1>13, DoneFits

EndOfBody(sealed, at, noise) == at + HeaderCells + Declared(sealed, at, noise)

(* The body of the frame at "at", up to "to": not empty, and of that index.  *)
BodyStands(sealed, at, e, noise, to) ==
  /\ Index(sealed, at, noise) = e
  /\ to \in Nat /\ to > 1
  /\ SubSeq(sealed, at + HeaderCells, to - 1) \in Seq(Cells)
  /\ Len(SubSeq(sealed, at + HeaderCells, to - 1)) > 0
  /\ SubSeq(sealed, at + HeaderCells, to - 1)[1] = sealed[at + 2]
  /\ at + 2 \in 1 .. Len(sealed)

(* What a header that was accepted says, and what stands behind it.         *)
LEMMA BodyRead ==
  ASSUME NEW sealed \in Seq(Cells), NEW at \in Nat, at > 1, NEW e \in Nat, NEW noise \in Noises,
         FrameAccepted(sealed, at, e, noise)
  PROVE  BodyStands(sealed, at, e, noise, EndOfBody(sealed, at, noise))
PROOF
<1>1. /\ at + 1 <= Len(sealed) /\ LengthOk(Declared(sealed, at, noise))
      /\ Index(sealed, at, noise) = e
      /\ at + HeaderCells + Declared(sealed, at, noise) - 1 <= Len(sealed)
  <2>1. /\ at + HeaderCells - 1 <= Len(sealed) /\ LengthOk(Declared(sealed, at, noise))
        /\ Index(sealed, at, noise) = e
        /\ at + HeaderCells + Declared(sealed, at, noise) - 1 <= Len(sealed)
    BY Zenon DEF FrameAccepted
  <2>2. at + HeaderCells - 1 = at + 1
    BY DEF HeaderCells
  <2>3. at + 1 <= Len(sealed)
    BY <2>1, <2>2, Zenon
  <2> QED
    BY <2>1, <2>3
<1>2. Len(sealed) \in Nat
  OBVIOUS
<1>3. PICK c : c = sealed[at + 1]
  OBVIOUS
<1>4. c \in Cells
  BY <1>1, <1>2, <1>3
<1>5. PICK d : d = Declared(sealed, at, noise)
  OBVIOUS
<1>6. d \in Nat
  <2>1. noise.length \in Nat
    BY SealBounds DEF Noises
  <2>2. CASE c.is = "word"
    <3>1. c.n \in Nat
      BY <2>2, <1>4 DEF Cells, IV, Word, Cipher
    <3> QED
      BY <2>2, <3>1, <1>3, <1>5 DEF Declared, readU32le
  <2>3. CASE c.is # "word"
    BY <2>1, <2>3, <1>3, <1>5 DEF Declared, readU32le
  <2> QED
    BY <2>2, <2>3
<1>7. d > 1
  BY <1>1, <1>5 DEF LengthOk
<1>8. PICK to : to = EndOfBody(sealed, at, noise)
  OBVIOUS
<1>9. to = at + 2 + d /\ to - 1 <= Len(sealed)
  <2>1. at + HeaderCells + d - 1 <= Len(sealed) /\ to = at + HeaderCells + d
    BY <1>1, <1>5, <1>8 DEF EndOfBody
  <2> QED
    BY <2>1, <1>6 DEF HeaderCells
<1>10. PICK from, upto \in Nat : from = at + 2 /\ upto = to - 1
  <2>1. at + 2 \in Nat /\ to - 1 \in Nat
    BY <1>6, <1>7, <1>9
  <2> QED
    BY <2>1
<1>11. from > 0 /\ upto <= Len(sealed) /\ from <= upto + 1 /\ upto - from + 1 = d
  BY <1>1, <1>6, <1>7, <1>9, <1>10
<1>12. /\ SubSeq(sealed, from, upto) \in Seq(Cells)
       /\ Len(SubSeq(sealed, from, upto)) = upto - from + 1
       /\ \A i \in 1 .. upto - from + 1 : SubSeq(sealed, from, upto)[i] = sealed[from + i - 1]
  BY <1>11, PartAt
<1>13. 1 \in 1 .. upto - from + 1 /\ from + 1 - 1 = from /\ upto - from + 1 > 0
  BY <1>6, <1>7, <1>11
<1>14. SubSeq(sealed, from, upto)[1] = sealed[from] /\ Len(SubSeq(sealed, from, upto)) > 0
  BY <1>12, <1>13
<1>15. from = at + HeaderCells
  BY <1>10 DEF HeaderCells
<1>16. to \in Nat /\ to > 1 /\ at + 2 \in 1 .. Len(sealed)
  BY <1>1, <1>2, <1>6, <1>7, <1>9
<1>17. /\ Index(sealed, at, noise) = e
        /\ SubSeq(sealed, at + HeaderCells, to - 1) \in Seq(Cells)
        /\ Len(SubSeq(sealed, at + HeaderCells, to - 1)) > 0
        /\ SubSeq(sealed, at + HeaderCells, to - 1)[1] = sealed[at + 2]
  BY <1>1, <1>10, <1>12, <1>14, <1>15
<1> QED
  BY <1>16, <1>17, <1>8, Zenon DEF BodyStands

(* A frame that opens adds the next chunk: it stands under the index that   *)
(* was due, and ciphertext under that index is of that chunk.               *)
LEMMA FrameOpened == ASSUME NEW noise \in Noises PROVE SealedInv /\ decryptFileChunked(noise) => SealedInv'
PROOF
<1> SUFFICES ASSUME SealedInv, decryptFileChunked(noise)
             PROVE  SealedInv'
  OBVIOUS
<1>1. /\ sealStage = "opening" /\ reader.at <= Len(stored) /\ FrameOpens(noise)
      /\ reader' = [reader EXCEPT !.at = BodyEnd(noise), !.expected = @ + 1,
                                  !.bytes = @ \o FramePlain(noise).bytes]
      /\ file' = file /\ layout' = layout /\ sealStage' = sealStage /\ frames' = frames
      /\ stored' = stored /\ intact' = intact /\ opened' = opened
  BY Zenon DEF decryptFileChunked
<1>2. /\ file \in Seq(Bytes) /\ layout \in {"framed", "single"} /\ frames \in Nat
      /\ intact \in BOOLEAN /\ stored \in Seq(Cells) /\ opened = Failed
      /\ OfTheFile /\ FramesStand /\ SingleFits /\ ReaderFits
  BY <1>1 DEF SealedInv
<1>3. PICK p : p = file
  OBVIOUS
<1>4. PICK s : s = stored
  OBVIOUS
<1>5. p \in Seq(Bytes) /\ s \in Seq(Cells)
  BY <1>2, <1>3, <1>4
<1>6. PICK at \in Nat : at = reader.at /\ at > 1
  BY <1>1, <1>2 DEF ReaderFits
<1>7. PICK e \in Nat : e = reader.expected
  BY <1>1, <1>2 DEF ReaderFits
<1>8. PICK to : to = BodyEnd(noise)
  OBVIOUS
<1>9. FrameAccepted(s, at, e, noise) /\ to = EndOfBody(s, at, noise)
  BY <1>1, <1>4, <1>6, <1>7, <1>8, Zenon DEF FrameOpens, BodyEnd, EndOfBody
<1>10. PICK c : c = SubSeq(s, at + HeaderCells, to - 1)
  OBVIOUS
<1>11. /\ Index(s, at, noise) = e /\ to \in Nat /\ to > 1
       /\ c \in Seq(Cells) /\ Len(c) > 0 /\ c[1] = s[at + 2] /\ at + 2 \in 1 .. Len(s)
  <2>1. /\ Index(s, at, noise) = e /\ to \in Nat /\ to > 1
        /\ SubSeq(s, at + HeaderCells, to - 1) \in Seq(Cells)
        /\ Len(SubSeq(s, at + HeaderCells, to - 1)) > 0
        /\ SubSeq(s, at + HeaderCells, to - 1)[1] = s[at + 2]
        /\ at + 2 \in 1 .. Len(s)
    <3>1. /\ s \in Seq(Cells) /\ at \in Nat /\ at > 1 /\ e \in Nat /\ noise \in Noises
          /\ FrameAccepted(s, at, e, noise)
      BY <1>5, <1>6, <1>7, <1>9
    <3>2. to = EndOfBody(s, at, noise)
      BY <1>9
    <3>3. BodyStands(s, at, e, noise, EndOfBody(s, at, noise))
      BY <3>1, BodyRead, Zenon
    <3> QED
      BY <3>3, <3>2, Zenon DEF BodyStands
  <2> QED
    BY <2>1, <1>10, Zenon
<1>12. PICK o : o = Decrypt(e, reader.key, c)
  OBVIOUS
<1>13. FramePlain(noise) = o /\ o.ok
  <2>1. FramePlain(noise) = Decrypt(Index(s, at, noise), reader.key, SubSeq(s, at + HeaderCells, to - 1))
    BY <1>4, <1>6, <1>8, Zenon DEF FramePlain
  <2> QED
    BY <2>1, <1>1, <1>10, <1>11, <1>12, Zenon DEF FrameOpens
<1>14. layout = "framed"
  <2>1. SUFFICES ASSUME layout = "single"
                 PROVE  FALSE
    BY <1>2
  <2>2. at = 2
    BY <2>1, <1>1, <1>2, <1>6 DEF ReaderFits
  <2>3. c[1] = Cipher(BaseIV, 3, p)
    <3>1. 4 \in 2 .. Len(s) /\ c[1] = s[4]
      BY <2>2, <1>11
    <3>2. s[4] = Cipher(BaseIV, 4 - 1, p)
      BY <3>1, <2>1, <1>2, <1>3, <1>4 DEF SingleFits
    <3> QED
      BY <3>1, <3>2
  <2>4. c[1] = Cipher(e, 1, c[1].of)
    BY <1>11, <1>12, <1>13, DecryptIs
  <2>5. c[1].at = 3 /\ c[1].at = 1
    BY <2>3, <2>4 DEF Cipher
  <2> QED
    BY <2>5
<1>15. OfItsChunk(p, c[1])
  BY <1>2, <1>3, <1>4, <1>11, <1>14 DEF OfTheFile
<1>16. Times(e) < Len(p) /\ o = Opened(Chunk(p, e))
  BY <1>11, <1>12, <1>13, <1>15, OpensItsChunk
<1>17. PICK r : r = reader'
  OBVIOUS
<1>18. /\ r = [key |-> r.key, at |-> r.at, expected |-> r.expected, bytes |-> r.bytes]
       /\ r.key = reader.key /\ r.at = to /\ r.expected = e + 1
       /\ r.bytes = reader.bytes \o Chunk(p, e)
  <2>1. PICK b : b = FramePlain(noise).bytes
    OBVIOUS
  <2>2. b = Chunk(p, e)
    BY <2>1, <1>13, <1>16 DEF Opened
  <2>3. r = [reader EXCEPT !.at = to, !.expected = @ + 1, !.bytes = @ \o b]
    BY <1>1, <1>8, <1>17, <2>1
  <2>4. reader = [key |-> reader.key, at |-> reader.at, expected |-> reader.expected, bytes |-> reader.bytes]
    BY <1>1, <1>2 DEF ReaderFits
  <2>5. /\ r = [key |-> r.key, at |-> r.at, expected |-> r.expected, bytes |-> r.bytes]
        /\ r.key = reader.key /\ r.at = to /\ r.expected = reader.expected + 1
        /\ r.bytes = reader.bytes \o b
    BY <2>3, <2>4
  <2> QED
    BY <2>2, <2>5, <1>7
<1>19. r.bytes = SubSeq(p, 1, Upto(p, e + 1))
  <2>1. reader.bytes = SubSeq(p, 1, Upto(p, e))
    BY <1>1, <1>2, <1>3, <1>7 DEF ReaderFits
  <2>2. SubSeq(p, 1, Upto(p, e)) \o Chunk(p, e) = SubSeq(p, 1, Upto(p, e + 1))
    BY <1>5, <1>16, ChunkIs
  <2> QED
    BY <2>1, <2>2, <1>18, Zenon
<1>20. intact => /\ r.key = "aes" /\ frames > 0
                 /\ e + 1 <= frames /\ to = Start(p, e + 1)
  <2>1. SUFFICES ASSUME intact
                 PROVE  /\ r.key = "aes" /\ frames > 0
                        /\ e + 1 <= frames /\ to = Start(p, e + 1)
    OBVIOUS
  <2>2. reader.key = "aes" /\ frames > 0 /\ e <= frames /\ at = Start(p, e)
    BY <2>1, <1>1, <1>2, <1>3, <1>6, <1>7 DEF ReaderFits
  <2>3. /\ Len(s) = 1 + 3 * frames + Upto(p, frames)
        /\ \A k \in Nat : k < frames => FrameAt(s, p, k)
    BY <2>1, <1>2, <1>3, <1>4, <1>14 DEF FramesStand
  <2>4. Len(s) + 1 = Start(p, frames) /\ Len(s) \in Nat
    <3>1. Upto(p, frames) \in Nat
      BY <1>2, <1>5, UptoGrows
    <3> QED
      BY <3>1, <2>3, <1>2 DEF Start
  <2>5. e # frames
    <3>1. at <= Len(s)
      BY <1>1, <1>4, <1>6
    <3> QED
      BY <3>1, <2>2, <2>4
  <2>6. e < frames /\ FrameAt(s, p, e)
    BY <2>2, <2>3, <2>5, <1>2
  <2>7. Start(p, e + 1) <= Start(p, frames)
    BY <2>6, <1>2, <1>5, StartsFollow
  <2>8. Start(p, e + 1) <= Len(s) + 1
    BY <2>4, <2>7
  <2>9. to = Start(p, e + 1)
    <3>1. /\ Declared(s, at, noise) = Size(p, e) + 1
          /\ at + HeaderCells + (Size(p, e) + 1) = Start(p, e + 1)
      BY <2>2, <2>6, <2>8, <1>5, <1>16, FrameDeclared
    <3> QED
      BY <3>1, <1>9 DEF EndOfBody
  <2> QED
    BY <2>2, <2>6, <2>9, <1>2, <1>18
<1>21. ReaderFits'
  <2>1. /\ {r.at, r.expected} \subseteq Nat /\ r.at > 1
        /\ r.bytes = SubSeq(p, 1, Upto(p, r.expected))
        /\ intact => /\ r.key = "aes" /\ frames > 0
                     /\ r.expected <= frames /\ r.at = Start(p, r.expected)
    <3>1. r.at = to /\ r.expected = e + 1 /\ e + 1 \in Nat
      BY <1>18
    <3> QED
      BY <3>1, <1>11, <1>19, <1>20
  <2>2. r = [key |-> r.key, at |-> r.at, expected |-> r.expected, bytes |-> r.bytes]
    BY <1>18
  <2>3. /\ reader' = r /\ file' = p /\ intact' = intact /\ frames' = frames /\ layout' # "single"
    BY <1>1, <1>3, <1>14, <1>17
  <2> QED
    BY <2>1, <2>2, <2>3 DEF ReaderFits
<1>22. OfTheFile' /\ FramesStand' /\ SingleFits'
  <2>1. OfTheFile'
    BY <1>1, <1>2 DEF OfTheFile
  <2>2. FramesStand'
    BY <1>1, <1>2 DEF FramesStand
  <2>3. SingleFits'
    BY <1>1, <1>2 DEF SingleFits
  <2> QED
    BY <2>1, <2>2, <2>3
<1>23. OpensAsSealed'
  <2>1. sealStage' = "opening" /\ ~ opened'.ok
    BY <1>1, <1>2 DEF Failed
  <2> QED
    BY <2>1 DEF OpensAsSealed
<1>24. /\ file' \in Seq(Bytes) /\ layout' \in {"framed", "single"} /\ frames' \in Nat
       /\ intact' \in BOOLEAN /\ stored' \in Seq(Cells) /\ Len(stored') > 0
       /\ sealStage' = "opening" /\ opened' = Failed
  BY <1>1, <1>2 DEF SealedInv
<1> QED
  BY <1>21, <1>22, <1>23, <1>24 DEF SealedInv

(* No frame of an intact file is refused.                                   *)
LEMMA RefusedFits == ASSUME NEW noise \in Noises PROVE SealedInv /\ FrameRefused(noise) => SealedInv'
PROOF
<1> SUFFICES ASSUME SealedInv, FrameRefused(noise)
             PROVE  SealedInv'
  OBVIOUS
<1>1. /\ sealStage = "opening" /\ reader.at <= Len(stored) /\ ~ FrameOpens(noise)
      /\ opened' = Failed /\ sealStage' = "done"
      /\ file' = file /\ layout' = layout /\ frames' = frames /\ stored' = stored /\ intact' = intact
  BY Zenon DEF FrameRefused
<1>2. /\ file \in Seq(Bytes) /\ layout \in {"framed", "single"} /\ frames \in Nat
      /\ intact \in BOOLEAN /\ stored \in Seq(Cells) /\ FramesStand /\ ReaderFits
  BY DEF SealedInv
<1>3. ASSUME intact
      PROVE  FALSE
  <2>1. PICK p : p = file
    OBVIOUS
  <2>2. PICK s : s = stored
    OBVIOUS
  <2>3. p \in Seq(Bytes) /\ s \in Seq(Cells)
    BY <1>2, <2>1, <2>2
  <2>4. layout = "framed"
    BY <1>1, <1>2, <1>3 DEF ReaderFits
  <2>5. PICK at \in Nat : at = reader.at
    BY <1>1, <1>2 DEF ReaderFits
  <2>6. PICK e \in Nat : e = reader.expected
    BY <1>1, <1>2 DEF ReaderFits
  <2>7. reader.key = "aes" /\ e <= frames /\ at = Start(p, e)
    BY <1>1, <1>2, <1>3, <2>1, <2>5, <2>6 DEF ReaderFits
  <2>8. /\ Len(s) = 1 + 3 * frames + Upto(p, frames)
        /\ \A k \in Nat : k < frames => FrameAt(s, p, k) /\ Times(k) < Len(p)
    BY <1>2, <1>3, <2>1, <2>2, <2>4 DEF FramesStand
  <2>9. Len(s) + 1 = Start(p, frames) /\ Len(s) \in Nat
    <3>1. Upto(p, frames) \in Nat
      BY <1>2, <2>3, UptoGrows
    <3> QED
      BY <3>1, <2>8, <1>2 DEF Start
  <2>10. e # frames
    <3>1. at <= Len(s)
      BY <1>1, <2>2, <2>5
    <3> QED
      BY <3>1, <2>7, <2>9
  <2>11. e < frames /\ FrameAt(s, p, e) /\ Times(e) < Len(p)
    BY <2>7, <2>8, <2>10, <1>2
  <2>12. Start(p, e + 1) <= Start(p, frames)
    BY <2>11, <1>2, <2>3, StartsFollow
  <2>13. Start(p, e + 1) <= Len(s) + 1
    BY <2>9, <2>12
  <2>14. /\ Index(s, at, noise) = e
         /\ Declared(s, at, noise) = Size(p, e) + 1
         /\ at + HeaderCells + (Size(p, e) + 1) = Start(p, e + 1)
         /\ FrameAccepted(s, at, e, noise)
    BY <2>3, <2>7, <2>11, <2>13, FrameDeclared
  <2>15. PICK from \in Nat : from = at + HeaderCells /\ from = Start(p, e) + 2
    BY <2>7 DEF HeaderCells
  <2>16. Start(p, e + 1) \in Nat /\ Start(p, e + 1) > 1
    <3>1. e + 1 \in Nat
      OBVIOUS
    <3> QED
      BY <3>1, <2>3, StartsFollow
  <2>17. PICK to \in Nat : to = Start(p, e + 1) - 1
    BY <2>16
  <2>18. Decrypt(e, "aes", SubSeq(s, from, to)) = Opened(Chunk(p, e))
    <3>1. to <= Len(s)
      BY <2>9, <2>13, <2>17, <2>16
    <3> QED
      BY <3>1, <2>3, <2>11, <2>15, <2>17, FrameIsOpened
  <2>19. FramePlain(noise) = Opened(Chunk(p, e))
    <3>1. BodyEnd(noise) - 1 = to
      BY <2>2, <2>5, <2>14, <2>17 DEF BodyEnd
    <3>2. FramePlain(noise) =
             Decrypt(Index(s, at, noise), reader.key,
                     SubSeq(s, at + HeaderCells, BodyEnd(noise) - 1))
      BY <2>2, <2>5, Zenon DEF FramePlain
    <3> QED
      BY <3>1, <3>2, <2>7, <2>14, <2>15, <2>18, Zenon
  <2>20. FramePlain(noise).ok
    BY <2>19 DEF Opened
  <2> QED
    BY <1>1, <2>2, <2>5, <2>6, <2>14, <2>20 DEF FrameOpens
<1>4. OpensAsSealed'
  <2>1. ~ intact' /\ ~ opened'.ok
    BY <1>1, <1>2, <1>3 DEF Failed
  <2> QED
    BY <2>1 DEF OpensAsSealed
<1> QED
  BY <1>1, <1>2, <1>3, <1>4, DoneFits

(* When the frames end, an intact file is read to its last byte.            *)
LEMMA FramesEnded == SealedInv /\ FramesEnd => SealedInv'
PROOF
<1> SUFFICES ASSUME SealedInv, FramesEnd
             PROVE  SealedInv'
  OBVIOUS
<1>1. /\ sealStage = "opening" /\ reader.at > Len(stored) /\ sealStage' = "done"
      /\ opened' = (IF reader.expected = 0 THEN Failed ELSE Opened(reader.bytes))
      /\ file' = file /\ layout' = layout /\ frames' = frames /\ stored' = stored /\ intact' = intact
  BY Zenon DEF FramesEnd
<1>2. /\ file \in Seq(Bytes) /\ layout \in {"framed", "single"} /\ frames \in Nat
      /\ intact \in BOOLEAN /\ stored \in Seq(Cells) /\ FramesStand /\ ReaderFits
  BY DEF SealedInv
<1>3. PICK p : p = file
  OBVIOUS
<1>4. PICK e \in Nat : e = reader.expected
  BY <1>1, <1>2 DEF ReaderFits
<1>5. p \in Seq(Bytes) /\ Len(p) \in Nat /\ reader.bytes = SubSeq(p, 1, Upto(p, e))
  BY <1>1, <1>2, <1>3, <1>4 DEF ReaderFits
<1>6. opened'.ok => /\ opened'.bytes = SubSeq(p, 1, Upto(p, e))
  BY <1>1, <1>5 DEF Failed, Opened
<1>7. \E n \in 0 .. Len(p) :
         /\ SubSeq(p, 1, Upto(p, e)) = SubSeq(p, 1, n)
         /\ n = Len(p) \/ \E j \in 0 .. n : n = j * ChunkSize
  BY <1>5, PrefixFits
<1>8. ASSUME intact
      PROVE  opened' = Opened(p)
  <2>1. layout = "framed"
    BY <1>1, <1>2, <1>8 DEF ReaderFits
  <2>2. frames > 0 /\ e <= frames /\ reader.at = Start(p, e)
    BY <1>1, <1>2, <1>3, <1>4, <1>8 DEF ReaderFits
  <2>3. Len(stored) = 1 + 3 * frames + Upto(p, frames) /\ Upto(p, frames) = Len(p)
    BY <1>1, <1>2, <1>3, <1>8, <2>1 DEF FramesStand
  <2>4. Len(stored) + 1 = Start(p, frames) /\ Len(stored) \in Nat
    BY <2>3, <1>2, <1>5 DEF Start
  <2>5. Start(p, frames) <= Start(p, e)
    <3>1. Start(p, e) \in Nat
      BY <1>5, StartsFollow
    <3> QED
      BY <3>1, <2>2, <2>4, <1>1
  <2>6. e = frames
    <3>1. SUFFICES ASSUME e < frames
                   PROVE  FALSE
      BY <2>2, <1>2
    <3>2. Start(p, e + 1) <= Start(p, frames)
      BY <3>1, <1>2, <1>5, StartsFollow
    <3>3. /\ Start(p, e) \in Nat /\ Size(p, e) \in Nat
          /\ Start(p, e + 1) = Start(p, e) + Size(p, e) + 3
      BY <1>5, StartsFollow
    <3>4. Start(p, frames) \in Nat
      BY <1>2, <1>5, StartsFollow
    <3> QED
      BY <3>2, <3>3, <3>4, <2>5
  <2>7. SubSeq(p, 1, Len(p)) = p
    BY <1>5
  <2>8. e # 0 /\ reader.bytes = p
    <3>1. reader.bytes = SubSeq(p, 1, Len(p))
      BY <2>3, <2>6, <1>5
    <3> QED
      BY <3>1, <2>2, <2>6, <2>7
  <2> QED
    BY <2>8, <1>1, <1>4
<1>9. OpensAsSealed'
  <2>1. file' = p /\ intact' = intact
    BY <1>1, <1>3
  <2>2. opened'.ok =>
          \E n \in 0 .. Len(p) :
             /\ opened'.bytes = SubSeq(p, 1, n)
             /\ n = Len(p) \/ \E j \in 0 .. n : n = j * ChunkSize
    BY <1>6, <1>7, Zenon
  <2> QED
    BY <1>8, <2>1, <2>2, Zenon DEF OpensAsSealed
<1> QED
  BY <1>1, <1>2, <1>9, DoneFits

(* Files of any length, in chunks of any size, and any frames or cut of     *)
(* them that storage may hand back: an intact file opens to its bytes, and  *)
(* of another only its first chunks open, in their order.  (seal.ts)        *)
THEOREM SealedOpens == SealSpec => []OpensAsSealed
PROOF
<1>1. SealInit => SealedInv
  BY SealedStarts
<1>2. SealedInv /\ [SealNext]_sealVars => SealedInv'
  <2>1. SUFFICES ASSUME SealedInv, [SealNext]_sealVars
                 PROVE  SealedInv'
    OBVIOUS
  <2>2. CASE UNCHANGED sealVars
    BY <2>1, <2>2 DEF sealVars, SealedInv, OfTheFile, FramesStand, SingleFits, ReaderFits, OpensAsSealed
  <2>3. CASE encryptFileChunkedAesGcm \/ SealEnds \/ encryptFileAesGcm
    BY <2>1, <2>3, ChunkSealed, SealEnded, SingleSealed
  <2>4. CASE StorageCuts \/ StorageLoses
    BY <2>1, <2>4, CutFits, LossFits
  <2>5. CASE \E index \in 0 .. FileMax : StorageReturns(index)
    <3>1. PICK index \in 0 .. FileMax : StorageReturns(index)
      BY <2>5
    <3>2. index \in Nat
      BY SealBounds
    <3> QED
      BY <2>1, <3>1, <3>2, ReturnFits
  <2>6. ASSUME NEW noise \in Noises, NEW key \in {"aes", "other"},
               OpenFramed(key, noise) \/ OpenSingle(key, noise)
        PROVE  SealedInv'
    BY <2>1, <2>6, FramedOpened, SingleOpened
  <2>7. ASSUME NEW noise \in Noises, decryptFileChunked(noise) \/ FrameRefused(noise)
        PROVE  SealedInv'
    BY <2>1, <2>7, FrameOpened, RefusedFits
  <2>8. CASE FramesEnd
    BY <2>1, <2>8, FramesEnded
  <2> QED
    BY <2>1, <2>2, <2>3, <2>4, <2>5, <2>6, <2>7, <2>8 DEF SealNext
<1>3. SealedInv => OpensAsSealed
  BY DEF SealedInv
<1> QED
  BY <1>1, <1>2, <1>3, PTL DEF SealSpec

=============================================================================
