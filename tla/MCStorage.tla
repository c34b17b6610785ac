------------------------------- MODULE MCStorage -------------------------------
(***************************************************************************)
(* The stores whose callers count on an earlier call not being made again:  *)
(* keys and receipts (KeyVault), catalog records (ArkivLedger) and pieces    *)
(* (SynapsePins); and what is put into them, records (HavenRecord) and       *)
(* sealed files (SealedFile).  They share nothing, so one run checks them    *)
(* side by side: a behaviour is one of them, chosen at the start.           *)
(***************************************************************************)
EXTENDS KeyVault, ArkivLedger, SynapsePins, HavenRecord, SealedFile, TLC

CONSTANTS bucket, record, Parts

VARIABLE part

MCRequests ==
  {"seal", "sealOnce", "decrypt"} \X {bucket} \cup {"attest"} \X {bucket, record}

CreateJob(xs) == [op |-> "create", contents |-> xs, entity |-> 0]
UpdateJob(i, x) == [op |-> "update", contents |-> <<x>>, entity |-> i]
MCJobs == {CreateJob(<<"a">>), CreateJob(<<"a", "b">>), UpdateJob(1, "a"), UpdateJob(1, "b")}

ContentSymmetry == Permutations(Contents)

(***************************************************************************)
(* Records: one good record of each group, with the attributes, payload     *)
(* fields and gate keys of a few of them replaced, removed or added.        *)
(***************************************************************************)
Token(u, p) == Hex("hex40", "token", u, p)
Digest(u, p) == Hex("hex64", "digest", u, p)
Parent(u, p) == Hex("hex64", "parent", u, p)
Piece == [is |-> "piece", whole |-> TRUE]

GateDoc(version, amount) ==
  [x \in {"version"} \cup GateKeys(version) |->
     CASE x = "version" -> Number(version)
       [] x = "chain" -> Text("BaseMainnet")
       [] x \in {"tokenAddress", "oracleAddress"} -> Token(TRUE, TRUE)
       [] x = "threshold" -> amount
       [] x \in {"epoch", "marketCapTarget"} -> Number(2)
       [] OTHER -> Text("some")]

Corpus(version, amount) ==
  [gate_type |-> Number(version), gate_token |-> Token(FALSE, TRUE),
   gate_chain |-> Number(8), gate_threshold |-> amount]

Titled(grp) == [grp |-> Text(grp), title |-> Text("title")]
Sum256 == [sha256_ct |-> Digest(FALSE, FALSE)]
Sealed(version, amount) == [piece |-> Piece, gate |-> Gate(GateDoc(version, amount))]

Base ==
  {[json |-> TRUE, attributes |-> Titled("haven.video.full") @@ Sum256 @@ Corpus(1, Digits(5)),
    payload |-> Sealed(1, Digits(5))],
   [json |-> TRUE,
    attributes |-> Titled("haven.video.full") @@ Sum256 @@ Corpus(3, Number(5))
                     @@ [gate_epoch |-> Number(2), dur_s |-> Number(7)],
    payload |-> Sealed(3, Digits(5))],
   [json |-> TRUE, attributes |-> Titled("haven.image.full") @@ Sum256 @@ [mime |-> Number(7)],
    payload |-> [fcid |-> [is |-> "cid", whole |-> TRUE], name |-> Text("name")]],
   [json |-> TRUE, attributes |-> Titled("own.group") @@ Sum256 @@ Corpus(1, Digits(5)),
    payload |-> Sealed(1, Number(5)) @@ [name |-> Text("name"), ct |-> Text("type/subtype")]],
   [json |-> TRUE,
    attributes |-> Titled("haven.video.drip.series") @@ Corpus(4, Digits(5))
                     @@ [drip_id |-> Text("drip"), drip_total |-> Number(2)],
    payload |-> [targets |-> [is |-> "targets", n |-> 2]]],
   [json |-> TRUE,
    attributes |-> Sum256 @@ [grp |-> Text("haven.video.drip.part"), gate_type |-> Number(4),
                              drip_id |-> Text("drip"), drip_idx |-> Number(0),
                              series_ref |-> Parent(FALSE, TRUE), mcap_usd |-> Number(2)],
    payload |-> Sealed(4, Digits(5))]}

Spelt(x) ==
  CASE x \in {"gate_token", "tokenAddress", "oracleAddress"} -> {Token(TRUE, TRUE), Token(FALSE, FALSE)}
    [] x \in {"sha256_ct", "pt_hash"} -> {Digest(TRUE, FALSE), Digest(TRUE, TRUE)}
    [] x = "series_ref" -> {Parent(TRUE, FALSE), Parent(TRUE, TRUE)}
    [] x \in {"gate_threshold", "threshold"} ->
         {Number(5), Number(SafeMax + 1), Digits(SafeMax + 1), Digits(U256Max + 1), Digits(0)}
    [] x = "expiresIn" -> {Number(2), Number(3)}
    [] x = "grp" -> {Text("haven.file.full"), Text("haven.meta.gate")}
    [] x \in {"title", "drip_id"} -> {Text(""), Text("over 128 bytes"), Digits(5)}
    [] x = "chain" -> {Text("EthMainnet"), Text("Solana")}
    [] x = "gate" -> {Text("no JSON")}
    [] x = "piece" -> {[is |-> "piece", whole |-> FALSE]}
    [] x = "fcid" -> {[is |-> "cid", whole |-> TRUE]}
    [] OTHER -> {Number(-1), Number(2), Number(I32Max + 1), Digits(2), Text("some")}

(* The ways to change f at x: drop it, or put another value there.           *)
Edits(f, xs) ==
  {[y \in DOMAIN f \ {x} |-> f[y]] : x \in xs \cap DOMAIN f}
    \cup UNION {{(x :> v) @@ f : v \in Spelt(x)} : x \in xs}

AttributeNames == I32Facts \cup {"grp", "title", "gate_token", "gate_threshold", "sha256_ct",
                                 "series_ref", "drip_id"}
PayloadNames == {"piece", "fcid", "gate", "cid_gate", "size", "pt_hash", "vlm", "name", "ct", "creator"}

WithAttributes(e) == {[e EXCEPT !.attributes = a] : a \in Edits(e.attributes, AttributeNames)}
WithPayload(e) == {[e EXCEPT !.payload = p] : p \in Edits(e.payload, PayloadNames)}
WithGate(e) ==
  IF Has(e.payload, "gate") /\ e.payload["gate"].is = "gate"
  THEN {[e EXCEPT !.payload["gate"] = Gate(g)] :
          g \in Edits(e.payload["gate"].of, DOMAIN e.payload["gate"].of \cup {"epoch"})}
  ELSE {}

NoEntry == [json |-> FALSE]

RecordIdle == entry = NoEntry /\ row = Unwritten
SealIdle ==
  /\ file = <<>> /\ layout = "framed" /\ sealStage = "sealing" /\ frames = 0 /\ stored = <<IV>>
  /\ intact = TRUE /\ reader = NoReader /\ opened = Failed

RecordInit ==
  /\ \E e \in Base :
       \/ \E d \in {e} \cup WithAttributes(e) : entry \in {d} \cup WithAttributes(d)
       \/ \E d \in {e} \cup WithAttributes(e) \cup WithGate(e) : entry \in WithGate(d)
       \/ entry \in WithPayload(e)
       \/ \E v \in Spelt("expiresIn") :
            entry = [json |-> TRUE, attributes |-> e.attributes, payload |-> e.payload,
                     expiresIn |-> v]
       \/ entry = [e EXCEPT !.json = FALSE]
  /\ Asked(entry)
  /\ row = Unwritten

(***************************************************************************)
(* One of them at a time.                                                   *)
(***************************************************************************)
StorageInit ==
  /\ part \in Parts
  /\ VaultInit /\ ArkivInit /\ PinsInit
  /\ part # "vault" => ~vault
  /\ IF part = "record" THEN RecordInit ELSE RecordIdle
  /\ IF part = "seal" THEN SealInit ELSE SealIdle

OnVault(step) == part = "vault" /\ step /\ UNCHANGED <<part, arkivVars, pinVars, recordVars, sealVars>>
OnArkiv(step) == part = "arkiv" /\ step /\ UNCHANGED <<part, vaultVars, pinVars, recordVars, sealVars>>
OnPins(step) == part = "pins" /\ step /\ UNCHANGED <<part, vaultVars, arkivVars, recordVars, sealVars>>
OnRecord(step) == part = "record" /\ step /\ UNCHANGED <<part, vaultVars, arkivVars, pinVars, sealVars>>
OnSeal(step) == part = "seal" /\ step /\ UNCHANGED <<part, vaultVars, arkivVars, pinVars, recordVars>>

StorageNext ==
  \/ \E c \in Asks :
       \/ OnVault(BeginSeal(c)) \/ OnVault(BeginDecrypt(c)) \/ OnVault(BeginAttest(c))
       \/ OnVault(Hit(c)) \/ OnVault(Miss(c)) \/ OnVault(Refuses(c))
       \/ OnVault(Fills(c)) \/ OnVault(FillFails(c))
       \/ OnVault(LedgerLoads(c)) \/ OnVault(Check(c))
       \/ OnVault(Mints(c)) \/ OnVault(MintFails(c))
       \/ OnVault(LedgerMerges(c)) \/ OnVault(LedgerWrites(c))
  \/ \E r \in Runtimes :
       OnVault(StoreLoads(r)) \/ OnVault(SaveReads(r)) \/ OnVault(SaveWrites(r))
  \/ OnVault(VaultCrash)
  \/ \E c \in Calls :
       \/ OnArkiv(AskCreate(c)) \/ OnArkiv(AskBatch(c)) \/ OnArkiv(AskUpdate(c))
       \/ OnArkiv(CheckKept(c)) \/ OnArkiv(CheckFinds(c))
       \/ OnArkiv(CheckUnknown(c)) \/ OnArkiv(CheckFails(c))
       \/ OnArkiv(Joins(c)) \/ OnArkiv(Sends(c)) \/ OnArkiv(Lands(c))
       \/ OnArkiv(Answers(c)) \/ OnArkiv(Fails(c))
  \/ OnArkiv(ArkivCrash)
  \/ \E c \in Pins :
       \/ OnPins(Requested(c)) \/ OnPins(PinDecided(c)) \/ OnPins(Stores(c))
       \/ OnPins(Uploads(c)) \/ OnPins(SelectionFails(c)) \/ OnPins(UploadFails(c))
       \/ OnPins(Signs(c)) \/ OnPins(SignFails(c))
       \/ OnPins(EnsuresLedger(c)) \/ OnPins(Loads(c)) \/ OnPins(LoadFails(c)) \/ OnPins(Records(c))
       \/ OnPins(Writes(c)) \/ OnPins(Renames(c)) \/ OnPins(SaveFails(c))
       \/ OnPins(Pinned(c)) \/ OnPins(NotPinned(c))
  \/ OnPins(PieceLost) \/ OnPins(PinsCrash)
  \/ OnRecord(Write)
  \/ OnSeal(encryptFileChunkedAesGcm) \/ OnSeal(SealEnds) \/ OnSeal(encryptFileAesGcm)
  \/ OnSeal(StorageCuts) \/ OnSeal(StorageLoses)
  \/ \E index \in 0 .. FileMax : OnSeal(StorageReturns(index))
  \/ \E noise \in Noises :
       \/ \E key \in {"aes", "other"} : OnSeal(OpenFramed(key, noise)) \/ OnSeal(OpenSingle(key, noise))
       \/ OnSeal(decryptFileChunked(noise)) \/ OnSeal(FrameRefused(noise))
  \/ OnSeal(FramesEnd)

StorageVars == <<part, vaultVars, arkivVars, pinVars, recordVars, sealVars>>
StorageSpec == StorageInit /\ [][StorageNext]_StorageVars

(* The state of each of the three is what its module says it is.            *)
StorageTypeOK == VaultTypeOK /\ ArkivTypeOK /\ PinsTypeOK
================================================================================
