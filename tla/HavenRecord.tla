---------------------------- MODULE HavenRecord ----------------------------
(***************************************************************************)
(* Haven's record format, which every Arkiv write and every Arkiv filter   *)
(* goes through (dsh-arkiv, haven.ts): validateHavenWrite refuses a record *)
(* or puts it in its wire form, normalizeHavenWhere puts a filter in the   *)
(* form the stored cells are compared with.                                *)
(*                                                                         *)
(* A JavaScript value is a record whose field "is" names its type:         *)
(* numbers, strings by the shapes the patterns tell apart, gate documents  *)
(* and the SDK's tagged values.  A string of hex digits keeps the case and *)
(* the prefix it is spelt with.  Attributes and payload are functions from *)
(* the names that are present.                                             *)
(***************************************************************************)
EXTENDS Integers

CONSTANTS
    I32Max,        \* the largest number an i32 cell holds
    SafeMax,       \* the largest number JavaScript counts exactly to
    U256Max        \* the largest token amount

ASSUME HavenBounds ==
    /\ {I32Max, SafeMax, U256Max} \subseteq Nat
    /\ 14 < I32Max
    /\ I32Max < SafeMax
    /\ SafeMax < U256Max

VARIABLES
    entry,         \* the write that is asked for
    row            \* what validateHavenWrite makes of it

recordVars == <<entry, row>>

(***************************************************************************)
(* Values.                                                                 *)
(***************************************************************************)
Number(n)   == [is |-> "number", n |-> n]
Digits(n)   == [is |-> "digits", n |-> n]
Text(t)     == [is |-> "text", text |-> t]
Hex(size, body, upper, prefix) ==
    [is |-> size, body |-> body, upper |-> upper, prefix |-> prefix]
Gate(g)     == [is |-> "gate", of |-> g]
Tagged(t, v) == [is |-> "tagged", tag |-> t, of |-> v]

IsString(v)    == v.is \in {"digits", "text", "hex40", "hex64", "gate", "piece", "cid"}
SomeString(v)  == IsString(v) /\ v # Text("")
ShortString(v) == SomeString(v) /\ v # Text("over 128 bytes")
Has(f, x)      == x \in DOMAIN f
IfPresent(f, x, Holds(_)) == x \in DOMAIN f => Holds(f[x])

Lowered(v)  == [v EXCEPT !.upper = FALSE]
Bare(v)     == [v EXCEPT !.upper = FALSE, !.prefix = FALSE]
Prefixed(v) == [v EXCEPT !.upper = FALSE, !.prefix = TRUE]

requireI32(v) == v.is = "number" /\ v.n \in -I32Max - 1 .. I32Max
NaturalI32(v) == requireI32(v) /\ v.n >= 0
Natural(v)    == v.is = "number" /\ v.n >= 0

(* A token amount: a safe integer or an exact decimal string, never 0.      *)
requireThreshold(v) ==
    \/ v.is = "number" /\ v.n \in 1 .. SafeMax
    \/ v.is = "digits" /\ v.n \in 1 .. U256Max

IsAddress(v)   == v.is = "hex40" /\ v.prefix
IsDigest(v)    == v.is = "hex64"

(***************************************************************************)
(* Groups.                                                                 *)
(***************************************************************************)
GroupClass ==
    [g \in {"haven.video.full", "haven.audio.full", "haven.image.full",
            "haven.text.full", "haven.file.full", "haven.video.drip.series",
            "haven.video.drip.part", "own.group"} |->
        CASE g = "haven.video.full"         -> "video"
          [] g = "haven.video.drip.series"  -> "series"
          [] g = "haven.video.drip.part"    -> "part"
          [] OTHER                          -> "generic"]

(* The other strings are reserved or are no lowercase dot hierarchy.        *)
classifyGroup(v) == v.is = "text" /\ v.text \in DOMAIN GroupClass

DefaultLife == [video |-> 4, generic |-> 4, series |-> 52, part |-> 12]

(* Lifetimes are counted in blocks of two seconds.                          *)
resolveExpiresIn(v) == v.is = "number" /\ v.n > 0 /\ v.n % 2 = 0

(***************************************************************************)
(* The gate document of an encrypted record.                               *)
(***************************************************************************)
ChainId == [EthMainnet |-> 1, BaseMainnet |-> 8, OptimismMainnet |-> 10]

GateKeys(version) ==
    {"cid", "chain", "tokenAddress", "threshold", "encryptedAesKey"}
        \union (IF version > 1 THEN {"epoch"} ELSE {})
        \union (IF version > 3 THEN {"marketCapTarget", "oracleAddress"} ELSE {})

parseGateJson(v) ==
    /\ v.is = "gate"
    /\ Has(v.of, "version")
    /\ v.of["version"] \in {Number(1), Number(3), Number(4)}
    /\ LET g == v.of
           version == g["version"].n
       IN  /\ GateKeys(version) \subseteq DOMAIN g
           /\ SomeString(g["cid"])
           /\ g["chain"] \in {Text(c) : c \in DOMAIN ChainId}
           /\ IsAddress(g["tokenAddress"])
           /\ SomeString(g["encryptedAesKey"])
           /\ version > 1 => Natural(g["epoch"])
           /\ version = 4 =>
                /\ Natural(g["marketCapTarget"])
                /\ IsAddress(g["oracleAddress"])

(* The gate's own amount has no upper bound.                                *)
gateThresholdValue(v) == v.is \in {"number", "digits"} /\ v.n > 0

(***************************************************************************)
(* The records of full and generic groups.                                 *)
(***************************************************************************)
PayloadKeys(class) ==
    {"piece", "fcid", "gate", "cid_gate", "size", "pt_hash", "seg", "codecs",
     "vlm", "vlm_model", "src", "creator", "phash", "attn", "x"}
        \union (IF class = "generic" THEN {"name", "ct"} ELSE {})

validateCommonPayloadExtras(p, class) ==
    /\ DOMAIN p \subseteq PayloadKeys(class)
    /\ IfPresent(p, "size", Natural)
    /\ IfPresent(p, "pt_hash", IsDigest)
    /\ IfPresent(p, "seg", LAMBDA v : v = Text("{segment_index}"))
    /\ IfPresent(p, "codecs", LAMBDA v : v = Text("[strings]"))
    /\ \A x \in {"vlm", "vlm_model", "src", "creator", "phash"} : IfPresent(p, x, SomeString)
    /\ \A x \in {"attn", "x"} : IfPresent(p, x, LAMBDA v : v = Text("{}"))

(* A name for generic files alone, a MIME string for those without a code.   *)
NamedAsItsGroup(p, class) ==
    IF class = "generic"
    THEN /\ Has(p, "name") /\ SomeString(p["name"])
         /\ IfPresent(p, "ct", LAMBDA v : v = Text("type/subtype"))
    ELSE ~ Has(p, "name") /\ ~ Has(p, "ct")

(* A locator: the whole PieceCID of ciphertext, or the CID of clear bytes.  *)
requireLocator(p) ==
    /\ ~ (Has(p, "piece") /\ Has(p, "fcid"))
    /\ Has(p, "piece") \/ Has(p, "fcid")
    /\ IfPresent(p, "piece", LAMBDA v : v.is = "piece" /\ v.whole)
    /\ IfPresent(p, "fcid", LAMBDA v : v.is \in {"cid", "piece"} /\ v.whole)

GatedAsItsLocator(p) ==
    IF Has(p, "piece")
    THEN /\ Has(p, "gate") /\ parseGateJson(p["gate"])
         /\ IfPresent(p, "cid_gate", parseGateJson)
    ELSE ~ Has(p, "gate") /\ ~ Has(p, "cid_gate")

GateAttributes == {"gate_type", "gate_token", "gate_chain", "gate_threshold"}

(* The searchable gate corpus says what the gate document says.             *)
CorpusAgrees(a, g) ==
    /\ GateAttributes \subseteq DOMAIN a
    /\ a["gate_type"] \in {Number(1), Number(3)} /\ a["gate_type"] = g["version"]
    /\ IsAddress(a["gate_token"]) /\ Lowered(a["gate_token"]) = Lowered(g["tokenAddress"])
    /\ a["gate_chain"] = Number(ChainId[g["chain"].text])
    /\ requireThreshold(a["gate_threshold"]) /\ gateThresholdValue(g["threshold"])
    /\ a["gate_threshold"].n = g["threshold"].n
    /\ IF a["gate_type"] = Number(3)
       THEN Has(a, "gate_epoch") /\ NaturalI32(a["gate_epoch"]) /\ a["gate_epoch"] = g["epoch"]
       ELSE ~ Has(a, "gate_epoch")

finishFull(class, a, p) ==
    /\ NamedAsItsGroup(p, class)
    /\ validateCommonPayloadExtras(p, class)
    /\ requireLocator(p)
    /\ GatedAsItsLocator(p)
    /\ Has(a, "title") /\ ShortString(a["title"])
    /\ IF Has(p, "piece")
       THEN CorpusAgrees(a, p["gate"].of)
       ELSE DOMAIN a \intersect (GateAttributes \union {"gate_epoch"}) = {}
    /\ Has(a, "sha256_ct") /\ IsDigest(a["sha256_ct"])
    /\ IfPresent(a, "mime", LAMBDA v : requireI32(v) /\ v.n \in 0 .. 14 /\ ~ Has(p, "ct"))
    /\ IfPresent(a, "dur_s", LAMBDA v : class = "video" /\ NaturalI32(v))
    /\ DOMAIN a \subseteq GateAttributes
            \union {"grp", "title", "gate_epoch", "sha256_ct", "mime", "dur_s"}

(***************************************************************************)
(* Drips: a series, and the parts that refer to it.                        *)
(***************************************************************************)
finishSeries(a, p) ==
    /\ DOMAIN p \subseteq {"targets", "creator", "mime"}
    /\ Has(p, "targets") /\ p["targets"].is = "targets" /\ p["targets"].n > 0
    /\ IfPresent(p, "creator", IsString)
    /\ IfPresent(p, "mime", LAMBDA v : v.is = "number" /\ v.n \in 0 .. 14)
    /\ DOMAIN a = GateAttributes \union {"grp", "title", "drip_id", "drip_total"}
    /\ a["gate_type"] = Number(4)
    /\ a["drip_total"] = Number(p["targets"].n)
    /\ requireI32(a["drip_total"])
    /\ requireI32(a["gate_chain"]) /\ a["gate_chain"].n > 0
    /\ ShortString(a["title"]) /\ ShortString(a["drip_id"])
    /\ IsAddress(a["gate_token"])
    /\ requireThreshold(a["gate_threshold"])

finishPart(a, p) ==
    /\ DOMAIN p = {"piece", "gate"}
    /\ p["piece"].is = "piece" /\ p["piece"].whole
    /\ parseGateJson(p["gate"])
    /\ p["gate"].of["version"] = Number(4)
    /\ gateThresholdValue(p["gate"].of["threshold"])
    /\ DOMAIN a = {"grp", "gate_type", "drip_id", "drip_idx", "series_ref", "mcap_usd", "sha256_ct"}
    /\ a["gate_type"] = Number(4)
    /\ ShortString(a["drip_id"])
    /\ NaturalI32(a["drip_idx"]) /\ NaturalI32(a["mcap_usd"])
    /\ IsDigest(a["series_ref"]) /\ IsDigest(a["sha256_ct"])

(***************************************************************************)
(* The write: refused before anything is signed, or in its wire form.      *)
(* "json" stands for the tests of the bytes: the JSON content type, at     *)
(* most 128 KiB, an object.                                                *)
(* Full records are written as plain strings and numbers, drips as tagged  *)
(* values; a threshold is always a u256.                                   *)
(***************************************************************************)
I32Facts == {"gate_type", "gate_chain", "gate_epoch", "mime", "dur_s",
             "drip_total", "drip_idx", "mcap_usd"}

(* Mutant: what a caller spelt in capitals stays in capitals.               *)
CellAsSpelt(class, x, v) ==
    IF x = "gate_threshold" THEN Tagged("u256", Number(v.n)) ELSE v

CellOf(class, x, v) ==
    CASE x = "gate_threshold" -> Tagged("u256", Number(v.n))
      [] x = "series_ref"     -> Tagged("key", Prefixed(v))
      [] x = "sha256_ct"      -> IF class = "part" THEN Tagged("bytes32", Prefixed(v)) ELSE Bare(v)
      [] x = "gate_token"     -> IF class = "series" THEN Tagged("addr", Lowered(v)) ELSE Lowered(v)
      [] OTHER -> IF class \in {"series", "part"}
                  THEN Tagged(IF x \in I32Facts THEN "i32" ELSE "str", v)
                  ELSE v

Refused == [ok |-> FALSE]

validateHavenWrite(e) ==
    LET a == e.attributes
        class == GroupClass[a["grp"].text]
        Accepted == CASE class = "series" -> finishSeries(a, e.payload)
                      [] class = "part"   -> finishPart(a, e.payload)
                      [] OTHER            -> finishFull(class, a, e.payload)
    IN  IF /\ e.json
           /\ Has(a, "grp") /\ classifyGroup(a["grp"])
           /\ Accepted
           /\ IfPresent(e, "expiresIn", resolveExpiresIn)
        THEN [ok |-> TRUE, grpClass |-> class,
              attributes |-> [x \in DOMAIN a |-> CellOf(class, x, a[x])],
              expiresIn |-> IF Has(e, "expiresIn") THEN e["expiresIn"].n ELSE DefaultLife[class]]
        ELSE Refused

(***************************************************************************)
(* The filter of a query.                                                  *)
(***************************************************************************)
SystemAttributes == {"$key", "$owner", "$creator", "$expiresAt"}

(* Names that are not in the grammar of attribute names, or are words of    *)
(* the query language.                                                      *)
validateAttrName(x) == x \notin {"$block", "and", "9th", "over 32 bytes"}

(* Mutant: the digest of a part is sought as the bare string of the others. *)
FilterByShape(x, v, ofPart) ==
    CASE x = "gate_token" /\ IsAddress(v) -> Lowered(v)
      [] x = "sha256_ct" /\ IsDigest(v)   -> Bare(v)
      [] x = "series_ref" /\ IsDigest(v)  -> Tagged("key", Prefixed(v))
      [] x = "gate_threshold"             -> Tagged("u256", Number(v.n))
      [] OTHER                            -> v

Filter(x, v, ofPart) ==
    CASE x \in SystemAttributes \/ v.is = "tagged" -> v
      [] x = "gate_token" /\ IsAddress(v) -> Lowered(v)
      [] x = "sha256_ct" /\ IsDigest(v)   -> IF ofPart THEN Tagged("bytes32", Prefixed(v)) ELSE Bare(v)
      [] x = "series_ref" /\ IsDigest(v)  -> Tagged("key", Prefixed(v))
      [] x = "gate_threshold" /\ v.is # "tagged" -> Tagged("u256", Number(v.n))
      [] OTHER                            -> v

(* Type-exact matching never finds an i32 cell by a string: that is refused. *)
FilterRefused(x, v) ==
    /\ x \notin SystemAttributes
    /\ \/ ~ validateAttrName(x)
       \/ /\ x = "gate_threshold" /\ v.is # "tagged"
          /\ ~ (v.is = "number" /\ v.n \in 0 .. SafeMax)
          /\ ~ (v.is = "digits" /\ v.n <= U256Max)
       \/ x \in I32Facts /\ IsString(v)

normalizeHavenWhere(w) ==
    IF \E x \in DOMAIN w : FilterRefused(x, w[x])
    THEN Refused
    ELSE [ok |-> TRUE,
          where |-> [x \in DOMAIN w |->
                        Filter(x, w[x], Has(w, "grp") /\ w["grp"] = Text("haven.video.drip.part"))]]

(* The SDK's cells: a plain string is a str cell, a plain number an i32.    *)
Cell(v) == IF v.is = "tagged" /\ v.tag \in {"str", "i32"} THEN v.of ELSE v

(***************************************************************************)
(* One write, as a step.                                                   *)
(***************************************************************************)
Unwritten == [ok |-> FALSE, pending |-> TRUE]

Write ==
    /\ row = Unwritten
    /\ row' = validateHavenWrite(entry)
    /\ UNCHANGED entry

(* Whatever may be asked for: attributes of any names and values, each what *)
(* its type says it is, and any payload.                                    *)
WellMade(v) ==
    /\ v.is = "number" => v.n \in Int /\ v = Number(v.n)
    /\ v.is = "digits" => v.n \in Nat /\ v = Digits(v.n)
    /\ v.is = "text" => v = Text(v.text)
    /\ v.is \in {"hex40", "hex64"} =>
         /\ v.upper \in BOOLEAN /\ v.prefix \in BOOLEAN
         /\ v = Hex(v.is, v.body, v.upper, v.prefix)

Asked(e) ==
    /\ e = [k \in DOMAIN e |-> e[k]] /\ {"json", "attributes", "payload"} \subseteq DOMAIN e
    /\ e.json \in BOOLEAN
    /\ e.attributes = [x \in DOMAIN e.attributes |-> e.attributes[x]]
    /\ \A x \in DOMAIN e.attributes : WellMade(e.attributes[x])

RecordSpec == Asked(entry) /\ row = Unwritten /\ [][Write]_recordVars

(***************************************************************************)
(* Properties.                                                             *)
(***************************************************************************)
(* The ways one value can be spelt.                                         *)
Spellings(x, v) ==
    CASE x = "gate_token"                -> {Hex("hex40", v.body, u, TRUE) : u \in BOOLEAN}
      [] x \in {"sha256_ct", "series_ref"} ->
            {Hex("hex64", v.body, u, p) : u \in BOOLEAN, p \in BOOLEAN}
      [] x \in I32Facts \union {"gate_threshold"} -> {Number(v.n), Digits(v.n)}
      [] OTHER                           -> {v}

(* A record that was accepted is found by the attributes its writer gave,   *)
(* however one of them is spelt in the query: the filter is refused aloud   *)
(* or it matches, type for type, the cell that was written.  (The token of  *)
(* a series is written as an address cell and sought as a string, and is    *)
(* left out.)                                                               *)
FoundAgain ==
    row.ok => \A x \in DOMAIN entry.attributes : \A v \in Spellings(x, entry.attributes[x]) :
        LET f == normalizeHavenWhere([entry.attributes EXCEPT ![x] = v])
        IN  f.ok => \A y \in DOMAIN f.where :
                        \/ row.grpClass = "series" /\ y = "gate_token"
                        \/ Cell(f.where[y]) = Cell(row.attributes[y])

(* A retry that spells an address, a digest, an entity key or an amount in  *)
(* another way gets the same row: the ledger of created entities, which is  *)
(* keyed by it, knows the retry.                                            *)
RetriesAgree ==
    row.ok => \A x \in DOMAIN entry.attributes \ I32Facts :
        \A v \in Spellings(x, entry.attributes[x]) :
            \/ v.is = "number" /\ v.n > SafeMax
            \/ validateHavenWrite([entry EXCEPT !.attributes[x] = v]) = row

(* A record is found by whatever was asked to be written: by queries and by  *)
(* the ledger of created entities.                                          *)
RecordsAreFound == FoundAgain /\ RetriesAgree

=============================================================================
