----------------------------- MODULE TorrentFile -----------------------------
(***************************************************************************)
(* The bencode decoder and the reading of .torrent files and magnet links   *)
(* (dsh-tool-acquisition, bencode.ts).  The info-hash it computes is the    *)
(* identity acquisitions are deduplicated by and clients are asked with.   *)
(*                                                                         *)
(* The data is a sequence of bytes: the marks of bencode, digits, and      *)
(* other bytes, of which one stands for each word a torrent uses as a key  *)
(* or a name.  The SHA-1 of some bytes is those bytes.  The data is that   *)
(* of a bencoded file, whole, cut or with bytes behind it, so the numerals *)
(* besides digits that Number() reads as a length do not occur; nor do the *)
(* .utf-8 twins of name and path; the names are valid UTF-8.  A text is the *)
(* bytes it was read from and the charset: in one charset no two byte       *)
(* strings are read alike, so a key, which is read as latin1, is its bytes. *)
(* The recursion of decodeAt is the stack of the lists and dictionaries     *)
(* that are open, and a step reads a value, opens one or closes one; that   *)
(* of walkV2Tree goes a level at a time.                                    *)
(*                                                                         *)
(* A magnet link names the hash itself, in hex or in base32, of which 8     *)
(* characters are 5 bytes: the hash of the code has 4 times 5 bytes, here   *)
(* HashGroups times.                                                       *)
(***************************************************************************)
EXTENDS Integers, Sequences, SequencesExt

CONSTANTS MaxDepth,     \* nesting the decoder follows
          Made,         \* the bencoded files there are
          Trailing,     \* what may stand behind one
          Foreign,      \* the bytes outside ASCII
          HashGroups,   \* the groups of 5 bytes of a link's hash
          HashBytes,    \* the bytes of a link's hash
          IntModulus,   \* the integers of the base32 decoder are taken modulo this
          Before,       \* the topics that may stand before a link's hash
          Behind        \* and behind it

VARIABLES torrent,      \* the file as it was made
          data,         \* the bytes that arrive of it
          whole,        \* all of them arrived
          parseStage,   \* decoding, parsing, walking the tree, read
          pos,          \* where the next byte is read
          stack,        \* the lists and dictionaries that are open, the innermost last
          root,         \* the value of the whole file
          pending,      \* the directories of the level walkV2Tree is at
          found,        \* the files it has found
          meta,         \* what parseTorrent makes of the file
          link,         \* a magnet link
          topic,        \* the topic of it that is looked at
          taken,        \* the characters base32Decode has taken of it
          acc,          \* what it holds: bits, width and out
          contentKey    \* the key the link's submission is found by

fileVars == <<torrent, data, whole, parseStage, pos, stack, root, pending, found, meta>>
linkVars == <<link, topic, taken, acc, contentKey>>
torrentVars == <<fileVars, linkVars>>

(***************************************************************************)
(* Values: integers, byte strings, lists, dictionaries.                    *)
(***************************************************************************)
Int_(n)  == [is |-> "int", n |-> n]
Str_(s)  == [is |-> "str", s |-> s]
List_(l) == [is |-> "list", l |-> l]
Dict_(d) == [is |-> "dict", d |-> d]

Numerals == <<"0", "1", "2", "3", "4", "5", "6", "7", "8", "9">>
IsDigit(byte) == byte \in {"0", "1", "2", "3", "4", "5", "6", "7", "8", "9"}
ValueOf(byte) == CHOOSE n \in 0 .. 9 : Numerals[n + 1] = byte
Decimal(digits) == FoldLeft(LAMBDA n, byte : 10 * n + ValueOf(byte), 0, digits)

Key(word) == <<word>>
HasKey_(v, word) == v.is = "dict" /\ Key(word) \in DOMAIN v.d
At(v, word) == v.d[Key(word)].v

Bad == [ok |-> FALSE]
Unread == [ok |-> FALSE, pending |-> TRUE]

(***************************************************************************)
(* The making of a bencoded file.  t.nodes has, for every position at which *)
(* a value starts, what the value is, where it ends, the positions of its    *)
(* parts, and how deep it stands.                                          *)
(***************************************************************************)
IntMade(t, p) ==
    LET n     == t.nodes[p]
        first == IF t.bytes[p + 1] = "-" THEN p + 2 ELSE p + 1
        raw   == SubSeq(t.bytes, first, n.last - 1)
    IN  /\ t.bytes[p] = "i" /\ t.bytes[n.last] = "e"
        /\ first < n.last
        /\ \A i \in first .. n.last - 1 : IsDigit(t.bytes[i])
        /\ t.bytes[first] = "0" => first = p + 1 /\ n.last = first + 1
        /\ n.value = Int_(IF first = p + 1 THEN Decimal(raw) ELSE -Decimal(raw))

StrMade(t, p) ==
    LET n == t.nodes[p]
    IN  \E colon \in p + 1 .. n.last :
          /\ \A i \in p .. colon - 1 : IsDigit(t.bytes[i])
          /\ t.bytes[colon] = ":"
          /\ n.last = colon + Decimal(SubSeq(t.bytes, p, colon - 1))
          /\ n.value = Str_(SubSeq(t.bytes, colon + 1, n.last))

(* Between the parts of a list or a dictionary nothing stands.              *)
Edge(t, p, k) == IF k = 0 THEN p + 1 ELSE t.nodes[t.nodes[p].parts[k]].last + 1

Placed(t, p) == [v |-> t.nodes[p].value, start |-> p, end |-> t.nodes[p].last + 1]

NestMade(t, p) ==
    LET n == t.nodes[p]
    IN  /\ \A k \in DOMAIN n.parts :
              /\ n.parts[k] \in DOMAIN t.nodes
              /\ n.parts[k] = Edge(t, p, k - 1)
              /\ t.nodes[n.parts[k]].depth = n.depth + 1
        /\ n.last = Edge(t, p, Len(n.parts))
        /\ t.bytes[n.last] = "e"

ListMade(t, p) ==
    LET n == t.nodes[p]
    IN  /\ t.bytes[p] = "l"
        /\ n.value = List_([k \in DOMAIN n.parts |-> t.nodes[n.parts[k]].value])
        /\ NestMade(t, p)

(* Keys and values take turns, and no key comes twice.                      *)
DictMade(t, p) ==
    LET n       == t.nodes[p]
        keys    == {k \in DOMAIN n.parts : k % 2 = 1}
        name(k) == t.nodes[n.parts[k]].value.s
    IN  /\ t.bytes[p] = "d" /\ Len(n.parts) % 2 = 0
        /\ \A k \in keys : t.nodes[n.parts[k]].is = "str"
        /\ \A j, k \in keys : name(j) = name(k) => j = k
        /\ n.value = Dict_([s \in {name(k) : k \in keys} |->
                              Placed(t, n.parts[1 + CHOOSE k \in keys : name(k) = s])])
        /\ NestMade(t, p)

LaidOut(t) ==
    /\ t.bytes \in Seq(STRING)
    /\ DOMAIN t.nodes \subseteq 1 .. Len(t.bytes)
    /\ 1 \in DOMAIN t.nodes /\ t.nodes[1].last = Len(t.bytes) /\ t.nodes[1].depth = 0
    /\ \A p \in DOMAIN t.nodes :
         /\ t.nodes[p].last \in p .. Len(t.bytes) /\ t.nodes[p].depth \in 0 .. MaxDepth
         /\ t.nodes[p].parts \in Seq(1 .. Len(t.bytes))
         /\ t.nodes[p].is \in {"int", "str", "list", "dict"}
         /\ t.nodes[p].is = "int"  => IntMade(t, p)
         /\ t.nodes[p].is = "str"  => StrMade(t, p)
         /\ t.nodes[p].is = "list" => ListMade(t, p)
         /\ t.nodes[p].is = "dict" => DictMade(t, p)

(***************************************************************************)
(* The making of a torrent: of one file, of many, of a version 2 tree, of    *)
(* none.  Any other file has no info dictionary.                           *)
(***************************************************************************)
RootOf(t) == t.nodes[1].value
IsTorrent_(v) == HasKey_(v, "info") /\ At(v, "info").is = "dict"
Has_(v, word, x) == HasKey_(v, word) /\ At(v, word) = x

OneMade(t, info) ==
    /\ Has_(info, "length", Int_(t.size)) /\ ~ HasKey_(info, "files")
    /\ t.files = {[under |-> t.name, names |-> <<>>, size |-> t.size]}

(* A file of no length has none.                                            *)
ManyMade(t, info) ==
    /\ HasKey_(info, "files") /\ At(info, "files").is = "list"
    /\ DOMAIN At(info, "files").l = DOMAIN t.entries
    /\ \A i \in DOMAIN t.entries :
         LET entry == At(info, "files").l[i]
             made  == t.entries[i]
         IN  /\ made.names \in Seq(Seq(STRING))
             /\ Has_(entry, "path", List_([k \in DOMAIN made.names |-> Str_(made.names[k])]))
             /\ \/ Has_(entry, "length", Int_(made.size))
                \/ ~ HasKey_(entry, "length") /\ made.size = 0
    /\ t.files = {[under |-> t.name, names |-> t.entries[i].names, size |-> t.entries[i].size] :
                    i \in DOMAIN t.entries}

(* A directory of the tree has a path of names; a file is a directory with   *)
(* a leaf under the empty name.                                            *)
Named_(v, name) == name \in DOMAIN v.d /\ v.d[name].v.is = "dict"
TreeMade(t, info) ==
    /\ ~ HasKey_(info, "files") /\ ~ HasKey_(info, "length")
    /\ <<>> \in DOMAIN t.trees
    /\ Has_(info, "file tree", t.trees[<<>>]) /\ t.trees[<<>>].is = "dict"
    /\ \A path \in DOMAIN t.trees :
         /\ path \in Seq(Seq(STRING))
         /\ \A name \in DOMAIN t.trees[path].d \ {<<>>} :
              Named_(t.trees[path], name) =>
                /\ Append(path, name) \in DOMAIN t.trees
                /\ t.trees[Append(path, name)] = t.trees[path].d[name].v
         /\ path = <<>>
              \/ \E up \in DOMAIN t.trees : \E name \in DOMAIN t.trees[up].d \ {<<>>} :
                   Named_(t.trees[up], name) /\ path = Append(up, name)
    /\ t.files = {[under |-> t.name, names |-> path, size |-> t.sizes[path]] :
                    path \in {q \in DOMAIN t.trees : Named_(t.trees[q], <<>>)}}
    /\ \A path \in DOMAIN t.trees :
         Named_(t.trees[path], <<>>) => Has_(t.trees[path].d[<<>>].v, "length", Int_(t.sizes[path]))

MadeWell(t) ==
    /\ LaidOut(t)
    /\ t.is = "other" => ~ IsTorrent_(RootOf(t))
    /\ t.is # "other" =>
         LET entry == RootOf(t).d[Key("info")]
         IN  /\ IsTorrent_(RootOf(t))
             /\ t.info = SubSeq(t.bytes, entry.start, entry.end - 1)
             /\ t.v1 = HasKey_(entry.v, "pieces")
             /\ Has_(entry.v, "name", Str_(t.name))
             /\ \/ t.is = "one"  /\ OneMade(t, entry.v)
                \/ t.is = "many" /\ ManyMade(t, entry.v)
                \/ t.is = "tree" /\ TreeMade(t, entry.v)
                \/ /\ t.is = "bare" /\ t.files = {}
                   /\ \A word \in {"files", "length", "file tree"} : ~ HasKey_(entry.v, word)

ASSUME MadeAssumption ==
    /\ MaxDepth \in Nat
    /\ \A t \in Made : MadeWell(t)
    /\ \A bytes \in Trailing : bytes \in Seq(STRING)

(***************************************************************************)
(* Reading a value.                                                        *)
(***************************************************************************)
Got(value, end) == [ok |-> TRUE, value |-> value, end |-> end]

(* Where the digits from start on end.                                      *)
DigitsEnd(bytes, start) ==
    CHOOSE end \in start .. Len(bytes) + 1 :
        /\ \A i \in start .. end - 1 : IsDigit(bytes[i])
        /\ end <= Len(bytes) => ~ IsDigit(bytes[end])

(* i, an optional minus, digits without a leading zero, e.                  *)
DecodeInt(bytes, start) ==
    LET first == IF start < Len(bytes) /\ bytes[start + 1] = "-" THEN start + 2 ELSE start + 1
        end   == DigitsEnd(bytes, first)
        raw   == SubSeq(bytes, first, end - 1)
    IN  IF /\ end <= Len(bytes) /\ bytes[end] = "e"
           /\ first < end
           /\ bytes[first] = "0" => first = start + 1 /\ end = first + 1
        THEN Got(Int_(IF first = start + 1 THEN Decimal(raw) ELSE -Decimal(raw)), end + 1)
        ELSE Bad

(* A length, a colon, and that many bytes.                                  *)
DecodeStr(bytes, start) ==
    LET colon == DigitsEnd(bytes, start)
        last  == colon + Decimal(SubSeq(bytes, start, colon - 1))
    IN  IF colon <= Len(bytes) /\ bytes[colon] = ":" /\ last <= Len(bytes)
        THEN Got(Str_(SubSeq(bytes, colon + 1, last)), last + 1)
        ELSE Bad

Atom(bytes, start) ==
    CASE bytes[start] = "i"      -> DecodeInt(bytes, start)
      [] IsDigit(bytes[start])   -> DecodeStr(bytes, start)
      [] OTHER                   -> Bad

(* What is read is a key, a value or an item of what is open.               *)
InKeyPlace(frames_) ==
    frames_ # <<>> /\ frames_[Len(frames_)].is = "dict" /\ Len(frames_[Len(frames_)].items) % 2 = 0

Extended(frames_, item) ==
    [j \in DOMAIN frames_ |->
        IF j = Len(frames_)
        THEN [is |-> frames_[j].is, from |-> frames_[j].from, items |-> Append(frames_[j].items, item)]
        ELSE frames_[j]]

Deliver(frames_, item) ==
    IF frames_ = <<>>
    THEN root' = item.v /\ stack' = <<>> /\ parseStage' = "parsing"
    ELSE stack' = Extended(frames_, item) /\ UNCHANGED <<root, parseStage>>

(* Of a key that comes twice the later value stands.  A value keeps the     *)
(* place of its bytes.                                                      *)
Entries(items) ==
    LET keys == {i \in DOMAIN items : i % 2 = 1}
    IN  [s \in {items[i].v.s : i \in keys} |->
            items[1 + CHOOSE i \in keys : /\ items[i].v.s = s
                                          /\ \A j \in keys : items[j].v.s = s => j <= i]]

ValueOfFrame(frame) ==
    IF frame.is = "list" THEN List_([i \in DOMAIN frame.items |-> frame.items[i].v])
                         ELSE Dict_(Entries(frame.items))

Top == stack[Len(stack)]
Under == SubSeq(stack, 1, Len(stack) - 1)

(* A call of decodeAt goes no deeper than MaxDepth and needs a byte.         *)
Callable == Len(stack) <= MaxDepth /\ pos <= Len(data)

AtomThere ==
    /\ Callable /\ Atom(data, pos).ok
    /\ InKeyPlace(stack) => Atom(data, pos).value.is = "str"

NestThere == Callable /\ data[pos] \in {"l", "d"}

(* A dictionary closes between two entries; a key is a string.              *)
CloseThere ==
    /\ stack # <<>> /\ pos <= Len(data) /\ data[pos] = "e"
    /\ Top.is = "dict" => Len(Top.items) % 2 = 0
    /\ ~ InKeyPlace(Under)

decodeAtom ==
    /\ parseStage = "decoding" /\ AtomThere
    /\ LET item == Atom(data, pos)
       IN  /\ pos' = item.end
           /\ Deliver(stack, [v |-> item.value, start |-> pos, end |-> item.end])
    /\ UNCHANGED <<torrent, data, whole, pending, found, meta, linkVars>>

OpenNested ==
    /\ parseStage = "decoding" /\ NestThere
    /\ stack' = Append(stack, [is |-> IF data[pos] = "l" THEN "list" ELSE "dict", from |-> pos, items |-> <<>>])
    /\ pos' = pos + 1
    /\ UNCHANGED <<torrent, data, whole, parseStage, root, pending, found, meta, linkVars>>

CloseNested ==
    /\ parseStage = "decoding" /\ CloseThere
    /\ pos' = pos + 1
    /\ Deliver(Under, [v |-> ValueOfFrame(Top), start |-> Top.from, end |-> pos + 1])
    /\ UNCHANGED <<torrent, data, whole, pending, found, meta, linkVars>>

ParseEnds(result) == parseStage' = "read" /\ meta' = result

Refuse ==
    /\ parseStage = "decoding" /\ ~ AtomThere /\ ~ NestThere /\ ~ CloseThere
    /\ ParseEnds(Bad)
    /\ UNCHANGED <<torrent, data, whole, pos, stack, root, pending, found, linkVars>>

(***************************************************************************)
(* Reading a torrent.                                                      *)
(***************************************************************************)
SizeOf(v) == IF HasKey_(v, "length") /\ At(v, "length").is = "int" THEN At(v, "length").n ELSE 0

(* Bytes read as text: in ASCII every charset is the same.                  *)
Reading(s, charset) ==
    [bytes |-> s, charset |-> IF \E i \in DOMAIN s : s[i] \in Foreign THEN charset ELSE "ascii"]

NameOf(v) ==
    Reading(IF HasKey_(v, "name") /\ At(v, "name").is = "str" THEN At(v, "name").s ELSE <<>>, "utf")

(* A part of a path that is no string is left out.  The path is that of the  *)
(* names under the torrent's.                                              *)
PathParts(entry) ==
    LET parts == At(entry, "path").l
    IN  [i \in {j \in DOMAIN parts : parts[j].is = "str"} |-> Reading(parts[i].s, "utf")]

File(info, names, v) == [under |-> NameOf(info), names |-> names, size |-> SizeOf(v)]

ListedFiles(info) ==
    {File(info, PathParts(entry), entry) :
        entry \in {e \in ToSet(At(info, "files").l) : HasKey_(e, "path") /\ At(e, "path").is = "list"}}

(* Mutant: the hashed bytes end one byte early.                             *)
InfoBytesShort(bytes, v) ==
    SubSeq(bytes, v.d[Key("info")].start, v.d[Key("info")].end - 2)

InfoBytes(bytes, v) ==
    SubSeq(bytes, v.d[Key("info")].start, v.d[Key("info")].end - 1)

(* Only a torrent with pieces has the v1 hash.                              *)
TorrentMeta(files) ==
    [ok |-> TRUE,
     infoHash |-> IF HasKey_(At(root, "info"), "pieces") THEN InfoBytes(data, root) ELSE <<>>,
     files |-> files]

parseTorrent ==
    /\ parseStage = "parsing"
    /\ LET info == At(root, "info")
       IN  IF ~ IsTorrent_(root)
           THEN ParseEnds(Bad) /\ UNCHANGED <<pending, found>>
           ELSE IF HasKey_(info, "files") /\ At(info, "files").is = "list"
           THEN ParseEnds(TorrentMeta(ListedFiles(info))) /\ UNCHANGED <<pending, found>>
           ELSE IF HasKey_(info, "length") /\ At(info, "length").is = "int"
           THEN ParseEnds(TorrentMeta({File(info, <<>>, info)})) /\ UNCHANGED <<pending, found>>
           ELSE IF HasKey_(info, "file tree") /\ At(info, "file tree").is = "dict"
           THEN /\ parseStage' = "walking" /\ pending' = {[names |-> <<>>, tree |-> At(info, "file tree")]}
                /\ UNCHANGED <<found, meta>>
           ELSE ParseEnds(TorrentMeta({})) /\ UNCHANGED <<pending, found>>
    /\ UNCHANGED <<torrent, data, whole, pos, stack, root, linkVars>>

(* A leaf stands under the empty name; other directories are walked.        *)
DirsIn(dir) ==
    {[names |-> Append(dir.names, name), tree |-> dir.tree.d[name].v] :
        name \in {x \in DOMAIN dir.tree.d \ {<<>>} : Named_(dir.tree, x)}}

(* The names of a tree are keys, which the decoder reads as latin1.          *)
KeysRead(names) == [k \in DOMAIN names |-> Reading(names[k], "latin")]

walkV2Tree ==
    /\ parseStage = "walking" /\ pending # {}
    /\ found' = found \cup {File(At(root, "info"), KeysRead(dir.names), dir.tree.d[<<>>].v) :
                              dir \in {x \in pending : Named_(x.tree, <<>>)}}
    /\ pending' = UNION {DirsIn(dir) : dir \in pending}
    /\ UNCHANGED <<torrent, data, whole, parseStage, pos, stack, root, meta, linkVars>>

TreeWalked ==
    /\ parseStage = "walking" /\ pending = {}
    /\ ParseEnds(TorrentMeta(found))
    /\ UNCHANGED <<torrent, data, whole, pos, stack, root, pending, found, linkVars>>

(***************************************************************************)
(* Magnet links.                                                           *)
(***************************************************************************)
Nibbles(hash) ==
    [i \in 1 .. 2 * Len(hash) |->
        IF i % 2 = 1 THEN hash[(i + 1) \div 2] \div 16 ELSE hash[i \div 2] % 16]

(* The making of a link: 8 characters of base32 are the bits of 5 bytes.     *)
Quintet(b1, b2, b3, b4, b5, k) ==
    CASE k = 0 -> b1 \div 8
      [] k = 1 -> (b1 % 8) * 4 + b2 \div 64
      [] k = 2 -> (b2 \div 2) % 32
      [] k = 3 -> (b2 % 2) * 16 + b3 \div 16
      [] k = 4 -> (b3 % 16) * 2 + b4 \div 128
      [] k = 5 -> (b4 \div 4) % 32
      [] k = 6 -> (b4 % 4) * 8 + b5 \div 32
      [] k = 7 -> b5 % 32

Base32(hash) ==
    [k \in 1 .. 8 * HashGroups |->
        LET g == 5 * ((k - 1) \div 8)
        IN  Quintet(hash[g + 1], hash[g + 2], hash[g + 3], hash[g + 4], hash[g + 5], (k - 1) % 8)]

Topic(urn, is, digits, upper) ==
    [urn |-> urn, text |-> [is |-> is, digits |-> digits, upper |-> upper]]

Topics == [urn : STRING, text : [is : STRING, digits : Seq(Nat), upper : BOOLEAN]]

IsV1(xt) == xt.urn = "btih" /\ xt.text.is \in {"hex", "base32"}

ASSUME LinkAssumption ==
    /\ HashGroups \in Nat \ {0} /\ HashBytes \subseteq 0 .. 255
    /\ IntModulus \in Nat \ {0} /\ IntModulus % 4096 = 0
    /\ \A xts \in Before \cup Behind : xts \in Seq(Topics)
    /\ \A xts \in Before : \A i \in DOMAIN xts : ~ IsV1(xts[i])

NoLink  == [is |-> "none"]
NoKey   == [is |-> "none"]
Keyless == [is |-> "keyless"]
HashKey(digits) == [is |-> "hash", digits |-> digits, upper |-> FALSE]

NoBits == [bits |-> 0, width |-> 0, out |-> <<>>]

Looking == link # NoLink /\ contentKey = NoKey
AtHash(is) == topic <= Len(link.xts) /\ IsV1(link.xts[topic]) /\ link.xts[topic].text.is = is
Characters == link.xts[topic].text.digits

(* x >>> width                                                              *)
Shifted(x, width) ==
    x \div (CASE width = 0 -> 1 [] width = 1 -> 2 [] width = 2 -> 4 [] width = 3 -> 8 [] OTHER -> 16)

(* Mutant: the bits a character leaves over are dropped.                    *)
base32DecodeDropped(a, c) ==
    LET bits == (a.bits * 32 + c) % IntModulus
    IN  IF a.width < 3 THEN [bits |-> bits, width |-> a.width + 5, out |-> a.out]
        ELSE [bits |-> 0, width |-> a.width - 3,
              out |-> Append(a.out, Shifted(bits, a.width - 3) % 256)]

(* Five bits a character; a byte whenever eight are there.                   *)
base32Decode(a, c) ==
    LET bits == (a.bits * 32 + c) % IntModulus
    IN  IF a.width < 3 THEN [bits |-> bits, width |-> a.width + 5, out |-> a.out]
        ELSE [bits |-> bits, width |-> a.width - 3,
              out |-> Append(a.out, Shifted(bits, a.width - 3) % 256)]

(* The first topic that is a v1 hash in either spelling, as lower-case hex;  *)
(* a link without one has no key.                                          *)
SkipTopic ==
    /\ Looking /\ topic <= Len(link.xts) /\ ~ IsV1(link.xts[topic])
    /\ topic' = topic + 1
    /\ UNCHANGED <<fileVars, link, taken, acc, contentKey>>

TakeHex ==
    /\ Looking /\ AtHash("hex")
    /\ contentKey' = HashKey(Characters)
    /\ UNCHANGED <<fileVars, link, topic, taken, acc>>

TakeCharacter ==
    /\ Looking /\ AtHash("base32") /\ taken < Len(Characters)
    /\ acc' = base32Decode(acc, Characters[taken + 1])
    /\ taken' = taken + 1
    /\ UNCHANGED <<fileVars, link, topic, contentKey>>

TakeBase32 ==
    /\ Looking /\ AtHash("base32") /\ taken = Len(Characters)
    /\ contentKey' = HashKey(Nibbles(acc.out))
    /\ UNCHANGED <<fileVars, link, topic, taken, acc>>

NoHash ==
    /\ Looking /\ topic > Len(link.xts)
    /\ contentKey' = Keyless
    /\ UNCHANGED <<fileVars, link, topic, taken, acc>>

(***************************************************************************)
(* A file that arrives, whole or cut, or a link, is read.                   *)
(***************************************************************************)
FileIdle ==
    /\ torrent = Unread /\ data = <<>> /\ whole = TRUE /\ parseStage = "idle" /\ pos = 1 /\ stack = <<>>
    /\ root = Unread /\ pending = {} /\ found = {} /\ meta = Unread

LinkIdle == link = NoLink /\ topic = 1 /\ taken = 0 /\ acc = NoBits /\ contentKey = NoKey

TorrentInit ==
    /\ torrent \in Made
    /\ \/ whole = TRUE /\ data \in {torrent.bytes \o bytes : bytes \in Trailing}
       \/ whole = FALSE /\ data \in {SubSeq(torrent.bytes, 1, n) : n \in 0 .. Len(torrent.bytes) - 1}
    /\ parseStage = "decoding" /\ pos = 1 /\ stack = <<>>
    /\ root = Unread /\ pending = {} /\ found = {} /\ meta = Unread
    /\ LinkIdle

(* A link without a v1 hash has only topics of other kinds.                 *)
Spelt_(hash, is, upper) ==
    Topic("btih", is, IF is = "hex" THEN Nibbles(hash) ELSE Base32(hash), upper)

LinkInit ==
    /\ FileIdle
    /\ \/ \E hash \in [1 .. 5 * HashGroups -> HashBytes], is \in {"hex", "base32"}, upper \in BOOLEAN,
             xts \in Before, more \in Behind :
            link = [is |-> "hash", hash |-> hash, xts |-> xts \o <<Spelt_(hash, is, upper)>> \o more]
       \/ \E xts \in Before : link = [is |-> "other", xts |-> xts]
    /\ topic = 1 /\ taken = 0 /\ acc = NoBits /\ contentKey = NoKey

TorrentNext ==
    \/ decodeAtom \/ OpenNested \/ CloseNested \/ Refuse
    \/ parseTorrent \/ walkV2Tree \/ TreeWalked
    \/ SkipTopic \/ TakeHex \/ TakeCharacter \/ TakeBase32 \/ NoHash

TorrentSpec == (TorrentInit \/ LinkInit) /\ [][TorrentNext]_torrentVars

(***************************************************************************)
(* Property.                                                               *)
(***************************************************************************)
(* A file of a torrent as the names it was made of read in a charset.        *)
FileRead(f, charset) ==
    [under |-> Reading(f.under, "utf"), names |-> [k \in DOMAIN f.names |-> Reading(f.names[k], charset)],
     size |-> f.size]
FilesRead(t, charset) == {FileRead(f, charset) : f \in t.files}

InAscii(t) == \A f \in t.files : \A k \in DOMAIN f.names : \A i \in DOMAIN f.names[k] : f.names[k][i] \notin Foreign

(* A torrent is read as it was made: its info-hash is that of exactly the   *)
(* bytes of its info dictionary, wherever they stand, and its files are     *)
(* those it was made of, each with its size and under its path, but that     *)
(* the path of a version 2 tree reads the UTF-8 of its names as latin1, which*)
(* changes nothing where they are ASCII; a file of which bytes are missing, *)
(* or that was never one, is not taken for a torrent.  All links of one      *)
(* hash, however they spell it, have the key a torrent file with that hash  *)
(* has.                                                                    *)
ParsedAsMade ==
    /\ meta # Unread =>
         IF whole /\ torrent.is # "other"
         THEN /\ meta = [ok |-> TRUE, infoHash |-> IF torrent.v1 THEN torrent.info ELSE <<>>,
                         files |-> FilesRead(torrent, IF torrent.is = "tree" THEN "latin" ELSE "utf")]
              /\ InAscii(torrent) => meta.files = FilesRead(torrent, "utf")
         ELSE ~ meta.ok
    /\ contentKey # NoKey =>
         contentKey = IF link.is = "hash" THEN HashKey(Nibbles(link.hash)) ELSE Keyless

(* "Validate a `.torrent` and extract hash, name, and file list."            *)
(* (bencode.ts:115): the names in the list are those the torrent was made    *)
(* with.  (It does not hold for a version 2 tree with names outside ASCII:   *)
(* README, Divergences.)                                                    *)
NamesAsMade ==
    meta # Unread /\ meta.ok => meta.files = FilesRead(torrent, "utf")

=============================================================================
