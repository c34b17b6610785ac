------------------------------- MODULE MCEdges -------------------------------
(***************************************************************************)
(* Where the stack meets the rest of the world: the downloads and the        *)
(* torrents it takes (ReleaseFetch, TorrentFile), the torrent clients and    *)
(* RPC nodes it asks (TorrentClients, LiveBalances), the keys it signs with  *)
(* (WalletSigning) and the dashboard it shows (Observatory).  A behaviour    *)
(* is one of them, chosen at the start.                                     *)
(***************************************************************************)
EXTENDS ReleaseFetch, TorrentFile, TorrentClients, LiveBalances, WalletSigning, Observatory

CONSTANTS prowlarr, site, ethereum, filecoin, native, coin, unpriced, keystore, owsvault

VARIABLE kind

edgeVars == <<kind, fetchVars, torrentVars, clientVars, balanceVars, walletVars, ledgerVars_, liveVars>>

(***************************************************************************)
(* Downloads.                                                               *)
(***************************************************************************)
SomeBytes(magic, inside, readable, bencoded) ==
  [magic |-> magic, inside |-> inside, readable |-> readable, bencoded |-> bencoded]

MCBytes ==
  {SomeBytes("none", "", FALSE, TRUE), SomeBytes("none", "", FALSE, FALSE),
   SomeBytes("none", "", TRUE, FALSE), SomeBytes(TORRENT_MIME, "", TRUE, TRUE),
   SomeBytes(TORRENT_MIME, "", TRUE, FALSE), SomeBytes(Ole, "", FALSE, FALSE),
   SomeBytes("audio/ogg", "", FALSE, FALSE), SomeBytes("video/mp4", "", FALSE, FALSE)}
  \cup {SomeBytes("markup", i, TRUE, FALSE) : i \in {"nzb", "svg", "html", "other"}}
  \cup {SomeBytes("application/zip", i, FALSE, FALSE) : i \in {"epub", "word", "images", "other"}}

MCBodies ==
  {[bytes |-> b, ext |-> e, size |-> n, declared |-> d] :
     b \in MCBytes, e \in {"", ".ogg", ".torrent", ".srt"}, n \in {1, 2, 3}, d \in BOOLEAN}

MCPolicy == [accept |-> {"*"}, reject |-> {"archive"}, minSize |-> 0, maxSize |-> 0,
             excludes |-> FALSE, mode |-> "all", maxFiles |-> 1]

(***************************************************************************)
(* Files: what is made is a value, dictionaries as entries in the order     *)
(* they are written, and its bytes are laid out from a position on.         *)
(***************************************************************************)
RECURSIVE Numeral(_)
Numeral(n) == IF n < 10 THEN <<Numerals[n + 1]>> ELSE Append(Numeral(n \div 10), Numerals[(n % 10) + 1])

Leaf(is, v, bytes, start, depth) ==
  [bytes |-> bytes, value |-> v,
   nodes |-> start :> [is |-> is, last |-> start + Len(bytes) - 1, parts |-> <<>>, value |-> v, depth |-> depth]]

RECURSIVE Lay(_, _, _)
RECURSIVE LayAll(_, _, _)
LayAll(vs, start, depth) ==
  IF vs = <<>> THEN [bytes |-> <<>>, nodes |-> <<>>, values |-> <<>>, starts |-> <<>>]
  ELSE LET one  == Lay(vs[1], start, depth)
           rest == LayAll(Tail(vs), start + Len(one.bytes), depth)
       IN  [bytes |-> one.bytes \o rest.bytes, nodes |-> one.nodes @@ rest.nodes,
            values |-> <<one.value>> \o rest.values, starts |-> <<start>> \o rest.starts]

Lay(v, start, depth) ==
  CASE v.is = "int" ->
         Leaf("int", v, <<"i">> \o (IF v.n < 0 THEN <<"-">> \o Numeral(-v.n) ELSE Numeral(v.n)) \o <<"e">>, start, depth)
    [] v.is = "str" -> Leaf("str", v, Numeral(Len(v.s)) \o <<":">> \o v.s, start, depth)
    [] OTHER ->
         LET parts == IF v.is = "list" THEN v.l
                      ELSE FlattenSeq([i \in DOMAIN v.d |-> <<Str_(v.d[i][1]), v.d[i][2]>>])
             laid  == LayAll(parts, start + 1, depth + 1)
             last  == start + 1 + Len(laid.bytes)
             ends  == [i \in DOMAIN parts |-> IF i = Len(parts) THEN last ELSE laid.starts[i + 1]]
             placed(i) == [v |-> laid.values[i], start |-> laid.starts[i], end |-> ends[i]]
             value == IF v.is = "list" THEN List_(laid.values)
                      ELSE Dict_([s \in {v.d[i][1] : i \in DOMAIN v.d} |->
                                    placed(2 * CHOOSE i \in DOMAIN v.d : v.d[i][1] = s)])
         IN  [bytes |-> <<IF v.is = "list" THEN "l" ELSE "d">> \o laid.bytes \o <<"e">>, value |-> value,
              nodes |-> start :> [is |-> v.is, last |-> last, parts |-> laid.starts, value |-> value, depth |-> depth]
                          @@ laid.nodes]

W(word) == <<word>>
Entry(word, v) == <<W(word), v>>
FileEntry(names, n) ==
  Dict_((IF n = 0 THEN <<>> ELSE <<Entry("length", Int_(n))>>)
          \o <<Entry("path", List_([k \in DOMAIN names |-> Str_(names[k])]))>>)
LeafOf(n) == <<<<>>, Dict_(<<Entry("length", Int_(n))>>)>>

(* Torrents of one file, of several, of version 2, of both, of none.         *)
Several == <<[names |-> <<W("x"), W("C3")>>, size |-> 12], [names |-> <<W("z")>>, size |-> 0]>>
TreeOf(word) ==
  Dict_(<<LeafOf(3),
          Entry("d", Dict_(<<Entry(word, Dict_(<<LeafOf(7)>>)), Entry("z", Dict_(<<LeafOf(0)>>)), Entry("n", Int_(1))>>)),
          Entry("x", Dict_(<<LeafOf(12)>>))>>)
Infos ==
  {[is |-> "one", name |-> <<"a", "b">>, size |-> n,
    info |-> <<Entry("length", Int_(n)), Entry("name", Str_(<<"a", "b">>)), Entry("pieces", Str_(<<>>))>>] : n \in {0, 12}}
  \cup
  {[is |-> "many", name |-> W("t"), entries |-> Several,
    info |-> <<Entry("files", List_([i \in 1 .. 2 |-> FileEntry(Several[i].names, Several[i].size)])),
               Entry("name", Str_(W("t"))), Entry("pieces", Str_(<<"d", "e">>))>>],
   [is |-> "bare", name |-> <<>>, info |-> <<Entry("name", Str_(<<>>)), Entry("pieces", Str_(<<>>))>>]}
  \cup
  {[is |-> "tree", name |-> W("t"),
    info |-> <<Entry("file tree", TreeOf(word)), Entry("name", Str_(W("t")))>>] : word \in {"y", "C3"}}

(* What stands before and behind the info dictionary.                       *)
Around ==
  {<<<<>>, <<>>>>, <<<<Entry("announce", Str_(<<"e", "e">>))>>, <<Entry("n", Int_(-1))>>>>,
   <<<<Entry("n", List_(<<Int_(10), Str_(W("d"))>>))>>, <<Entry("source", Str_(<<"i", "e">>))>>>>}

RECURSIVE TreesOf(_, _)
TreesOf(tree, path) ==
  LET inner == {name \in DOMAIN tree.d \ {<<>>} : Named_(tree, name)}
      all   == {path :> tree} \cup {TreesOf(tree.d[name].v, Append(path, name)) : name \in inner}
  IN  [p \in UNION {DOMAIN f : f \in all} |-> LET f == CHOOSE g \in all : p \in DOMAIN g IN f[p]]

Torrent(i, before, behind) ==
  LET laid == Lay(Dict_(before \o <<Entry("info", Dict_(i.info))>> \o behind), 1, 0)
      info == laid.value.d[W("info")].v
      trees == IF i.is = "tree" THEN TreesOf(At(info, "file tree"), <<>>) ELSE <<>>
      leaves == {p \in DOMAIN trees : Named_(trees[p], <<>>)}
      sizes == [p \in leaves |-> At(trees[p].d[<<>>].v, "length").n]
      File_(names, n) == [under |-> i.name, names |-> names, size |-> n]
  IN  [is |-> i.is, name |-> i.name, bytes |-> laid.bytes, nodes |-> laid.nodes,
       info |-> Lay(Dict_(i.info), 1, 0).bytes, v1 |-> i.is # "tree",
       size |-> IF i.is = "one" THEN i.size ELSE 0,
       entries |-> IF i.is = "many" THEN i.entries ELSE <<>>,
       trees |-> trees, sizes |-> sizes,
       files |-> CASE i.is = "one"  -> {File_(<<>>, i.size)}
                   [] i.is = "many" -> {File_(i.entries[k].names, i.entries[k].size) : k \in DOMAIN i.entries}
                   [] i.is = "tree" -> {File_(p, sizes[p]) : p \in leaves}
                   [] i.is = "bare" -> {}]

(* Bencoded files that are no torrents.                                     *)
OtherFiles ==
  {[is |-> "other", bytes |-> Lay(v, 1, 0).bytes, nodes |-> Lay(v, 1, 0).nodes] :
     v \in {Str_(<<"i", "e">>), List_(<<Int_(1), Dict_(<<>>)>>), Dict_(<<Entry("info", Int_(7))>>), Dict_(<<Entry("name", Str_(W("t")))>>)}}

MadeTorrents == {Torrent(i, a[1], a[2]) : i \in Infos, a \in Around} \cup OtherFiles
MCTrailing == {<<>>, <<"e", "1">>}
MCBefore == {<<>>, <<Topic("btmh", "hex", <<1>>, FALSE)>>, <<Topic("btih", "other", <<1>>, FALSE)>>}
MCBehind == {<<>>, <<Topic("btih", "hex", <<0, 1, 0, 2, 0, 3, 0, 4, 0, 5>>, FALSE)>>}

(***************************************************************************)
(* Balances: two chains, one with a token of its own no price is known of;  *)
(* and the observatory's probes.                                            *)
(***************************************************************************)
MCAssets == {<<ethereum, native>>, <<ethereum, coin>>, <<filecoin, unpriced>>}
MCNodes == [c \in {ethereum, filecoin} |-> IF c = ethereum THEN 2 ELSE 1]
MCStaticPrice == [t \in {native, coin} |-> IF t = native THEN 2 ELSE 1]
MCLimit == [p \in Timed |-> 2]

(***************************************************************************)
(* Wallets: on a family both providers serve, on the vault's alone, on none  *)
(* the vault has an account of; without a credential; badly configured.      *)
(***************************************************************************)
MCCustody == [p \in {keystore, owsvault} |-> IF p = keystore THEN "raw" ELSE "ows"]
MCServes == [p \in {keystore, owsvault} |-> IF p = keystore THEN <<"evm">> ELSE <<"solana", "evm">>]
WalletRow(chain, keyRef) == [chain |-> chain, selector |-> "name", keyRef |-> keyRef]
MCRows == {WalletRow("evm", "name"), WalletRow("evm", "none"), WalletRow("solana", "name"), WalletRow("evm", "not a name"), WalletRow("", "none")}
MCMaxGen == [p \in {keystore, owsvault} |-> IF p = keystore THEN 2 ELSE 1]
MCSecrets == {[key |-> "k1", form |-> "plain"], [key |-> "k2", form |-> "quoted"]}

(***************************************************************************)
(* One of them at a time.                                                   *)
(***************************************************************************)
FetchIdle ==
  /\ source = "direct" /\ phase = "idle" /\ url = [scheme |-> "ftp", host |-> Prowlarr] /\ hop = 0
  /\ body = NoBody /\ disk = "ok" /\ part = -1 /\ settled = NoFile /\ outcome = Pending
ClientIdle ==
  /\ setup = [software |-> "qbittorrent", creds |-> "none", guarded |-> FALSE,
              banned |-> FALSE, hash |-> TRUE, sound |-> TRUE]
  /\ item = Absent
  /\ ClientInit
BalancesIdle == wealth = [a \in Assets |-> 0] /\ BalancesInit
SigningIdle ==
  /\ wallet = NoWallet /\ adapters = [c \in Families |-> NoAdapter]
  /\ provider = [p \in Providers |-> [phase |-> "off", gen |-> 0]] /\ accountIndex = [p \in Providers |-> 0]
  /\ credential = Unset /\ vault = [id |-> 1, pass |-> Unset]
  /\ call = [o \in Operations |-> Uncalled]
  /\ emitted = [o \in Operations |-> <<>>] /\ held = [o \in Operations |-> {}]

EdgesInit ==
  /\ kind \in {"fetch", "torrent", "client", "balances", "wallet", "ledger", "live"}
  /\ IF kind = "fetch" THEN FetchInit ELSE FetchIdle
  /\ IF kind = "torrent" THEN TorrentInit \/ LinkInit ELSE FileIdle /\ LinkIdle
  /\ IF kind = "client" THEN ClientInit ELSE ClientIdle
  /\ IF kind = "balances" THEN BalancesInit ELSE BalancesIdle
  /\ IF kind = "wallet" THEN SigningInit ELSE SigningIdle
  /\ LedgerInit /\ LiveInit

OnFetch(step) ==
  /\ kind = "fetch" /\ step
  /\ UNCHANGED <<kind, torrentVars, clientVars, balanceVars, walletVars, ledgerVars_, liveVars>>
OnTorrent(step) ==
  /\ kind = "torrent" /\ step
  /\ UNCHANGED <<kind, fetchVars, clientVars, balanceVars, walletVars, ledgerVars_, liveVars>>
OnClient(step) ==
  /\ kind = "client" /\ step
  /\ UNCHANGED <<kind, fetchVars, torrentVars, balanceVars, walletVars, ledgerVars_, liveVars>>
OnBalances(step) ==
  /\ kind = "balances" /\ step
  /\ UNCHANGED <<kind, fetchVars, torrentVars, clientVars, walletVars, ledgerVars_, liveVars>>
OnWallet(step) ==
  /\ kind = "wallet" /\ step
  /\ UNCHANGED <<kind, fetchVars, torrentVars, clientVars, balanceVars, ledgerVars_, liveVars>>
OnLedger(step) ==
  /\ kind = "ledger" /\ step
  /\ UNCHANGED <<kind, fetchVars, torrentVars, clientVars, balanceVars, walletVars, liveVars>>
OnLive(step) ==
  /\ kind = "live" /\ step
  /\ UNCHANGED <<kind, fetchVars, torrentVars, clientVars, balanceVars, walletVars, ledgerVars_>>

EdgesNext ==
  \/ OnFetch(Resolve) \/ OnFetch(ProwlarrAnswers)
  \/ OnFetch(checkFetchTarget) \/ OnFetch(ThirdPartyAnswers)
  \/ OnFetch(TimesOut) \/ OnFetch(FetchCrash)
  \/ OnFetch(ChunkArrives) \/ OnFetch(StreamFinishes) \/ OnFetch(Settle)
  \/ OnFetch(branchFetchedFile)
  \/ OnTorrent(decodeAtom) \/ OnTorrent(OpenNested) \/ OnTorrent(CloseNested) \/ OnTorrent(Refuse)
  \/ OnTorrent(parseTorrent) \/ OnTorrent(walkV2Tree) \/ OnTorrent(TreeWalked)
  \/ OnTorrent(SkipTopic) \/ OnTorrent(TakeHex) \/ OnTorrent(TakeCharacter) \/ OnTorrent(TakeBase32)
  \/ OnTorrent(NoHash)
  \/ \E op \in {"submit", "probe", "status"} : OnClient(CallClient(op))
  \/ OnClient(LoginSkipped) \/ OnClient(LoginAnswered) \/ OnClient(Unanswered)
  \/ OnClient(QbRefuses) \/ OnClient(TmRefuses)
  \/ OnClient(QbSubmit) \/ OnClient(TmSubmit) \/ OnClient(status)
  \/ OnClient(ItemMoves) \/ OnClient(Forgets)
  \/ \E c \in Chains_ \cup {"all"}, sync \in BOOLEAN : OnBalances(get_balances(c, sync))
  \/ OnBalances(fetchPrices) \/ OnBalances(fetchAllLiveBalances)
  \/ \E a \in Assets :
       \/ OnBalances(NodeAnswers(a)) \/ OnBalances(NodeMisanswers(a))
       \/ OnBalances(NodeFails(a)) \/ OnBalances(Transfer(a))
  \/ \E p \in Providers :
       \/ OnWallet(apply(p)) \/ OnWallet(SignerLoads(p)) \/ OnWallet(SignerMissing(p))
       \/ OnWallet(Unload(p)) \/ \E g \in 1 .. MaxGen[p] : OnWallet(StaleDisposer(p, g))
  \/ \E o \in Operations :
       \/ \E op \in {"address", "sign-message", "sign-transaction", "sign-digest"} :
          \E good \in IF op \in {"address", "sign-message"} THEN {TRUE} ELSE BOOLEAN :
            OnWallet(beginOperation(o, op, good))
       \/ OnWallet(ResolvesCredential(o)) \/ OnWallet(loadKey(o)) \/ OnWallet(sign(o))
  \/ OnWallet(RotateCredential) \/ OnWallet(VaultRemade)
  \/ \E kinds \in EventKinds : OnLedger(Told(kinds))
  \/ OnLedger(append) \/ OnLedger(CrashInAppend)
  \/ OnLive(StateChanged) \/ OnLive(Upsert) \/ OnLive(Pinned)
  \/ OnLive(tick) \/ OnLive(TimePasses) \/ OnLive(RestartAgent)
  \/ \E i \in 1 .. 2 :
       \/ OnLive(refreshLive(i))
       \/ \E p \in Probes : OnLive(ProbeEnds(i, p))

EdgesSpec == EdgesInit /\ [][EdgesNext]_edgeVars /\ FetchFairness
===============================================================================
