# Verification of dsh-web3

TLA+ models, model-checking runs and machine-checked proofs for the plugins of
the dsh-web3 monorepo (`src/dsh-*`): the agent tools that send transactions,
spend a treasury, download and publish media, talk XMTP and keep keys and
ledgers for doing so. The code is TypeScript on one event loop. What makes it
hard is not parallel threads but the places where a handler awaits: everything
read before an `await` may be stale after it, every settled promise wakes its
awaiters later, and the process may end between any two steps.

## 1. The system

| component | state it keeps | operations | talks to |
|---|---|---|---|
| dsh-exactly-once | `inFlight`, `settled` per model call; `outcomes` per exact (agent, tool, arguments); registered read-back hooks; a cold index folded from the session log | `wrap` (around every tool call), `registerCheck` and its disposer, `resetAgent` | every tool body, every plugin that registers a hook |
| dsh-wallet | adapters per chain family, `locks`: one promise per wallet | `withLock`, `register` and its disposer, `address`, `signMessage`, `signTransaction`, `signDigest` | royalty-router, erc8004 (through `withLock`), wallet-ethereum (signing) |
| dsh-royalty-router | `ExecuteLedger.attempts`: key -> starting, running, settled, failed | `rr_launch`, `rr_sweep`, `rr_heartbeat`, their chain read-backs and late settlement | the lane, the chain, exactly-once |
| dsh-treasury | durable tables `balances`, `expenses`; cached survival state | `updateBalances`, `recordExpense`, `authorize`, `report`; the policy's listeners on `agent/request`, `tools/pre-execute`, `tools/post-execute` | the storage domain's write chain, every costly tool |
| dsh-wallet-tools | none | `get_balances` (reads the chains, may sync the treasury), `get_prices` | RPC nodes, dsh-treasury |
| dsh-erc8004 | attempt ledger in memory; the pinned document | `registerAgent`, `register`, `resolveAttempt`, `broadcastRegister`, `awaitSettle`, two read-back hooks | the lane, the chain, treasury, synapse |
| dsh-tool-acquisition | handle store (one JSON file under a lock), download backends | `submit`, `status`, `finalize`, `checkSubmit` | indexers, qBittorrent and Transmission, arkiv |
| dsh-channel-xmtp | connection, outbox (cursor, accepted, seen), send queue, buffers per agent | connect/reconnect, `onMessage`, `admit`, `flush`, `sendOutput`, `sweepConsent` | the XMTP network, the agent loop |
| dsh-arkiv | promise maps of creates, updates and batches | `createEntity`, `createEntities`, `updateEntity`, three read-back hooks | the Arkiv chain, exactly-once |
| dsh-haven-aol | key cache and its file, attestation receipts and their file | `fill`, `seal`, `attestHolding`, `persistKeys` | the Lit network, files |
| dsh-storage-synapse | pin ledger and its file | `pin`, `checkPin`, `ensureSynapse` | Filecoin storage, files |
| dsh-observatory | an event ledger with rotation, a live file, and in memory what the plugins told it | event handlers, `tick` and its probes, the snapshot | every plugin's events, the page it serves |
| dsh-wallet-ethereum | none; one adapter object per load and chain family | `apply`, `loadKey`, three signatures | dsh-wallet, the signing vault |
| dsh-tool-prowlarr, dsh-agent-herald, dsh-persona, docker, native | none | queries, prompts, images | |

What is hard, component by component, and what makes it correct:

* **exactly-once**: one model call may be delivered again while its body runs,
  after it settled, or after a restart. A body must not run twice for it, all
  deliveries must be told one result, "success" must mean the effect happened,
  and an exact repeat of a call with an unknown outcome must be looked up first.
  The hook is awaited before the attempt is registered.
* **wallet lane**: sequences of one wallet run in call order and never
  interleave, whether the one before was fulfilled or rejected.
* **royalty execute**: callers of one intent share one send; a send outlives
  its caller's deadline and settles the attempt late; the chain is read back
  before a retry, at a time when a transaction may still be pending.
* **treasury**: an update of the sheet is many writes with awaits between them,
  a record is followed by a prune computed from a snapshot; the survival state
  is cached; a crash or a failed write can come between any two of these.
* **erc8004**: register is a check, a broadcast and a long wait; the answer may
  be lost after the broadcast; the ledger that knows of it is memory only.
* **acquisition**: a job is looked up, then submitted to a backend, then stored,
  then polled; a crash or a second call can come between any two of these, a
  backend that did not answer may still have accepted, and a poll writes back
  a record it read earlier.
* **XMTP channel**: messages arrive twice and out of order, the stream dies and
  is reconnected, sends time out while still running, and only the outbox file
  survives a crash.
* **ledger files** (arkiv, haven-aol, synapse, observatory): load, modify and
  save around awaits; lazy loading that marks itself done before it is done.
* **the edges** (records, sealed files, downloads, torrents, torrent clients,
  balances, keys): what comes in from outside or back from storage is cut,
  spelt otherwise, late or nonsense, and is the identity something is paid for,
  deduplicated or opened by.

`PROJECT.json` lists under `hazards` the lines where these bite.

## 2. The plan

Order: what can send money twice first, then what meets the network and the
disk, then what only translates.

1. `ExactlyOnce` with its abstract specification `CallOnce` (done, proved)
2. `WalletLane`, the lane on its own, composed into 3 and 5 (done, proved)
3. `RoyaltyExecute`: ledger, read-back, lane and chain (done, proved)
4. `Treasury`: tables over the write chain, policy, sync (done, proved)
5. `Erc8004`: registration over its ledger, the lane and the chain (done, proved)
6. `Acquisition`: handle store, backends, submit, poll, finalize (done, proved)
7. `XmtpChannel`: admission, outbox, cursor, bounded sends, reconnect (done,
   proved)
8. `KeyVault`, `ArkivLedger`, `SynapsePins`: the stores that must not do a thing
   again, in one run `MCStorage` (done, proved)
9. `HavenRecord`, `SealedFile`, `ContentKinds` and `ReleaseFetch`, `TorrentFile`,
   `TorrentClients`, `LiveBalances`, `WalletSigning`, `Observatory`: the edges,
   in one run `MCEdges`, but for records and sealed files, which are run beside the
   stores they go to (done, proved)

What is left open is out of the provers' reach: liveness (section 6).

Abstract specifications: `CallOnce` for the guard; the lane as a first-come-
first-served mutual exclusion (`InCallOrder`), which `RoyaltyExecute` is shown
to use.

## 3. The modules

`MC*.tla` give the constants of the runs; `*_proofs.tla` hold the theorems.
Mutated twins of an operation, marked "Mutant", stand next to it; nothing uses
them but the mutation runs of `PROJECT.json`.

### ExactlyOnce (dsh-exactly-once/src/guard.ts)

One dispatch is one activation of `wrap`; `pc[d]` says at which await it
stands, an action is the code between two awaits. `Enter` is `wrap` up to its
first await and has four branches in the order of the code: an exempt tool
passes through (`PassThrough`), a call in flight is attached to (`Attach`), a
settled one is replayed (`Replay`), and a fresh one either asks its hook
(`Consult`) or registers its attempt and runs the body (`BeginAttempt`).
`HookReplays`, `HookProceeds` and `HookFails` continue after the hook,
`BodyReturns` and `BodyThrows` after the body, `Follow` wakes an attached
delivery when the attempt promise settles. `settled`, `inFlight`, `outcomes`
and `checks` are the runtime's maps. `LastIsError` folds the warm outcome and
the cold index. Environment: the body's effect (`Commit`) may come before or
after its caller was told a timeout; the agent loop logs results
(`RecordResult`); `Restart` loses the maps, keeps the session log and closes
open calls as errors, as the file header says the harness does.

`CallOnce` is the promise without that machinery: a call is new, running, done
or closed, and deliveries are told its one answer or a failure.

### WalletLane (dsh-wallet/src/index.ts, withLock)

`locks` maps a wallet to the task whose settlement is the stored promise,
`prior` is the promise a task is chained on. There is no queue in the code and
none in the model. `ahead` is history: the tasks a newcomer found unsettled.
The module is written to be instantiated.

### RoyaltyExecute (dsh-royalty-router/src/tools.ts, wallet.ts)

A caller is one activation of `ExecuteLedger.run`. `RunReplays`, `RunAttaches`,
`RunVerifies`, `RunSends` are its branches up to the first await; a caller that
sends claims the key synchronously (`Claim`). `ReadBack` is the moment the
chain answers a read-back, `VerifiedCommitted` and `VerifiedOtherwise` what the
caller does with the answer later. Its send is a task of the lane
(`INSTANCE WalletLane`): `TaskStarts`, `Broadcast`, `Receipt`, `SendFails`.
`TimesOut` ends the caller's race and not the send, whose settlement
(`Fulfils`, `Rejects`) is recorded when it comes. The chain mines or drops
pending transactions, royalties accrue, other keepers sweep, a stranger may
take the symbol; `Restart` forgets the ledger and the lane, not the chain.

### Treasury (dsh-treasury, and the sync of dsh-wallet-tools)

Every write of the storage domain goes through one FIFO chain: `Issue` appends,
`Lands` performs the head and lets its writer go on in the same step,
`WriteFails` refuses it and the operation throws. `UpdateBalances` deletes the
rows absent from the given set and puts the others, one write at a time
(`UpdateGoesOn`); `RecordExpense` puts the row, computes the surplus from the
table as it then is (`Surplus`) and deletes it oldest first (`PruneGoesOn`);
both end in `Settle`, which derives and caches the state. `Admit` and `Deny`
are the policy's gate, `Meter` its record. `SyncAll` and `SyncOne` are
`get_balances` with sync: any row's read may fail and leaves that row out of
the set. The tables persist over `Restart`, everything else is derived again.

### Erc8004 (dsh-erc8004/src/index.ts)

A caller is one activation of `register`, `registerAgent` or the hook
`checkRegister`. `attempts` is the map keyed by URI; the card key leads to the
same record and is the set `cards`. `Plan*` is `planAndBroadcast` inside the
lane, `FetchNonce`, `SendRaw`, `SendAnswers` the awaits of `broadcastRegister`.
`resolveAttempt` is two questions to a node; the node's answer
(`ReceiptAnswers`, `PendingAnswers`) and its handling (`Receipt*`, `Pending*`)
are separate steps, because the record may move on in between. `Settle` shares
or opens a wait, `WaitSettles` ends it for all its holders, `TimesOut` for one.
The code waits with viem's `waitForTransactionReceipt` and its default settings, which
follow a replacement: the receipt is that of the transaction asked about or of the one
that took its nonce, of this URI, another or none of these (`Awaited`), and the code
marks the record by it without looking which.
The lane is the sequence of those it lets in, which `WalletLane`'s theorems
justify. Continuations with no I/O between them are one step. A node may answer
a lookup with an error or lose the answer to a send (`NodesFail`); `misled`
collects the URIs whose live transaction the ledger lost, by such a failure, by
a late answer, or by the reverted receipt of a replacement, and the safety
properties speak of the others. The chain takes
transactions in nonce order, replaces equal nonces, and may drop or revert any.

### Acquisition (dsh-tool-acquisition/src/acquire.ts, store.ts)

A caller is one activation of `submit`, `checkSubmit` or `status`, and `pc` the
await it stands at. A link is looked up (`Find`), fetched (`Fetch*`) and, when it
leads to a torrent, looked up again under the infohash: `my[c].stage` says which
of the two identities is meant. `Get` is the second read of the file inside
`status`. `Accepted`, `Refused`, `NotReached` and `Interrupted` are the ends of a
backend's submit, `Probe*` the verification of an ambiguous one. A backend's
answer (`Answers`) and its handling (`Ask*`, `Selects`) are separate steps; so
are the selection of the files and their import, between which the code awaits a
stat. A put waits for the mutex (`Put`, `Inside`), reads the file (`Loads`) and
renames the new one into place (`Saves`), after which its activation goes on
(`AfterPut`); `PutFails` lets the next in. The file and the backends outlive
`Restart`, requests under way do not. A request may reach its backend after its
caller was told it failed (`late`); `queuedBy` is what backends took in time.
The source of a `.torrent` file is not kept as an alias, since
`submitTorrentBytes` drops it. Left open: which of several matching records the
file lists first. Left out: a store file that cannot be read, and torrents
without an infohash, which have no identity to resolve by.

### XmtpChannel (dsh-channel-xmtp/src/index.ts)

One conversation, its agent and its user. `conn` is the life of the connection
(`Dialed`, `Opened`, the stream's errors, the reconnect timer, `Sweep`, `Stop`),
`handle` and `live` the observed session. Inbound, `Receive` marks a message
seen and starts its admission or coalesces it, `AdmitStarts` to `AdmitFlushes`
walk the admission chain through its awaits: the agent, the busy ack, the
inbox, the flush of the session, the outbox. Outbound, a task of a slot
(`task["run"]`; `task["late"]` is the one before it that the watchdog abandoned) reads the log from
a position it keeps in a local (`FlushReads`), sends each step
(`StepSends`, `SendReturns`, `SendFails`, `SendSwallows`) and advances the cursor
after it; `TimesOut` ends the wait of the chain and not the task, so two tasks
may run. `SaveEnds` is the rename of the outbox file. The harness (the
agent's turns, its log and how much of it is flushed) and the network are the
environment; `delivered`, `entered` and the sets beside them are history. `doubts` counts what
may make an output go out once more; one of them is a send that the watchdog
abandoned and that comes back after later ones were sent: it sets the cursor to
its own position (index.ts:895-897), and a process that ends then, cleanly or
not, sends again what was already received.

### KeyVault, ArkivLedger, SynapsePins (dsh-haven-aol, dsh-arkiv, dsh-storage-synapse)

In all three a call is a tool call and its stage the await it stands at.

* `KeyVault` (aol.ts, keyCache.ts, keyStore.ts, attest.ts, index.ts): the mounted
  runtime seals, calls that sign by the vault have runtimes of their own, and all
  share two files. `BeginSeal`, `BeginDecrypt` and `BeginAttest` go on to `Hit`,
  join the fill of another call or `Miss`; `SaveReads` and `SaveWrites` are the
  unlocked merge of the key file, `LedgerLoads` to `LedgerWrites` the receipts.
  `known` is what returned calls made durable, `excused` what an overlapping
  or failed save may have lost.
* `ArkivLedger` (index.ts): `promises` keeps the attempt of every content;
  `AskCreate`, `AskBatch`, `AskUpdate` come with the guard's read-back
  (`CheckKept`, `CheckFinds`, `CheckUnknown`, `CheckFails`) and either join or send.
  An attempt whose answer is lost may still land (`adrift`).
* `SynapsePins` (index.ts, synapse.ts): store and pin, the ledger loaded once and
  marked loaded before it is read, the shared temporary file, and a read-back
  that tries three times. The read may fail (`LoadFails`): the process goes on with an
  empty ledger, and its next save replaces the file by what it has stored itself.
  `unread` remembers that this process has not read the file.

### The edges

* `HavenRecord` (dsh-arkiv/src/haven.ts): `validateHavenWrite` and
  `normalizeHavenWhere` as functions of a record of tagged values: what is refused,
  what is written, and whether a filter equals the cell it is meant for.
* `SealedFile` (dsh-haven-aol/src/seal.ts): the framed layout cell by cell. A step of
  sealing is a chunk, as each is behind an `await`; storage then hands the file back,
  or a prefix of it, or its base IV with any of its frames behind it; opening guesses
  whether the file is framed, and a step of it is a frame that opens or is refused.
  What ciphertext reads as, where it is taken for a header, is left open (`noise`).
* `ContentKinds` (filetype.ts, selection.ts) and `ReleaseFetch` (fetch.ts,
  fetchSafety.ts, prowlarr.ts, acquire.ts, importer.ts): one source from its link over
  redirects and a stream into a `.part` file to a torrent or a file; servers, disk
  and resolver answer anything.
* `TorrentFile` (bencode.ts, acquire.ts): the decoder over a sequence of bytes, with
  the span of the info dictionary, and the key of a magnet link. The recursion of
  `decodeAt` is a stack of the lists and dictionaries that are open: a step reads an
  integer or a string, opens a value or closes one, and what none of these fits is
  refused. That of `walkV2Tree` goes one level of directories at a time, and
  `base32Decode` one character. A text is the bytes it was read from and the charset
  it was read in (`Reading`): names and path lists are read as UTF-8, dictionary keys as
  latin1, and the path of a version 2 file is made of keys (`KeysRead`).
  The files are made by somebody else, so how a file
  is laid out (`LaidOut`) and what torrent it is (`MadeWell`) are conditions on `Made`
  that say which value stands where, independently of how the decoder reads it.
* `TorrentClients` (qbittorrent.ts, transmission.ts): one client, its session, one
  retry behind a new session, and the reading of states; the backend forgets
  sessions at any moment.
* `LiveBalances` (dsh-wallet-tools): prices, reads over each chain's nodes in order,
  the report and what a sync writes.
* `WalletSigning` (dsh-wallet, dsh-wallet-ethereum): an operation's adapter, secret,
  key and signature, each got behind an await, while the credential is rotated, the
  vault's wallet is made anew and providers load, fail to load and unload. The raw
  provider keeps the key itself, so the address told is that of the signer; the vault's
  keeps the id of a wallet, so both are of one wallet whatever is remade. Which account
  of it is told and which signs are two choices: `accountAddress` takes the first of the
  chain, the signature the configured one (`accountIndex`, fixed at mount).
* `Observatory` (dsh-observatory): rows appended to a rotating file, a live file
  written by ticks that do not wait for one another, and the dashboard's reading. An
  append is two steps of the disk, so it can end before both, behind the rename (`gap`)
  or inside the line (`CrashInAppend`). The requests of a tick have a time after which
  they give up (`Timed`, `Limit`), its read of the acquisition ledger has none, so a
  tick may be overtaken by later ones as long as it waits for that.

## 4. The runs

| run | instance | what it shows |
|---|---|---|
| `eo_repeat` | two model calls of one exact write, three deliveries, a hook that comes and goes, crashes | the once property outside the hook's await, agreement of replies, honesty of success, no unasked repeat of an unresolved call |
| `eo_promise` | a guarded and an exempt call, two deliveries, no hook | the guard implements `CallOnce`, and every dispatch returns |
| `re_launch` | one launch intent, three callers | one send at a time per key, one answer, and a reported launch exists |
| `re_mixed` | a launch, a sweep and a heartbeat of one router, two callers | sends take turns in the lane, a direct answer means the effect came after the question, the sender is always answered |
| `re_resend` | one launch intent, two callers | **violated**: a failed receipt wait leads to a second broadcast while the first is pending |
| `tr_ledger` | two rows, two syncs, a request and a tool call, retention one, clock of two values | retention, derived state, metering, replacement by a lone sync, an empty purse buys nothing |
| `e8_ledger` | two token URIs, two callers of the one and one of either, two transactions on one nonce or on two, faulty nodes | one live registration of a URI, answers name a minted agent and whose it can be, a mined record stays, every activation returns or throws |
| `ac_handles` | one content under four names, two backends, two activations, one poll, files moved | a submission is taken by one backend and can be followed up, records are kept, activations that do not overlap share one live record and leave ended ones alone |
| `xm_channel` | one conversation in eight configurations, up to two messages, turns and outputs, one or two faults | a message enters once and, once recorded, is in the durable log; what the cursor has passed was received, and nobody is sent a thing twice without a cause |
| `xm_overtake` | the default configuration, a session replaced under a task | **violated**: the position of the old session lands in the new log and a turn is passed over |
| `st_ledgers` | three calls on each store, one loss, two mishaps, one lapse; a record; a sealed file | what a returned call made durable is not made, created or denied again, a result names entities that exist, what is stored stays; records are found, sealed files open |
| `ed_edges` | one instance of each other edge | downloads are whole and end, torrents and links have the right key and files, clients and balances say the truth, the wallet told is the one that signs, the dashboard goes back only behind a read that hangs |

Why the bounds are enough to be interesting. Three deliveries of two calls are
the least in which one is attached, one replayed and one repeated after a
failure. Three callers of one key give a sender that times out, a follower and
a retry; two callers of three keys give two sends in one lane. In the treasury
two syncs overlap, two records exceed a retention of one, values 0, 20 and 90
with a cost of 3 reach all four survival states; the clock's two instants
put an expense inside and outside the burn window. Three registrations with
two transactions give a sender, a resolver whose answer is late, and the one
that sends again after a drop, a revert or a misleading node; that the third may be of
another URI (`MCSpec`) gives a wait whose transaction another's replaces. Two activations of
the acquisition tool are the least in which one submits and the other resubmits,
reads back or polls; two backends give one failover; one poll gives the record a
second write; four names of one content are the four ways a submit resolves its
source. In the channel two outputs are the least of which one can be passed over
for the other and two messages the least that can be coalesced; each configuration
lists the faults it meets and how many, because their products are what grows.
Three calls on a store are one that makes a thing, one that overlaps it and one
that comes after a crash. Files of five bytes in chunks of two are empty, shorter
than, equal to and longer than a chunk and end in a full or a part frame, and four frames
handed back are one more than such a file has; the torrents (`Made`)
are of one file, of several, of version 2 and of none, with other entries before and
behind the info dictionary, cut at every byte or with bytes behind them (`Trailing`),
the deepest as deep as `MaxDepth` allows here, and with them bencoded files that are no
torrents; some names have a character outside ASCII (`Foreign`); a link has topics before and behind its hash (`Before`, `Behind`), and every
hash over two byte values is spelt in both ways; two nodes of a chain
are one that fails and one that answers; two loads of one provider are a registration
and the disposer of the one before; an account index of 0 and another are all the code
tells apart; two rows are one rotation, five are two, and a clock that reaches the next
tick is enough for one tick to overtake another.
In `ed_edges` and `st_ledgers` a behaviour is one of the parts, chosen at the start, as
the parts share nothing.

Bounded are the number of dispatches, callers, syncs and calls (each is used
once; an instance restarts with new ones), the clocks (`MaxTime`), the polls of a
submit (`MaxPolls`), the transactions of a registration (`MaxTx`; a send beyond it
is refused), reconnects (`MaxAttempts`), faults (`budget`, `MaxLosses`, `MaxMishaps`,
`MaxLapses`), frames that come back (`FramesMax`), redirects and sizes (`MaxRedirects`, `MaxBytes`, `HardCap`, in the code
5 and megabytes), the decoder's nesting (`MaxDepth`, in the code 64), the groups of
five bytes in a link's hash (`HashGroups`, in the code 4), the integers of the base32
decoder (`IntModulus`, 2^20 for the code's 2^32: it keeps more bits than it looks at), forgotten sessions (`MaxDrops`), rows (`MaxRows`) and loads
of a provider (`MaxGen`, `MaxVault`). The word sizes of `HavenRecord` are scaled
down with their order kept (i32 < safe integer < u256).

`CHECK_DEADLOCK FALSE` is set where every activation may be used up and
nothing else can happen: the system is then at rest, not stuck.

## 5. Fairness

`eo_promise` assumes that a hook and a body end (the harness bounds the body
with a timeout; a hook is a bounded number of reads) and that a settled promise
wakes those who await it. `re_mixed` assumes that the steps before a broadcast
answer or fail, timers fire, promises wake their awaiters, a pending
transaction is mined or dropped and a mined one yields its receipt. It does not
assume that the receipt of a dropped transaction ever comes: the wait has no
bound in the code, and a follower of such a send waits for ever (section 7).
`e8_ledger` assumes that storage, nodes and the wallet answer or fail and that
timers fire; the chain may leave a transaction pending for ever.
`ed_edges` assumes of a download that the program takes its own steps and that
every request ends at the latest with the timeout it is given
(`FetchFairness`); servers may be silent for ever.
Nothing is assumed of users, other keepers, crashes or of failing writes.

## 6. The proofs

All are safety; liveness is only model-checked. The assumptions are the
`ASSUME`s of the modules: shapes of the constant functions, and that the `None`
of a map is not one of its values; in `Erc8004` also that callers are not numbers,
as `past` holds callers and transactions alike.

* **ExactlyOnce** (`ExactlyOnce_proofs`). `TypeCorrect`; then `IInv`, which
  adds to the types the shape of an activation (who is attached to what, what a
  returned one holds) and `OnceInv`: a call that never waited on a hook has a
  body running only as the registered attempt, and none once it is settled. The
  property alone is not inductive because it says nothing about the deliveries
  that will attach or replay. From it follow `OnceGuarantee` and `OneResult`.
  `SuccessIsHonest` has an invariant of its own over every place an "ok" is
  kept: the maps, the attempt promises, the session log. `EvidenceInv` says what
  is left of a failure: while its process lives and the user has not spoken, the
  last outcome is remembered (`Remembered`), what was recorded or closed by repair
  is in the log (`InTheLog`), and an "ok" in either was told to somebody
  (`OkIsTold`); so an unresolved call is seen to be one, and `RepeatsAreAsked`.
  `PromiseKept` shows, when no tool has a hook, that every step is a step of
  `CallOnce` or invisible to it.
* **WalletLane** (`WalletLane_proofs`). The chain of promises has no queue to
  look at; the argument goes through `ahead`: whatever a task found ahead of it
  is the task it is chained on, or was ahead of that one, so when the chained
  task has settled all of them have. `LaneIsFirstComeFirstServed` and
  `LaneIsExclusive` hold for any number of wallets and tasks.
* **RoyaltyExecute** (`RoyaltyExecute_proofs`). `SendInv`: a caller at work on
  a send owns the open attempt of its key; from it `OneSend`. `UsesLane` shows
  that the tools drive the lane only through its own actions, so
  `TurnsAreTaken` is the lane's theorem and not a second proof. `AnswerInv`
  follows a value from where it arises to everyone it is told to: while one
  caller's send or read-back is open nobody else can make a value for its key
  (`Fresh`), so the value of a settled attempt, the promises of its callers and
  what they returned agree (`Agreed`), and each rests on a launch that is on the
  chain (`MadeInv`) or a sweep or heartbeat that has been done (`OwedInv`,
  `ActedInv`). From it `TrueAnswers` and `AnswersActed`.
* **Treasury** (`Treasury_proofs`). `RetentionInv`: whatever a prune is
  deleting or will delete is already outlived by enough written expenses, and a
  call's expense gets its timestamp before it is written, so no later stamp can
  make an outlived one young again. The snapshot a prune works from may be old;
  the invariant says why that does no harm. From it `RetentionHolds`, for any
  number of concurrent records and crashes. `MeteredFirst` is inductive with
  the step in between ("pruning") added. `QuietIsDerived` holds because every
  write ends by settling or by issuing the next one; `BrokeIsDenied` adds that a
  worthless sheet is only ever derived as "funded" or "depleted", for which the
  sum over the sheet has to be zero in every row; `LoneSyncIsWhole` keeps, for a
  sync that nothing overlapped, that every row is as given or still to be written.
* **Erc8004** (`Erc8004_proofs`). `OneLivePerUri` is not inductive, since it
  says nothing about a caller that is about to send. `LiveInv` does: a live
  transaction of a URI is on the URI's record, or its sender still awaits the
  node's answer to it; and a caller inside the lane that has planned and not
  yet sent found none. It rests on `LaneInv` (who is inside is the head of the
  lane), `CallInv` and `HashInv` (a hash in the locals or on a record names a
  transaction of this process for that URI) and `OwnInv` (a transaction whose
  sender is not answered yet is known to its sender alone). `MinedInv` ties the agent
  of a record to a transaction that was mined, which is the recorded one, a later one of
  the URI that made up for it, or the one that took the nonce of a dropped one of the URI
  (`MintedFor`); `WaitInv` says that those who share a
  wait wait for one transaction, so that one outcome may be told to all of them
  (`AnswersAreMinted`). `MinedRecordsStay` is of records whose hash is mined itself:
  one marked by a replacement's receipt names a hash that is gone, and a resolver's late
  "missing" may clear it. URIs in `misled` are exempt, and have to be:
  `RegisteredOnce`, the statement without the exemption, does not hold (section 7).
* **Acquisition** (`Acquisition_proofs`). `IInv` has three parts beside the
  types. `Sound`: an activation that works on a record has a copy that names the
  record's own content, backend and link, and a record exists only under the
  handle of an activation that owns it or has ended. `LockInv`: the head of the
  mutex loaded the file as it now is, so the rename loses nothing. `TakenInv`: a
  backend that took a submission in time is the only one, and it is the one its
  activation is probing or polling, or the one its record names. `QueuedByOne`
  and `FollowedUp` are consequences and not inductive alone: a failover decides
  on what the probe before it found. From `LockInv` and `Sound` follows
  `RecordsAreKept`. `LoneInv` is about a content that is not contested: it
  has one activation at work at most (`Alone`) and one live record (`LiveOnce`); an
  activation that goes to a backend, or is about to store a new record, has found none
  live, and the record that another follows up still is (`LoneOf`); and the copy it
  works on is of that content, which its link names (`FitsOf`, `NamesFit`). From it
  `LoneSubmitsShareOne` and `LoneTerminalsStay`.
* **XmtpChannel** (`XmtpChannel_proofs`). `BaseInv` adds to the types that turns
  follow each other in the log and what is said is numbered as it is said
  (`LogFits`), that the steps of a task are told apart by their position and by what
  they send (`StepsFit`), and that a message waits in the admission chain or the
  buffer once (`ChainFits`). `EntersOnceEach`: a message that is still to enter,
  or could be received again, has entered at most as often as processes have
  ended without a record of it (`EnterFits`), and every copy of the outbox, in
  memory, under way and on disk, marks only what is in the durable log or excused
  (`KeptFits`). `SentOnceEach`: how often an output was received, and once more for
  each task that still holds it and for a position ahead of the cursor, is no
  more than one and the doubts (`SentCount`), and what tasks hold was said
  (`StepsSaid`). `RepliesOnce`: no cursor, nor what was pruned, has passed anything
  owed (`CursorsFit`); what is owed before a step of a task is sent by a step not
  later than it (`TasksCover`); and tasks name no position the log does not have
  (`WithinLog`). Its assumption `NeverOvertakes` says that a session is not replaced
  while a task works on it; without it the statement does not hold, which is what
  `xm_overtake` shows.
* **The stores** (`Stores_proofs`). `VaultInv`: what a returned call made durable and
  no loss excuses is in the file and in every copy that is about to replace it,
  and a copy that is to be written extends the file as it is, so an unlocked merge
  loses nothing of its own process (`NotAgain`, `FirstStoredWins`). `LedgerInv`: a
  promise that is kept names a call of that very job which is under way or answered
  (`KeptFits`), and what a call has found or was answered names, record for record,
  an entity that had that content (`CallFits`); from it `OneEntity`. `PinsInv`:
  until saves overlap, one fails or a process saves over a file it could not read
  (`unread`), at most one save is under way, no load runs
  beside it, and it writes all that is recorded to a file of its own; what is
  recorded is in the ledger file, with a provider, and in memory once the file has
  been read (`PinsKept`). The
  assumptions say that jobs have contents and that contents are not the torn file.
* **The edges** have their theorems beside those of the component they belong to. In
  `Treasury_proofs`: `BalancesInv` follows a read from the node it asks to what it gave
  and keeps the sheet at what stood before or at the whole report, since a sync is one
  write here (`ReportHolds`); `SigningInv` ties what a call holds in its locals to a
  secret the credential had since it began, its account to the wallet whose id it holds
  and to the index of its adapter, and a provider that is up to the adapters
  registered under its own generation, which an older disposer does not match
  (`SignedAsTold`). In `Acquisition_proofs`: `ClientInv` says that a call which still
  runs has queued nothing and that one which logged in again goes on with the session
  of that login, so a second refusal means that the backend forgot it meanwhile
  (`ClientsAreTrue`); `FetchInv` bounds what is written by the cap while the body
  streams and says that nothing has its final name before the end (`DownloadsAreWhole`);
  that a name gives the type it was chosen for is a lemma on the tables (`NameFits`).
  In `ExactlyOnce_proofs`: `LedgerInv` says where in what was told each line of the two
  files comes from, so that a rotation loses only the oldest and an uncut append keeps
  them adjacent, and that there is no ledger beside what was told only where an append has
  ended behind its rotation; `LiveInv` that of the ticks under way only the last waits
  for a request, because those of each run out before the next is due, and the others for
  the acquisition ledger (`DashboardHolds`). Its hypothesis `ProbesEndInTime` is that
  every request gives up before the next tick: the code bounds them by 3 or 4 s and ticks
  every 15 s, but the latter is a setting. Of the file read, which has no bound, nothing
  is assumed.
  In `Stores_proofs`: an accepted write is a row of cells, and a cell of each of the
  code's attributes has the form its rule gives it (`AcceptedFits`, by group). Another
  spelling of a value of that form keeps its digits or its amount (`SpeltAs`), so the
  cell that a filter looks for is the cell that was written (`CellFound`), and the same
  write spelt otherwise is accepted into the same cells (`CellsAgain`, by group);
  from the two, `RecordsFound`. Its one assumption, `Asked`, is that each value is what
  its type says, a number a number and a text a text; the payload may be anything.
  Also there is `SealedInv`: in a framed file every cell of ciphertext, wherever storage
  has put it, is of the chunk whose index its IV holds (`OfItsChunk`), so a frame that
  opens under the index that is due adds the next chunk and nothing else; in an intact
  file the frames stand at the sums of the lengths before them (`FramesStand`), and the
  reader at one of these with the chunks so far (`ReaderFits`). That multiplication by
  the chunk size grows (`TimesGrow`) is all the arithmetic it needs, so that chunks
  have any size, the file any length, and nothing is computed by recursion. From it
  `SealedOpens`.
  In `Acquisition_proofs` as well: `TorrentInv`, of a file and of a link. The first
  (`FileInv`) relates the decoder to the file as it was made: every frame of the stack
  stands for a list or a dictionary of the file and holds the parts of it before the
  one that the frame above it reads (`FrameRight`), so where the decoder stands a part
  starts or what is open ends, and what it delivers is the value that was written
  there, with its place. A prefix of the file has nothing else to offer before it
  ends, and what stands behind the file is never looked at. The walk of a version 2 tree has
  at its `k`-th level the directories with a path of `k` names and has found the
  files above them (`Level`, `FilesAbove`), their names read as the keys they are. The second (`LinkInv`) says what the
  base32 decoder holds after every character of a group of eight: so many bits that
  no byte has taken yet, and in `out` the bytes that are complete (`AccIn`); hash bytes
  of any value and hashes of any number of groups follow from the arithmetic of one
  group. From it `TorrentsParsed`. The theorem speaks of the files and links that
  `MadeAssumption` and `LinkAssumption` allow: any bencoded file within the decoder's
  nesting whose dictionaries have no key twice, and any link whose topics before the
  hash are no hashes. TLC evaluates both on the files and links of `ed_edges`.
  `ed_edges` takes the steps of `BalancesNext`, `SigningNext`, `ClientNext`, `FetchNext`,
  `TorrentNext` and `ObservatoryNext` one by one, and `st_ledgers` those of `SealNext`, so
  the runs and the theorems speak of the same actions.

The type invariants of `ExactlyOnce`, `RoyaltyExecute`, `Treasury`, `Erc8004`,
`Acquisition` and `XmtpChannel` and `MutexIsLeft` (a put that fails lets the next
one in) are proved and are therefore no invariants of the runs. Sums and least
elements are no induction over data here: that a sum is zero, or stays so, is
shown by the least prefix at which it would not. Nor is recursion in the code: a
decoder, a walk and a loop over characters are steps here, with an invariant. Every
safety property of a passing run thus has its theorem. Only model-checked is liveness
under fairness: `EveryDispatchReturns`, `SenderReturns`, `CallerReturns` and
`EveryFetchEnds`.

## 7. Divergences and known limits

`re_resend` and `xm_overtake` are runs that end in a violation; `PROJECT.json`
quotes the line that promises otherwise. Nine more statements of the code's own
comments stand in the modules as definitions and do not hold. Each is found
violated when it is put into the named configuration.

| statement | add to | what the code does |
|---|---|---|
| `BodiesNeverOverlap`: "The tool body runs once" (dsh-exactly-once/src/guard.ts:9-12) | INVARIANTS of `EO_repeat.cfg` | `wrap` awaits the hook (158) before it registers the attempt (185): a redelivery in between runs the body too |
| `RegisteredOnce`: a registration is sent again only when "provably gone ... and re-sending is safe" (dsh-erc8004/src/index.ts:350-351) | INVARIANTS of `E8_ledger.cfg`, with `MaxTx = 3`, `NodesFail = FALSE` and `SPECIFICATION Spec` | a resolver's late answer clears whatever the record then holds (389), not the transaction it asked about |
| `AgentIsOwn`: "Returns agentId (tokenId), tokenUri ..., txHash" of the card registered (dsh-erc8004/src/index.ts:687) | INVARIANTS of `E8_ledger.cfg` | the wait resolves with the receipt of the transaction that took the nonce (490), and the agent in it is recorded and told whosever it is (516-518) |
| `RecordedSurvives`: "persisting the root→piece ledger across restarts (best-effort, 0600)" (dsh-storage-synapse/src/synapse.ts:82) | INVARIANTS of `ST_ledgers.cfg`, with `Parts = {"pins"}` | two saves share a temporary file, and one may rename what the other has only begun (148); a ledger that could not be read counts as empty (135), and the next save replaces it |
| `SignerIsNamed`: "account index within each wallet's derivation path" (dsh-wallet-ethereum/README.md:90) | INVARIANTS of `ED_edges.cfg` | the address told and emitted is the first account of the chain (index.ts:151), the signature the configured account's (206-274) |
| `NamesAsMade`: "extract hash, name, and file list" (dsh-tool-acquisition/src/bencode.ts:115) | INVARIANTS of `ED_edges.cfg` | keys are decoded as latin1 (49) and are the path of a version 2 file (103-112), while lists are decoded as UTF-8 (141) |
| `EnforcedOnceFunded`: enforcement is live once "the treasury has been funded at least once" (dsh-treasury/src/policy.ts:178) | PROPERTIES of `TR_ledger.cfg` | `funded()` asks for a row now; a sync whose reads all failed deletes every row (dsh-wallet-tools/src/index.ts:354) |
| `TerminalStays`: "`completed`/`failed`/`missing` are terminal" (dsh-tool-acquisition/src/types.ts:26) | PROPERTIES of `AC_handles.cfg` | a status or poll writes back the copy it read before its await (acquire.ts:385): the slower of two revives an ended record |
| `UpdateTakesEffect`: "a re-patch of identical content converges anyway" (dsh-arkiv/src/index.ts:294) | PROPERTIES of `ST_ledgers.cfg`, with `Parts = {"arkiv"}`, `Calls = {1, 2, 3, 4}` and `MaxMishaps = 0` | an update's settled promise is kept (489): rewritten to a, b and a again, the third is answered without a transaction and the entity stays b |

Seen while reading, and excused or left out where a property would meet them:

* dsh-royalty-router: a caller that attaches to a send in progress has no deadline of
  its own (tools.ts:418); the launch read-back compares the token's name only, so two
  intents with one symbol and name are taken for each other (tools.ts:529); a settled
  sweep or heartbeat is replayed for the life of the process (tools.ts:415).
* dsh-exactly-once: `resetAgent` forgets the warm outcomes only, and the cold index
  still knows the failure the user has spoken after (guard.ts:154).
* dsh-treasury: a cost is authorised against what was recorded and recorded after the
  call, so calls admitted together overspend a cap (policy.ts:240).
* dsh-erc8004: a pending lookup that fails counts as "not pending" (index.ts:376); the
  treasury gate reads a field `authorized` that the decision does not have, so it never
  blocks (index.ts:419), and the expense is recorded under a field the ledger refuses,
  which is swallowed (index.ts:525); two `registerAgent` of one card may both pin it
  (index.ts:548-583); the nonce is the confirmed count (index.ts:439) and the receipt is
  awaited outside the lane, so the next sender of the wallet takes the nonce of a pending
  registration, though the lane promises "no shared-nonce replacement races"
  (dsh-wallet/src/index.ts:253-254). The one replaced is then marked by the other's
  receipt: mined, with the other's agent, under a hash that is gone, which a late "missing"
  clears again (389), or reverted though the replacement was what reverted.
* dsh-tool-acquisition: two overlapping submits of one content both queue it
  (acquire.ts:480), which the backends take once and the store lists twice; a finished
  record of moved files is never asked again, a live one whose files another activation
  has moved ends as failed (acquire.ts:610). A URL that turns out to be a `.torrent`
  loses its content key (acquire.ts:412).
* downloads: an error of the output stream while it is finished is swallowed, and the cut
  file is renamed as complete (fetch.ts:203); nothing listens for errors while streaming,
  and the waits for `drain` and for the name lookup have no bound; a refused page or an
  unreadable torrent leaves its spooled file; a file of unknown bytes is recorded as
  `application/octet-stream` though it was selected by its extension; the mode "largest"
  cuts the list to `maxFiles` before it chooses.
* torrent clients: the probe of a torrent without a v1 hash is answered "missing" by
  Transmission though it queued it, so a failover queues it twice (acquire.ts:601); a
  session forgotten twice inside one call ends as a refusal for good; qBittorrent's
  "moving" with nothing left counts as completed (qbittorrent.ts:195) although it is among
  the queued states; a duplicate without a hash is refused though it is held.
* balances: a malformed first result is not asked of the next node; a read that failed
  drops its row from a full sync (live-balances.ts:436); an unknown price counts as 0; one
  estimate that is not finite ends the whole sync.
* channel: a task that exceeded its bound still runs beside the next (index.ts:810); after the
  last reconnect attempt the channel stays down until a restart (550); the outbox forgets
  the oldest of five thousand entries, whose replay would be admitted again (412).
* stores: the receipt and pin ledgers are marked loaded before they are read, so a call in
  between mints again or is told "not pinned" (aol.ts:632, synapse.ts:112); a process that
  could not read the pin ledger denies what is recorded, and its next save forgets it for
  good (synapse.ts:135-137; until then a restart finds all of it); two savers of
  the key file can lose one another's keys (keyStore.ts:149), and a hit may return before
  its key is durable; saves of the pin ledger share one temporary name and can tear it
  (synapse.ts:148); a pin of a CID that was never stored is answered with redundancy 1;
  overlapping stores of the same bytes both upload; the search for a committed record
  ignores its owner.
* records: a series writes its `gate_token` as an address cell and a filter seeks it as a
  string (haven.ts:691 and 789-791); a part's `sha256_ct` is sought as a string when the filter
  names no group.
* sealed files: an empty file sealed in frames is a base IV alone and does not open, and a
  file cut between two frames opens as a shorter one (seal.ts:226-290).
* observatory: one line a crash has torn makes the ledger read as empty until it is rotated
  and swallows the next row; one that ends between the rename and the append leaves no
  ledger until the next row (store.ts:19-21); rotation hides earlier rows from the snapshot, overwrites the
  file rotated before and may part a burn from its tokens; ticks overlap when `pollMs` is
  below the probes' bounds of 3 and 4 s, or while the read of the acquisition ledger hangs
  (live.ts:116); what was told of the catalog, treasury and identity
  is lost at a restart; no package emits `catalog/upsert`; expense rows carry the token
  'USD', so a launch's return never counts costs; the default file name of the acquisitions
  it reads (index.ts:27) is not the store's (acquire.ts:170).

## 8. Not modelled

Formatting, prompts, logging, HTTP details, the observatory's page and server,
the signing libraries, the cryptography, and the XMTP, Arkiv, Lit and Filecoin
networks themselves, which are environments. Canonicalisation of arguments is a
choice of equal or different argument values. In the channel: several
conversations, the back-off of the consent sweep, the pruning of the outbox and
Markdown. In the stores: paging, retrieval, the canister's codecs, the expiry of
receipts. In acquisition: redaction and the classes of addresses fetch safety
refuses. In dsh-royalty-router: the read-only tools, the read-back hooks it gives
to the guard and the assembly of transactions. dsh-tool-prowlarr, dsh-agent-herald,
dsh-persona and the images hold no state and decide nothing a run could tell apart.
`PROJECT.json` has the reason for each.
