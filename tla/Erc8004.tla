-------------------------------- MODULE Erc8004 --------------------------------
(***************************************************************************)
(* Registration of an agent on the ERC-8004 registry (dsh-erc8004): the    *)
(* attempt ledger of Erc8004Runtime over the wallet's lane and the chain.  *)
(*                                                                         *)
(* A caller is one activation of register, registerAgent or the read-back  *)
(* hook checkRegister.  A card is stored under the hash of its content, so *)
(* it has one token URI, and both keys of the ledger lead to one record.   *)
(* The lane is used as WalletLane specifies it: first come, first served,  *)
(* one inside.  The chain, its mempool and the nodes are the environment.  *)
(***************************************************************************)
EXTENDS Naturals, Sequences, FiniteSets

CONSTANTS
  Uris,       \* token URIs
  Callers,    \* activations
  MaxTx,      \* bound on the transactions sent
  NodesFail,  \* whether a node may answer a lookup wrongly, or lose an answer
  None        \* undefined

ASSUME BoundAssumption == MaxTx \in Nat /\ NodesFail \in BOOLEAN
ASSUME CallersAssumption == Callers \cap Nat = {}

VARIABLES
  attempts,  \* URI -> its record
  cards,     \* URIs whose card key leads to their record
  receipts,  \* transaction -> the caller that opened the registered wait
  lane,      \* the wallet's lane: the head is inside
  pc,        \* caller -> where it is
  uri,       \* caller -> its URI
  my,        \* caller -> its local variables
  seen,      \* caller -> the node's answer it has not handled yet
  out,       \* caller -> what it returned or threw
  tx,        \* transaction -> its state on the chain
  confirmed, \* transactions of the wallet that are on the chain
  misled,    \* history: URIs of which the ledger lost a live transaction
  past       \* history: callers and transactions of earlier processes

ledgerVars == <<attempts, cards, receipts>>
callVars == <<pc, uri, my, seen, out>>
chainVars == <<tx, confirmed>>
vars == <<ledgerVars, lane, callVars, chainVars, misled, past>>

Txs == 1..MaxTx
Record == [hash : Txs \cup {None}, agent : Txs \cup {None},
           state : {"broadcast", "mined", "reverted"}]
ASSUME NoneAssumption == None \notin Nat \cup Callers \cup Uris \cup Record
(* A registration: the token its transaction minted is named after it.      *)
Registration == [agent : Txs \cup {None}, hash : Txs \cup {None}]
(* Locals: what follows once a prior attempt is resolved, the transaction   *)
(* it sent, looks up or waits for, the nonce it fetched, and the caller     *)
(* that opened the wait it holds.                                           *)
Locals == [goal : {"register", "check"}, hash : Txs \cup {None},
           nonce : 0..MaxTx, wait : Callers \cup {None}]
Blank == [goal |-> "register", hash |-> None, nonce |-> 0, wait |-> None]

Threw == [how |-> "threw"]
Proceed == [how |-> "proceed"]
Unknown == [how |-> "unknown"]
Verdicts == {Threw, Proceed, Unknown}
Looking == {"receipt", "pending"}
InLane == {"nonce", "sending", "sent"}
PcValues == {"idle", "pinning", "queued", "settle", "waiting", "returned", "lost"}
            \cup Looking \cup InLane
TxStates == {"pending", "mined", "reverted", "dropped"}

Sent == DOMAIN tx
Live(h) == tx[h].state \in {"pending", "mined"}
Active(c) == pc[c] \notin {"idle", "returned", "lost"}

TypeOK ==
  /\ attempts \in [Uris -> Record \cup {None}]
  /\ cards \in SUBSET Uris
  /\ receipts \in [Txs -> Callers \cup {None}]
  /\ lane \in Seq(Callers)
  /\ pc \in [Callers -> PcValues]
  /\ uri \in [Callers -> Uris \cup {None}]
  /\ my \in [Callers -> Locals]
  /\ seen \in [Callers -> TxStates \cup {"missing", "found", "nothing"}]
  /\ out \in [Callers -> Registration \cup Verdicts \cup {None}]
  /\ tx \in Seq([uri : Uris, nonce : 0..MaxTx, state : TxStates])
  /\ Len(tx) <= MaxTx
  /\ confirmed \in 0..MaxTx
  /\ misled \in SUBSET Uris
  /\ past \in SUBSET (Callers \cup Txs)

Init ==
  /\ attempts = [u \in Uris |-> None]
  /\ cards = {}
  /\ receipts = [h \in Txs |-> None]
  /\ lane = <<>>
  /\ pc = [c \in Callers |-> "idle"]
  /\ uri = [c \in Callers |-> None]
  /\ my = [c \in Callers |-> Blank]
  /\ seen = [c \in Callers |-> "nothing"]
  /\ out = [c \in Callers |-> None]
  /\ tx = <<>>
  /\ confirmed = 0
  /\ misled = {}
  /\ past = {}

-----------------------------------------------------------------------------
(* Where an activation goes on.                                             *)

To(c, where) == pc' = [pc EXCEPT ![c] = where]
Returns(c, o) ==
  /\ To(c, "returned")
  /\ out' = [out EXCEPT ![c] = o]
  /\ my' = [my EXCEPT ![c] = Blank]

(* register: take the lane to plan.                                         *)
Queue(c, q) == To(c, "queued") /\ lane' = Append(q, c) /\ UNCHANGED out
Holding(c, h) == my' = [my EXCEPT ![c].hash = h]

(* The record of u lets go of a transaction that is still live: a node said  *)
(* it was missing, or a wait took the receipt of another for its own.       *)
LetsGo(u) ==
  LET h == attempts[u].hash IN
  /\ h # None
  /\ Live(h)
  /\ attempts'[u].hash # h \/ attempts'[u].state = "reverted"
Watch(u) == misled' = IF LetsGo(u) THEN misled \cup {u} ELSE misled

(* The prior attempt is known to be gone.                                   *)
Gone(c, for) ==
  \/ for = "register" /\ Queue(c, lane) /\ my' = [my EXCEPT ![c] = Blank]
  \/ for = "check" /\ Returns(c, Proceed) /\ UNCHANGED lane

(* What the record of a URI says.                                           *)
(* Mutant: a mined registration is not noticed.                             *)
SettledNever(u) == FALSE

Settled(u) ==
  LET r == attempts[u] IN
  r # None /\ r.state = "mined" /\ r.agent # None /\ r.hash # None

(* Mutant: a broadcast nobody waits for any more is sent again.             *)
OutstandingWaited(u) ==
  LET r == attempts[u] IN
  r # None /\ r.state = "broadcast" /\ r.hash # None /\ receipts[r.hash] # None

Outstanding(u) ==
  LET r == attempts[u] IN r # None /\ r.state = "broadcast" /\ r.hash # None

(* resolveAttempt up to its first await, on the record of URI u.            *)
Resolve(c, u, for) ==
  \/ /\ Settled(u)
     /\ Returns(c, [agent |-> attempts[u].agent, hash |-> attempts[u].hash])
     /\ UNCHANGED lane
  \/ (attempts[u].state = "reverted" \/ attempts[u].hash = None) /\ Gone(c, for)
  \/ /\ Outstanding(u)
     /\ To(c, "receipt")
     /\ my' = [my EXCEPT ![c].goal = for, ![c].hash = attempts[u].hash]
     /\ UNCHANGED <<lane, out>>

Enters(c, u) ==
  /\ pc[c] = "idle"
  /\ uri' = [uri EXCEPT ![c] = u]
  /\ UNCHANGED <<ledgerVars, seen, chainVars, misled, past>>

Register(c, u) == Enters(c, u) /\ Queue(c, lane) /\ UNCHANGED my

(* registerAgent, once it has the owner's address and the card.             *)
RegisterAgent(c, u) ==
  /\ Enters(c, u)
  /\ \/ u \in cards /\ Resolve(c, u, "register")
     \/ u \notin cards /\ To(c, "pinning") /\ UNCHANGED <<lane, my, out>>

(* checkRegister, by token URI or by card.                                  *)
CheckRegister(c, u) ==
  /\ Enters(c, u)
  /\ \/ attempts[u] # None /\ Resolve(c, u, "check")
     \/ u \notin cards /\ Returns(c, Unknown) /\ UNCHANGED lane

(* storeCard answers; the record of the URI is made or found.               *)
Pinned(c) ==
  LET u == uri[c] IN
  /\ pc[c] = "pinning"
  /\ attempts' = IF attempts[u] # None THEN attempts
                 ELSE [attempts EXCEPT ![u] = [hash |-> None, agent |-> None, state |-> "broadcast"]]
  /\ cards' = cards \cup {u}
  /\ Queue(c, lane)
  /\ UNCHANGED <<receipts, uri, my, seen, chainVars, misled, past>>

PinFails(c) ==
  /\ pc[c] = "pinning"
  /\ Returns(c, Threw)
  /\ UNCHANGED <<ledgerVars, lane, uri, seen, chainVars, misled, past>>

-----------------------------------------------------------------------------
(* planAndBroadcast, inside the lane.                                       *)

Turn(c) == pc[c] = "queued" /\ lane # <<>> /\ Head(lane) = c

PlanSettled(c) ==
  /\ Turn(c)
  /\ Settled(uri[c])
  /\ Returns(c, [agent |-> attempts[uri[c]].agent, hash |-> attempts[uri[c]].hash])
  /\ lane' = Tail(lane)
  /\ UNCHANGED <<ledgerVars, uri, seen, chainVars, misled, past>>

(* A broadcast is on record: attach to its wait, or look it up.             *)
PlanOutstanding(c) ==
  LET h == attempts[uri[c]].hash IN
  /\ Turn(c)
  /\ Outstanding(uri[c])
  /\ To(c, IF receipts[h] # None THEN "settle" ELSE "receipt")
  /\ Holding(c, h)
  /\ lane' = Tail(lane)
  /\ UNCHANGED <<ledgerVars, uri, seen, out, chainVars, misled, past>>

PlanBroadcast(c) ==
  /\ Turn(c)
  /\ ~Settled(uri[c]) /\ ~Outstanding(uri[c])
  /\ To(c, "nonce")
  /\ UNCHANGED <<ledgerVars, lane, uri, my, seen, out, chainVars, misled, past>>

(* broadcastRegister: fetch the nonce, sign, send.                          *)
FetchNonce(c) ==
  /\ pc[c] = "nonce"
  /\ my' = [my EXCEPT ![c].nonce = confirmed]
  /\ To(c, "sending")
  /\ UNCHANGED <<ledgerVars, lane, uri, seen, out, chainVars, misled, past>>

(* The node takes the transaction; a pending one with its nonce is replaced.*)
SendRaw(c) ==
  LET mine == [uri |-> uri[c], nonce |-> my[c].nonce, state |-> "pending"] IN
  /\ pc[c] = "sending"
  /\ Len(tx) < MaxTx
  /\ my[c].nonce >= confirmed
  /\ tx' = Append([h \in Sent |-> IF tx[h].state = "pending" /\ tx[h].nonce = my[c].nonce
                                  THEN [tx[h] EXCEPT !.state = "dropped"] ELSE tx[h]], mine)
  /\ Holding(c, Len(tx) + 1)
  /\ To(c, "sent")
  /\ UNCHANGED <<ledgerVars, lane, uri, seen, out, confirmed, misled, past>>

(* The treasury, the wallet or the node refuses before anything is sent.    *)
SendRejected(c) ==
  /\ pc[c] \in {"nonce", "sending"}
  /\ Returns(c, Threw)
  /\ lane' = Tail(lane)
  /\ UNCHANGED <<ledgerVars, uri, seen, chainVars, misled, past>>

(* Mutant: the record of a broadcast keeps the hash of the one before.      *)
SendAnswersOld(c) ==
  LET u == uri[c] IN
  /\ pc[c] = "sent"
  /\ attempts' = [attempts EXCEPT ![u] =
       IF @ = None THEN [hash |-> my[c].hash, agent |-> None, state |-> "broadcast"]
       ELSE [@ EXCEPT !.state = "broadcast"]]
  /\ To(c, "settle")
  /\ lane' = Tail(lane)
  /\ UNCHANGED <<cards, receipts, uri, my, seen, out, chainVars, misled, past>>

(* The node's answer: the broadcast is recorded, the lane left.             *)
SendAnswers(c) ==
  LET u == uri[c] IN
  /\ pc[c] = "sent"
  /\ attempts' = [attempts EXCEPT ![u] =
                    [hash |-> my[c].hash, agent |-> None, state |-> "broadcast"]]
  /\ To(c, "settle")
  /\ lane' = Tail(lane)
  /\ UNCHANGED <<cards, receipts, uri, my, seen, out, chainVars, misled, past>>

(* The answer is lost: nothing is recorded of a transaction that is sent.   *)
SendLost(c) ==
  /\ NodesFail
  /\ pc[c] = "sent"
  /\ Returns(c, Threw)
  /\ lane' = Tail(lane)
  /\ misled' = misled \cup {uri[c]}
  /\ UNCHANGED <<ledgerVars, uri, seen, chainVars, past>>

-----------------------------------------------------------------------------
(* resolveAttempt: getTransactionReceipt, then getTransaction.  A node      *)
(* answers, and the caller handles the answer some time later.              *)

Answered(c) == seen[c] # "nothing"
Sees(c, what) ==
  /\ seen' = [seen EXCEPT ![c] = what]
  /\ UNCHANGED <<ledgerVars, lane, pc, uri, my, out, chainVars, misled, past>>
Handles(c) ==
  /\ Answered(c)
  /\ seen' = [seen EXCEPT ![c] = "nothing"]
  /\ UNCHANGED <<cards, receipts, uri, chainVars, past>>

ReceiptAnswers(c) ==
  /\ pc[c] = "receipt" /\ ~Answered(c)
  /\ \/ tx[my[c].hash].state \in {"mined", "reverted"} /\ Sees(c, tx[my[c].hash].state)
     \/ tx[my[c].hash].state \in {"pending", "dropped"} /\ Sees(c, "missing")

(* No receipt: ask whether it is pending, by the hash now on record.        *)
ReceiptMissing(c) ==
  /\ pc[c] = "receipt" /\ seen[c] = "missing"
  /\ Handles(c)
  /\ To(c, "pending")
  /\ Holding(c, attempts[uri[c]].hash)
  /\ UNCHANGED <<attempts, lane, out, misled>>

(* The node cannot be reached or answers with an error.                     *)
ReceiptFails(c) ==
  /\ NodesFail
  /\ pc[c] = "receipt" /\ ~Answered(c)
  /\ Returns(c, IF my[c].goal = "check" THEN Unknown ELSE Threw)
  /\ UNCHANGED <<ledgerVars, lane, uri, seen, chainVars, misled, past>>

ReceiptReverted(c) ==
  /\ pc[c] = "receipt" /\ seen[c] = "reverted"
  /\ Handles(c)
  /\ attempts' = [attempts EXCEPT ![uri[c]].state = "reverted"]
  /\ Watch(uri[c])
  /\ Gone(c, my[c].goal)

(* The agent that g minted is recorded unless one is; the state is mined.   *)
Mined(r, g) == [r EXCEPT !.agent = IF @ = None THEN g ELSE @, !.state = "mined"]

ReceiptMined(c) ==
  LET u == uri[c] IN
  /\ pc[c] = "receipt" /\ seen[c] = "mined"
  /\ Handles(c)
  /\ attempts' = [attempts EXCEPT ![u] = Mined(@, my[c].hash)]
  /\ Returns(c, [agent |-> attempts'[u].agent, hash |-> attempts[u].hash])
  /\ UNCHANGED <<lane, misled>>

(* A lookup that fails reads like one that finds nothing.                   *)
PendingAnswers(c) ==
  /\ pc[c] = "pending" /\ ~Answered(c)
  /\ \/ my[c].hash # None /\ tx[my[c].hash].state # "dropped" /\ Sees(c, "found")
     \/ (my[c].hash # None /\ ~NodesFail => tx[my[c].hash].state = "dropped") /\ Sees(c, "missing")

PendingFound(c) ==
  /\ pc[c] = "pending" /\ seen[c] = "found"
  /\ Handles(c)
  /\ Returns(c, IF my[c].goal = "check" THEN Unknown ELSE Threw)
  /\ UNCHANGED <<attempts, lane, misled>>

(* Mutant: the hash stays on record, and the caller goes on.                *)
PendingMissingKept(c) ==
  /\ pc[c] = "pending" /\ seen[c] = "missing"
  /\ Handles(c)
  /\ Gone(c, my[c].goal)
  /\ UNCHANGED <<attempts, misled>>

(* Not pending, or the lookup failed: clear the hash that is on record now. *)
PendingMissing(c) ==
  /\ pc[c] = "pending" /\ seen[c] = "missing"
  /\ Handles(c)
  /\ attempts' = [attempts EXCEPT ![uri[c]].hash = None]
  /\ Watch(uri[c])
  /\ Gone(c, my[c].goal)

-----------------------------------------------------------------------------
(* awaitSettle.                                                             *)

(* Share the registered wait for this hash, or open one and register it.    *)
Settle(c) ==
  LET h == my[c].hash
      w == IF receipts[h] # None THEN receipts[h] ELSE c
  IN
  /\ pc[c] = "settle"
  /\ my' = [my EXCEPT ![c].wait = w]
  /\ receipts' = [receipts EXCEPT ![h] = w]
  /\ To(c, "waiting")
  /\ UNCHANGED <<attempts, cards, lane, uri, seen, out, chainVars, misled, past>>

Holders(w) == {c \in Callers : pc[c] = "waiting" /\ my[c].wait = w}
Released(w) == [h \in Txs |-> IF receipts[h] = w THEN None ELSE receipts[h]]

(* The receipts the wait for h may end with: its own, and once h is dropped *)
(* that of a transaction with its nonce (waitForTransactionReceipt follows  *)
(* replacements it sees; it may also miss them and never settle).           *)
Awaited(h) ==
  {g \in Sent : /\ tx[g].state \in {"mined", "reverted"}
                /\ \/ g = h
                   \/ tx[h].state = "dropped" /\ tx[g].nonce = tx[h].nonce}

(* The wait that c holds settles with the receipt of g: it is unregistered  *)
(* and all who hold it go on, each recording the outcome for its own URI    *)
(* and hash, whatever g registered, before its next await.                  *)
WaitSettles(c) ==
  LET h == my[c].hash
      all == Holders(my[c].wait)
      r == attempts[uri[c]]
  IN
  /\ pc[c] = "waiting"
  /\ receipts' = Released(my[c].wait)
  /\ pc' = [d \in Callers |-> IF d \in all THEN "returned" ELSE pc[d]]
  /\ my' = [d \in Callers |-> IF d \in all THEN Blank ELSE my[d]]
  /\ \E g \in Awaited(h) :
       LET mined == tx[g].state = "mined"
           outcome == IF mined THEN Mined(r, g) ELSE [r EXCEPT !.state = "reverted"]
       IN
       /\ attempts' = [attempts EXCEPT ![uri[c]] = outcome]
       /\ out' = [d \in Callers |-> IF d \notin all THEN out[d]
                                    ELSE IF mined THEN [agent |-> outcome.agent, hash |-> h]
                                    ELSE Threw]
  /\ Watch(uri[c])
  /\ UNCHANGED <<cards, lane, uri, seen, chainVars, past>>

(* The bound on the wait of one caller; the wait is unregistered for all.   *)
TimesOut(c) ==
  /\ pc[c] = "waiting"
  /\ receipts' = Released(my[c].wait)
  /\ Returns(c, Threw)
  /\ UNCHANGED <<attempts, cards, lane, uri, seen, chainVars, misled, past>>

-----------------------------------------------------------------------------
(* The chain takes the wallet's transactions in the order of their nonces.  *)

Include(h, how) ==
  /\ tx[h].state = "pending" /\ tx[h].nonce = confirmed
  /\ tx' = [tx EXCEPT ![h].state = how]
  /\ confirmed' = confirmed + 1
  /\ UNCHANGED <<ledgerVars, lane, callVars, misled, past>>

Drop(h) ==
  /\ tx[h].state = "pending"
  /\ tx' = [tx EXCEPT ![h].state = "dropped"]
  /\ UNCHANGED <<ledgerVars, lane, callVars, confirmed, misled, past>>

(* A restart: the ledger, the lane and every activation are gone.           *)
Restart ==
  /\ \E c \in Callers \ past : pc[c] # "idle"
  /\ attempts' = [u \in Uris |-> None]
  /\ cards' = {}
  /\ receipts' = [h \in Txs |-> None]
  /\ lane' = <<>>
  /\ pc' = [c \in Callers |-> IF pc[c] = "idle" THEN "idle" ELSE "lost"]
  /\ uri' = [c \in Callers |-> None]
  /\ my' = [c \in Callers |-> Blank]
  /\ seen' = [c \in Callers |-> "nothing"]
  /\ out' = [c \in Callers |-> None]
  /\ misled' = {}
  /\ past' = {c \in Callers : pc[c] # "idle"} \cup Sent
  /\ UNCHANGED chainVars

-----------------------------------------------------------------------------
Handle(c) ==
  \/ ReceiptMissing(c) \/ ReceiptFails(c) \/ ReceiptReverted(c) \/ ReceiptMined(c)
  \/ PendingFound(c) \/ PendingMissing(c)

Plan(c) == PlanSettled(c) \/ PlanOutstanding(c) \/ PlanBroadcast(c)

Next ==
  \/ \E c \in Callers, u \in Uris : Register(c, u) \/ RegisterAgent(c, u) \/ CheckRegister(c, u)
  \/ \E c \in Callers : Pinned(c) \/ PinFails(c) \/ Plan(c) \/ FetchNonce(c)
  \/ \E c \in Callers : SendRaw(c) \/ SendRejected(c) \/ SendAnswers(c) \/ SendLost(c)
  \/ \E c \in Callers : ReceiptAnswers(c) \/ PendingAnswers(c) \/ Handle(c)
  \/ \E c \in Callers : Settle(c) \/ WaitSettles(c) \/ TimesOut(c)
  \/ \E h \in Sent : Include(h, "mined") \/ Include(h, "reverted") \/ Drop(h)
  \/ Restart

Spec == Init /\ [][Next]_vars

(* Storage, nodes and the wallet answer or fail, timers fire and promises   *)
(* wake their awaiters; nothing is assumed of the chain.  At any time only  *)
(* one kind of these is enabled for a caller, so one fairness will do.      *)
Step(c) ==
  \/ Pinned(c) \/ PinFails(c) \/ Plan(c)
  \/ FetchNonce(c) \/ SendRaw(c) \/ SendRejected(c) \/ SendAnswers(c) \/ SendLost(c)
  \/ ReceiptAnswers(c) \/ PendingAnswers(c) \/ Handle(c)
  \/ Settle(c) \/ TimesOut(c)

Fairness == \A c \in Callers : WF_vars(Step(c))

FairSpec == Spec /\ Fairness
-----------------------------------------------------------------------------
(* Properties.                                                              *)

LiveOf(u) == {h \in Sent \ past : tx[h].uri = u /\ Live(h)}

(* "concurrent registers attach, never re-send" (index.ts:122): however     *)
(* registers, resumed cards, hooks, timeouts, drops and reverts interleave, *)
(* one process has one live registration of a token URI at most, unless a   *)
(* node misled it about a transaction it had sent, or a wait took the       *)
(* reverted receipt of another transaction for that of a live one.          *)
OneLivePerUri == \A u \in Uris \ misled : Cardinality(LiveOf(u)) <= 1

Registered(c) == out[c] # None /\ out[c] \notin Verdicts

(* g has the nonce of a dropped registration of u: a wait for that one may  *)
(* have ended with the receipt of g.                                        *)
TookPlace(u, g) ==
  \E h \in Sent : tx[h].uri = u /\ tx[h].state = "dropped" /\ tx[h].nonce = tx[g].nonce

(* h is a registration of u, and g minted an agent: g is h, or a later one  *)
(* of u that made up for a dropped h, or it took the nonce of one of u.     *)
MintedFor(u, g, h) ==
  /\ {g, h} \subseteq Sent
  /\ tx[h].uri = u
  /\ tx[g].state = "mined"
  /\ \/ tx[g].uri = u /\ (g = h \/ tx[h].state = "dropped")
     \/ TookPlace(u, g)

(* What register, registerAgent and the hook's replay hand out names a      *)
(* transaction of the URI that was asked for, and an agent that was minted: *)
(* for that URI, by the transaction named unless that is dropped; or by one *)
(* that took the nonce of a dropped registration of that URI.               *)
AnswerIsMinted ==
  \A c \in Callers \ past :
    Registered(c) /\ uri[c] \notin misled => MintedFor(uri[c], out[c].agent, out[c].hash)

(* A record that says mined, of a hash that is, says so with the same agent *)
(* as long as the process runs: late receipts, its own or of a replacement, *)
(* resolvers and registers do not disturb it.                               *)
MinedIsKept ==
  [][past' = past =>
       \A u \in Uris \ misled' :
         LET r == attempts[u] IN
         /\ r # None /\ r.state = "mined"
         /\ r.hash # None /\ tx[r.hash].state = "mined"
         => attempts'[u] = r]_vars

(* "serialize broadcasts without deadlock" (erc8004.spec.ts:390): every     *)
(* activation returns or throws, whatever the chain does, so that there     *)
(* comes a time when none is under way.                                     *)
CallerReturns ==
  (\E c \in Callers : Active(c)) ~> ~ \E c \in Callers : Active(c)

(* "Returns agentId (tokenId), tokenUri ..., txHash" (index.ts:687): the     *)
(* agent that is handed out was minted for the URI handed out with it.      *)
(* (It does not hold: README, Divergences.)                                 *)
AgentIsOwn ==
  \A c \in Callers \ past : Registered(c) => tx[out[c].agent].uri = uri[c]

(* Claim of resolveAttempt (index.ts:349-353), "provably gone ... and       *)
(* re-sending is safe": no token URI is registered twice by one process.    *)
(* (It does not hold: README, Divergences.)                                 *)
RegisteredOnce ==
  \A g, h \in Sent \ past :
    /\ tx[g].uri = tx[h].uri
    /\ tx[g].state = "mined" /\ tx[h].state = "mined"
    => g = h
================================================================================
