------------------------------- MODULE Treasury -------------------------------
(***************************************************************************)
(* The treasury of dsh-treasury: the ledger of balances and expenses over  *)
(* the storage domain, the survival state derived from it, the policy that *)
(* gates and meters tool calls and model requests, and the balance sync of *)
(* dsh-wallet-tools that rewrites the sheet.                               *)
(*                                                                         *)
(* Every write goes through the domain's write chain: it lands, in the     *)
(* order of issue, some time after it was issued, and its writer goes on   *)
(* in the same step.  The chains, the RPC nodes and the backend are the    *)
(* environment.                                                            *)
(***************************************************************************)
EXTENDS Integers, Sequences, FiniteSets, Functions

CONSTANTS
  Rows,          \* rows of the balance sheet: one token on one chain
  Usd,           \* values of a row
  Syncs,         \* calls of get_balances that sync
  Calls,         \* tool calls and model requests that cost something
  CategoryOf,    \* call -> its budget category
  CostOf,        \* call -> its estimated cost
  KeyRank,       \* call -> the order of its expense's key among equal timestamps
  Budget,        \* category -> cap, a percentage
  FixedBurn,     \* standing burn per day
  CheapCap,      \* cost under which inference is approved in critical state
  BurnWindow,    \* days of expenses that count as burn, here one
  MaxExpenses,   \* rows kept
  Enabled,       \* whether the policy enforces
  MaxTime,       \* bound on the clock
  None           \* no entry in a map

Categories == {"inference", "tools", "infrastructure", "storage", "messaging", "reserve"}

ASSUME NumbersAssumption ==
  /\ Usd \subseteq Nat
  /\ FixedBurn \in Nat
  /\ MaxExpenses \in Nat \ {0}
  /\ BurnWindow \in Nat \ {0}
  /\ MaxTime \in Nat
ASSUME CallsAssumption ==
  /\ CategoryOf \in [Calls -> Categories]
  /\ CostOf \in [Calls -> Nat \ {0}]
  /\ KeyRank \in [Calls -> Nat]
  /\ \A c, d \in Calls : KeyRank[c] = KeyRank[d] => c = d
  /\ Budget \in [Categories -> 0..100]
ASSUME NamesAssumption == None \notin Usd \cup Rows \cup Calls /\ Syncs \cap Calls = {}

VARIABLES
  balances,   \* row -> its value
  expenses,   \* retained expense rows, named by the call that cost them
  stamp,      \* call -> timestamp of its expense
  state,      \* currentState of the ledger
  chain,      \* the write chain: writers whose write has not landed
  sheet,      \* sync -> the balance set it was given
  dels, puts, \* sync -> rows it still has to delete and to put
  writing,    \* writer -> the row or the expense its issued write is about
  victims,    \* call -> expenses its prune still has to delete
  pc,         \* writer -> where it is
  now,        \* the clock
  landed,     \* history: expenses ever written
  everFunded, \* history: a balance row was written
  settledAt,  \* history: the clock at the last derivation
  torn,       \* history: a write failed since the last derivation
  overlapped  \* history: syncs that ran beside another one

ledgerVars == <<balances, expenses, state, settledAt, torn>>
syncVars == <<sheet, dels, puts, overlapped>>
callVars == <<stamp, victims, landed>>
vars == <<ledgerVars, syncVars, callVars, chain, writing, pc, now, everFunded>>

Writers == Syncs \cup Calls
States == {"funded", "low", "critical", "depleted"}
PcValues == {"idle", "denied", "admitted", "updating", "recording", "pruning",
             "done", "failed", "lost"}
InFlight == {"updating", "recording", "pruning"}
Expense(c) == [category |-> CategoryOf[c], amount |-> CostOf[c]]

TypeOK ==
  /\ balances \in [Rows -> Usd \cup {None}]
  /\ expenses \in SUBSET Calls
  /\ stamp \in [Calls -> 0..MaxTime]
  /\ state \in States
  /\ chain \in Seq(Writers)
  /\ sheet \in [Syncs -> [Rows -> Usd \cup {None}]]
  /\ dels \in [Syncs -> SUBSET Rows]
  /\ puts \in [Syncs -> SUBSET Rows]
  /\ writing \in [Writers -> Rows \cup Calls \cup {None}]
  /\ victims \in [Calls -> SUBSET Calls]
  /\ pc \in [Writers -> PcValues]
  /\ now \in 0..MaxTime
  /\ landed \in SUBSET Calls
  /\ everFunded \in BOOLEAN
  /\ settledAt \in 0..MaxTime
  /\ torn \in BOOLEAN
  /\ overlapped \in SUBSET Syncs

-----------------------------------------------------------------------------
(* Derived figures: pure reads over the tables.                             *)

NoSheet == [r \in Rows |-> None]

Filled(b) == {r \in Rows : b[r] # None}
TotalValueUsd(b) == SumFunctionOnSet(b, Filled(b))
SpentOn(E) == SumFunctionOnSet(CostOf, E)

(* Spend of the window that ends now, scaled to a day, plus standing burn.  *)
DailyBurnUsd(E) ==
  LET windowed == SpentOn({c \in E : stamp[c] >= now - BurnWindow})
  IN FixedBurn + (windowed + BurnWindow - 1) \div BurnWindow

InfiniteRunwayDays == 9999

ComputeRunway(total, burn) == IF burn <= 0 THEN InfiniteRunwayDays ELSE total \div burn

ComputeTreasuryState(days) ==
  CASE days > 30 -> "funded"
    [] days > 7 /\ days <= 30 -> "low"
    [] days > 0 /\ days <= 7 -> "critical"
    [] OTHER -> "depleted"

Derived(b, E) == ComputeTreasuryState(ComputeRunway(TotalValueUsd(b), DailyBurnUsd(E)))

(* Mutant: nothing spent of nothing is nothing.                             *)
SpentPercentageOfZero(category) ==
  LET spent == SpentOn({c \in expenses : CategoryOf[c] = category})
  IN IF TotalValueUsd(balances) = 0 THEN 0 ELSE (spent * 100) \div TotalValueUsd(balances)

SpentPercentage(category) ==
  LET spent == SpentOn({c \in expenses : CategoryOf[c] = category})
  IN IF TotalValueUsd(balances) = 0 THEN 100 ELSE (spent * 100) \div TotalValueUsd(balances)

IsBudgetAvailable(category) == SpentPercentage(category) < Budget[category]

(* The matrix of authorizeCost, on the cached state.                        *)
Authorized(c) ==
  LET category == CategoryOf[c] IN
  \/ state = "funded" /\ IsBudgetAvailable(category)
  \/ state = "low" /\ category # "reserve" /\ IsBudgetAvailable(category)
  \/ state = "critical" /\ category \in {"infrastructure", "storage"}
  \/ state = "critical" /\ category = "inference" /\ CostOf[c] < CheapCap

(* Whether enforcement is live.                                             *)
Funded == Filled(balances) # {}

-----------------------------------------------------------------------------
Init ==
  /\ balances = [r \in Rows |-> None]
  /\ expenses = {}
  /\ stamp = [c \in Calls |-> 0]
  /\ state = ComputeTreasuryState(ComputeRunway(0, FixedBurn))
  /\ chain = <<>>
  /\ sheet = [s \in Syncs |-> NoSheet]
  /\ dels = [s \in Syncs |-> {}]
  /\ puts = [s \in Syncs |-> {}]
  /\ writing = [w \in Writers |-> None]
  /\ victims = [c \in Calls |-> {}]
  /\ pc = [w \in Writers |-> "idle"]
  /\ now = 0
  /\ landed = {}
  /\ everFunded = FALSE
  /\ settledAt = 0
  /\ torn = FALSE
  /\ overlapped = {}

(* Issue a write: it goes to the end of the chain.                          *)
Issue(q, w, what) ==
  /\ chain' = Append(q, w)
  /\ writing' = [writing EXCEPT ![w] = what]

(* Mutant: the state is derived from the tables before the write landed.    *)
SettleBefore(w, q) ==
  /\ state' = Derived(balances, expenses)
  /\ settledAt' = now
  /\ torn' = FALSE
  /\ chain' = q
  /\ writing' = [writing EXCEPT ![w] = None]
  /\ pc' = [pc EXCEPT ![w] = "done"]

(* Recompute the state from the tables as they now are, and publish it.     *)
Settle(w, q) ==
  /\ state' = Derived(balances', expenses')
  /\ settledAt' = now
  /\ torn' = FALSE
  /\ chain' = q
  /\ writing' = [writing EXCEPT ![w] = None]
  /\ pc' = [pc EXCEPT ![w] = "done"]

Unsettled == UNCHANGED <<state, settledAt, torn>>

-----------------------------------------------------------------------------
(* updateBalances: delete the rows that are absent, put the given ones.     *)

UpdateGoesOn(s, given, D, P, q) ==
  IF D \cup P = {}
  THEN /\ Settle(s, q)
       /\ sheet' = [sheet EXCEPT ![s] = NoSheet]
       /\ overlapped' = overlapped \ {s}
       /\ UNCHANGED <<dels, puts>>
  ELSE /\ \E r \in IF D # {} THEN D ELSE P :
            /\ Issue(q, s, r)
            /\ dels' = [dels EXCEPT ![s] = D \ {r}]
            /\ puts' = [puts EXCEPT ![s] = P \ {r}]
       /\ pc' = [pc EXCEPT ![s] = "updating"]
       /\ sheet' = [sheet EXCEPT ![s] = given]
       /\ overlapped' = LET beside == {u \in Syncs \ {s} : pc[u] = "updating"}
                        IN IF beside = {} THEN overlapped ELSE overlapped \cup beside \cup {s}
       /\ Unsettled

UpdateBalances(s, given) ==
  /\ UNCHANGED <<balances, expenses, callVars, now, everFunded>>
  /\ UpdateGoesOn(s, given, {r \in Filled(balances) : given[r] = None}, {r \in Rows : given[r] # None}, chain)

(* A full sync gives the rows its fetch could read; each read of a row from *)
(* its RPC nodes may fail by itself and leaves that row out.                *)
SyncAll(s) ==
  /\ pc[s] = "idle"
  /\ \E given \in [Rows -> Usd \cup {None}] : UpdateBalances(s, given)

(* A sync of one chain (here of one row) keeps the others as they are.      *)
SyncOne(s, r) ==
  /\ pc[s] = "idle"
  /\ \E v \in Usd \cup {None} : UpdateBalances(s, [balances EXCEPT ![r] = v])

(* Mutant: an absent row is not deleted.                                    *)
UpdateLandsKeeping(s) ==
  LET r == writing[s] IN
  /\ balances' = IF sheet[s][r] = None THEN balances ELSE [balances EXCEPT ![r] = sheet[s][r]]
  /\ everFunded' = (everFunded \/ sheet[s][r] # None)
  /\ UNCHANGED <<expenses, callVars, now>>
  /\ UpdateGoesOn(s, sheet[s], dels[s], puts[s], Tail(chain))

UpdateLands(s) ==
  LET r == writing[s] IN
  /\ balances' = [balances EXCEPT ![r] = sheet[s][r]]
  /\ everFunded' = (everFunded \/ sheet[s][r] # None)
  /\ UNCHANGED <<expenses, callVars, now>>
  /\ UpdateGoesOn(s, sheet[s], dels[s], puts[s], Tail(chain))

-----------------------------------------------------------------------------
(* recordExpense: put the row, then prune past retention, then settle.      *)

Older(c, d) ==
  stamp[c] < stamp[d] \/ (stamp[c] = stamp[d] /\ KeyRank[c] < KeyRank[d])

(* Mutant: the rows are sorted newest first before the surplus is cut.      *)
SurplusNewest(S) == {c \in S : Cardinality({d \in S : Older(d, c)}) >= MaxExpenses}

(* The rows of S beyond the newest MaxExpenses.                             *)
Surplus(S) == {c \in S : Cardinality({d \in S : Older(c, d)}) >= MaxExpenses}

RecordExpense(c) ==
  /\ stamp' = [stamp EXCEPT ![c] = now]
  /\ pc' = [pc EXCEPT ![c] = "recording"]
  /\ Issue(chain, c, c)
  /\ UNCHANGED <<ledgerVars, syncVars, victims, landed, now, everFunded>>

(* Prune the oldest of V, or settle when there is none left.                *)
PruneGoesOn(c, V, q) ==
  IF V = {}
  THEN Settle(c, q) /\ UNCHANGED victims
  ELSE /\ \E v \in V :
            /\ \A u \in V \ {v} : Older(v, u)
            /\ Issue(q, c, v)
            /\ victims' = [victims EXCEPT ![c] = V \ {v}]
       /\ pc' = [pc EXCEPT ![c] = "pruning"]
       /\ Unsettled

RecordLands(c) ==
  /\ pc[c] = "recording"
  /\ expenses' = expenses \cup {c}
  /\ landed' = landed \cup {c}
  /\ UNCHANGED <<balances, stamp, syncVars, now, everFunded>>
  /\ PruneGoesOn(c, Surplus(expenses \cup {c}), Tail(chain))

PruneLands(c) ==
  /\ pc[c] = "pruning"
  /\ expenses' = expenses \ {writing[c]}
  /\ UNCHANGED <<balances, stamp, landed, syncVars, now, everFunded>>
  /\ PruneGoesOn(c, victims[c], Tail(chain))

-----------------------------------------------------------------------------
(* The head of the write chain lands, or the backend refuses it and its     *)
(* writer throws.                                                           *)

Lands ==
  /\ chain # <<>>
  /\ LET w == Head(chain) IN
     \/ w \in Syncs /\ UpdateLands(w)
     \/ w \in Calls /\ (RecordLands(w) \/ PruneLands(w))

(* What an operation that ends early forgets.                               *)
Abandon(W) ==
  /\ writing' = [w \in Writers |-> IF w \in W THEN None ELSE writing[w]]
  /\ sheet' = [s \in Syncs |-> IF s \in W THEN NoSheet ELSE sheet[s]]
  /\ dels' = [s \in Syncs |-> IF s \in W THEN {} ELSE dels[s]]
  /\ puts' = [s \in Syncs |-> IF s \in W THEN {} ELSE puts[s]]
  /\ victims' = [c \in Calls |-> IF c \in W THEN {} ELSE victims[c]]
  /\ overlapped' = overlapped \ W

(* Mutant: a failure of the ledger lets the request go on unmetered.        *)
WriteFailsOpen ==
  /\ chain # <<>>
  /\ pc' = [pc EXCEPT ![Head(chain)] = IF @ = "recording" THEN "done" ELSE "failed"]
  /\ chain' = Tail(chain)
  /\ torn' = TRUE
  /\ Abandon({Head(chain)})
  /\ UNCHANGED <<balances, expenses, state, settledAt, stamp, landed, now, everFunded>>

WriteFails ==
  /\ chain # <<>>
  /\ pc' = [pc EXCEPT ![Head(chain)] = "failed"]
  /\ chain' = Tail(chain)
  /\ torn' = TRUE
  /\ Abandon({Head(chain)})
  /\ UNCHANGED <<balances, expenses, state, settledAt, stamp, landed, now, everFunded>>

-----------------------------------------------------------------------------
(* The policy.  A model request is gated, then metered, then sent ("done"); *)
(* a tool call is gated, runs, and is metered at post-execute.              *)

Gate(c) == Enabled /\ Funded => Authorized(c)

(* tools/pre-execute, or agent/request up to its next().                    *)
Admit(c) ==
  /\ pc[c] = "idle"
  /\ Gate(c)
  /\ pc' = [pc EXCEPT ![c] = "admitted"]
  /\ UNCHANGED <<ledgerVars, syncVars, callVars, chain, writing, now, everFunded>>

Deny(c) ==
  /\ pc[c] = "idle"
  /\ ~Gate(c)
  /\ pc' = [pc EXCEPT ![c] = "denied"]
  /\ UNCHANGED <<ledgerVars, syncVars, callVars, chain, writing, now, everFunded>>

(* The body has run, or every downstream middleware has agreed: meter.      *)
Meter(c) ==
  /\ pc[c] = "admitted"
  /\ RecordExpense(c)

-----------------------------------------------------------------------------
Tick ==
  /\ now < MaxTime
  /\ now' = now + 1
  /\ UNCHANGED <<ledgerVars, syncVars, callVars, chain, writing, pc, everFunded>>

(* The process ends; the next one derives its state from the rows.          *)
Restart ==
  /\ \E w \in Writers : pc[w] \in InFlight \cup {"admitted"}
  /\ state' = Derived(balances, expenses)
  /\ settledAt' = now
  /\ torn' = FALSE
  /\ chain' = <<>>
  /\ pc' = [w \in Writers |-> IF pc[w] \in InFlight \cup {"admitted"} THEN "lost" ELSE pc[w]]
  /\ Abandon(Writers)
  /\ UNCHANGED <<balances, expenses, stamp, landed, now, everFunded>>

Next ==
  \/ \E s \in Syncs : SyncAll(s)
  \/ \E s \in Syncs, r \in Rows : SyncOne(s, r)
  \/ \E c \in Calls : Admit(c) \/ Deny(c) \/ Meter(c)
  \/ Lands
  \/ WriteFails
  \/ Tick
  \/ Restart

Spec == Init /\ [][Next]_vars

-----------------------------------------------------------------------------
(* Properties.                                                              *)

(* "recording past the cap prunes the oldest": whatever records, prunes and *)
(* crashes overlap, an expense that was written is still retained unless    *)
(* MaxExpenses newer ones were written too.                                 *)
NewestAreRetained ==
  \A c \in landed \ expenses :
    Cardinality({d \in landed : Older(c, d)}) >= MaxExpenses

(* When nothing is being written, no write has failed and the clock has not *)
(* moved, the cached state is the one the rows derive (settle runs after    *)
(* the last write of every update and record, in whatever order they end).  *)
QuietStateIsDerived ==
  chain = <<>> /\ ~torn /\ now = settledAt => state = Derived(balances, expenses)

(* "a survival engine never runs unmetered": a model request is sent, and a *)
(* tool result handed on, only after its expense is durable, and a denied   *)
(* or failed one never is.                                                  *)
DoneMeansMetered ==
  \A c \in Calls : pc[c] = "done" => c \in landed

(* "upsert every given row and delete rows absent from the update": a sync  *)
(* that no other one ran beside leaves exactly the balance set it was given.*)
LoneSyncReplaces ==
  [][\A s \in Syncs \ overlapped :
       pc[s] = "updating" /\ pc'[s] = "done" => balances' = sheet[s]]_vars

(* A treasury whose sheet is worth nothing admits nothing, whatever its     *)
(* state, once the update that emptied it has settled.                      *)
BrokeSpendsNothing ==
  [][\A c \in Calls :
       /\ pc[c] = "idle" /\ pc'[c] = "admitted"
       /\ Enabled /\ Funded /\ TotalValueUsd(balances) = 0
       => torn \/ \E s \in Syncs : pc[s] = "updating"]_vars

(* Claim of policy.ts:178, "Whether enforcement is live: the treasury has   *)
(* been funded at least once": from the first balance row on, no call is    *)
(* admitted that the matrix denies.                                         *)
(* (It does not hold: README, Divergences.)                                 *)
EnforcedOnceFunded ==
  [][\A c \in Calls :
       Enabled /\ everFunded /\ pc[c] = "idle" /\ pc'[c] = "admitted" => Authorized(c)]_vars
=============================================================================
