---------------------------- MODULE LiveBalances ----------------------------
(***************************************************************************)
(* The live balance read of dsh-wallet-tools: get_balances asks the RPC     *)
(* nodes of every chain for the native balance and for every token, all at  *)
(* once and each over its nodes in order, prices what it read, reports it   *)
(* and, asked to, writes it to the treasury's sheet.  Balances move while    *)
(* they are read, and any node may be silent or answer nonsense.            *)
(*                                                                         *)
(* What a sync does to the sheet beside other writers is Treasury's         *)
(* subject; here it lands at once, or not at all.                           *)
(***************************************************************************)
EXTENDS Integers, FiniteSets, Functions

CONSTANTS Assets,        \* <<chain, token>>, the chain's own token among them
          Nodes,         \* RPC nodes of a chain, asked one after the other
          Amounts,       \* balances
          StaticPrice,   \* token -> price without the oracle
          OraclePrices,  \* prices the oracle may give
          Listed         \* tokens the oracle is asked for

VARIABLES wealth,   \* asset -> what the wallet holds
          sheet_,   \* asset -> its value on the treasury's sheet, or -1
          want,     \* [chain, sync]: the arguments, "all" for no filter
          leg,      \* where the call is
          price,    \* token -> price
          reads,    \* asset -> [is, node, raw] of its task
          seen,     \* history: asset -> what the wallet held during the call
          before_   \* history: the sheet the call found

balanceVars == <<wealth, sheet_, want, leg, price, reads, seen, before_>>

ChainOf(a) == a[1]
TokenOf(a) == a[2]
Chains_ == {ChainOf(a) : a \in Assets}
NoRow == -1

ASSUME BalancesAssumption ==
    /\ IsFiniteSet(Assets)
    /\ Nodes \in [Chains_ -> Nat \ {0}]

Asking == [is |-> "asking", node |-> 1, raw |-> 0]
Targets == {a \in Assets : want.chain \in {"all", ChainOf(a)}}

(* The sheet of an earlier sync.                                            *)
BalancesInit ==
    /\ wealth \in [Assets -> Amounts]
    /\ sheet_ = [a \in Assets |-> 1]
    /\ want = [chain |-> "all", sync |-> FALSE]
    /\ leg = "idle"
    /\ price = StaticPrice
    /\ reads = [a \in Assets |-> Asking]
    /\ seen = [a \in Assets |-> {}]
    /\ before_ = sheet_

get_balances(chain, sync) ==
    /\ leg = "idle"
    /\ want' = [chain |-> chain, sync |-> sync]
    /\ leg' = "pricing"
    /\ seen' = [a \in Assets |-> {wealth[a]}]
    /\ UNCHANGED <<wealth, sheet_, price, reads, before_>>

(* The oracle prices some of what is listed, or nothing at all.              *)
fetchPrices ==
    /\ leg = "pricing"
    /\ \E T \in SUBSET Listed, p \in OraclePrices :
         price' = [t \in DOMAIN price |-> IF t \in T THEN p ELSE price[t]]
    /\ leg' = "reading"
    /\ UNCHANGED <<wealth, sheet_, want, reads, seen, before_>>

Task(a) == leg = "reading" /\ a \in Targets /\ reads[a].is = "asking"

(* The first result decides, one that is no quantity too.                    *)
NodeAnswers(a) ==
    /\ Task(a)
    /\ reads' = [reads EXCEPT ![a].is = "read", ![a].raw = wealth[a]]
    /\ UNCHANGED <<wealth, sheet_, want, leg, price, seen, before_>>

NodeMisanswers(a) ==
    /\ Task(a)
    /\ reads' = [reads EXCEPT ![a].is = "malformed"]
    /\ UNCHANGED <<wealth, sheet_, want, leg, price, seen, before_>>

(* A timeout, an HTTP error or an RPC error takes the call to the next node. *)
NodeFails(a) ==
    /\ Task(a)
    /\ reads' = [reads EXCEPT ![a] =
                    IF reads[a].node < Nodes[ChainOf(a)]
                    THEN [reads[a] EXCEPT !.node = @ + 1] ELSE [reads[a] EXCEPT !.is = "silent"]]
    /\ UNCHANGED <<wealth, sheet_, want, leg, price, seen, before_>>

toMicroUsd(raw, t) == IF t \in DOMAIN price THEN raw * price[t] ELSE 0

(* The balances of the result, and of each chain whether it has them all.    *)
Fetched == {a \in Targets : reads[a].is = "read"}
Estimate == [a \in Fetched |-> toMicroUsd(reads[a].raw, TokenOf(a))]
Success(c) == \A a \in {b \in Targets : ChainOf(b) = c} : a \in Fetched
TotalUsd == SumFunctionOnSet(Estimate, Fetched)

(* Mutant: a filtered sync replaces the whole sheet.                         *)
MergedBlank == [a \in Assets |-> IF a \in Fetched THEN Estimate[a] ELSE NoRow]

(* A filtered sync keeps the rows of the other chains; a row that was not    *)
(* read is gone.                                                            *)
Merged ==
    [a \in Assets |->
        IF a \in Fetched THEN Estimate[a]
        ELSE IF want.chain # "all" /\ ChainOf(a) # want.chain THEN sheet_[a] ELSE NoRow]

fetchAllLiveBalances ==
    /\ leg = "reading"
    /\ \A a \in Targets : reads[a].is # "asking"
    /\ sheet_' \in IF want.sync THEN {Merged, sheet_} ELSE {sheet_}
    /\ leg' = "done"
    /\ UNCHANGED <<wealth, want, price, reads, seen, before_>>

Transfer(a) ==
    /\ leg = "reading"
    /\ \E v \in Amounts \ {wealth[a]} :
         /\ wealth' = [wealth EXCEPT ![a] = v]
         /\ seen' = [seen EXCEPT ![a] = @ \cup {v}]
    /\ UNCHANGED <<sheet_, want, leg, price, reads, before_>>

BalancesNext ==
    \/ \E c \in Chains_ \cup {"all"}, sync \in BOOLEAN : get_balances(c, sync)
    \/ fetchPrices \/ fetchAllLiveBalances
    \/ \E a \in Assets : NodeAnswers(a) \/ NodeMisanswers(a) \/ NodeFails(a) \/ Transfer(a)

BalancesSpec == BalancesInit /\ [][BalancesNext]_balanceVars

(***************************************************************************)
(* Property.                                                               *)
(***************************************************************************)
(* A report leaves out only what could not be read: every balance in it is   *)
(* one the wallet held during the call, at the price fetched before, a       *)
(* balance is missing only if all nodes were silent or one answered          *)
(* nonsense, and the chain it is missing from does not call itself complete; *)
(* the total is what is listed.  What a sync writes is the report, and a     *)
(* filtered one leaves every row of the other chains alone.                  *)
ReportIsWhole ==
    leg = "done" =>
      /\ \A a \in Targets :
           IF a \in Fetched
           THEN /\ \E v \in seen[a] : Estimate[a] = toMicroUsd(v, TokenOf(a))
                /\ sheet_[a] \in {Estimate[a], before_[a]}
           ELSE /\ reads[a].is = "malformed" \/ reads[a].node = Nodes[ChainOf(a)]
                /\ ~ Success(ChainOf(a))
                /\ sheet_[a] \in {NoRow, before_[a]}
      /\ (\A c \in Chains_ : Success(c)) /\ want.sync /\ sheet_ # before_ =>
            TotalUsd = SumFunctionOnSet(sheet_, Targets)
      /\ \A a \in Assets \ Targets : sheet_[a] = before_[a]

=============================================================================
