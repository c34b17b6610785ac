------------------------------ MODULE MCTreasury ------------------------------
(***************************************************************************)
(* Small instances of Treasury.                                            *)
(***************************************************************************)
EXTENDS Treasury, TLC

CONSTANTS r1, r2, s1, s2, req, tool

(* A model request and a tool call; each costs what makes a sheet of twenty *)
(* critical and over the cap of tools, and one of ninety low.               *)
Categorised == req :> "inference" @@ tool :> "tools"
Costs == req :> 3 @@ tool :> 3
Ranks == req :> 1 @@ tool :> 3
DefaultBudget ==
  [inference |-> 38, tools |-> 14, infrastructure |-> 28,
   storage |-> 5, messaging |-> 10, reserve |-> 5]

TreasurySymmetry == Permutations(Rows) \cup Permutations(Syncs)
=============================================================================
