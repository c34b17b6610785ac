-------------------------- MODULE MCRoyaltyExecute --------------------------
(***************************************************************************)
(* Small instances of RoyaltyExecute.                                      *)
(***************************************************************************)
EXTENDS RoyaltyExecute, TLC

CONSTANTS l1, s1, b1, symbol, router, name1

(* A launch, a sweep and a heartbeat of one router.                         *)
MixedKinds == l1 :> "launch" @@ s1 :> "sweep" @@ b1 :> "heartbeat"
MixedTargets == l1 :> symbol @@ s1 :> router @@ b1 :> router
MixedNames == l1 :> name1

(* A launch alone.                                                          *)
LaunchKind == l1 :> "launch"
LaunchTarget == l1 :> symbol

CallerSymmetry == Permutations(Callers)
=============================================================================
