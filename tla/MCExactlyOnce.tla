---------------------------- MODULE MCExactlyOnce ----------------------------
(***************************************************************************)
(* Small instances of ExactlyOnce.                                         *)
(***************************************************************************)
EXTENDS ExactlyOnce, TLC

CONSTANTS a1, c1, c2, c3, launch, status, x

(* c1 and c2 are two model calls of one exact (agent, tool, arguments).     *)
RepeatIdentity == c1 :> [agent |-> a1, tool |-> launch, args |-> x]
               @@ c2 :> [agent |-> a1, tool |-> launch, args |-> x]

(* A write, and a read that bypasses the guard.                             *)
ReadIdentity == c1 :> [agent |-> a1, tool |-> launch, args |-> x]
             @@ c3 :> [agent |-> a1, tool |-> status, args |-> x]

DispatchSymmetry == Permutations(Dispatches)
=============================================================================
