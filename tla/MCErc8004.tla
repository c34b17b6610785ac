------------------------------ MODULE MCErc8004 ------------------------------
(***************************************************************************)
(* A small instance of Erc8004: two activations are asked for one token    *)
(* URI, the third for that one or for another, whose transaction takes a   *)
(* nonce of the first or loses its own to it.                              *)
(***************************************************************************)
EXTENDS Erc8004, TLC

CONSTANTS u1, u2, c1, c2, c3

Asked == [c \in {c1, c2} |-> {u1}] @@ (c3 :> {u1, u2})

AskedFor == \A c \in Callers : uri'[c] \in Asked[c] \cup {None}

MCNext == Next /\ AskedFor

MCSpec == Init /\ [][MCNext]_vars /\ Fairness
=============================================================================
