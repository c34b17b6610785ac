------------------------ MODULE RoyaltyExecute_proofs ------------------------
(***************************************************************************)
(* The attempt ledger makes one send per key, the sends of a wallet take   *)
(* turns, and a launch that is reported exists, for any number of keys,    *)
(* callers, timeouts, failures and restarts.                               *)
(***************************************************************************)
EXTENDS RoyaltyExecute, TLAPS

(* The value a send or a read-back produces is typed.                       *)
LEMMA ValuesType ==
  /\ \A c \in Callers, how \in {"mined", "reverted", "verified"} :
       [how |-> how, by |-> c] \in Values
  /\ \A v \in Values : v.how \in {"mined", "reverted", "verified"} /\ v.by \in Callers
BY DEF Values

(* An open attempt has an owner: a follower finds a promise to await.  So   *)
(* does the attempt of a caller that reads the chain back.                  *)
OpenIsOwned ==
  /\ \A k \in Keys : status[k] \in {"starting", "running"} => owner[k] \in Callers
  /\ \A c \in Callers :
       pc[c] = "verify" => key[c] \in Keys /\ owner[key[c]] \in Callers

Typed == TypeOK /\ OpenIsOwned

(* Every step keeps every variable in its type.                             *)
LEMMA TypedStep == ASSUME Typed, [Next]_vars PROVE Typed'
<1> USE KeysAssumption, NoneAssumption
    DEF Typed, OpenIsOwned, TypeOK, StatusValues, PcValues, Lane!LaneTypeOK, Lane!AtValues,
        Lane!Outcomes, ledgerVars, callVars, laneVars, chainVars
<1>1. ASSUME NEW c \in Callers, NEW k \in Keys, Run(c, k) PROVE Typed'
  <2>1. CASE RunReplays(c, k)
    BY <2>1 DEF RunReplays, Calls
  <2>2. CASE RunAttaches(c, k)
    BY <2>2 DEF RunAttaches, Calls
  <2>3. CASE RunVerifies(c, k)
    BY <2>3 DEF RunVerifies, Claim, Calls
  <2>4. CASE RunSends(c, k)
    BY <2>4 DEF RunSends, Claim, Calls, Lane!WithLock
  <2>5. QED BY <1>1, <2>1, <2>2, <2>3, <2>4 DEF Run
<1>2. ASSUME NEW c \in Callers, ReadBack(c) PROVE Typed'
  BY <1>2 DEF ReadBack
<1>3. ASSUME NEW c \in Callers, VerifiedCommitted(c) PROVE Typed'
  BY <1>3, ValuesType DEF VerifiedCommitted, Returns
<1>4. ASSUME NEW c \in Callers, VerifiedOtherwise(c) PROVE Typed'
  <2>1. key[c] \in Keys \cup {None} /\ "running" \in StatusValues /\ "send" \in PcValues
    OBVIOUS
  <2>2. status' \in [Keys -> StatusValues]
    BY <1>4, <2>1 DEF VerifiedOtherwise
  <2>3. OpenIsOwned'
    BY <1>4 DEF VerifiedOtherwise
  <2>4. pc' \in [Callers -> PcValues]
    BY <1>4, <2>1 DEF VerifiedOtherwise
  <2>5. Lane!LaneTypeOK'
    BY <1>4 DEF VerifiedOtherwise, Lane!WithLock
  <2>6. UNCHANGED <<value, owner, key, leader, verdict, settles, out, chainVars, past>>
    BY <1>4 DEF VerifiedOtherwise
  <2>7. QED BY <2>2, <2>3, <2>4, <2>5, <2>6
<1>5. ASSUME NEW c \in Callers, TaskStarts(c) \/ Broadcast(c) PROVE Typed'
  BY <1>5 DEF TaskStarts, Broadcast, Lane!Begin
<1>6. ASSUME NEW c \in Callers, NEW o \in Values \cup {Error}, Racer(c, o)
      PROVE  /\ pc' \in [Callers -> PcValues]
             /\ out' \in [Callers -> Values \cup {Error, Timeout, None}]
             /\ \A d \in Callers : pc'[d] = "verify" => pc[d] = "verify"
  <2>1. CASE pc[c] = "send"
    <3>1. pc' = [pc EXCEPT ![c] = "returned"] /\ out' = [out EXCEPT ![c] = o]
      BY <1>6, <2>1 DEF Racer, Returns
    <3>2. QED BY <3>1
  <2>2. CASE pc[c] # "send"
    <3>1. pc' = pc /\ out' = out
      BY <1>6, <2>2 DEF Racer
    <3>2. QED BY <3>1
  <2>3. QED BY <2>1, <2>2
<1>7. ASSUME NEW c \in Callers, NEW v \in Values, Fulfils(c, v) PROVE Typed'
  <2>1. Racer(c, v) /\ v \in Values \cup {Error}
    BY <1>7 DEF Fulfils
  <2>2. /\ pc' \in [Callers -> PcValues]
        /\ out' \in [Callers -> Values \cup {Error, Timeout, None}]
        /\ \A d \in Callers : pc'[d] = "verify" => pc[d] = "verify"
    BY <1>6, <2>1
  <2>3. /\ status' = [status EXCEPT ![key[c]] = "settled"]
        /\ value' = [value EXCEPT ![key[c]] = v]
        /\ settles' = [settles EXCEPT ![c] = v]
        /\ at' = [at EXCEPT ![c] = "fulfilled"]
        /\ UNCHANGED <<owner, key, leader, verdict, locks, prior, lane, ahead, chainVars, past>>
    BY <1>7 DEF Fulfils, Lane!Settle
  <2>4. Lane!LaneTypeOK'
    BY <2>3
  <2>5. OpenIsOwned'
    BY <2>2, <2>3
  <2>6. QED BY <2>2, <2>3, <2>4, <2>5
<1>8. ASSUME NEW c \in Callers, Rejects(c) PROVE Typed'
  <2>1. Racer(c, Error) /\ Error \in Values \cup {Error}
    BY <1>8 DEF Rejects
  <2>2. /\ pc' \in [Callers -> PcValues]
        /\ out' \in [Callers -> Values \cup {Error, Timeout, None}]
        /\ \A d \in Callers : pc'[d] = "verify" => pc[d] = "verify"
    BY <1>6, <2>1
  <2>3. /\ status' = [status EXCEPT ![key[c]] = IF @ = "running" THEN "failed" ELSE @]
        /\ settles' = [settles EXCEPT ![c] = Error]
        /\ at' = [at EXCEPT ![c] = "rejected"]
        /\ UNCHANGED <<value, owner, key, leader, verdict, locks, prior, lane, ahead, chainVars, past>>
    BY <1>8 DEF Rejects, Lane!Settle
  <2>4. Lane!LaneTypeOK'
    BY <2>3
  <2>5. status' \in [Keys -> StatusValues] /\ OpenIsOwned'
    BY <2>2, <2>3
  <2>6. QED BY <2>2, <2>3, <2>4, <2>5
<1>9. ASSUME NEW c \in Callers, SendEnds(c) PROVE Typed'
  <2>1. CASE Rejects(c)
    BY <1>8, <2>1
  <2>2. CASE \E how \in {"mined", "reverted"} : Fulfils(c, [how |-> how, by |-> c])
    BY <1>7, <2>2, ValuesType
  <2>3. QED BY <1>9, <2>1, <2>2 DEF SendEnds, Receipt, SendFails
<1>10. ASSUME NEW c \in Callers, TimesOut(c) PROVE Typed'
  BY <1>10 DEF TimesOut, Returns
<1>11. ASSUME NEW c \in Callers, FollowerReturns(c) PROVE Typed'
  BY <1>11 DEF FollowerReturns, Returns
<1>12. CASE Chain
  <2>1. ASSUME NEW c \in Callers, Mine(c) PROVE Typed'
    <3>1. key[c] = None \/ key[c] \in Keys
      OBVIOUS
    <3>2. token' \in [Targets -> Keys \cup {Foreign, None}]
      <4>1. CASE token' = token
        BY <4>1
      <4>2. CASE token' # token
        BY <2>1, <3>1, <4>2 DEF Mine
      <4>3. QED BY <4>1, <4>2
    <3>3. tx' \in [Callers -> {"none", "pending", "mined", "reverted", "dropped"}]
      BY <2>1 DEF Mine
    <3>4. ready' \in SUBSET Targets /\ owed' \in SUBSET Callers
      BY <2>1 DEF Mine
    <3>5. UNCHANGED <<ledgerVars, callVars, laneVars, past>>
      BY <2>1 DEF Mine
    <3>6. QED BY <3>2, <3>3, <3>4, <3>5
  <2>2. ASSUME NEW c \in Callers, Drop(c) PROVE Typed'
    BY <2>2 DEF Drop
  <2>3. ASSUME NEW t \in Targets, RoyaltiesAccrue(t) PROVE Typed'
    BY <2>3 DEF RoyaltiesAccrue
  <2>4. ASSUME NEW k \in Keys, KeeperSweeps(k) \/ SymbolTaken(k) PROVE Typed'
    BY <2>4 DEF KeeperSweeps, SymbolTaken
  <2>5. QED BY <1>12, <2>1, <2>2, <2>3, <2>4 DEF Chain
<1>13. CASE Restart
  <2>1. status' \in [Keys -> StatusValues] /\ \A k \in Keys : status'[k] = "none"
    BY <1>13 DEF Restart
  <2>2. pc' \in [Callers -> PcValues] /\ \A c \in Callers : pc'[c] # "verify"
    BY <1>13 DEF Restart, Active
  <2>3. OpenIsOwned'
    BY <2>1, <2>2
  <2>4. value' \in [Keys -> Values \cup {None}] /\ owner' \in [Keys -> Callers \cup {None}]
    BY <1>13 DEF Restart
  <2>5. Lane!LaneTypeOK'
    BY <1>13 DEF Restart, Lane!Forget
  <2>6. past' \in SUBSET Callers
    BY <1>13 DEF Restart
  <2>7. UNCHANGED <<key, leader, verdict, settles, out, chainVars>>
    BY <1>13 DEF Restart
  <2>8. QED BY <2>1, <2>2, <2>3, <2>4, <2>5, <2>6, <2>7
<1>14. CASE UNCHANGED vars
  BY <1>14 DEF vars
<1> HIDE DEF Typed
<1>15. QED
  BY <1>1, <1>2, <1>3, <1>4, <1>5, <1>9, <1>10, <1>11, <1>12, <1>13, <1>14
     DEF Next, Verified

(* TypeOK is an invariant of the execute tools, the lane and the chain.     *)
THEOREM TypeCorrect == Spec => []TypeOK
<1>1. Init => Typed
  BY DEF Init, Typed, OpenIsOwned, TypeOK, StatusValues, PcValues, Lane!LaneInit,
         Lane!LaneTypeOK, Lane!AtValues
<1>2. Typed /\ [Next]_vars => Typed'
  BY TypedStep
<1>3. Typed => TypeOK
  BY DEF Typed
<1>4. QED BY <1>1, <1>2, <1>3, PTL DEF Spec

-----------------------------------------------------------------------------
(* A caller at work on a send is the owner of an open attempt.  This is     *)
(* what OneSendPerKey needs to be inductive: a key is claimed only when its *)
(* attempt is not open, so no one is at work on it.                         *)
Working(c) == pc[c] = "verify" \/ Lane!Unsettled(c)

Owns ==
  \A c \in Callers : Working(c) =>
    /\ key[c] \in Keys
    /\ owner[key[c]] = c
    /\ status[key[c]] \in {"starting", "running"}

InOrder ==
  \A c \in Callers : pc[c] \in {"idle", "verify"} => at[c] = "idle"

SendInv == Owns /\ InOrder

(* Every step keeps the attempt of a key with the caller that sends for it. *)
LEMMA SendInvStep ==
  ASSUME TypeOK, SendInv, [Next]_vars PROVE SendInv'
<1> USE NoneAssumption
    DEF SendInv, Working, Lane!Unsettled, ledgerVars, callVars, laneVars, chainVars
<1>1. ASSUME NEW c \in Callers, NEW k \in Keys, Run(c, k) PROVE SendInv'
  <2>1. \A d \in Callers : d # c => key'[d] = key[d]
    BY <1>1 DEF Run, RunReplays, RunAttaches, RunVerifies, RunSends, Claim, Calls, TypeOK
  <2>2. pc[c] = "idle" /\ at[c] = "idle"
    BY <1>1 DEF Run, RunReplays, RunAttaches, RunVerifies, RunSends, Claim, Calls, InOrder
  <2>3. CASE RunReplays(c, k) \/ RunAttaches(c, k)
    BY <2>1, <2>2, <2>3 DEF RunReplays, RunAttaches, Owns, InOrder, TypeOK
  <2>4. CASE RunVerifies(c, k)
    BY <2>1, <2>2, <2>4 DEF RunVerifies, Claim, Calls, Owns, InOrder, TypeOK
  <2>5. CASE RunSends(c, k)
    BY <2>1, <2>2, <2>5
       DEF RunSends, Claim, Calls, Owns, InOrder, TypeOK, Lane!WithLock, Lane!LaneTypeOK
  <2>6. QED BY <1>1, <2>3, <2>4, <2>5 DEF Run
<1>2. ASSUME NEW c \in Callers, ReadBack(c) PROVE SendInv'
  BY <1>2 DEF ReadBack, Owns, InOrder
<1>3. ASSUME NEW c \in Callers, VerifiedCommitted(c) PROVE SendInv'
  BY <1>3 DEF VerifiedCommitted, Returns, Owns, InOrder, TypeOK
<1>4. ASSUME NEW c \in Callers, VerifiedOtherwise(c) PROVE SendInv'
  BY <1>4 DEF VerifiedOtherwise, Lane!WithLock, Lane!LaneTypeOK, Owns, InOrder, TypeOK
<1>5. ASSUME NEW c \in Callers, TaskStarts(c) \/ Broadcast(c) PROVE SendInv'
  BY <1>5 DEF TaskStarts, Broadcast, Lane!Begin, Lane!LaneTypeOK, Owns, InOrder, TypeOK
<1>6. ASSUME NEW c \in Callers, SendEnds(c) PROVE SendInv'
  <2>1. /\ at[c] = "inside" /\ key' = key /\ owner' = owner
        /\ \E how \in Lane!Outcomes : at' = [at EXCEPT ![c] = how]
        /\ \E s \in StatusValues : status' = [status EXCEPT ![key[c]] = s]
        /\ \/ pc' = pc
           \/ pc' = [pc EXCEPT ![c] = "returned"]
    BY <1>6 DEF SendEnds, Receipt, SendFails, Fulfils, Rejects, Racer, Returns, Lane!Settle,
                Lane!Outcomes, StatusValues, TypeOK
  <2>2. pc[c] \notin {"idle", "verify"}
    BY <2>1 DEF InOrder
  <2>3. QED
    BY <2>1, <2>2 DEF Owns, InOrder, TypeOK, Lane!LaneTypeOK, Lane!Outcomes
<1>7. ASSUME NEW c \in Callers, TimesOut(c) \/ FollowerReturns(c) PROVE SendInv'
  BY <1>7 DEF TimesOut, FollowerReturns, Returns, Owns, InOrder, TypeOK
<1>8. CASE Chain
  BY <1>8 DEF Chain, Mine, Drop, RoyaltiesAccrue, KeeperSweeps, SymbolTaken, Owns, InOrder
<1>9. CASE Restart
  BY <1>9 DEF Restart, Active, Lane!Forget, Lane!LaneTypeOK, Owns, InOrder, TypeOK
<1>10. CASE UNCHANGED vars
  BY <1>10 DEF vars, Owns, InOrder
<1>11. QED
  BY <1>1, <1>2, <1>3, <1>4, <1>5, <1>6, <1>7, <1>8, <1>9, <1>10 DEF Next, Verified

(* A caller at work on a send owns the open attempt of its key: run claims  *)
(* the key before its first await.                                          *)
THEOREM SendInvariant == Spec => []SendInv
<1>1. Init => SendInv
  BY DEF Init, SendInv, Owns, InOrder, Working, Lane!LaneInit, Lane!Unsettled
<1>2. TypeOK /\ SendInv /\ [Next]_vars => SendInv'
  BY SendInvStep
<1>3. QED BY <1>1, <1>2, TypeCorrect, PTL DEF Spec

(* OneSendPerKey: two sends of one key are never under way in one process   *)
(* (ExecuteLedger.run claims the key before its first await).               *)
THEOREM OneSend == Spec => []OneSendPerKey
<1>1. SendInv => OneSendPerKey
  BY DEF SendInv, Owns, Working, OneSendPerKey
<1>2. QED BY <1>1, SendInvariant, PTL

-----------------------------------------------------------------------------
(* The answers.  AnswersAreTrue and DirectAnswerActed speak of what run     *)
(* returned; to be inductive they must speak of everything an answer can    *)
(* come from: the ledger's value, the promise a follower awaits, the        *)
(* read-back's verdict and the fate of the transaction.                     *)

(* A caller that has not called has nothing yet, and is not of an earlier   *)
(* process; one that has called has a key.                                  *)
Fresh ==
  \A c \in Callers :
    IF pc[c] = "idle"
    THEN /\ key[c] = None /\ out[c] = None /\ settles[c] = None
         /\ verdict[c] = "none" /\ tx[c] = "none"
         /\ c \notin past /\ c \notin owed
    ELSE key[c] \in Keys

(* The owner of an open attempt, and the leader of a follower, run in this  *)
(* process and for the same key.                                            *)
Present ==
  /\ \A k \in Keys : status[k] \in {"starting", "running"} =>
       owner[k] \notin past /\ key[owner[k]] = k
  /\ \A c \in Callers : pc[c] = "follow" =>
       leader[c] \notin past /\ key[leader[c]] = key[c]

(* A value that a caller returned, or that its promise settled with, is the *)
(* value its key settled with.                                              *)
Agreed ==
  \A c \in Callers \ past : \A v \in {out[c], settles[c]} :
    InValues(v) => status[key[c]] = "settled" /\ value[key[c]] = v

(* The launch of k has been made at its predicted address.                  *)
Made(k) ==
  KindOf[k] = "launch" =>
    token[TargetOf[k]] \in Keys /\ NameOf[token[TargetOf[k]]] = NameOf[k]

MadeInv ==
  /\ \A k \in Keys : InValues(value[k]) => Made(k)
  /\ \A c \in Callers :
        \/ InValues(out[c])
        \/ InValues(settles[c])
        \/ verdict[c] = "committed"
        \/ tx[c] = "mined"
        => Made(key[c])

(* A sweep is owed only while its router has royalties, and a heartbeat     *)
(* never reverts: both because the chain decides by the state it is in.     *)
OwedInv ==
  /\ \A c \in Callers :
       pc[c] # "idle" /\ c \in owed /\ KindOf[key[c]] = "sweep" => TargetOf[key[c]] \in ready
  /\ \A c \in Callers : tx[c] = "reverted" => KindOf[key[c]] # "heartbeat"

(* The sweep or heartbeat that d asked for has happened since.              *)
Acted(d) == pc[d] # "idle" /\ (KindOf[key[d]] # "launch" => d \notin owed)

ActedInv ==
  /\ \A c \in Callers : verdict[c] = "committed" \/ tx[c] \in {"mined", "reverted"} => Acted(c)
  /\ \A k \in Keys : InValues(value[k]) => Acted(value[k].by)
  /\ \A c \in Callers : \A v \in {out[c], settles[c]} : InValues(v) => Acted(v.by)

Base == Typed /\ SendInv

(* A caller inside the lane has a key, owns its open attempt, and is past   *)
(* its read-back.                                                           *)
LEMMA InsideOwns ==
  ASSUME Base, NEW c \in Callers, at[c] = "inside"
  PROVE  /\ key[c] \in Keys /\ owner[key[c]] = c
         /\ status[key[c]] \in {"starting", "running"}
         /\ pc[c] \notin {"idle", "verify"}
BY DEF Base, SendInv, Owns, InOrder, Working, Lane!Unsettled

(* What the end of a send leaves: an error, or the receipt as a value.      *)
SendEffect(c, o) ==
  /\ at[c] = "inside"
  /\ settles' = [settles EXCEPT ![c] = o]
  /\ \/ pc' = pc /\ out' = out
     \/ pc' = [pc EXCEPT ![c] = "returned"] /\ out' = [out EXCEPT ![c] = o]
  /\ \/ /\ o = Error
        /\ value' = value
        /\ status' = [status EXCEPT ![key[c]] = IF @ = "running" THEN "failed" ELSE @]
     \/ /\ o = [how |-> tx[c], by |-> c]
        /\ tx[c] \in {"mined", "reverted"}
        /\ tx[c] = "reverted" => KindOf[key[c]] # "launch"
        /\ value' = [value EXCEPT ![key[c]] = o]
        /\ status' = [status EXCEPT ![key[c]] = "settled"]
  /\ UNCHANGED <<owner, key, leader, verdict, chainVars, past>>

LEMMA SendEndsEffect ==
  ASSUME Base, NEW c \in Callers, SendEnds(c)
  PROVE  \E o \in Values \cup {Error} : SendEffect(c, o)
<1>1. CASE Rejects(c) /\ at[c] = "inside"
  <2>1. SendEffect(c, Error)
    BY <1>1 DEF Rejects, Racer, Returns, SendEffect
  <2>2. QED BY <2>1
<1>2. CASE /\ at[c] = "inside" /\ tx[c] \in {"mined", "reverted"}
           /\ tx[c] = "reverted" => KindOf[key[c]] # "launch"
           /\ Fulfils(c, [how |-> tx[c], by |-> c])
  <2>1. SendEffect(c, [how |-> tx[c], by |-> c])
    BY <1>2 DEF Fulfils, Racer, Returns, SendEffect
  <2>2. [how |-> tx[c], by |-> c] \in Values
    BY <1>2 DEF Values
  <2>3. QED BY <2>1, <2>2
<1>3. QED BY <1>1, <1>2 DEF SendEnds, Receipt, SendFails

(* Every step leaves a caller that has called with the key it called for.   *)
LEMMA FreshStep == ASSUME Base, Fresh, [Next]_vars PROVE Fresh'
<1> USE NoneAssumption DEF ledgerVars, callVars, laneVars, chainVars
<1>1. TypeOK
  BY DEF Base, Typed
<1>2. ASSUME NEW c \in Callers, NEW k \in Keys, Run(c, k) PROVE Fresh'
  <2>1. /\ pc[c] = "idle"
        /\ key' = [key EXCEPT ![c] = k]
        /\ \E p \in PcValues \ {"idle"} : pc' = [pc EXCEPT ![c] = p]
        /\ \A d \in Callers : d # c => out'[d] = out[d] /\ (d \in owed' => d \in owed)
        /\ UNCHANGED <<settles, verdict, tx, past>>
    BY <1>1, <1>2 DEF Run, RunReplays, RunAttaches, RunVerifies, RunSends, Claim, Calls,
                      TypeOK, PcValues
  <2>2. QED BY <1>1, <2>1 DEF Fresh, TypeOK
<1>3. ASSUME NEW c \in Callers, ReadBack(c) PROVE Fresh'
  BY <1>1, <1>3 DEF ReadBack, Fresh, TypeOK
<1>4. ASSUME NEW c \in Callers, Verified(c) PROVE Fresh'
  BY <1>1, <1>4 DEF Verified, VerifiedCommitted, VerifiedOtherwise, Returns, Fresh, TypeOK
<1>5. ASSUME NEW c \in Callers, TaskStarts(c) PROVE Fresh'
  BY <1>5 DEF TaskStarts, Fresh
<1>6. ASSUME NEW c \in Callers, Broadcast(c) PROVE Fresh'
  BY <1>1, <1>6, InsideOwns DEF Broadcast, Fresh, TypeOK
<1>7. ASSUME NEW c \in Callers, SendEnds(c) PROVE Fresh'
  <2>1. PICK o \in Values \cup {Error} : SendEffect(c, o)
    BY <1>7, SendEndsEffect
  <2>2. pc[c] # "idle"
    BY <2>1, InsideOwns DEF SendEffect
  <2>3. QED BY <1>1, <2>1, <2>2 DEF SendEffect, Fresh, TypeOK
<1>8. ASSUME NEW c \in Callers, TimesOut(c) \/ FollowerReturns(c) PROVE Fresh'
  BY <1>1, <1>8 DEF TimesOut, FollowerReturns, Returns, Fresh, TypeOK
<1>9. CASE Chain
  BY <1>1, <1>9 DEF Chain, Mine, Drop, RoyaltiesAccrue, KeeperSweeps, SymbolTaken, Fresh, TypeOK
<1>10. CASE Restart
  BY <1>1, <1>10 DEF Restart, Active, Fresh, TypeOK
<1>11. CASE UNCHANGED vars
  BY <1>11 DEF vars, Fresh
<1>12. QED
  BY <1>2, <1>3, <1>4, <1>5, <1>6, <1>7, <1>8, <1>9, <1>10, <1>11 DEF Next

(* Every step leaves an open attempt, and the promise of a follower, to a   *)
(* caller of this process.                                                  *)
LEMMA PresentStep == ASSUME Base, Fresh, Present, [Next]_vars PROVE Present'
<1> USE NoneAssumption DEF ledgerVars, callVars, laneVars, chainVars
<1>1. TypeOK /\ OpenIsOwned
  BY DEF Base, Typed
<1>2. ASSUME NEW c \in Callers, NEW k \in Keys, Run(c, k) PROVE Present'
  <2>1. /\ pc[c] = "idle" /\ key[c] = None /\ c \notin past
        /\ key' = [key EXCEPT ![c] = k] /\ past' = past
    BY <1>2 DEF Run, RunReplays, RunAttaches, RunVerifies, RunSends, Claim, Calls, Fresh
  <2>2. \A d \in Callers : pc[d] = "follow" => leader[d] # c
    BY <2>1 DEF Present, Fresh
  <2>3. \A j \in Keys : status[j] \in {"starting", "running"} => owner[j] # c
    BY <2>1 DEF Present
  <2>4. CASE RunReplays(c, k)
    BY <1>1, <2>1, <2>2, <2>3, <2>4 DEF RunReplays, Present, TypeOK
  <2>5. CASE RunAttaches(c, k)
    BY <1>1, <2>1, <2>2, <2>3, <2>5 DEF RunAttaches, Present, TypeOK, OpenIsOwned
  <2>6. CASE RunVerifies(c, k) \/ RunSends(c, k)
    <3>1. /\ owner' = [owner EXCEPT ![k] = c] /\ leader' = leader
          /\ \A j \in Keys : j # k => status'[j] = status[j]
          /\ \A d \in Callers : pc'[d] = "follow" => pc[d] = "follow" /\ d # c
      BY <1>1, <2>6 DEF RunVerifies, RunSends, Claim, TypeOK
    <3>2. QED BY <1>1, <2>1, <2>2, <2>3, <3>1 DEF Present, TypeOK, OpenIsOwned
  <2>7. QED BY <1>2, <2>4, <2>5, <2>6 DEF Run
<1>3. ASSUME NEW c \in Callers, ReadBack(c) PROVE Present'
  BY <1>3 DEF ReadBack, Present
<1>4. ASSUME NEW c \in Callers, Verified(c) PROVE Present'
  <2>1. key[c] \in Keys /\ status[key[c]] \in {"starting", "running"}
    BY <1>4 DEF Base, SendInv, Owns, Working, Verified, VerifiedCommitted, VerifiedOtherwise
  <2>2. QED
    BY <1>1, <1>4, <2>1
       DEF Verified, VerifiedCommitted, VerifiedOtherwise, Returns, Present, TypeOK
<1>5. ASSUME NEW c \in Callers, TaskStarts(c) \/ Broadcast(c) PROVE Present'
  BY <1>5 DEF TaskStarts, Broadcast, Present
<1>6. ASSUME NEW c \in Callers, SendEnds(c) PROVE Present'
  <2>1. PICK o \in Values \cup {Error} : SendEffect(c, o)
    BY <1>6, SendEndsEffect
  <2>2. \A k \in Keys : status'[k] \in {"starting", "running"} => status'[k] = status[k]
    BY <1>1, <2>1 DEF SendEffect, TypeOK
  <2>3. \A d \in Callers : pc'[d] = "follow" => pc[d] = "follow"
    BY <1>1, <2>1 DEF SendEffect, TypeOK
  <2>4. QED BY <2>1, <2>2, <2>3 DEF SendEffect, Present
<1>7. ASSUME NEW c \in Callers, TimesOut(c) \/ FollowerReturns(c) PROVE Present'
  BY <1>1, <1>7 DEF TimesOut, FollowerReturns, Returns, Present, TypeOK
<1>8. CASE Chain
  BY <1>8 DEF Chain, Mine, Drop, RoyaltiesAccrue, KeeperSweeps, SymbolTaken, Present
<1>9. CASE Restart
  BY <1>1, <1>9 DEF Restart, Active, Present, TypeOK
<1>10. CASE UNCHANGED vars
  BY <1>10 DEF vars, Present
<1>11. QED
  BY <1>2, <1>3, <1>4, <1>5, <1>6, <1>7, <1>8, <1>9, <1>10 DEF Next

(* Every step keeps what callers of one key were told in agreement: a key   *)
(* settles once, because only the owner of its open attempt settles it.     *)
LEMMA AgreedStep == ASSUME Base, Fresh, Present, Agreed, [Next]_vars PROVE Agreed'
<1> USE NoneAssumption DEF ledgerVars, callVars, laneVars, chainVars
<1>1. TypeOK
  BY DEF Base, Typed
<1>2. ~InValues(None) /\ ~InValues(Error) /\ ~InValues(Timeout)
  BY DEF InValues, Error, Timeout
<1>3. \A c \in Callers : pc[c] = "idle" => ~InValues(out[c]) /\ ~InValues(settles[c])
  BY <1>2 DEF Fresh
<1>4. \A c \in Callers \ past : \A v \in {out[c], settles[c]} : InValues(v) => key[c] \in Keys
  BY <1>3 DEF Fresh
<1>5. ASSUME NEW c \in Callers, NEW k \in Keys, Run(c, k) PROVE Agreed'
  <2>1. /\ pc[c] = "idle" /\ key' = [key EXCEPT ![c] = k] /\ past' = past
        /\ settles' = settles
    BY <1>5 DEF Run, RunReplays, RunAttaches, RunVerifies, RunSends, Claim, Calls
  <2>2. CASE RunReplays(c, k)
    BY <1>1, <1>3, <1>4, <2>1, <2>2 DEF RunReplays, Agreed, TypeOK
  <2>3. CASE RunAttaches(c, k)
    BY <1>1, <1>3, <1>4, <2>1, <2>3 DEF RunAttaches, Agreed, TypeOK
  <2>4. CASE RunVerifies(c, k) \/ RunSends(c, k)
    <3>1. /\ status[k] # "settled" /\ value' = value /\ out' = out
          /\ \A j \in Keys : j # k => status'[j] = status[j]
      BY <1>1, <2>4 DEF RunVerifies, RunSends, Claim, TypeOK
    <3>2. \A d \in Callers \ past : \A v \in {out[d], settles[d]} : InValues(v) => d # c
      BY <1>3, <2>1
    <3>3. QED BY <1>1, <1>4, <2>1, <3>1, <3>2 DEF Agreed, TypeOK
  <2>5. QED BY <1>5, <2>2, <2>3, <2>4 DEF Run
<1>6. ASSUME NEW c \in Callers, ReadBack(c) PROVE Agreed'
  BY <1>6 DEF ReadBack, Agreed
<1>7. ASSUME NEW c \in Callers, Verified(c) PROVE Agreed'
  <2>1. key[c] \in Keys /\ status[key[c]] # "settled"
    BY <1>7 DEF Base, SendInv, Owns, Working, Verified, VerifiedCommitted, VerifiedOtherwise
  <2>2. CASE VerifiedCommitted(c)
    BY <1>1, <1>4, <2>1, <2>2 DEF VerifiedCommitted, Returns, Agreed, TypeOK
  <2>3. CASE VerifiedOtherwise(c)
    BY <1>1, <1>4, <2>1, <2>3 DEF VerifiedOtherwise, Agreed, TypeOK
  <2>4. QED BY <1>7, <2>2, <2>3 DEF Verified
<1>8. ASSUME NEW c \in Callers, TaskStarts(c) \/ Broadcast(c) PROVE Agreed'
  BY <1>8 DEF TaskStarts, Broadcast, Agreed
<1>9. ASSUME NEW c \in Callers, SendEnds(c) PROVE Agreed'
  <2>1. PICK o \in Values \cup {Error} : SendEffect(c, o)
    BY <1>9, SendEndsEffect
  <2>2. key[c] \in Keys /\ status[key[c]] # "settled"
    BY <2>1, InsideOwns DEF SendEffect
  <2>3. /\ key' = key /\ past' = past
        /\ \A d \in Callers : /\ out'[d] = out[d] \/ (d = c /\ out'[d] = o)
                              /\ settles'[d] = settles[d] \/ (d = c /\ settles'[d] = o)
        /\ \A j \in Keys : j # key[c] => status'[j] = status[j] /\ value'[j] = value[j]
    BY <1>1, <2>1 DEF SendEffect, TypeOK
  <2>4. InValues(o) => status'[key[c]] = "settled" /\ value'[key[c]] = o
    BY <1>1, <1>2, <2>1, <2>2 DEF SendEffect, TypeOK
  <2>5. \A d \in Callers \ past : \A v \in {out[d], settles[d]} : InValues(v) => key[d] # key[c]
    BY <2>2 DEF Agreed
  <2>6. QED BY <1>4, <2>3, <2>4, <2>5 DEF Agreed
<1>10. ASSUME NEW c \in Callers, TimesOut(c) PROVE Agreed'
  BY <1>1, <1>2, <1>10 DEF TimesOut, Returns, Agreed, TypeOK
<1>11. ASSUME NEW c \in Callers, FollowerReturns(c) PROVE Agreed'
  <2>1. leader[c] \in Callers \ past /\ key[leader[c]] = key[c]
    BY <1>1, <1>11 DEF FollowerReturns, Present, TypeOK
  <2>2. InValues(settles[leader[c]]) =>
          status[key[c]] = "settled" /\ value[key[c]] = settles[leader[c]]
    BY <2>1 DEF Agreed
  <2>3. QED BY <1>1, <1>11, <2>2 DEF FollowerReturns, Returns, Agreed, TypeOK
<1>12. CASE Chain
  BY <1>12 DEF Chain, Mine, Drop, RoyaltiesAccrue, KeeperSweeps, SymbolTaken, Agreed
<1>13. CASE Restart
  BY <1>3, <1>13 DEF Restart, Agreed
<1>14. CASE UNCHANGED vars
  BY <1>14 DEF vars, Agreed
<1>15. QED
  BY <1>5, <1>6, <1>7, <1>8, <1>9, <1>10, <1>11, <1>12, <1>13, <1>14 DEF Next


(* A caller keeps the key it called for.                                    *)
LEMMA KeyStays ==
  ASSUME Base, [Next]_vars, NEW c \in Callers, pc[c] # "idle"
  PROVE  key'[c] = key[c] /\ pc'[c] # "idle"
<1> USE DEF ledgerVars, callVars, laneVars, chainVars
<1>1. TypeOK
  BY DEF Base, Typed
<1>2. ASSUME NEW d \in Callers, NEW k \in Keys, Run(d, k)
      PROVE  key'[c] = key[c] /\ pc'[c] # "idle"
  BY <1>1, <1>2 DEF Run, RunReplays, RunAttaches, RunVerifies, RunSends, Claim, Calls, TypeOK
<1>3. ASSUME NEW d \in Callers, ReadBack(d) \/ Verified(d) \/ TaskStarts(d) \/ Broadcast(d)
      PROVE  key'[c] = key[c] /\ pc'[c] # "idle"
  BY <1>1, <1>3 DEF ReadBack, Verified, VerifiedCommitted, VerifiedOtherwise, Returns,
                    TaskStarts, Broadcast, TypeOK
<1>4. ASSUME NEW d \in Callers, SendEnds(d) PROVE key'[c] = key[c] /\ pc'[c] # "idle"
  <2>1. PICK o \in Values \cup {Error} : SendEffect(d, o)
    BY <1>4, SendEndsEffect
  <2>2. QED BY <1>1, <2>1 DEF SendEffect, TypeOK
<1>5. ASSUME NEW d \in Callers, TimesOut(d) \/ FollowerReturns(d)
      PROVE  key'[c] = key[c] /\ pc'[c] # "idle"
  BY <1>1, <1>5 DEF TimesOut, FollowerReturns, Returns, TypeOK
<1>6. CASE Chain
  BY <1>6 DEF Chain, Mine, Drop, RoyaltiesAccrue, KeeperSweeps, SymbolTaken
<1>7. CASE Restart
  BY <1>1, <1>7 DEF Restart, TypeOK
<1>8. CASE UNCHANGED vars
  BY <1>8 DEF vars
<1>9. QED BY <1>2, <1>3, <1>4, <1>5, <1>6, <1>7, <1>8 DEF Next

(* A token is never taken away, so a launch that was made stays made.       *)
LEMMA MadeStays ==
  ASSUME Base, Fresh, [Next]_vars, NEW k \in Keys, Made(k) PROVE Made(k)'
<1> USE NoneAssumption, KeysAssumption DEF ledgerVars, callVars, laneVars, chainVars
<1>1. TypeOK /\ TargetOf[k] \in Targets
  BY DEF Base, Typed
<1>2. \/ token' = token
      \/ \E t \in Targets : token[t] = None /\ \E j \in Keys \cup {Foreign} :
           token' = [token EXCEPT ![t] = j]
  <2>1. ASSUME NEW c \in Callers, Mine(c), token' # token
        PROVE  \E t \in Targets : token[t] = None /\ \E j \in Keys \cup {Foreign} :
                 token' = [token EXCEPT ![t] = j]
    <3>1. key[c] \in Keys
      BY <1>1, <2>1 DEF Fresh, Mine, TypeOK
    <3>2. QED BY <1>1, <2>1, <3>1 DEF Mine, Sendable, TypeOK
  <2>2. CASE Chain
    BY <2>1, <2>2 DEF Chain, Drop, RoyaltiesAccrue, KeeperSweeps, SymbolTaken
  <2>3. ASSUME NEW c \in Callers, NEW j \in Keys, Run(c, j) PROVE token' = token
    BY <2>3 DEF Run, RunReplays, RunAttaches, RunVerifies, RunSends, Claim, Calls
  <2>4. ASSUME NEW c \in Callers, ReadBack(c) \/ Verified(c) \/ TaskStarts(c) \/ Broadcast(c)
        PROVE  token' = token
    BY <2>4 DEF ReadBack, Verified, VerifiedCommitted, VerifiedOtherwise, TaskStarts, Broadcast
  <2>5. ASSUME NEW c \in Callers, SendEnds(c) \/ TimesOut(c) \/ FollowerReturns(c)
        PROVE  token' = token
    BY <2>5 DEF SendEnds, Receipt, SendFails, Fulfils, Rejects, TimesOut, FollowerReturns
  <2>6. CASE Restart \/ UNCHANGED vars
    BY <2>6 DEF Restart, vars
  <2>7. QED BY <2>2, <2>3, <2>4, <2>5, <2>6 DEF Next
<1>3. QED BY <1>1, <1>2 DEF Made, TypeOK

(* Every value in the ledger, every promise and every answer of a launch    *)
(* stands for a token of that name.                                         *)
LEMMA MadeStep ==
  ASSUME Base, Fresh, Present, MadeInv, [Next]_vars PROVE MadeInv'
<1> USE NoneAssumption DEF ledgerVars, callVars, laneVars, chainVars
<1>1. TypeOK
  BY DEF Base, Typed
<1>2. ~InValues(None) /\ ~InValues(Error) /\ ~InValues(Timeout)
  BY DEF InValues, Error, Timeout
<1> DEFINE Told(c) == InValues(out[c]) \/ InValues(settles[c])
                      \/ verdict[c] = "committed" \/ tx[c] = "mined"
<1>3. \A c \in Callers : Told(c) => pc[c] # "idle" /\ key[c] \in Keys
  BY <1>2 DEF Fresh
<1>4. \A k \in Keys : Made(k) => Made(k)'
  BY MadeStays
<1>5. ASSUME NEW c \in Callers, Told(c) PROVE Made(key[c])'
  <2>1. key[c] \in Keys /\ Made(key[c])
    BY <1>3, <1>5 DEF MadeInv
  <2>2. \A k \in Keys : key'[c] = k /\ Made(k)' => Made(key[c])'
    BY DEF Made
  <2>3. key'[c] = key[c]
    BY <1>3, <1>5, KeyStays
  <2>4. QED BY <1>4, <2>1, <2>2, <2>3
(* It is enough to look at what is new.                                     *)
<1>6. SUFFICES /\ \A k \in Keys : InValues(value'[k]) => InValues(value[k]) \/ Made(k)'
               /\ \A c \in Callers : Told(c)' => Told(c) \/ Made(key[c])'
  <2>1. (\A k \in Keys : InValues(value[k]) => Made(k)')
        /\ (\A c \in Callers : Told(c) => Made(key[c])')
    BY <1>4, <1>5 DEF MadeInv
  <2>2. QED BY <2>1 DEF MadeInv
<1> DEFINE Goal == /\ \A k \in Keys : InValues(value'[k]) => InValues(value[k]) \/ Made(k)'
                   /\ \A c \in Callers : Told(c)' => Told(c) \/ Made(key[c])'
<1>7. ASSUME NEW c \in Callers, NEW k \in Keys, Run(c, k) PROVE Goal
  <2>1. pc[c] = "idle" /\ key' = [key EXCEPT ![c] = k]
    BY <1>7 DEF Run, RunReplays, RunAttaches, RunVerifies, RunSends, Claim, Calls
  <2>2. UNCHANGED <<value, settles, verdict, tx>>
    BY <1>7 DEF Run, RunReplays, RunAttaches, RunVerifies, RunSends, Claim, Calls
  <2>3. CASE out' = out
    BY <2>2, <2>3
  <2>4. CASE out' # out
    <3>1. out' = [out EXCEPT ![c] = value[k]]
      BY <1>7, <2>4 DEF Run, RunReplays, RunAttaches, RunVerifies, RunSends
    <3>2. key'[c] = k
      BY <1>1, <2>1 DEF TypeOK
    <3>3. InValues(value[k]) => Made(k)'
      BY <1>4 DEF MadeInv
    <3>4. Made(k)' => Made(key[c])'
      BY <3>2 DEF Made
    <3>5. QED BY <1>1, <2>2, <3>1, <3>3, <3>4 DEF TypeOK
  <2>5. QED BY <2>3, <2>4
<1>8. ASSUME NEW c \in Callers, ReadBack(c) PROVE Goal
  <2>1. UNCHANGED <<value, settles, out, tx, key, token>> /\ key[c] \in Keys
    BY <1>8 DEF ReadBack, Fresh
  <2>2. \A d \in Callers : d # c => verdict'[d] = verdict[d]
    BY <1>1, <1>8 DEF ReadBack, TypeOK
  <2>3. verdict'[c] = "committed" => Made(key[c])'
    BY <1>1, <1>8, <2>1 DEF ReadBack, TypeOK, Committed, Made
  <2>4. QED BY <2>1, <2>2, <2>3
<1>9. ASSUME NEW c \in Callers, VerifiedCommitted(c) PROVE Goal
  <2>1. Told(c) /\ key' = key /\ key[c] \in Keys
    BY <1>9 DEF VerifiedCommitted, Fresh
  <2>2. Made(key[c])'
    BY <1>5, <2>1
  <2>3. \A k \in Keys : k = key[c] => Made(k)'
    BY <2>1, <2>2 DEF Made
  <2>4. /\ UNCHANGED <<verdict, tx>>
        /\ \A d \in Callers : d # c => out'[d] = out[d] /\ settles'[d] = settles[d]
        /\ \A k \in Keys : k # key[c] => value'[k] = value[k]
    BY <1>1, <1>9 DEF VerifiedCommitted, Returns, TypeOK
  <2>5. QED BY <2>2, <2>3, <2>4
<1>10. ASSUME NEW c \in Callers, VerifiedOtherwise(c) PROVE Goal
  BY <1>10 DEF VerifiedOtherwise
<1>11. ASSUME NEW c \in Callers, TaskStarts(c) PROVE Goal
  BY <1>11 DEF TaskStarts
<1>12. ASSUME NEW c \in Callers, Broadcast(c) PROVE Goal
  BY <1>1, <1>12 DEF Broadcast, TypeOK
<1>13. ASSUME NEW c \in Callers, SendEnds(c) PROVE Goal
  <2>1. PICK o \in Values \cup {Error} : SendEffect(c, o)
    BY <1>13, SendEndsEffect
  <2>2. key[c] \in Keys /\ key' = key
    BY <2>1, InsideOwns DEF SendEffect
  <2>3. InValues(o) => Made(key[c])'
    <3>1. CASE tx[c] = "mined"
      BY <1>5, <3>1
    <3>2. CASE o # Error /\ tx[c] = "reverted"
      BY <2>1, <2>2, <3>2 DEF SendEffect, Made
    <3>3. QED BY <1>2, <2>1, <3>1, <3>2 DEF SendEffect
  <2>4. \A k \in Keys : k = key[c] /\ InValues(o) => Made(k)'
    BY <2>2, <2>3 DEF Made
  <2>5. /\ UNCHANGED <<verdict, tx>>
        /\ \A d \in Callers : /\ out'[d] = out[d] \/ (d = c /\ out'[d] = o)
                              /\ settles'[d] = settles[d] \/ (d = c /\ settles'[d] = o)
        /\ \A k \in Keys : value'[k] = value[k] \/ (k = key[c] /\ value'[k] = o)
    BY <1>1, <2>1 DEF SendEffect, TypeOK
  <2>6. QED BY <2>3, <2>4, <2>5
<1>14. ASSUME NEW c \in Callers, TimesOut(c) PROVE Goal
  BY <1>1, <1>2, <1>14 DEF TimesOut, Returns, TypeOK
<1>15. ASSUME NEW c \in Callers, FollowerReturns(c) PROVE Goal
  <2>1. PICK d \in Callers : leader[c] = d /\ key[d] = key[c] /\ key' = key
    BY <1>1, <1>15 DEF FollowerReturns, Present, TypeOK
  <2>2. InValues(settles[d]) => Made(key[d])'
    BY <1>5
  <2>3. InValues(settles[leader[c]]) => Made(key[c])'
    BY <2>1, <2>2 DEF Made
  <2>4. QED BY <1>1, <1>15, <2>3 DEF FollowerReturns, Returns, TypeOK
<1>16. CASE Chain
  <2>1. UNCHANGED <<value, settles, out, verdict>>
    BY <1>16 DEF Chain, Mine, Drop, RoyaltiesAccrue, KeeperSweeps, SymbolTaken
  <2>2. ASSUME NEW c \in Callers, Mine(c) PROVE Goal
    <3>1. key[c] \in Keys /\ key' = key
      BY <1>1, <2>2 DEF Mine, Fresh, TypeOK
    <3>2. \A d \in Callers : d # c => tx'[d] = tx[d]
      BY <1>1, <2>2 DEF Mine, TypeOK
    <3>3. tx'[c] = "mined" => Made(key[c])'
      BY <1>1, <2>2, <3>1, KeysAssumption DEF Mine, Made, TypeOK
    <3>4. QED BY <2>1, <3>2, <3>3
  <2>3. ASSUME NEW c \in Callers, Drop(c) PROVE Goal
    BY <1>1, <2>1, <2>3 DEF Drop, TypeOK
  <2>4. ASSUME tx' = tx PROVE Goal
    BY <2>1, <2>4
  <2>5. QED
    BY <1>16, <2>2, <2>3, <2>4 DEF Chain, RoyaltiesAccrue, KeeperSweeps, SymbolTaken
<1>17. CASE Restart
  BY <1>2, <1>17 DEF Restart
<1>18. CASE UNCHANGED vars
  BY <1>18 DEF vars
<1>19. QED
  BY <1>7, <1>8, <1>9, <1>10, <1>11, <1>12, <1>13, <1>14, <1>15, <1>16, <1>17, <1>18
     DEF Next, Verified

(* What happened since it was asked for stays so: an obligation is entered  *)
(* only by the call itself.                                                 *)
LEMMA ActedStays ==
  ASSUME Base, [Next]_vars, NEW d \in Callers, pc[d] # "idle", d \notin owed
  PROVE  d \notin owed'
<1> USE DEF ledgerVars, callVars, laneVars, chainVars
<1>1. ASSUME NEW c \in Callers, NEW k \in Keys, Run(c, k) PROVE d \notin owed'
  BY <1>1 DEF Run, RunReplays, RunAttaches, RunVerifies, RunSends, Claim, Calls
<1>2. ASSUME NEW c \in Callers, ReadBack(c) \/ Verified(c) \/ TaskStarts(c) \/ Broadcast(c)
      PROVE  owed' = owed
  BY <1>2 DEF ReadBack, Verified, VerifiedCommitted, VerifiedOtherwise, TaskStarts, Broadcast
<1>3. ASSUME NEW c \in Callers, SendEnds(c) \/ TimesOut(c) \/ FollowerReturns(c)
      PROVE  owed' = owed
  BY <1>3 DEF SendEnds, Receipt, SendFails, Fulfils, Rejects, TimesOut, FollowerReturns
<1>4. CASE Chain
  BY <1>4 DEF Chain, Mine, Drop, RoyaltiesAccrue, KeeperSweeps, SymbolTaken
<1>5. CASE Restart \/ UNCHANGED vars
  BY <1>5 DEF Restart, vars
<1>6. QED BY <1>1, <1>2, <1>3, <1>4, <1>5 DEF Next

LEMMA OwedStep == ASSUME Base, Fresh, OwedInv, [Next]_vars PROVE OwedInv'
<1> USE NoneAssumption, KeysAssumption DEF ledgerVars, callVars, laneVars, chainVars
<1>1. TypeOK
  BY DEF Base, Typed
<1>2. ASSUME NEW c \in Callers, NEW k \in Keys, Run(c, k) PROVE OwedInv'
  <2>1. /\ pc[c] = "idle" /\ key' = [key EXCEPT ![c] = k] /\ tx' = tx /\ ready' = ready
        /\ owed' = (IF Done(k) THEN owed ELSE owed \cup {c})
        /\ \A d \in Callers : d # c => pc'[d] = pc[d]
    BY <1>1, <1>2 DEF Run, RunReplays, RunAttaches, RunVerifies, RunSends, Claim, Calls, TypeOK
  <2>2. tx[c] = "none" /\ c \notin owed
    BY <2>1 DEF Fresh
  <2>3. \A d \in Callers : d # c => key'[d] = key[d]
    BY <1>1, <2>1 DEF TypeOK
  <2>4. key'[c] = k /\ (c \in owed' => ~Done(k))
    BY <1>1, <2>1, <2>2 DEF TypeOK
  <2>5. QED BY <1>1, <2>1, <2>2, <2>3, <2>4 DEF OwedInv, Done, TypeOK
<1>3. ASSUME NEW c \in Callers, ReadBack(c) \/ Verified(c) \/ TaskStarts(c) \/ TimesOut(c)
                                \/ FollowerReturns(c)
      PROVE  OwedInv'
  <2>1. UNCHANGED <<key, tx, ready, owed>> /\ \A d \in Callers : pc'[d] # "idle" => pc[d] # "idle"
    BY <1>1, <1>3 DEF ReadBack, Verified, VerifiedCommitted, VerifiedOtherwise, Returns,
                      TaskStarts, TimesOut, FollowerReturns, TypeOK
  <2>2. QED BY <2>1 DEF OwedInv
<1>4. ASSUME NEW c \in Callers, Broadcast(c) PROVE OwedInv'
  BY <1>1, <1>4 DEF Broadcast, OwedInv, TypeOK
<1>5. ASSUME NEW c \in Callers, SendEnds(c) PROVE OwedInv'
  <2>1. PICK o \in Values \cup {Error} : SendEffect(c, o)
    BY <1>5, SendEndsEffect
  <2>2. pc[c] # "idle"
    BY <2>1, InsideOwns DEF SendEffect
  <2>3. QED BY <1>1, <2>1, <2>2 DEF SendEffect, OwedInv, TypeOK
<1>6. CASE Chain
  <2>1. ASSUME NEW c \in Callers, Mine(c) PROVE OwedInv'
    <3>1. key[c] \in Keys /\ KindOf[key[c]] \in Kinds
      BY <1>1, <2>1 DEF Mine, Fresh, TypeOK
    <3>2. \A d \in Callers : tx'[d] = "reverted" => KindOf[key[d]] # "heartbeat"
      BY <1>1, <2>1, <3>1 DEF Mine, Sendable, OwedInv, Kinds, TypeOK
    <3>3. ASSUME NEW d \in Callers, pc[d] # "idle", d \in owed', KindOf[key[d]] = "sweep"
          PROVE  TargetOf[key[d]] \in ready'
      <4>1. d \in owed /\ TargetOf[key[d]] \in ready /\ key[d] # None
        BY <2>1, <3>3 DEF Mine, OwedInv, Fresh
      <4>2. CASE Sendable(key[c])
        BY <2>1, <3>3, <4>1, <4>2 DEF Mine, Obliged
      <4>3. CASE ~Sendable(key[c])
        BY <2>1, <4>1, <4>3 DEF Mine, Sendable
      <4>4. QED BY <4>2, <4>3
    <3>4. QED BY <2>1, <3>2, <3>3 DEF Mine, OwedInv
  <2>2. ASSUME NEW c \in Callers, Drop(c) PROVE OwedInv'
    BY <1>1, <2>2 DEF Drop, OwedInv, TypeOK
  <2>3. ASSUME NEW t \in Targets, RoyaltiesAccrue(t) PROVE OwedInv'
    BY <2>3 DEF RoyaltiesAccrue, OwedInv
  <2>4. ASSUME NEW k \in Keys, KeeperSweeps(k) PROVE OwedInv'
    BY <2>4 DEF KeeperSweeps, Obliged, OwedInv, Fresh
  <2>5. ASSUME NEW k \in Keys, SymbolTaken(k) PROVE OwedInv'
    BY <2>5 DEF SymbolTaken, OwedInv
  <2>6. QED BY <1>6, <2>1, <2>2, <2>3, <2>4, <2>5 DEF Chain
<1>7. CASE Restart
  <2>1. UNCHANGED <<key, tx, ready, owed>> /\ \A d \in Callers : pc'[d] # "idle" => pc[d] # "idle"
    BY <1>1, <1>7 DEF Restart, Active, TypeOK
  <2>2. QED BY <2>1 DEF OwedInv
<1>8. CASE UNCHANGED vars
  BY <1>8 DEF vars, OwedInv
<1>9. QED BY <1>2, <1>3, <1>4, <1>5, <1>6, <1>7, <1>8 DEF Next

(* Whatever stands for an act, a value, a verdict or a transaction, stands  *)
(* for one that happened after it was asked for.                            *)
LEMMA ActedStep ==
  ASSUME Base, Fresh, OwedInv, ActedInv, [Next]_vars PROVE ActedInv'
<1> USE NoneAssumption DEF ledgerVars, callVars, laneVars, chainVars
<1>1. TypeOK
  BY DEF Base, Typed
<1>2. ~InValues(None) /\ ~InValues(Error) /\ ~InValues(Timeout)
  BY DEF InValues, Error, Timeout
<1>3. \A v \in Values : v.by \in Callers
  BY ValuesType
<1>4. ASSUME NEW d \in Callers, Acted(d) PROVE Acted(d)'
  <2>1. key'[d] = key[d] /\ pc'[d] # "idle"
    BY <1>4, KeyStays DEF Acted
  <2>2. d \notin owed => d \notin owed'
    BY <1>4, ActedStays DEF Acted
  <2>3. QED BY <1>4, <2>1, <2>2 DEF Acted
<1>5. \A k \in Keys : value[k] \in Values \cup {None}
  BY <1>1 DEF TypeOK
<1>6. \A c \in Callers : \A v \in {out[c], settles[c]} : v \in Values \cup {Error, Timeout, None}
  BY <1>1 DEF TypeOK
<1> DEFINE Stood == {d \in Callers : Acted(d)'}
           Stands(v) == InValues(v) => v.by \in Stood
           Happened(c) == verdict[c] = "committed" \/ tx[c] \in {"mined", "reverted"}
(* What stood for an act before the step still does.                        *)
<1>7. /\ \A k \in Keys : Stands(value[k])
      /\ \A c \in Callers : Stands(out[c]) /\ Stands(settles[c])
      /\ \A c \in Callers : Happened(c) => c \in Stood
  <2>1. \A d \in Callers : Acted(d) => d \in Stood
    BY <1>4
  <2>2. \A k \in Keys : InValues(value[k]) => value[k].by \in Callers
    BY <1>2, <1>3, <1>5
  <2>3. \A c \in Callers : \A v \in {out[c], settles[c]} : InValues(v) => v.by \in Callers
    BY <1>2, <1>3, <1>6
  <2>4. \A d \in Callers : Happened(d) => d \in Stood
    BY <2>1 DEF ActedInv
  <2>5. \A k \in Keys : Stands(value[k])
    BY <2>1, <2>2 DEF ActedInv
  <2>6. \A c \in Callers : Stands(out[c]) /\ Stands(settles[c])
    BY <2>1, <2>3 DEF ActedInv
  <2>7. QED BY <2>4, <2>5, <2>6
<1> DEFINE Goal == /\ \A k \in Keys : value'[k] = value[k] \/ Stands(value'[k])
                   /\ \A c \in Callers : out'[c] = out[c] \/ Stands(out'[c])
                   /\ \A c \in Callers : settles'[c] = settles[c] \/ Stands(settles'[c])
                   /\ \A c \in Callers : Happened(c)' => Happened(c) \/ c \in Stood
(* It is enough to look at what is new.                                     *)
<1>8. ASSUME Goal PROVE ActedInv'
  <2>1. /\ \A k \in Keys : Stands(value'[k])
        /\ \A c \in Callers : Stands(out'[c]) /\ Stands(settles'[c])
        /\ \A c \in Callers : Happened(c)' => c \in Stood
    BY <1>7, <1>8
  <2>2. \A d \in Stood : Acted(d)'
    OBVIOUS
  <2>3. ASSUME NEW k \in Keys, InValues(value'[k]) PROVE Acted(value[k].by)'
    BY <2>1, <2>3 DEF Acted
  <2>4. ASSUME NEW c \in Callers, NEW v \in {out'[c], settles'[c]}, InValues(v)
        PROVE  v.by \in Stood
    BY <2>1, <2>4
  <2>5. QED BY <2>1, <2>2, <2>3, <2>4 DEF ActedInv, Acted, InValues
<1>9. ASSUME NEW c \in Callers, NEW k \in Keys, Run(c, k) PROVE Goal
  <2>1. UNCHANGED <<value, settles, verdict, tx>>
    BY <1>9 DEF Run, RunReplays, RunAttaches, RunVerifies, RunSends, Claim, Calls
  <2>2. out' = out \/ out' = [out EXCEPT ![c] = value[k]]
    BY <1>9 DEF Run, RunReplays, RunAttaches, RunVerifies, RunSends
  <2>3. QED BY <1>1, <1>7, <2>1, <2>2 DEF TypeOK
<1>10. ASSUME NEW c \in Callers, ReadBack(c) PROVE Goal
  <2>1. UNCHANGED <<value, settles, out, tx, key, owed, pc>> /\ pc[c] # "idle" /\ key[c] \in Keys
    BY <1>10 DEF ReadBack, Fresh
  <2>2. \A d \in Callers : d # c => verdict'[d] = verdict[d]
    BY <1>1, <1>10 DEF ReadBack, TypeOK
  <2>3. verdict'[c] = "committed" => Committed(key[c])
    BY <1>1, <1>10 DEF ReadBack, TypeOK
  <2>4. Committed(key[c]) => Acted(c)
    BY <2>1 DEF Committed, Acted, OwedInv
  <2>5. Acted(c) => c \in Stood
    BY <1>4
  <2>6. QED BY <2>1, <2>2, <2>3, <2>4, <2>5
<1>11. ASSUME NEW c \in Callers, VerifiedCommitted(c) PROVE Goal
  <2>1. c \in Stood
    BY <1>7, <1>11 DEF VerifiedCommitted
  <2>2. PICK v : v = [how |-> "verified", by |-> c]
    OBVIOUS
  <2>3. Stands(v)
    BY <2>1, <2>2
  <2>4. /\ UNCHANGED <<verdict, tx>>
        /\ value' = [value EXCEPT ![key[c]] = v]
        /\ settles' = [settles EXCEPT ![c] = v]
        /\ out' = [out EXCEPT ![c] = v]
    BY <1>11, <2>2 DEF VerifiedCommitted, Returns
  <2>5. QED BY <1>1, <2>3, <2>4 DEF TypeOK
<1>12. ASSUME NEW c \in Callers, VerifiedOtherwise(c) \/ TaskStarts(c) PROVE Goal
  BY <1>12 DEF VerifiedOtherwise, TaskStarts
<1>13. ASSUME NEW c \in Callers, Broadcast(c) PROVE Goal
  BY <1>1, <1>13 DEF Broadcast, TypeOK
<1>14. ASSUME NEW c \in Callers, SendEnds(c) PROVE Goal
  <2>1. PICK o \in Values \cup {Error} : SendEffect(c, o)
    BY <1>14, SendEndsEffect
  <2>2. Stands(o)
    BY <1>2, <1>7, <2>1 DEF SendEffect
  <2>3. UNCHANGED <<verdict, tx>>
    BY <2>1 DEF SendEffect
  <2>4. \A k \in Keys : value'[k] = value[k] \/ value'[k] = o
    BY <1>1, <2>1 DEF SendEffect, TypeOK
  <2>5. \A d \in Callers : (out'[d] = out[d] \/ out'[d] = o)
                           /\ (settles'[d] = settles[d] \/ settles'[d] = o)
    BY <1>1, <2>1 DEF SendEffect, TypeOK
  <2>6. QED BY <2>2, <2>3, <2>4, <2>5
<1>15. ASSUME NEW c \in Callers, TimesOut(c) PROVE Goal
  BY <1>1, <1>2, <1>15 DEF TimesOut, Returns, TypeOK
<1>16. ASSUME NEW c \in Callers, FollowerReturns(c) PROVE Goal
  BY <1>1, <1>7, <1>16 DEF FollowerReturns, Returns, TypeOK
<1>17. ASSUME Chain PROVE Goal
  <2>1. UNCHANGED <<value, settles, out, verdict>>
    BY <1>17 DEF Chain, Mine, Drop, RoyaltiesAccrue, KeeperSweeps, SymbolTaken
  <2>2. ASSUME NEW c \in Callers, Mine(c) PROVE Goal
    <3>1. pc[c] # "idle" /\ key[c] \in Keys /\ KindOf[key[c]] \in Kinds /\ UNCHANGED <<key, pc>>
      BY <1>1, <2>2, KeysAssumption DEF Mine, Fresh, TypeOK
    <3>2. \A d \in Callers : d # c => tx'[d] = tx[d]
      BY <1>1, <2>2 DEF Mine, TypeOK
    <3>3. KindOf[key[c]] # "launch" => c \notin owed'
      <4>1. CASE Sendable(key[c])
        BY <2>2, <3>1, <4>1 DEF Mine, Obliged
      <4>2. CASE ~Sendable(key[c])
        BY <2>2, <3>1, <4>2 DEF Mine, Sendable, OwedInv, Kinds
      <4>3. QED BY <4>1, <4>2
    <3>4. c \in Stood
      BY <3>1, <3>3 DEF Acted
    <3>5. QED BY <2>1, <3>2, <3>4
  <2>3. ASSUME NEW c \in Callers, Drop(c) PROVE Goal
    BY <1>1, <2>1, <2>3 DEF Drop, TypeOK
  <2>4. ASSUME tx' = tx PROVE Goal
    BY <2>1, <2>4
  <2> HIDE DEF Goal
  <2>5. QED
    BY <1>17, <2>2, <2>3, <2>4 DEF Chain, RoyaltiesAccrue, KeeperSweeps, SymbolTaken
<1>18. ASSUME Restart PROVE Goal
  <2>1. UNCHANGED <<out, settles, verdict, tx>>
    BY <1>18 DEF Restart
  <2>2. \A k \in Keys : value'[k] = None
    BY <1>18 DEF Restart
  <2>3. QED BY <1>2, <2>1, <2>2
<1>19. ASSUME UNCHANGED vars PROVE Goal
  <2>1. UNCHANGED <<value, out, settles, verdict, tx>>
    BY <1>19 DEF vars
  <2>2. QED BY <2>1
<1> HIDE DEF Goal
<1>20. QED
  BY <1>8, <1>9, <1>10, <1>11, <1>12, <1>13, <1>14, <1>15, <1>16, <1>17, <1>18, <1>19
     DEF Next, Verified

AnswerInv == Fresh /\ Present /\ Agreed /\ MadeInv /\ OwedInv /\ ActedInv

(* What run answers with stands for something: the strengthening of the     *)
(* properties of answers, inductive over Typed and SendInv.                 *)
THEOREM AnswerInvariant == Spec => []AnswerInv
<1>1. Init => AnswerInv
  BY DEF Init, AnswerInv, Fresh, Present, Agreed, MadeInv, OwedInv, ActedInv, InValues
<1>2. Base /\ AnswerInv /\ [Next]_vars => AnswerInv'
  BY FreshStep, PresentStep, AgreedStep, MadeStep, OwedStep, ActedStep DEF AnswerInv
<1>3. Init => Typed
  BY DEF Init, Typed, OpenIsOwned, TypeOK, StatusValues, PcValues, Lane!LaneInit,
         Lane!LaneTypeOK, Lane!AtValues
<1>4. Typed /\ [Next]_vars => Typed'
  BY TypedStep
<1>5. Typed /\ SendInv => Base
  BY DEF Base
<1>6. QED BY <1>1, <1>2, <1>3, <1>4, <1>5, SendInvariant, PTL DEF Spec

(* AnswersAreTrue: all callers of a key that are told a value are told the  *)
(* same one, and the token of a launch that returned is on the chain under  *)
(* the intent's name (ExecuteLedger.run, verifyLaunch).                     *)
THEOREM TrueAnswers == Spec => []AnswersAreTrue
<1>1. AnswerInv => ValuesAgree
  BY DEF AnswerInv, Agreed, ValuesAgree
<1>2. AnswerInv => LaunchExists
  BY DEF AnswerInv, MadeInv, Made, LaunchExists
<1>3. QED BY <1>1, <1>2, AnswerInvariant, PTL DEF AnswersAreTrue

(* DirectAnswerActed: a sweep or a heartbeat answered by its own send or    *)
(* read-back has happened since it was asked for.                           *)
THEOREM AnswersActed == Spec => []DirectAnswerActed
<1>1. AnswerInv => DirectAnswerActed
  BY DEF AnswerInv, ActedInv, Acted, DirectAnswerActed
<1>2. QED BY <1>1, AnswerInvariant, PTL


-----------------------------------------------------------------------------
(* The tools use the wallet's lane as the lane is specified.                *)
THEOREM UsesLane == Spec => Lane!LaneSpec
<1>1. Init => Lane!LaneInit
  BY DEF Init
<1>2. [Next]_vars => [Lane!LaneNext]_(Lane!laneVars)
  <2> SUFFICES ASSUME [Next]_vars PROVE [Lane!LaneNext]_(Lane!laneVars)
    OBVIOUS
  <2> USE DEF ledgerVars, callVars, laneVars, chainVars, Lane!laneVars
  <2>1. ASSUME NEW c \in Callers, NEW k \in Keys, Run(c, k)
        PROVE  Lane!WithLock(c, Wallet) \/ UNCHANGED Lane!laneVars
    BY <2>1 DEF Run, RunReplays, RunAttaches, RunVerifies, RunSends
  <2>2. ASSUME NEW c \in Callers, ReadBack(c) \/ Verified(c)
        PROVE  Lane!WithLock(c, Wallet) \/ UNCHANGED Lane!laneVars
    BY <2>2 DEF ReadBack, Verified, VerifiedCommitted, VerifiedOtherwise
  <2>3. ASSUME NEW c \in Callers, TaskStarts(c) \/ Broadcast(c) \/ SendEnds(c)
        PROVE  \/ Lane!Begin(c)
               \/ \E how \in Lane!Outcomes : Lane!Settle(c, how)
               \/ UNCHANGED Lane!laneVars
    BY <2>3 DEF TaskStarts, Broadcast, SendEnds, Receipt, SendFails, Fulfils, Rejects,
                Lane!Outcomes
  <2>4. ASSUME NEW c \in Callers, TimesOut(c) \/ FollowerReturns(c)
        PROVE  UNCHANGED Lane!laneVars
    BY <2>4 DEF TimesOut, FollowerReturns
  <2>5. ASSUME Chain PROVE UNCHANGED Lane!laneVars
    BY <2>5 DEF Chain, Mine, Drop, RoyaltiesAccrue, KeeperSweeps, SymbolTaken
  <2>6. CASE Restart
    BY <2>6 DEF Restart, Lane!LaneNext
  <2>7. QED
    BY <2>1, <2>2, <2>3, <2>4, <2>5, <2>6 DEF Next, vars, Lane!LaneNext
<1>3. QED BY <1>1, <1>2, PTL DEF Spec, Lane!LaneSpec

LaneProofs == INSTANCE WalletLane_proofs WITH Wallets <- {Wallet}, Tasks <- Callers

(* Every unsettled task of the wallet has its lane.                         *)
LaneOfTasks == \A c \in Callers : at[c] # "idle" => lane[c] = Wallet

(* Every task of the tools is in the one lane of the configured wallet.     *)
LEMMA LanesAreTheWallets == Spec => []LaneOfTasks
<1>1. Init => LaneOfTasks
  BY DEF Init, LaneOfTasks, Lane!LaneInit
<1>2. Lane!LaneTypeOK /\ LaneOfTasks /\ [Lane!LaneNext]_(Lane!laneVars) => LaneOfTasks'
  BY DEF LaneOfTasks, Lane!LaneTypeOK, Lane!LaneNext, Lane!laneVars, Lane!WithLock,
         Lane!Begin, Lane!Settle, Lane!Forget, Lane!Unsettled
<1>3. TypeOK => Lane!LaneTypeOK
  BY DEF TypeOK
<1>4. QED BY <1>1, <1>2, <1>3, TypeCorrect, UsesLane, PTL DEF Spec, Lane!LaneSpec

(* SendsTakeTurns: the sequences from simulation to receipt of one wallet   *)
(* never interleave (withWalletLane), by the lane's own theorem.            *)
THEOREM TurnsAreTaken == Spec => []SendsTakeTurns
<1>1. Lane!LaneSpec => []Lane!OneInside
  <2>1. LaneProofs!LaneSpec => []LaneProofs!OneInside
    BY LaneProofs!LaneIsExclusive, NoneAssumption DEF LaneProofs!NoneIsNoTask
  <2>2. Lane!LaneInit => LaneProofs!LaneInit
    BY DEF Lane!LaneInit, LaneProofs!LaneInit
  <2>3. [Lane!LaneNext]_(Lane!laneVars) => [LaneProofs!LaneNext]_(LaneProofs!laneVars)
    BY DEF Lane!LaneNext, LaneProofs!LaneNext, Lane!laneVars, LaneProofs!laneVars,
           Lane!WithLock, LaneProofs!WithLock, Lane!Begin, LaneProofs!Begin,
           Lane!Settle, LaneProofs!Settle, Lane!Forget, LaneProofs!Forget,
           Lane!Unsettled, LaneProofs!Unsettled, Lane!Settled, LaneProofs!Settled,
           Lane!Outcomes, LaneProofs!Outcomes
  <2>4. LaneProofs!OneInside => Lane!OneInside
    BY DEF Lane!OneInside, LaneProofs!OneInside
  <2>5. QED BY <2>1, <2>2, <2>3, <2>4, PTL DEF Lane!LaneSpec, LaneProofs!LaneSpec
<1>2. LaneOfTasks /\ Lane!OneInside => SendsTakeTurns
  BY DEF LaneOfTasks, Lane!OneInside, SendsTakeTurns
<1>3. QED BY <1>1, <1>2, UsesLane, LanesAreTheWallets, PTL
=============================================================================
