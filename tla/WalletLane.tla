------------------------------ MODULE WalletLane ------------------------------
(***************************************************************************)
(* The exclusive lane of a wallet (dsh-wallet, WalletRuntime.withLock): a  *)
(* chain of promises.  Each task is chained on the promise stored for its  *)
(* wallet and stores its own settlement in its place, so it starts when    *)
(* the task before it has settled, however that task ended.                *)
(***************************************************************************)
CONSTANTS
  Wallets,  \* configured wallets
  Tasks,    \* calls of withLock
  None      \* no entry in a map

(* What the modules that instantiate this one guarantee of its parameters.  *)
NoneIsNoTask == None \notin Tasks

VARIABLES
  locks,  \* wallet -> the task whose settlement is the stored promise
  prior,  \* task -> the task it is chained on
  lane,   \* task -> its wallet
  at,     \* task -> where it is
  ahead   \* history: task -> the tasks unsettled in its lane when it came

laneVars == <<locks, prior, lane, at, ahead>>

Outcomes == {"fulfilled", "rejected"}
AtValues == {"idle", "queued", "inside", "gone"} \cup Outcomes
Unsettled(t) == at[t] \in {"queued", "inside"}
Settled(t) == at[t] \in Outcomes

LaneTypeOK ==
  /\ locks \in [Wallets -> Tasks \cup {None}]
  /\ prior \in [Tasks -> Tasks \cup {None}]
  /\ lane \in [Tasks -> Wallets \cup {None}]
  /\ at \in [Tasks -> AtValues]
  /\ ahead \in [Tasks -> SUBSET Tasks]

LaneInit ==
  /\ locks = [w \in Wallets |-> None]
  /\ prior = [t \in Tasks |-> None]
  /\ lane = [t \in Tasks |-> None]
  /\ at = [t \in Tasks |-> "idle"]
  /\ ahead = [t \in Tasks |-> {}]

(* Mutant: the stored promise is read and never replaced.                   *)
WithLockUnchained(t, w) ==
  /\ at[t] = "idle"
  /\ at' = [at EXCEPT ![t] = "queued"]
  /\ lane' = [lane EXCEPT ![t] = w]
  /\ prior' = [prior EXCEPT ![t] = locks[w]]
  /\ ahead' = [ahead EXCEPT ![t] = {u \in Tasks : lane[u] = w /\ Unsettled(u)}]
  /\ UNCHANGED locks

WithLock(t, w) ==
  /\ at[t] = "idle"
  /\ at' = [at EXCEPT ![t] = "queued"]
  /\ lane' = [lane EXCEPT ![t] = w]
  /\ prior' = [prior EXCEPT ![t] = locks[w]]
  /\ ahead' = [ahead EXCEPT ![t] = {u \in Tasks : lane[u] = w /\ Unsettled(u)}]
  /\ locks' = [locks EXCEPT ![w] = t]

Begin(t) ==
  /\ at[t] = "queued"
  /\ prior[t] # None => Settled(prior[t])
  /\ at' = [at EXCEPT ![t] = "inside"]
  /\ UNCHANGED <<locks, prior, lane, ahead>>

Settle(t, how) ==
  /\ at[t] = "inside"
  /\ at' = [at EXCEPT ![t] = how]
  /\ UNCHANGED <<locks, prior, lane, ahead>>

(* The process ends and the promises with it.                               *)
Forget ==
  /\ locks' = [w \in Wallets |-> None]
  /\ at' = [t \in Tasks |-> IF Unsettled(t) THEN "gone" ELSE at[t]]
  /\ UNCHANGED <<prior, lane, ahead>>

LaneNext ==
  \/ \E t \in Tasks, w \in Wallets : WithLock(t, w)
  \/ \E t \in Tasks : Begin(t)
  \/ \E t \in Tasks, how \in Outcomes : Settle(t, how)
  \/ Forget

LaneSpec == LaneInit /\ [][LaneNext]_laneVars

-----------------------------------------------------------------------------
(* "tasks for the same wallet run strictly in call order": a task inside    *)
(* the lane has no unsettled task ahead of it (withLock, index.ts:259).     *)
InCallOrder ==
  \A t \in Tasks : at[t] = "inside" => \A u \in ahead[t] : ~Unsettled(u)

(* Two sequences wrapped in one wallet's lane never interleave.             *)
OneInside ==
  \A t, u \in Tasks :
    at[t] = "inside" /\ at[u] = "inside" /\ lane[t] = lane[u] => t = u
=============================================================================
