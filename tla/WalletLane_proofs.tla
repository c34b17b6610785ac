-------------------------- MODULE WalletLane_proofs --------------------------
(***************************************************************************)
(* The wallet lane is first come, first served and exclusive, for any      *)
(* number of wallets and tasks.  The chain of promises has no queue to     *)
(* look at: the argument goes through `ahead`, the tasks a newcomer found  *)
(* unsettled.  Each of them is the task it is chained on or was ahead of   *)
(* that one, so when the chained one has settled all of them have.         *)
(***************************************************************************)
EXTENDS WalletLane, TLAPS

(* LaneTypeOK is an invariant of the lane.                                  *)
THEOREM LaneTypeCorrect == LaneSpec => []LaneTypeOK
<1>1. LaneInit => LaneTypeOK
  BY DEF LaneInit, LaneTypeOK, AtValues
<1>2. LaneTypeOK /\ [LaneNext]_laneVars => LaneTypeOK'
  <2> SUFFICES ASSUME LaneTypeOK, [LaneNext]_laneVars PROVE LaneTypeOK'
    OBVIOUS
  <2> USE DEF LaneTypeOK, AtValues
  <2>1. ASSUME NEW t \in Tasks, NEW w \in Wallets, WithLock(t, w) PROVE LaneTypeOK'
    BY <2>1 DEF WithLock
  <2>2. ASSUME NEW t \in Tasks, Begin(t) PROVE LaneTypeOK'
    BY <2>2 DEF Begin
  <2>3. ASSUME NEW t \in Tasks, NEW how \in Outcomes, Settle(t, how) PROVE LaneTypeOK'
    BY <2>3 DEF Settle
  <2>4. CASE Forget
    BY <2>4 DEF Forget
  <2>5. QED BY <2>1, <2>2, <2>3, <2>4 DEF LaneNext, laneVars
<1>3. QED BY <1>1, <1>2, PTL DEF LaneSpec

-----------------------------------------------------------------------------
(* Whoever is ahead of a task came before it.                               *)
AheadCame ==
  \A t \in Tasks : \A u \in ahead[t] : at[u] # "idle"

(* The stored promise stands for everything unsettled in its lane.          *)
LockCovers ==
  \A w \in Wallets, u \in Tasks :
    lane[u] = w /\ Unsettled(u) =>
      /\ locks[w] # None
      /\ u = locks[w] \/ u \in ahead[locks[w]]

(* The promise a queued task is chained on stands for all that is ahead.    *)
PriorCovers ==
  \A t \in Tasks : at[t] = "queued" =>
    \A u \in ahead[t] : Unsettled(u) =>
      /\ prior[t] # None
      /\ u = prior[t] \/ u \in ahead[prior[t]]

Referenced ==
  /\ \A w \in Wallets : locks[w] # None => at[locks[w]] # "idle"
  /\ \A t \in Tasks : prior[t] # None => at[prior[t]] # "idle"

(* A task that has started has nothing unsettled ahead.                     *)
StartedInOrder ==
  \A t \in Tasks : at[t] = "inside" \/ Settled(t) => \A u \in ahead[t] : ~Unsettled(u)

(* Of two unsettled tasks of one lane, one is ahead of the other.           *)
Comparable ==
  \A t, u \in Tasks :
    Unsettled(t) /\ Unsettled(u) /\ lane[t] = lane[u] /\ t # u
      => t \in ahead[u] \/ u \in ahead[t]

LaneInv ==
  /\ AheadCame
  /\ LockCovers
  /\ PriorCovers
  /\ Referenced
  /\ StartedInOrder
  /\ Comparable

(* An empty lane satisfies the invariant.                                   *)
LEMMA LaneInvInit == LaneInit => LaneInv
BY DEF LaneInit, LaneInv, AheadCame, LockCovers, PriorCovers, Referenced, StartedInOrder,
       Comparable, Unsettled, Settled, Outcomes

(* Every step of the lane keeps the invariant.                              *)
LEMMA LaneInvStep ==
  ASSUME NoneIsNoTask, LaneTypeOK, LaneInv, [LaneNext]_laneVars
  PROVE  LaneInv'
<1> USE DEF NoneIsNoTask, LaneTypeOK, AtValues, Unsettled, Settled, Outcomes
<1>1. ASSUME NEW t \in Tasks, NEW w \in Wallets, WithLock(t, w) PROVE LaneInv'
  <2> USE <1>1 DEF WithLock, LaneInv
  <2>1. /\ t \notin ahead'[t]
        /\ \A x \in Tasks : x # t => t \notin ahead[x] /\ ahead'[x] = ahead[x]
    BY DEF AheadCame
  <2>2. AheadCame'
    BY <2>1 DEF AheadCame
  <2>3. LockCovers'
    BY <2>1 DEF LockCovers, Referenced
  <2>4. PriorCovers'
    BY <2>1 DEF PriorCovers, LockCovers, Referenced
  <2>5. Referenced'
    BY DEF Referenced
  <2>6. StartedInOrder'
    BY <2>1 DEF StartedInOrder
  <2>7. Comparable'
    BY <2>1 DEF Comparable
  <2>8. QED BY <2>2, <2>3, <2>4, <2>5, <2>6, <2>7
<1>2. ASSUME NEW t \in Tasks, Begin(t) PROVE LaneInv'
  <2> USE <1>2 DEF Begin, LaneInv
  <2>1. \A u \in ahead[t] : ~Unsettled(u)
    BY DEF PriorCovers, StartedInOrder
  <2>2. AheadCame' /\ Referenced'
    BY DEF AheadCame, Referenced
  <2>3. LockCovers'
    BY DEF LockCovers
  <2>4. PriorCovers'
    BY DEF PriorCovers
  <2>5. StartedInOrder'
    BY <2>1 DEF StartedInOrder, AheadCame
  <2>6. Comparable'
    BY DEF Comparable
  <2>7. QED BY <2>2, <2>3, <2>4, <2>5, <2>6
<1>3. ASSUME NEW t \in Tasks, NEW how \in Outcomes, Settle(t, how) PROVE LaneInv'
  <2> USE <1>3 DEF Settle, LaneInv
  <2>1. AheadCame' /\ Referenced'
    BY DEF AheadCame, Referenced
  <2>2. LockCovers'
    BY DEF LockCovers
  <2>3. PriorCovers'
    BY DEF PriorCovers
  <2>4. StartedInOrder'
    BY DEF StartedInOrder
  <2>5. Comparable'
    BY DEF Comparable
  <2>6. QED BY <2>1, <2>2, <2>3, <2>4, <2>5
<1>4. CASE Forget
  <2> USE <1>4 DEF Forget, LaneInv
  <2>1. AheadCame' /\ Referenced'
    BY DEF AheadCame, Referenced
  <2>2. LockCovers' /\ PriorCovers' /\ Comparable'
    BY DEF LockCovers, PriorCovers, Comparable
  <2>3. StartedInOrder'
    BY DEF StartedInOrder
  <2>4. QED BY <2>1, <2>2, <2>3
<1>5. CASE UNCHANGED laneVars
  BY <1>5 DEF laneVars, LaneInv, AheadCame, LockCovers, PriorCovers, Referenced,
              StartedInOrder, Comparable
<1>6. QED BY <1>1, <1>2, <1>3, <1>4, <1>5 DEF LaneNext

(* The invariant behind the order of the lane holds in every reachable      *)
(* state.                                                                   *)
THEOREM LaneInvariant ==
  ASSUME NoneIsNoTask
  PROVE  LaneSpec => []LaneInv
<1>1. LaneTypeOK /\ LaneInv /\ [LaneNext]_laneVars => LaneInv'
  BY LaneInvStep
<1>2. QED BY <1>1, LaneInvInit, LaneTypeCorrect, PTL DEF LaneSpec

(* InCallOrder: no task starts while one that came before it to the same    *)
(* lane is unsettled (withLock chains every task on the one before it).     *)
THEOREM LaneIsFirstComeFirstServed ==
  ASSUME NoneIsNoTask
  PROVE  LaneSpec => []InCallOrder
<1>1. LaneInv => InCallOrder
  BY DEF LaneInv, StartedInOrder, InCallOrder
<1>2. QED BY <1>1, LaneInvariant, PTL

(* OneInside: two critical sections of one wallet never overlap, whatever   *)
(* rejects and whenever the process dies (withLock).                        *)
THEOREM LaneIsExclusive ==
  ASSUME NoneIsNoTask
  PROVE  LaneSpec => []OneInside
<1>1. LaneInv => OneInside
  BY DEF LaneInv, StartedInOrder, Comparable, OneInside, Unsettled
<1>2. QED BY <1>1, LaneInvariant, PTL
=============================================================================
