----------------------------- MODULE Erc8004_proofs -----------------------------
(***************************************************************************)
(* Proofs about registration: types, one live registration of a URI, and   *)
(* answers that name the agent their transaction minted.                   *)
(***************************************************************************)
EXTENDS Erc8004, FiniteSetTheorems, TLAPS

-----------------------------------------------------------------------------
(* The shape of a step of one caller.                                       *)

(* Everybody but c stays where it is.                                       *)
Elsewhere(c) ==
  \A d \in Callers \ {c} : pc'[d] = pc[d] /\ my'[d] = my[d] /\ out'[d] = out[d]

CallType ==
  /\ pc' \in [Callers -> PcValues]
  /\ my' \in [Callers -> Locals]
  /\ out' \in [Callers -> Registration \cup Verdicts \cup {None}]

(* The locals of an activation that stands nowhere.                         *)
LEMMA BlankType == Blank \in Locals
BY BoundAssumption DEF Blank, Locals, Txs

(* Other locals of a caller: another hash, goal, nonce or wait.             *)
LEMMA LocalsType ==
  ASSUME NEW m \in Locals
  PROVE  /\ \A h \in Txs \cup {None} : [m EXCEPT !.hash = h] \in Locals
         /\ \A h \in Txs \cup {None}, g \in {"register", "check"} :
              [m EXCEPT !.goal = g, !.hash = h] \in Locals
         /\ \A n \in 0..MaxTx : [m EXCEPT !.nonce = n] \in Locals
         /\ \A w \in Callers \cup {None} : [m EXCEPT !.wait = w] \in Locals
<1>1. \A h \in Txs \cup {None} : [m EXCEPT !.hash = h] \in Locals
  BY DEF Locals
<1>2. \A h \in Txs \cup {None}, g \in {"register", "check"} :
        [m EXCEPT !.goal = g, !.hash = h] \in Locals
  BY DEF Locals
<1>3. \A n \in 0..MaxTx : [m EXCEPT !.nonce = n] \in Locals
  BY DEF Locals
<1>4. \A w \in Callers \cup {None} : [m EXCEPT !.wait = w] \in Locals
  BY DEF Locals
<1> QED
  BY <1>1, <1>2, <1>3, <1>4

(* A caller that returns or throws.                                         *)
LEMMA ReturnsEffect ==
  ASSUME TypeOK, NEW c \in Callers, NEW o \in Registration \cup Verdicts, Returns(c, o)
  PROVE  /\ CallType /\ Elsewhere(c)
         /\ pc'[c] = "returned" /\ my'[c] = Blank /\ out'[c] = o
<1>1. pc \in [Callers -> PcValues] /\ my \in [Callers -> Locals]
      /\ out \in [Callers -> Registration \cup Verdicts \cup {None}]
  BY DEF TypeOK
<1>2. pc' = [pc EXCEPT ![c] = "returned"] /\ "returned" \in PcValues
  BY DEF Returns, To, PcValues
<1>3. out' = [out EXCEPT ![c] = o] /\ my' = [my EXCEPT ![c] = Blank]
  BY DEF Returns
<1> QED
  BY <1>1, <1>2, <1>3, BlankType DEF CallType, Elsewhere

(* A caller that queues with the given hash.                                *)
LEMMA GoneEffect ==
  ASSUME TypeOK, NEW c \in Callers, NEW for \in {"register", "check"}, Gone(c, for)
  PROVE  /\ CallType /\ Elsewhere(c) /\ my'[c] = Blank
         /\ \/ pc'[c] = "queued" /\ lane' = Append(lane, c) /\ out' = out
            \/ pc'[c] = "returned" /\ lane' = lane /\ out'[c] = Proceed
<1>1. CASE Queue(c, lane) /\ my' = [my EXCEPT ![c] = Blank]
  <2>1. pc' = [pc EXCEPT ![c] = "queued"] /\ "queued" \in PcValues
    BY <1>1 DEF Queue, To, PcValues
  <2> QED
    BY <1>1, <2>1, BlankType DEF Queue, CallType, Elsewhere, TypeOK
<1>2. CASE Returns(c, Proceed) /\ lane' = lane
  BY <1>2, ReturnsEffect DEF Verdicts
<1> QED
  BY <1>1, <1>2 DEF Gone

(* Where resolveAttempt leads up to its first await.                        *)
LEMMA ResolveEffect ==
  ASSUME TypeOK, NEW c \in Callers, NEW u \in Uris, NEW for \in {"register", "check"},
         attempts[u] # None, Resolve(c, u, for)
  PROVE  /\ CallType /\ Elsewhere(c)
         /\ \/ /\ Settled(u) /\ pc'[c] = "returned" /\ my'[c] = Blank /\ lane' = lane
               /\ out'[c] = [agent |-> attempts[u].agent, hash |-> attempts[u].hash]
            \/ pc'[c] = "queued" /\ my'[c] = Blank /\ lane' = Append(lane, c) /\ out' = out
            \/ pc'[c] = "returned" /\ my'[c] = Blank /\ lane' = lane /\ out'[c] = Proceed
            \/ /\ Outstanding(u) /\ pc'[c] = "receipt" /\ lane' = lane /\ out' = out
               /\ my'[c].hash = attempts[u].hash /\ my'[c].nonce = my[c].nonce
<1>1. CASE /\ Settled(u)
           /\ Returns(c, [agent |-> attempts[u].agent, hash |-> attempts[u].hash])
           /\ UNCHANGED lane
  <2>1. attempts[u] \in Record
    BY DEF TypeOK
  <2>2. [agent |-> attempts[u].agent, hash |-> attempts[u].hash] \in Registration
    BY <2>1 DEF Record, Registration
  <2> QED
    BY <1>1, <2>2, ReturnsEffect
<1>2. CASE Gone(c, for)
  BY <1>2, GoneEffect
<1>3. CASE /\ Outstanding(u)
           /\ To(c, "receipt")
           /\ my' = [my EXCEPT ![c].goal = for, ![c].hash = attempts[u].hash]
           /\ UNCHANGED <<lane, out>>
  <2> DEFINE m == [my[c] EXCEPT !.goal = for, !.hash = attempts[u].hash]
  <2>1. my \in [Callers -> Locals] /\ attempts[u].hash \in Txs
    BY <1>3 DEF TypeOK, Record, Outstanding
  <2>2. m \in Locals /\ m.hash = attempts[u].hash /\ m.nonce = my[c].nonce
    BY <2>1, LocalsType, ZenonT(90) DEF Locals
  <2>3. my' = [my EXCEPT ![c] = m]
    BY <1>3
  <2>4. pc' = [pc EXCEPT ![c] = "receipt"] /\ "receipt" \in PcValues
    BY <1>3 DEF To, PcValues, Looking
  <2> HIDE DEF m
  <2> QED
    BY <1>3, <2>1, <2>2, <2>3, <2>4 DEF TypeOK, CallType, Elsewhere
<1> QED
  BY <1>1, <1>2, <1>3 DEF Resolve

(* A caller that takes up another hash.                                     *)
LEMMA HoldingEffect ==
  ASSUME TypeOK, NEW c \in Callers, NEW h \in Txs \cup {None}, NEW w \in PcValues,
         Holding(c, h), To(c, w), out' = out
  PROVE  /\ CallType /\ Elsewhere(c)
         /\ pc'[c] = w /\ my'[c].hash = h /\ my'[c].nonce = my[c].nonce
<1> DEFINE m == [my[c] EXCEPT !.hash = h]
<1>1. my \in [Callers -> Locals] /\ my[c] \in Locals
  BY DEF TypeOK
<1>2. m \in Locals /\ m.hash = h /\ m.nonce = my[c].nonce
  BY <1>1, LocalsType DEF Locals
<1>3. my' = [my EXCEPT ![c] = m]
  BY DEF Holding
<1> HIDE DEF m
<1> QED
  BY <1>1, <1>2, <1>3 DEF TypeOK, CallType, Elsewhere, To

(* A caller that only goes on.                                              *)
LEMMA ToEffect ==
  ASSUME TypeOK, NEW c \in Callers, NEW w \in PcValues, To(c, w), UNCHANGED <<my, out>>
  PROVE  CallType /\ Elsewhere(c) /\ pc'[c] = w
BY DEF TypeOK, CallType, Elsewhere, To

-----------------------------------------------------------------------------
(* Types.                                                                   *)

(* Nonces are counted by the transactions sent.                             *)
CountInv ==
  /\ confirmed <= Len(tx)
  /\ \A h \in Sent : tx[h].nonce < h
  /\ \A c \in Callers : my[c].nonce <= Len(tx)
  /\ past \in SUBSET (Callers \cup Sent)

(* Where activations hold a hash, and where they work on a record.          *)
Naming == {"sent", "receipt", "settle", "waiting"}
Resolving == Looking \cup {"settle", "waiting"}

(* An activation at work names its URI, the record it works on exists, and  *)
(* hashes name transactions this process sent for that URI.                 *)
CallOf(c) ==
  /\ Active(c) => uri[c] # None
  /\ my[c].hash # None => my[c].hash \in Sent \ past
  /\ pc[c] \in Naming => my[c].hash # None /\ tx[my[c].hash].uri = uri[c]
  /\ pc[c] \in Resolving => attempts[uri[c]] # None
  /\ pc[c] \notin Looking => seen[c] = "nothing"
  /\ pc[c] = "receipt" /\ seen[c] = "mined" => tx[my[c].hash].state = "mined"

CallInv == \A c \in Callers : CallOf(c)

(* Hashes on record name transactions this process sent for the URI, and a  *)
(* card leads to a record.                                                  *)
HashInv ==
  /\ \A u \in Uris : attempts[u] # None /\ attempts[u].hash # None =>
       attempts[u].hash \in Sent \ past /\ tx[attempts[u].hash].uri = u
  /\ \A u \in cards : attempts[u] # None

(* The facts about types that most steps use.                               *)
LEMMA Types ==
  ASSUME TypeOK, NEW c \in Callers
  PROVE  /\ pc[c] \in PcValues /\ my[c] \in Locals /\ uri[c] \in Uris \cup {None}
         /\ my[c].hash \in Txs \cup {None} /\ my[c].nonce \in 0..MaxTx
         /\ my[c].goal \in {"register", "check"} /\ my[c].wait \in Callers \cup {None}
         /\ Sent = 1..Len(tx) /\ Len(tx) \in Nat /\ Sent \subseteq Txs /\ MaxTx \in Nat
         /\ \A h \in Sent : tx[h] \in [uri : Uris, nonce : 0..MaxTx, state : TxStates]
         /\ \A u \in Uris : attempts[u] # None =>
              /\ attempts[u] \in Record
              /\ attempts[u].hash \in Txs \cup {None}
              /\ attempts[u].agent \in Txs \cup {None}
<1>1. my[c] \in Locals /\ pc[c] \in PcValues /\ uri[c] \in Uris \cup {None}
  BY DEF TypeOK
<1>2. tx \in Seq([uri : Uris, nonce : 0..MaxTx, state : TxStates]) /\ Len(tx) <= MaxTx
  BY DEF TypeOK
<1>3. Sent = 1..Len(tx) /\ Len(tx) \in Nat /\ Sent \subseteq Txs /\ MaxTx \in Nat
  BY <1>2, BoundAssumption DEF Sent, Txs
<1>4. ASSUME NEW h \in Sent PROVE tx[h] \in [uri : Uris, nonce : 0..MaxTx, state : TxStates]
  <2> DEFINE T == [uri : Uris, nonce : 0..MaxTx, state : TxStates]
  <2>1. tx \in Seq(T) /\ h \in 1..Len(tx)
    BY <1>2, <1>3, <1>4
  <2> HIDE DEF T
  <2>2. tx[h] \in T
    BY <2>1
  <2> QED
    BY <2>2 DEF T
<1>5. ASSUME NEW u \in Uris, attempts[u] # None
      PROVE  /\ attempts[u] \in Record
             /\ attempts[u].hash \in Txs \cup {None}
             /\ attempts[u].agent \in Txs \cup {None}
  BY <1>5 DEF TypeOK, Record
<1>6. /\ my[c].hash \in Txs \cup {None} /\ my[c].nonce \in 0..MaxTx
      /\ my[c].goal \in {"register", "check"} /\ my[c].wait \in Callers \cup {None}
  BY <1>1 DEF Locals
<1> QED
  BY <1>1, <1>3, <1>4, <1>5, <1>6

(* The ledger's part of the types.                                          *)
LedgerType ==
  /\ attempts' \in [Uris -> Record \cup {None}]
  /\ cards' \in SUBSET Uris
  /\ receipts' \in [Txs -> Callers \cup {None}]
  /\ misled' \in SUBSET Uris

(* What a caller's step outside the chain has to show for the types.        *)
LEMMA TypeFrom ==
  ASSUME TypeOK, CallType, LedgerType, UNCHANGED <<chainVars, past>>,
         lane' \in Seq(Callers), uri' \in [Callers -> Uris \cup {None}],
         seen' \in [Callers -> TxStates \cup {"missing", "found", "nothing"}]
  PROVE  TypeOK'
BY DEF TypeOK, CallType, LedgerType, chainVars, Sent

(* Watching the ledger keeps misled a set of URIs.                          *)
LEMMA WatchType ==
  ASSUME TypeOK, NEW u \in Uris, Watch(u)
  PROVE  misled' \in SUBSET Uris /\ misled \subseteq misled'
BY DEF TypeOK, Watch

(* Queueing.                                                                *)
LEMMA QueueEffect ==
  ASSUME TypeOK, NEW c \in Callers, Queue(c, lane), my' = my
  PROVE  /\ CallType /\ Elsewhere(c) /\ pc'[c] = "queued" /\ lane' = Append(lane, c)
BY ToEffect DEF Queue, PcValues

EnterActions(c, u) == Register(c, u) \/ RegisterAgent(c, u) \/ CheckRegister(c, u)

(* A new activation: it queues, stores the card, has its answer, or looks   *)
(* up the broadcast on record.                                              *)
LEMMA EnterEffect ==
  ASSUME TypeOK, HashInv, NEW c \in Callers, NEW u \in Uris, EnterActions(c, u)
  PROVE  /\ CallType /\ Elsewhere(c) /\ pc[c] = "idle" /\ uri' = [uri EXCEPT ![c] = u]
         /\ UNCHANGED <<attempts, cards, receipts, seen, tx, confirmed, misled, past>>
         /\ \/ /\ pc'[c] = "queued" /\ my'[c] \in {Blank, my[c]} /\ lane' = Append(lane, c)
               /\ out' = out
            \/ /\ pc'[c] = "pinning" /\ my' = my /\ lane' = lane /\ out' = out
            \/ /\ pc'[c] = "returned" /\ my'[c] = Blank /\ lane' = lane
               /\ \/ out'[c] \in Verdicts
                  \/ /\ Settled(u)
                     /\ out'[c] = [agent |-> attempts[u].agent, hash |-> attempts[u].hash]
            \/ /\ pc'[c] = "receipt" /\ lane' = lane /\ out' = out /\ Outstanding(u)
               /\ my'[c].hash = attempts[u].hash /\ my'[c].nonce = my[c].nonce
<1>1. /\ pc[c] = "idle" /\ uri' = [uri EXCEPT ![c] = u]
      /\ UNCHANGED <<attempts, cards, receipts, seen, tx, confirmed, misled, past>>
  BY DEF EnterActions, Register, RegisterAgent, CheckRegister, Enters, ledgerVars, chainVars
<1>2. CASE Register(c, u)
  BY <1>1, <1>2, QueueEffect DEF Register, Queue
<1>3. ASSUME NEW for \in {"register", "check"}, attempts[u] # None, Resolve(c, u, for)
      PROVE  /\ CallType /\ Elsewhere(c)
             /\ \/ /\ pc'[c] = "queued" /\ my'[c] \in {Blank, my[c]} /\ lane' = Append(lane, c)
                   /\ out' = out
                \/ /\ pc'[c] = "returned" /\ my'[c] = Blank /\ lane' = lane
                   /\ \/ out'[c] \in Verdicts
                      \/ /\ Settled(u)
                         /\ out'[c] = [agent |-> attempts[u].agent, hash |-> attempts[u].hash]
                \/ /\ pc'[c] = "receipt" /\ lane' = lane /\ out' = out /\ Outstanding(u)
                   /\ my'[c].hash = attempts[u].hash /\ my'[c].nonce = my[c].nonce
  <2>1. Proceed \in Verdicts
    BY DEF Verdicts
  <2> QED
    BY <1>3, <2>1, ResolveEffect
<1>4. CASE RegisterAgent(c, u)
  <2>1. CASE u \in cards /\ Resolve(c, u, "register")
    BY <1>1, <1>3, <2>1 DEF HashInv
  <2>2. CASE To(c, "pinning") /\ UNCHANGED <<lane, my, out>>
    BY <1>1, <2>2, ToEffect DEF PcValues
  <2> QED
    BY <1>4, <2>1, <2>2 DEF RegisterAgent
<1>5. CASE CheckRegister(c, u)
  <2>1. CASE attempts[u] # None /\ Resolve(c, u, "check")
    BY <1>1, <1>3, <2>1
  <2>2. CASE Returns(c, Unknown) /\ UNCHANGED lane
    <3>1. Unknown \in Verdicts
      BY DEF Verdicts
    <3> QED
      BY <1>1, <2>2, <3>1, ReturnsEffect
  <2> QED
    BY <1>5, <2>1, <2>2 DEF CheckRegister
<1> QED
  BY <1>2, <1>4, <1>5 DEF EnterActions

(* A new activation keeps the types.                                        *)
LEMMA EnterTypes ==
  ASSUME TypeOK, HashInv, NEW c \in Callers, NEW u \in Uris, EnterActions(c, u)
  PROVE  TypeOK'
<1>1. /\ LedgerType /\ uri' \in [Callers -> Uris \cup {None}]
      /\ seen' \in [Callers -> TxStates \cup {"missing", "found", "nothing"}]
      /\ UNCHANGED <<chainVars, past>> /\ CallType
  <2>1. /\ CallType /\ uri' = [uri EXCEPT ![c] = u]
        /\ UNCHANGED <<attempts, cards, receipts, seen, tx, confirmed, misled, past>>
    BY EnterEffect
  <2> QED
    BY <2>1 DEF TypeOK, LedgerType, chainVars
<1>2. lane' \in {lane, Append(lane, c)}
  BY EnterEffect
<1>3. lane \in Seq(Callers)
  BY DEF TypeOK
<1> QED
  BY <1>1, <1>2, <1>3, TypeFrom

(* So does storing the card.                                                *)
LEMMA PinTypes ==
  ASSUME TypeOK, CallInv, NEW c \in Callers, Pinned(c) \/ PinFails(c)
  PROVE  TypeOK'
<1>1. uri[c] \in Uris
  BY Types DEF Pinned, PinFails, CallInv, CallOf, Active
<1>2. /\ uri' \in [Callers -> Uris \cup {None}]
      /\ seen' \in [Callers -> TxStates \cup {"missing", "found", "nothing"}]
      /\ UNCHANGED <<chainVars, past>> /\ Append(lane, c) \in Seq(Callers) /\ lane \in Seq(Callers)
  BY DEF Pinned, PinFails, TypeOK
<1>3. CASE Pinned(c)
  <2>1. [hash |-> None, agent |-> None, state |-> "broadcast"] \in Record
    BY DEF Record
  <2>2. LedgerType
    BY <1>1, <1>3, <2>1 DEF Pinned, LedgerType, TypeOK
  <2>3. CallType /\ lane' = Append(lane, c)
    BY <1>3, QueueEffect DEF Pinned
  <2> QED
    BY <1>2, <2>2, <2>3, TypeFrom
<1>4. CASE PinFails(c)
  <2>1. CallType /\ lane' = lane /\ LedgerType
    BY <1>4, ReturnsEffect DEF PinFails, Verdicts, LedgerType, ledgerVars, TypeOK
  <2> QED
    BY <1>2, <2>1, TypeFrom
<1> QED
  BY <1>3, <1>4

LaneActions(c) ==
  PlanSettled(c) \/ PlanOutstanding(c) \/ PlanBroadcast(c) \/ FetchNonce(c)
  \/ SendRejected(c) \/ SendAnswers(c) \/ SendLost(c)

(* Who is inside the lane stands at its head.                               *)
LaneInv == \A c \in Callers : pc[c] \in InLane => lane # <<>> /\ Head(lane) = c

(* Fetching the nonce.                                                      *)
LEMMA NonceEffect ==
  ASSUME TypeOK, NEW c \in Callers, FetchNonce(c)
  PROVE  /\ CallType /\ Elsewhere(c) /\ pc'[c] = "sending"
         /\ my'[c].nonce = confirmed /\ my'[c].hash = my[c].hash
<1> DEFINE m == [my[c] EXCEPT !.nonce = confirmed]
<1>1. my \in [Callers -> Locals] /\ confirmed \in 0..MaxTx /\ my[c] \in Locals
  BY DEF TypeOK
<1>2. m \in Locals /\ m.nonce = confirmed /\ m.hash = my[c].hash
  BY <1>1, LocalsType DEF Locals
<1>3. my' = [my EXCEPT ![c] = m]
  BY DEF FetchNonce
<1>4. pc' = [pc EXCEPT ![c] = "sending"] /\ "sending" \in PcValues /\ out' = out
  BY DEF FetchNonce, To, PcValues, InLane
<1> HIDE DEF m
<1> QED
  BY <1>1, <1>2, <1>3, <1>4 DEF TypeOK, CallType, Elsewhere

(* What those inside the lane, or let in, do to pc, locals and answers.     *)
LEMMA LaneEffect ==
  ASSUME TypeOK, LaneInv, CallInv, NEW c \in Callers, LaneActions(c)
  PROVE  /\ CallType /\ Elsewhere(c) /\ uri' = uri /\ seen' = seen /\ uri[c] \in Uris
         /\ lane # <<>> /\ Head(lane) = c
         /\ lane' # lane => lane' = Tail(lane) /\ pc'[c] \notin InLane
         /\ my'[c].nonce \in {0, my[c].nonce, confirmed}
<1>1. uri' = uri /\ seen' = seen /\ uri[c] \in Uris /\ lane # <<>> /\ Head(lane) = c
  <2>1. Active(c) /\ (pc[c] \in InLane \/ Turn(c))
    BY DEF LaneActions, PlanSettled, PlanOutstanding, PlanBroadcast, FetchNonce,
       SendRejected, SendAnswers, SendLost, Turn, InLane, Active
  <2>2. uri[c] \in Uris
    BY <2>1, Types DEF CallInv, CallOf
  <2> QED
    BY <2>1, <2>2 DEF LaneActions, PlanSettled, PlanOutstanding, PlanBroadcast, FetchNonce,
       SendRejected, SendAnswers, SendLost, LaneInv, Turn
<1>2. CASE PlanSettled(c)
  <2>1. attempts[uri[c]] \in Record
    BY <1>1, <1>2, Types DEF PlanSettled, Settled
  <2>2. [agent |-> attempts[uri[c]].agent, hash |-> attempts[uri[c]].hash] \in Registration
    BY <2>1 DEF Record, Registration
  <2> QED
    BY <1>1, <1>2, <2>2, ReturnsEffect DEF PlanSettled, InLane, Blank
<1>3. CASE PlanOutstanding(c)
  <2>1. attempts[uri[c]].hash \in Txs \cup {None}
    BY <1>1, <1>3, Types DEF PlanOutstanding, Outstanding
  <2>2. PICK w \in {"settle", "receipt"} : To(c, w)
    BY <1>3 DEF PlanOutstanding
  <2>3. w \in PcValues /\ w \notin InLane
    BY <2>2 DEF PcValues, Looking, InLane
  <2> QED
    BY <1>1, <1>3, <2>1, <2>2, <2>3, HoldingEffect DEF PlanOutstanding
<1>4. CASE PlanBroadcast(c)
  BY <1>1, <1>4, ToEffect DEF PlanBroadcast, PcValues, InLane
<1>5. CASE FetchNonce(c)
  BY <1>1, <1>5, NonceEffect DEF FetchNonce
<1>6. CASE SendRejected(c) \/ SendLost(c)
  BY <1>1, <1>6, ReturnsEffect DEF SendRejected, SendLost, Verdicts, InLane, Blank
<1>7. CASE SendAnswers(c)
  BY <1>1, <1>7, ToEffect DEF SendAnswers, PcValues, InLane
<1> QED
  BY <1>2, <1>3, <1>4, <1>5, <1>6, <1>7 DEF LaneActions

(* So do the steps inside the lane.                                         *)
LEMMA LaneTypes ==
  ASSUME TypeOK, LaneInv, CallInv, NEW c \in Callers, LaneActions(c)
  PROVE  TypeOK'
<1>1. /\ CallType /\ uri' \in [Callers -> Uris \cup {None}] /\ lane' \in Seq(Callers)
      /\ seen' \in [Callers -> TxStates \cup {"missing", "found", "nothing"}]
      /\ uri[c] \in Uris
  <2>1. lane \in Seq(Callers) /\ lane # <<>> => Tail(lane) \in Seq(Callers)
    OBVIOUS
  <2> QED
    BY <2>1, LaneEffect DEF TypeOK
<1>2. UNCHANGED <<chainVars, past>>
  BY DEF LaneActions, PlanSettled, PlanOutstanding, PlanBroadcast, FetchNonce,
     SendRejected, SendAnswers, SendLost
<1>3. LedgerType
  <2>1. CASE SendAnswers(c)
    <3>1. my[c].hash \in Txs \cup {None}
      BY Types
    <3>2. [hash |-> my[c].hash, agent |-> None, state |-> "broadcast"] \in Record
      BY <3>1 DEF Record
    <3> QED
      BY <2>1, <3>2 DEF SendAnswers, LedgerType, TypeOK
  <2>2. CASE ~SendAnswers(c)
    BY <2>2, <1>1 DEF LaneActions, PlanSettled, PlanOutstanding, PlanBroadcast, FetchNonce,
       SendRejected, SendLost, LedgerType, ledgerVars, TypeOK
  <2> QED
    BY <2>1, <2>2
<1> QED
  BY <1>1, <1>2, <1>3, TypeFrom

Tx == [uri : Uris, nonce : 0..MaxTx, state : TxStates]

(* What the chain may do to a transaction that was sent.                    *)
Moves(h) ==
  /\ tx'[h].uri = tx[h].uri /\ tx'[h].nonce = tx[h].nonce
  /\ Live(h)' => Live(h)
  /\ tx[h].state \in {"mined", "dropped"} => tx'[h].state = tx[h].state
ChainMoves == Sent \subseteq Sent' /\ \A h \in Sent : Moves(h)

(* The node takes a transaction: it is the last one, the others stay or are *)
(* dropped.                                                                 *)
LEMMA SendEffect ==
  ASSUME TypeOK, LaneInv, CallInv, CountInv, NEW c \in Callers, SendRaw(c)
  PROVE  /\ CallType /\ Elsewhere(c) /\ uri[c] \in Uris /\ lane # <<>> /\ Head(lane) = c
         /\ pc'[c] = "sent" /\ my'[c].hash = Len(tx) + 1 /\ my'[c].nonce = my[c].nonce
         /\ tx' \in Seq(Tx) /\ Len(tx') = Len(tx) + 1 /\ Sent' = 1..(Len(tx) + 1)
         /\ Len(tx) + 1 \in Txs
         /\ tx'[Len(tx) + 1] = [uri |-> uri[c], nonce |-> my[c].nonce, state |-> "pending"]
         /\ ChainMoves
<1> DEFINE mine == [uri |-> uri[c], nonce |-> my[c].nonce, state |-> "pending"]
           s == [h \in Sent |-> IF tx[h].state = "pending" /\ tx[h].nonce = my[c].nonce
                                THEN [tx[h] EXCEPT !.state = "dropped"] ELSE tx[h]]
           n == Len(tx)
<1>1. /\ uri[c] \in Uris /\ lane # <<>> /\ Head(lane) = c /\ my[c].nonce \in 0..MaxTx
      /\ Sent = 1..n /\ n \in Nat /\ n < MaxTx /\ MaxTx \in Nat
      /\ \A h \in Sent : tx[h] \in Tx
  BY Types DEF SendRaw, CallInv, CallOf, LaneInv, Active, InLane, Tx
<1>2. mine \in Tx
  BY <1>1 DEF Tx, TxStates
<1>3. \A h \in Sent : s[h] \in Tx /\ s[h].uri = tx[h].uri /\ s[h].nonce = tx[h].nonce
                      /\ (s[h] # tx[h] => tx[h].state = "pending" /\ s[h].state = "dropped")
  <2> SUFFICES ASSUME NEW h \in Sent
               PROVE  /\ s[h] \in Tx /\ s[h].uri = tx[h].uri /\ s[h].nonce = tx[h].nonce
                      /\ (s[h] # tx[h] => tx[h].state = "pending" /\ s[h].state = "dropped")
    OBVIOUS
  <2> DEFINE t == [tx[h] EXCEPT !.state = "dropped"]
  <2>1. t \in Tx /\ t.uri = tx[h].uri /\ t.nonce = tx[h].nonce /\ t.state = "dropped"
    BY <1>1 DEF Tx, TxStates
  <2>2. s[h] # tx[h] => tx[h].state = "pending" /\ s[h] = t
    OBVIOUS
  <2> HIDE DEF s, t
  <2> QED
    BY <1>1, <2>1, <2>2
<1>4. s \in Seq(Tx) /\ Len(s) = n
  <2>1. s \in [1..n -> Tx]
    BY <1>1, <1>3
  <2> HIDE DEF s
  <2> QED
    BY <1>1, <2>1
<1>5. tx' = Append(s, mine)
  BY DEF SendRaw
<1>6. /\ tx' \in Seq(Tx) /\ Len(tx') = n + 1 /\ tx'[n + 1] = mine
      /\ \A h \in 1..n : tx'[h] = s[h]
  <2> HIDE DEF s, mine
  <2> QED
    BY <1>1, <1>2, <1>4, <1>5
<1>7. Sent' = 1..(n + 1)
  BY <1>6 DEF Sent
<1>8. ASSUME NEW h \in Sent PROVE Moves(h)
  <2>1. tx'[h] = s[h]
    BY <1>1, <1>6
  <2> HIDE DEF s
  <2> QED
    BY <2>1, <1>3, <1>8 DEF Moves, Live
<1>9. n + 1 \in Txs
  BY <1>1 DEF Txs
<1>10. CallType /\ Elsewhere(c) /\ pc'[c] = "sent" /\ my'[c].hash = n + 1
       /\ my'[c].nonce = my[c].nonce
  <2>1. "sent" \in PcValues /\ Holding(c, n + 1) /\ To(c, "sent") /\ out' = out
    BY DEF SendRaw, PcValues, InLane
  <2> QED
    BY <2>1, <1>9, HoldingEffect
<1>11. Sent \subseteq Sent'
  BY <1>1, <1>7
<1> QED
  BY <1>1, <1>6, <1>7, <1>8, <1>9, <1>10, <1>11 DEF ChainMoves

ChainActions(h) == Include(h, "mined") \/ Include(h, "reverted") \/ Drop(h)

(* The chain includes or drops a transaction.                               *)
LEMMA ChainEffect ==
  ASSUME TypeOK, CountInv, NEW h \in Sent, ChainActions(h)
  PROVE  /\ tx' \in Seq(Tx) /\ Len(tx') = Len(tx) /\ Sent' = Sent
         /\ confirmed' \in 0..Len(tx)
         /\ ChainMoves
<1> DEFINE T == Tx
<1>1. /\ tx \in Seq(T) /\ Sent = 1..Len(tx) /\ Len(tx) \in Nat
      /\ \A k \in Sent : tx[k] \in T
      /\ confirmed \in Nat /\ confirmed <= Len(tx) /\ tx[h].nonce < h
  <2>1. /\ tx \in Seq(Tx) /\ Sent = 1..Len(tx) /\ Len(tx) \in Nat
        /\ \A k \in Sent : tx[k] \in Tx
    <3>1. tx \in Seq(Tx)
      BY DEF TypeOK, Tx
    <3>2. Sent = 1..Len(tx) /\ Len(tx) \in Nat
      BY <3>1 DEF Sent
    <3> QED
      BY <3>1, <3>2
  <2> QED
    BY <2>1, BoundAssumption DEF TypeOK, CountInv
<1>2. PICK how \in {"mined", "reverted", "dropped"} :
        /\ tx' = [tx EXCEPT ![h].state = how]
        /\ tx[h].state = "pending"
        /\ confirmed' # confirmed => tx[h].nonce = confirmed /\ confirmed' = confirmed + 1
  <2> DEFINE Goes(how) == /\ tx' = [tx EXCEPT ![h].state = how]
                          /\ tx[h].state = "pending"
                          /\ confirmed' # confirmed =>
                               tx[h].nonce = confirmed /\ confirmed' = confirmed + 1
  <2>1. Goes("mined") \/ Goes("reverted") \/ Goes("dropped")
    BY DEF ChainActions, Include, Drop
  <2> HIDE DEF Goes
  <2>2. \E how \in {"mined", "reverted", "dropped"} : Goes(how)
    BY <2>1
  <2> QED
    BY <2>2 DEF Goes
<1> DEFINE t == [tx[h] EXCEPT !.state = how]
<1>3. t \in T /\ t.uri = tx[h].uri /\ t.nonce = tx[h].nonce /\ t.state = how
  BY <1>1 DEF Tx, TxStates
<1>4. tx' = [tx EXCEPT ![h] = t]
  BY <1>2
<1>5. /\ tx' \in Seq(T) /\ Len(tx') = Len(tx) /\ tx'[h] = t
      /\ \A k \in Sent : k # h => tx'[k] = tx[k]
  <2> HIDE DEF T, t
  <2> QED
    BY <1>1, <1>3, <1>4
<1>6. Sent' = Sent
  BY <1>1, <1>5 DEF Sent
<1>7. confirmed' \in 0..Len(tx)
  BY <1>1, <1>2
<1>8. ASSUME NEW k \in Sent PROVE Moves(k)
  <2>1. CASE k = h
    <3> HIDE DEF t
    <3> QED
      BY <2>1, <1>2, <1>3, <1>5 DEF Moves, Live
  <2>2. CASE k # h
    BY <2>2, <1>5 DEF Moves, Live
  <2> QED
    BY <2>1, <2>2
<1> QED
  BY <1>5, <1>6, <1>7, <1>8 DEF ChainMoves

LookActions(c) ==
  \/ ReceiptAnswers(c) \/ PendingAnswers(c)
  \/ ReceiptMissing(c) \/ ReceiptFails(c) \/ ReceiptReverted(c) \/ ReceiptMined(c)
  \/ PendingFound(c) \/ PendingMissing(c)

SeenType == seen' \in [Callers -> TxStates \cup {"missing", "found", "nothing"}]

(* A node's answer arrives.                                                 *)
LEMMA SeesEffect ==
  ASSUME TypeOK, NEW c \in Callers, NEW what \in TxStates \cup {"missing", "found"},
         Sees(c, what)
  PROVE  /\ CallType /\ Elsewhere(c) /\ SeenType /\ seen'[c] = what
         /\ \A d \in Callers \ {c} : seen'[d] = seen[d]
         /\ UNCHANGED <<pc, my, out, attempts, lane, misled>>
BY DEF Sees, TypeOK, CallType, Elsewhere, SeenType, ledgerVars

(* The answers of a node.                                                   *)
LEMMA AnswersEffect ==
  ASSUME TypeOK, CallInv, NEW c \in Callers, ReceiptAnswers(c) \/ PendingAnswers(c)
  PROVE  /\ \E what \in TxStates \cup {"missing", "found"} : Sees(c, what)
         /\ pc[c] = "receipt" /\ seen'[c] = "mined" => tx[my[c].hash].state = "mined"
<1>1. CASE ReceiptAnswers(c)
  <2>1. my[c].hash \in Sent
    BY <1>1 DEF ReceiptAnswers, CallInv, CallOf, Naming
  <2>2. tx[my[c].hash].state \in TxStates
    BY <2>1, Types
  <2>3. PICK what \in TxStates \cup {"missing", "found"} :
          Sees(c, what) /\ (what = tx[my[c].hash].state \/ what = "missing")
    BY <1>1, <2>2 DEF ReceiptAnswers
  <2>4. seen'[c] = what
    BY <2>3, SeesEffect
  <2> QED
    BY <2>3, <2>4
<1>2. CASE PendingAnswers(c)
  BY <1>2 DEF PendingAnswers
<1> QED
  BY <1>1, <1>2

(* What the handling of an answer does to the record: it says reverted, it  *)
(* says mined, or its hash is cleared.                                      *)
HandledRecord(c) ==
  LET u == uri[c] IN
  \/ attempts' = attempts /\ misled' = misled
  \/ ReceiptReverted(c) /\ attempts' = [attempts EXCEPT ![u].state = "reverted"] /\ Watch(u)
  \/ ReceiptMined(c) /\ attempts' = [attempts EXCEPT ![u] = Mined(@, my[c].hash)] /\ misled' = misled
  \/ PendingMissing(c) /\ attempts' = [attempts EXCEPT ![u].hash = None] /\ Watch(u)

(* The record of a URI, handled.                                            *)
LEMMA HandledType ==
  ASSUME NEW r \in Record, NEW h \in Txs
  PROVE  /\ [r EXCEPT !.state = "reverted"] \in Record
         /\ [r EXCEPT !.hash = None] \in Record
         /\ Mined(r, h) \in Record /\ Mined(r, h).hash = r.hash /\ Mined(r, h).state = "mined"
         /\ Mined(r, h).agent = IF r.agent = None THEN h ELSE r.agent
BY DEF Record, Mined

(* What an answer and its handling do.                                      *)
LEMMA LookEffect ==
  ASSUME TypeOK, CallInv, NEW c \in Callers, LookActions(c)
  PROVE  /\ CallType /\ Elsewhere(c) /\ uri' = uri /\ uri[c] \in Uris /\ SeenType
         /\ pc[c] \in Looking /\ attempts[uri[c]] \in Record
         /\ \A d \in Callers \ {c} : seen'[d] = seen[d]
         /\ pc'[c] \in Looking \/ seen'[c] = "nothing"
         /\ pc'[c] \in Looking \cup {"queued", "returned"}
         /\ pc'[c] = "receipt" => pc[c] = "receipt"
         /\ my'[c] = my[c] \/ my'[c] = Blank \/
            (my'[c].hash = attempts[uri[c]].hash /\ my'[c].nonce = my[c].nonce)
         /\ pc'[c] = pc[c] => my' = my
         /\ lane' \in {lane, Append(lane, c)}
         /\ UNCHANGED <<cards, receipts, chainVars, past>>
         /\ HandledRecord(c)
<1>1. pc[c] \in Looking /\ uri[c] \in Uris /\ attempts[uri[c]] \in Record
  <2>1. pc[c] \in Looking
    BY DEF LookActions, ReceiptAnswers, PendingAnswers, ReceiptMissing, ReceiptFails,
       ReceiptReverted, ReceiptMined, PendingFound, PendingMissing, Looking
  <2>2. uri[c] \in Uris /\ attempts[uri[c]] # None
    BY <2>1, Types DEF CallInv, CallOf, Active, Looking, Resolving
  <2> QED
    BY <2>1, <2>2, Types
<1>2. CASE ReceiptAnswers(c) \/ PendingAnswers(c)
  <2>1. PICK what \in TxStates \cup {"missing", "found"} : Sees(c, what)
    BY <1>2, AnswersEffect
  <2>2. UNCHANGED <<uri, cards, receipts, chainVars, past>>
    BY <2>1 DEF Sees, ledgerVars
  <2> QED
    BY <1>1, <2>1, <2>2, SeesEffect, Types DEF HandledRecord, Looking
<1>3. CASE ReceiptFails(c)
  <2>1. pc'[c] = "returned" /\ my'[c] = Blank /\ CallType /\ Elsewhere(c)
    BY <1>3, ReturnsEffect DEF ReceiptFails, Verdicts
  <2> QED
    BY <1>1, <1>3, <2>1 DEF ReceiptFails, ledgerVars, HandledRecord, Answered, SeenType, TypeOK, Looking
<1>4. ASSUME Handles(c)
      PROVE  /\ SeenType /\ seen'[c] = "nothing" /\ \A d \in Callers \ {c} : seen'[d] = seen[d]
             /\ UNCHANGED <<cards, receipts, uri, chainVars, past>>
  BY <1>4 DEF Handles, SeenType, TypeOK
<1>5. CASE ReceiptMissing(c)
  <2>1. attempts[uri[c]].hash \in Txs \cup {None}
    BY <1>1, Types DEF Record
  <2>2. /\ CallType /\ Elsewhere(c) /\ pc'[c] = "pending"
        /\ my'[c].hash = attempts[uri[c]].hash /\ my'[c].nonce = my[c].nonce
    BY <1>5, <2>1, HoldingEffect DEF ReceiptMissing, PcValues, Looking
  <2> QED
    BY <1>1, <1>4, <1>5, <2>2 DEF ReceiptMissing, HandledRecord, Looking
<1>6. CASE ReceiptReverted(c)
  <2>1. /\ CallType /\ Elsewhere(c) /\ pc'[c] \in {"queued", "returned"}
        /\ my'[c] = Blank /\ lane' \in {lane, Append(lane, c)}
    BY <1>6, GoneEffect, Types DEF ReceiptReverted
  <2> QED
    BY <1>1, <1>4, <1>6, <2>1 DEF ReceiptReverted, HandledRecord, Looking
<1>7. CASE PendingMissing(c)
  <2>1. /\ CallType /\ Elsewhere(c) /\ pc'[c] \in {"queued", "returned"}
        /\ my'[c] = Blank /\ lane' \in {lane, Append(lane, c)}
    BY <1>7, GoneEffect, Types DEF PendingMissing
  <2> QED
    BY <1>1, <1>4, <1>7, <2>1 DEF PendingMissing, HandledRecord, Looking
<1>8. CASE PendingFound(c)
  <2>1. pc'[c] = "returned" /\ my'[c] = Blank /\ CallType /\ Elsewhere(c)
    BY <1>8, ReturnsEffect DEF PendingFound, Verdicts
  <2> QED
    BY <1>1, <1>4, <1>8, <2>1 DEF PendingFound, HandledRecord, Looking
<1>9. CASE ReceiptMined(c)
  <2>1. my[c].hash \in Txs
    BY <1>9, Types DEF ReceiptMined, CallInv, CallOf, Naming
  <2>2. attempts \in [Uris -> Record \cup {None}]
    BY DEF TypeOK
  <2>3. attempts'[uri[c]] \in Record
    BY <1>1, <1>9, <2>1, <2>2, HandledType DEF ReceiptMined
  <2>4. [agent |-> attempts'[uri[c]].agent, hash |-> attempts[uri[c]].hash] \in Registration
    BY <1>1, <2>3 DEF Record, Registration
  <2>5. pc'[c] = "returned" /\ my'[c] = Blank /\ CallType /\ Elsewhere(c)
    BY <1>9, <2>4, ReturnsEffect DEF ReceiptMined
  <2> QED
    BY <1>1, <1>4, <1>9, <2>5 DEF ReceiptMined, HandledRecord, Looking
<1> QED
  BY <1>2, <1>3, <1>5, <1>6, <1>7, <1>8, <1>9 DEF LookActions

(* What that leaves of the ledger's types.                                  *)
LEMMA HandledLedger ==
  ASSUME TypeOK, CallInv, NEW c \in Callers, LookActions(c)
  PROVE  /\ LedgerType /\ misled \subseteq misled'
         /\ \A u \in Uris : attempts[u] # None => attempts'[u] # None
         /\ \A u \in Uris : u # uri[c] => attempts'[u] = attempts[u]
<1> DEFINE u == uri[c]
<1>1. /\ uri[c] \in Uris /\ attempts[u] \in Record /\ HandledRecord(c)
      /\ UNCHANGED <<cards, receipts>> /\ attempts \in [Uris -> Record \cup {None}]
      /\ misled \in SUBSET Uris /\ cards \in SUBSET Uris
      /\ receipts \in [Txs -> Callers \cup {None}]
  BY LookEffect DEF TypeOK
<1>2. misled' \in SUBSET Uris /\ misled \subseteq misled'
  BY <1>1, WatchType DEF HandledRecord
<1>3. attempts' = attempts \/ \E r \in Record : attempts' = [attempts EXCEPT ![u] = r]
  <2>1. CASE ReceiptMined(c)
    <3>1. my[c].hash \in Txs
      BY <2>1, Types DEF ReceiptMined, CallInv, CallOf, Naming
    <3>2. Mined(attempts[u], my[c].hash) \in Record
      BY <1>1, <3>1, HandledType
    <3>3. attempts' = [attempts EXCEPT ![u] = Mined(attempts[u], my[c].hash)]
      BY <2>1, <1>1 DEF ReceiptMined
    <3> QED
      BY <3>2, <3>3
  <2>2. CASE attempts' = [attempts EXCEPT ![u].state = "reverted"]
    <3>1. [attempts[u] EXCEPT !.state = "reverted"] \in Record
      BY <1>1 DEF Record
    <3> QED
      BY <1>1, <2>2, <3>1
  <2>3. CASE attempts' = [attempts EXCEPT ![u].hash = None]
    <3>1. [attempts[u] EXCEPT !.hash = None] \in Record
      BY <1>1 DEF Record
    <3> QED
      BY <1>1, <2>3, <3>1
  <2> QED
    BY <1>1, <2>1, <2>2, <2>3 DEF HandledRecord
<1>4. /\ attempts' \in [Uris -> Record \cup {None}]
      /\ \A v \in Uris : attempts[v] # None => attempts'[v] # None
      /\ \A v \in Uris : v # u => attempts'[v] = attempts[v]
  <2>1. None \notin Record
    BY NoneAssumption
  <2> HIDE DEF u
  <2> QED
    BY <1>1, <1>3, <2>1
<1> QED
  BY <1>1, <1>2, <1>4 DEF LedgerType

Waited == {"waiting", "returned"}

(* Sharing or opening a wait.                                               *)
LEMMA SettleEffect ==
  ASSUME TypeOK, CallInv, NEW c \in Callers, Settle(c)
  PROVE  /\ CallType /\ Elsewhere(c) /\ uri[c] \in Uris /\ my[c].hash \in Txs
         /\ pc'[c] = "waiting" /\ my'[c].hash = my[c].hash /\ my'[c].nonce = my[c].nonce
         /\ receipts' \in [Txs -> Callers \cup {None}]
         /\ my'[c].wait = receipts'[my[c].hash]
         /\ receipts'[my[c].hash] =
              IF receipts[my[c].hash] # None THEN receipts[my[c].hash] ELSE c
         /\ \A h \in Txs : h # my[c].hash => receipts'[h] = receipts[h]
<1> DEFINE h == my[c].hash
           w == IF receipts[h] # None THEN receipts[h] ELSE c
           m == [my[c] EXCEPT !.wait = w]
<1>1. my[c] \in Locals /\ h \in Txs /\ receipts \in [Txs -> Callers \cup {None}] /\ uri[c] \in Uris
  BY Types DEF TypeOK, CallInv, CallOf, Settle, Naming, Active
<1>2. w \in Callers
  BY <1>1
<1>3. m \in Locals /\ m.hash = my[c].hash /\ m.nonce = my[c].nonce /\ m.wait = w
  BY <1>1, <1>2, LocalsType DEF Locals
<1>4. my' = [my EXCEPT ![c] = m] /\ receipts' = [receipts EXCEPT ![h] = w]
  BY DEF Settle
<1>5. pc' = [pc EXCEPT ![c] = "waiting"] /\ "waiting" \in PcValues /\ out' = out
  BY DEF Settle, To, PcValues
<1>6. CallType /\ Elsewhere(c) /\ pc'[c] = "waiting" /\ my'[c] = m
  <2> HIDE DEF m
  <2> QED
    BY <1>3, <1>4, <1>5 DEF TypeOK, CallType, Elsewhere
<1>7. receipts' \in [Txs -> Callers \cup {None}] /\ receipts'[h] = w
      /\ \A k \in Txs : k # h => receipts'[k] = receipts[k]
  <2> HIDE DEF w, h
  <2> QED
    BY <1>1, <1>2, <1>4
<1> QED
  BY <1>1, <1>3, <1>6, <1>7

(* The end of a wait for one caller.                                        *)
LEMMA TimesOutEffect ==
  ASSUME TypeOK, CallInv, NEW c \in Callers, TimesOut(c)
  PROVE  /\ CallType /\ Elsewhere(c) /\ uri[c] \in Uris
         /\ pc'[c] = "returned" /\ my'[c] = Blank /\ out'[c] = Threw
         /\ receipts' \in [Txs -> Callers \cup {None}]
         /\ \A h \in Txs : receipts'[h] # None => receipts'[h] = receipts[h]
BY ReturnsEffect, Types, SMTT(60) DEF TimesOut, Released, TypeOK, CallInv, CallOf, Active, Verdicts

(* The record and the answers that a wait leaves which took the receipt of  *)
(* g, one of those it may take.                                             *)
Outcome(r, g) == IF tx[g].state = "mined" THEN Mined(r, g) ELSE [r EXCEPT !.state = "reverted"]
Mates(c) == Holders(my[c].wait)
SettledBy(c, g) ==
  LET o == Outcome(attempts[uri[c]], g) IN
  /\ g \in Awaited(my[c].hash)
  /\ attempts' = [attempts EXCEPT ![uri[c]] = o]
  /\ out' = [d \in Callers |-> IF d \notin Mates(c) THEN out[d]
                               ELSE IF tx[g].state = "mined"
                               THEN [agent |-> o.agent, hash |-> my[c].hash] ELSE Threw]

(* The record a settled wait leaves.                                        *)
LEMMA OutcomeType ==
  ASSUME NEW r \in Record, NEW g \in Txs
  PROVE  /\ Outcome(r, g) \in Record /\ Outcome(r, g).hash = r.hash
         /\ tx[g].state = "mined" =>
              /\ Outcome(r, g).state = "mined"
              /\ Outcome(r, g).agent = IF r.agent = None THEN g ELSE r.agent
         /\ tx[g].state # "mined" => Outcome(r, g).state = "reverted" /\ Outcome(r, g).agent = r.agent
<1>1. CASE tx[g].state = "mined"
  BY <1>1, HandledType DEF Outcome
<1>2. CASE tx[g].state # "mined"
  BY <1>2 DEF Outcome, Record
<1> QED
  BY <1>1, <1>2

(* The end of a wait for all its holders.                                   *)
LEMMA WaitSettlesEffect ==
  ASSUME TypeOK, CallInv, NEW c \in Callers, WaitSettles(c)
  PROVE  /\ CallType /\ LedgerType /\ misled \subseteq misled' /\ Watch(uri[c])
         /\ uri[c] \in Uris /\ my[c].hash \in Txs /\ c \in Mates(c) /\ Mates(c) \subseteq Callers
         /\ attempts[uri[c]] \in Record
         /\ \E g \in Txs : SettledBy(c, g)
         /\ \A d \in Mates(c) : pc[d] = "waiting" /\ pc'[d] = "returned" /\ my'[d] = Blank
         /\ \A d \in Callers \ Mates(c) : pc'[d] = pc[d] /\ my'[d] = my[d] /\ out'[d] = out[d]
         /\ \A h \in Txs : receipts'[h] # None => receipts'[h] = receipts[h]
         /\ \A u \in Uris : attempts[u] # None => attempts'[u] # None
<1>1. /\ uri[c] \in Uris /\ my[c].hash \in Txs /\ attempts[uri[c]] \in Record /\ c \in Mates(c)
      /\ Mates(c) \subseteq Callers /\ \A d \in Mates(c) : pc[d] = "waiting"
  BY Types DEF WaitSettles, CallInv, CallOf, Naming, Resolving, Active, Mates, Holders
<1>2. PICK g \in Awaited(my[c].hash) : SettledBy(c, g)
  BY DEF WaitSettles, SettledBy, Outcome, Mates
<1>3. g \in Txs
  BY <1>2, Types DEF Awaited
<1> DEFINE o == Outcome(attempts[uri[c]], g)
<1>4. o \in Record
  BY <1>1, <1>3, OutcomeType
<1>5. misled' \in SUBSET Uris /\ misled \subseteq misled' /\ Watch(uri[c])
  BY <1>1, WatchType DEF WaitSettles
<1>6. /\ receipts' \in [Txs -> Callers \cup {None}] /\ cards' \in SUBSET Uris
      /\ \A h \in Txs : receipts'[h] # None => receipts'[h] = receipts[h]
  BY DEF WaitSettles, Released, TypeOK
<1>7. /\ attempts' \in [Uris -> Record \cup {None}]
      /\ \A u \in Uris : attempts[u] # None => attempts'[u] # None
  <2>1. None \notin Record /\ attempts \in [Uris -> Record \cup {None}]
    BY NoneAssumption DEF TypeOK
  <2>2. attempts' = [attempts EXCEPT ![uri[c]] = o]
    BY <1>2 DEF SettledBy
  <2> HIDE DEF o
  <2> QED
    BY <2>1, <2>2, <1>1, <1>4
<1> DEFINE a == IF tx[g].state = "mined"
                THEN [agent |-> o.agent, hash |-> my[c].hash] ELSE Threw
<1>8. a \in Registration \cup Verdicts
  BY <1>1, <1>4 DEF Record, Registration, Verdicts
<1>9. /\ pc' = [d \in Callers |-> IF d \in Mates(c) THEN "returned" ELSE pc[d]]
      /\ my' = [d \in Callers |-> IF d \in Mates(c) THEN Blank ELSE my[d]]
      /\ out' = [d \in Callers |-> IF d \notin Mates(c) THEN out[d] ELSE a]
  BY <1>2 DEF WaitSettles, Mates, SettledBy
<1>10. CallType
  <2>1. /\ pc \in [Callers -> PcValues] /\ "returned" \in PcValues
        /\ my \in [Callers -> Locals] /\ Blank \in Locals
        /\ out \in [Callers -> Registration \cup Verdicts \cup {None}]
    BY BlankType DEF TypeOK, PcValues
  <2> HIDE DEF a
  <2> QED
    BY <1>8, <1>9, <2>1 DEF CallType
<1>11. \A d \in Mates(c) : pc'[d] = "returned" /\ my'[d] = Blank
  BY <1>1, <1>9
<1>12. \A d \in Callers \ Mates(c) : pc'[d] = pc[d] /\ my'[d] = my[d] /\ out'[d] = out[d]
  BY <1>1, <1>9
<1> QED
  BY <1>1, <1>2, <1>3, <1>5, <1>6, <1>7, <1>10, <1>11, <1>12 DEF LedgerType

(* Every step keeps the types.                                              *)
LEMMA TypeStep ==
  ASSUME TypeOK, CountInv, LaneInv, CallInv, HashInv, [Next]_vars
  PROVE  TypeOK'
<1>1. CASE UNCHANGED vars
  BY <1>1 DEF vars, ledgerVars, callVars, chainVars, TypeOK, Sent
<1>2. ASSUME NEW c \in Callers, NEW u \in Uris, EnterActions(c, u)
      PROVE  TypeOK'
  BY <1>2, EnterTypes
<1>3. ASSUME NEW c \in Callers, Pinned(c) \/ PinFails(c)
      PROVE  TypeOK'
  BY <1>3, PinTypes
<1>4. ASSUME NEW c \in Callers, LaneActions(c)
      PROVE  TypeOK'
  BY <1>4, LaneTypes
<1>5. ASSUME NEW c \in Callers, SendRaw(c)
      PROVE  TypeOK'
  <2>1. tx' \in Seq(Tx) /\ Len(tx') = Len(tx) + 1 /\ Len(tx) + 1 \in Txs /\ CallType
    BY <1>5, SendEffect
  <2>2. Len(tx') <= MaxTx
    BY <2>1, BoundAssumption DEF Txs
  <2> QED
    BY <1>5, <2>1, <2>2 DEF SendRaw, TypeOK, CallType, ledgerVars, Tx
<1>6. ASSUME NEW c \in Callers, LookActions(c)
      PROVE  TypeOK'
  <2>1. lane \in Seq(Callers) /\ Append(lane, c) \in Seq(Callers) /\ uri \in [Callers -> Uris \cup {None}]
    BY DEF TypeOK
  <2> QED
    BY <1>6, <2>1, LookEffect, HandledLedger, TypeFrom DEF SeenType
<1>7. ASSUME NEW c \in Callers, Settle(c)
      PROVE  TypeOK'
  BY <1>7, SettleEffect, TypeFrom DEF Settle, LedgerType, TypeOK
<1>8. ASSUME NEW c \in Callers, WaitSettles(c)
      PROVE  TypeOK'
  BY <1>8, WaitSettlesEffect, TypeFrom DEF WaitSettles, TypeOK
<1>9. ASSUME NEW c \in Callers, TimesOut(c)
      PROVE  TypeOK'
  BY <1>9, TimesOutEffect, TypeFrom DEF TimesOut, LedgerType, TypeOK
<1>10. ASSUME NEW h \in Sent, ChainActions(h)
       PROVE  TypeOK'
  <2>1. /\ tx' \in Seq(Tx) /\ Len(tx') = Len(tx) /\ confirmed' \in 0..Len(tx)
    BY <1>10, ChainEffect DEF ChainActions
  <2>2. Len(tx) <= MaxTx /\ Len(tx) \in Nat
    BY DEF TypeOK
  <2>3. confirmed' \in 0..MaxTx
    BY <2>1, <2>2, BoundAssumption
  <2>4. UNCHANGED <<ledgerVars, lane, callVars, misled, past>>
    BY <1>10 DEF ChainActions, Include, Drop
  <2> QED
    BY <2>1, <2>2, <2>3, <2>4 DEF TypeOK, ledgerVars, callVars, Tx
<1>11. CASE Restart
  <2>1. tx' = tx /\ confirmed' = confirmed
    BY <1>11 DEF Restart, chainVars
  <2>2. Sent \subseteq Txs
    <3>1. tx \in Seq(Tx) /\ Len(tx) <= MaxTx
      BY DEF TypeOK, Tx
    <3> QED
      BY <3>1, BoundAssumption DEF Sent, Txs
  <2> QED
    BY <1>11, <2>1, <2>2, BlankType DEF Restart, TypeOK, PcValues
<1> QED
  BY <1>1, <1>2, <1>3, <1>4, <1>5, <1>6, <1>7, <1>8, <1>9, <1>10, <1>11
  DEF Next, Plan, Handle, EnterActions, LaneActions, LookActions, ChainActions

-----------------------------------------------------------------------------
(* Counts, the lane, and what activations hold.                             *)

(* A step that leaves the chain alone keeps the counts.                     *)
LEMMA CountFrom ==
  ASSUME TypeOK, CountInv, UNCHANGED <<tx, confirmed, past>>,
         \A d \in Callers : my'[d].nonce \in {0, my[d].nonce, confirmed}
  PROVE  CountInv'
<1>1. Len(tx) \in Nat /\ confirmed \in Nat /\ confirmed <= Len(tx)
  BY BoundAssumption DEF TypeOK, CountInv
<1> QED
  BY <1>1 DEF CountInv, Sent

(* Every step keeps the counts.                                             *)
LEMMA CountStep ==
  ASSUME TypeOK, CountInv, LaneInv, CallInv, HashInv, [Next]_vars
  PROVE  CountInv'
<1>1. CASE UNCHANGED vars
  BY <1>1, CountFrom DEF vars, ledgerVars, callVars, chainVars
<1>2. ASSUME NEW c \in Callers, NEW u \in Uris, EnterActions(c, u)
      PROVE  CountInv'
  <2>1. my'[c].nonce \in {0, my[c].nonce, confirmed} /\ Elsewhere(c)
    <3>1. my'[c] = Blank \/ my'[c] = my[c] \/ my'[c].nonce = my[c].nonce
      BY <1>2, EnterEffect
    <3>2. Elsewhere(c)
      BY <1>2, EnterEffect
    <3> QED
      BY <3>1, <3>2 DEF Blank
  <2>2. UNCHANGED <<tx, confirmed, past>>
    BY <1>2, EnterEffect
  <2> QED
    BY <2>1, <2>2, CountFrom DEF Elsewhere
<1>3. ASSUME NEW c \in Callers, Pinned(c) \/ PinFails(c)
      PROVE  CountInv'
  <2>1. my' = my \/ (my'[c] = Blank /\ Elsewhere(c))
    BY <1>3, ReturnsEffect DEF Pinned, PinFails, Verdicts
  <2> QED
    BY <1>3, <2>1, CountFrom DEF Elsewhere, Pinned, PinFails, chainVars, Blank
<1>4. ASSUME NEW c \in Callers, LaneActions(c)
      PROVE  CountInv'
  <2>1. UNCHANGED <<tx, confirmed, past>>
    BY <1>4 DEF LaneActions, PlanSettled, PlanOutstanding, PlanBroadcast, FetchNonce,
       SendRejected, SendAnswers, SendLost, chainVars
  <2> QED
    BY <1>4, <2>1, LaneEffect, CountFrom DEF Elsewhere
<1>5. ASSUME NEW c \in Callers, SendRaw(c)
      PROVE  CountInv'
  <2>1. /\ Len(tx') = Len(tx) + 1 /\ Sent' = 1..(Len(tx) + 1) /\ Len(tx) \in Nat
        /\ tx'[Len(tx) + 1].nonce = my[c].nonce
        /\ Sent = 1..Len(tx)
        /\ \A h \in Sent : tx'[h].nonce = tx[h].nonce
        /\ \A d \in Callers : my'[d].nonce = my[d].nonce
    <3>1. tx'[Len(tx) + 1] = [uri |-> uri[c], nonce |-> my[c].nonce, state |-> "pending"]
      BY <1>5, SendEffect
    <3>2. \A h \in Sent : Moves(h)
      BY <1>5, SendEffect DEF ChainMoves
    <3>3. Elsewhere(c) /\ my'[c].nonce = my[c].nonce
          /\ Len(tx') = Len(tx) + 1 /\ Sent' = 1..(Len(tx) + 1)
      BY <1>5, SendEffect
    <3>4. Sent = 1..Len(tx) /\ Len(tx) \in Nat
      BY <1>5, Types
    <3> QED
      BY <3>1, <3>2, <3>3, <3>4 DEF Elsewhere, Moves
  <2>2. confirmed' = confirmed /\ past' = past /\ confirmed \in Nat
        /\ \A d \in Callers : my[d].nonce \in Nat
    BY <1>5, Types, BoundAssumption DEF SendRaw, TypeOK
  <2>3. \A h \in Sent' : tx'[h].nonce < h
    <3> SUFFICES ASSUME NEW h \in Sent' PROVE tx'[h].nonce < h
      OBVIOUS
    <3>1. CASE h = Len(tx) + 1
      BY <3>1, <2>1, <2>2 DEF CountInv
    <3>2. CASE h \in Sent
      BY <3>2, <2>1 DEF CountInv
    <3> QED
      BY <3>1, <3>2, <2>1
  <2>4. Len(tx) <= Len(tx') /\ Sent \subseteq Sent'
    BY <2>1
  <2> QED
    BY <2>1, <2>2, <2>3, <2>4 DEF CountInv
<1>6. ASSUME NEW c \in Callers, LookActions(c)
      PROVE  CountInv'
  BY <1>6, LookEffect, CountFrom DEF Elsewhere, chainVars, Blank
<1>7. ASSUME NEW c \in Callers, Settle(c) \/ TimesOut(c)
      PROVE  CountInv'
  BY <1>7, SettleEffect, TimesOutEffect, CountFrom DEF Elsewhere, Settle, TimesOut, chainVars, Blank
<1>8. ASSUME NEW c \in Callers, WaitSettles(c)
      PROVE  CountInv'
  BY <1>8, WaitSettlesEffect, CountFrom DEF WaitSettles, chainVars, Blank
<1>9. ASSUME NEW h \in Sent, ChainActions(h)
      PROVE  CountInv'
  <2>1. /\ Len(tx') = Len(tx) /\ Sent' = Sent /\ confirmed' \in 0..Len(tx) /\ Len(tx) \in Nat
        /\ \A k \in Sent : tx'[k].nonce = tx[k].nonce
    BY <1>9, ChainEffect DEF ChainMoves, Moves, TypeOK
  <2>2. UNCHANGED <<my, past>>
    BY <1>9 DEF ChainActions, Include, Drop, callVars
  <2> QED
    BY <2>1, <2>2 DEF CountInv
<1>10. CASE Restart
  <2>1. /\ UNCHANGED <<tx, confirmed>> /\ past' \in SUBSET (Callers \cup Sent)
        /\ \A d \in Callers : my'[d].nonce = 0
    BY <1>10 DEF Restart, chainVars, Blank
  <2>2. Len(tx) \in Nat
    BY DEF TypeOK
  <2> QED
    BY <2>1, <2>2 DEF CountInv, Sent
<1> QED
  BY <1>1, <1>2, <1>3, <1>4, <1>5, <1>6, <1>7, <1>8, <1>9, <1>10
  DEF Next, Plan, Handle, EnterActions, LaneActions, LookActions, ChainActions

(* A step of c that does not bring it inside the lane, with the lane as it  *)
(* was or longer.                                                           *)
LEMMA LaneFrom ==
  ASSUME TypeOK, LaneInv, NEW c \in Callers, Elsewhere(c), pc'[c] \notin InLane,
         lane' \in {lane, Append(lane, c)}
  PROVE  LaneInv'
<1>1. lane \in Seq(Callers)
  BY DEF TypeOK
<1>2. lane # <<>> => lane' # <<>> /\ Head(lane') = Head(lane)
  BY <1>1
<1> QED
  BY <1>2 DEF LaneInv, Elsewhere

(* Only one is inside the lane.                                             *)
LEMMA LaneStep ==
  ASSUME TypeOK, CountInv, LaneInv, CallInv, HashInv, [Next]_vars
  PROVE  LaneInv'
<1>1. CASE UNCHANGED vars
  BY <1>1 DEF LaneInv, vars, callVars
<1>2. ASSUME NEW c \in Callers, NEW u \in Uris, EnterActions(c, u)
      PROVE  LaneInv'
  BY <1>2, EnterEffect, LaneFrom DEF InLane
<1>3. ASSUME NEW c \in Callers, Pinned(c) \/ PinFails(c)
      PROVE  LaneInv'
  <2>1. /\ Elsewhere(c) /\ pc'[c] \in {"queued", "returned"} /\ lane' \in {lane, Append(lane, c)}
    BY <1>3, ReturnsEffect, QueueEffect DEF Pinned, PinFails, Verdicts
  <2> QED
    BY <2>1, LaneFrom DEF InLane
<1>4. ASSUME NEW c \in Callers, LaneActions(c) \/ SendRaw(c)
      PROVE  LaneInv'
  <2>1. /\ lane # <<>> /\ Head(lane) = c /\ Elsewhere(c)
        /\ lane' # lane => lane' = Tail(lane) /\ pc'[c] \notin InLane
    BY <1>4, LaneEffect, SendEffect DEF SendRaw
  <2> QED
    BY <2>1 DEF LaneInv, Elsewhere
<1>6. ASSUME NEW c \in Callers, LookActions(c)
      PROVE  LaneInv'
  <2>1. pc'[c] \notin InLane
    BY <1>6, LookEffect DEF InLane, Looking
  <2> QED
    BY <1>6, <2>1, LookEffect, LaneFrom
<1>7. ASSUME NEW c \in Callers, Settle(c) \/ TimesOut(c)
      PROVE  LaneInv'
  BY <1>7, SettleEffect, TimesOutEffect, LaneFrom DEF Settle, TimesOut, InLane
<1>8. ASSUME NEW c \in Callers, WaitSettles(c)
      PROVE  LaneInv'
  BY <1>8, WaitSettlesEffect DEF WaitSettles, InLane, LaneInv
<1>9. ASSUME NEW h \in Sent, ChainActions(h)
      PROVE  LaneInv'
  BY <1>9 DEF ChainActions, Include, Drop, callVars, LaneInv
<1>10. CASE Restart
  BY <1>10 DEF Restart, LaneInv, InLane
<1> QED
  BY <1>1, <1>2, <1>3, <1>4, <1>6, <1>7, <1>8, <1>9, <1>10
  DEF Next, Plan, Handle, EnterActions, LaneActions, LookActions, ChainActions

-----------------------------------------------------------------------------
(* What activations hold.                                                   *)

Kept == \A u \in Uris : attempts[u] # None => attempts'[u] # None

(* The chain as it was is a chain that moved.                               *)
LEMMA SameChain == tx' = tx => ChainMoves
BY DEF ChainMoves, Moves, Sent, Live

(* An activation that does not move keeps what it holds, whatever happens   *)
(* to the chain and the ledger around it.                                   *)
LEMMA CallElsewhere ==
  ASSUME TypeOK, CallInv, NEW d \in Callers, ChainMoves, past' = past, Kept,
         pc'[d] = pc[d], my'[d] = my[d], uri'[d] = uri[d], seen'[d] = seen[d]
  PROVE  CallOf(d)'
<1>1. CallOf(d)
  BY DEF CallInv
<1>2. Active(d)' => Active(d)
  BY DEF Active
<1>3. pc[d] \in Resolving => uri[d] \in Uris
  BY <1>1, Types DEF CallOf, Active, Resolving, Looking
<1>4. ASSUME my[d].hash # None
      PROVE  my[d].hash \in Sent' /\ my[d].hash \notin past' /\ Moves(my[d].hash)
  BY <1>1, <1>4 DEF CallOf, ChainMoves
<1>5. pc[d] = "receipt" => my[d].hash # None
  BY <1>1 DEF CallOf, Naming
<1> QED
  BY <1>1, <1>2, <1>3, <1>4, <1>5 DEF CallOf, Kept, Moves

(* An activation that stands nowhere holds nothing.                         *)
LEMMA CallBlank ==
  ASSUME NEW c \in Callers, my'[c].hash = None, seen'[c] = "nothing",
         pc'[c] \notin Naming \cup Resolving,
         uri'[c] # None \/ pc'[c] \in {"idle", "returned", "lost"}
  PROVE  CallOf(c)'
BY DEF CallOf, Active, Naming, Resolving, Looking

(* An activation that holds a hash, in a step that leaves the chain alone.  *)
LEMMA CallHolds ==
  ASSUME NEW c \in Callers, NEW h \in Sent \ past, h # None, UNCHANGED <<tx, past>>,
         my'[c].hash = h, uri'[c] # None, tx[h].uri = uri'[c],
         pc'[c] \notin Looking \/ attempts'[uri'[c]] # None,
         pc'[c] \in {"settle", "waiting"} => attempts'[uri'[c]] # None,
         seen'[c] = "nothing"
  PROVE  CallOf(c)'
BY DEF CallOf, Naming, Resolving, Looking, Active, Sent

(* Every step keeps what activations hold.                                  *)
LEMMA CallStep ==
  ASSUME TypeOK, CountInv, LaneInv, CallInv, HashInv, [Next]_vars
  PROVE  CallInv'
<1>1. CASE UNCHANGED vars
  <2>1. UNCHANGED <<attempts, tx, past, pc, my, uri, seen>>
    BY <1>1 DEF vars, ledgerVars, callVars, chainVars
  <2> QED
    BY <2>1, SameChain, CallElsewhere DEF Kept, CallInv
<1>2. ASSUME NEW c \in Callers, NEW u \in Uris, EnterActions(c, u)
      PROVE  CallInv'
  <2>1. /\ Elsewhere(c) /\ pc[c] = "idle" /\ uri' = [uri EXCEPT ![c] = u]
        /\ UNCHANGED <<attempts, seen, tx, past>> /\ uri \in [Callers -> Uris \cup {None}]
    BY <1>2, EnterEffect, ZenonT(90) DEF TypeOK
  <2>2. CallOf(c) /\ seen[c] = "nothing" /\ uri'[c] = u /\ u # None
    BY <2>1, NoneAssumption DEF CallInv, CallOf, Looking
  <2>3. ASSUME NEW d \in Callers \ {c} PROVE CallOf(d)'
    BY <2>1, SameChain, CallElsewhere DEF Kept, Elsewhere
  <2>4. ASSUME pc'[c] = "receipt", Outstanding(u), my'[c].hash = attempts[u].hash
        PROVE  CallOf(c)'
    <3> DEFINE h == attempts[u].hash
    <3>1. h \in Sent \ past /\ h # None /\ tx[h].uri = u /\ attempts[u] # None
      BY <2>4 DEF Outstanding, HashInv
    <3>2. my'[c].hash = h /\ attempts'[uri'[c]] # None /\ uri'[c] = u
          /\ seen'[c] = "nothing" /\ UNCHANGED <<tx, past>>
      BY <2>1, <2>2, <2>4, <3>1
    <3> HIDE DEF h
    <3> QED
      BY <2>2, <3>1, <3>2, CallHolds
  <2>5. ASSUME pc'[c] \in {"queued", "pinning", "returned"}, my'[c] \in {Blank, my[c]}
        PROVE  CallOf(c)'
    <3>1. CASE my'[c].hash = None
      <4>1. pc'[c] \notin Naming \cup Resolving /\ seen'[c] = "nothing" /\ uri'[c] # None
        BY <2>1, <2>2, <2>5 DEF Naming, Resolving, Looking
      <4> QED
        BY <3>1, <4>1, CallBlank
    <3>2. CASE my'[c].hash # None
      <4>1. my'[c].hash = my[c].hash /\ my[c].hash # None
        BY <2>5, <3>2 DEF Blank
      <4>2. my'[c].hash \in Sent' \ past'
        BY <2>1, <2>2, <4>1 DEF CallOf, Sent
      <4>3. pc'[c] \notin Naming \cup Resolving
        BY <2>5 DEF Naming, Resolving, Looking
      <4>4. pc'[c] # "receipt" /\ uri'[c] # None /\ seen'[c] = "nothing"
        BY <2>1, <2>2, <2>5
      <4> QED
        BY <4>2, <4>3, <4>4 DEF CallOf
    <3> QED
      BY <3>1, <3>2
  <2>6. CallOf(c)'
    <3>1. CASE pc'[c] = "pinning" /\ my' = my
      BY <2>5, <3>1
    <3> QED
      BY <1>2, <2>4, <2>5, <3>1, EnterEffect
  <2> QED
    BY <2>3, <2>6 DEF CallInv
<1>3. ASSUME NEW c \in Callers, Pinned(c) \/ PinFails(c)
      PROVE  CallInv'
  <2>1. /\ Elsewhere(c) /\ pc'[c] \in {"queued", "returned"} /\ my'[c] \in {Blank, my[c]}
    BY <1>3, ReturnsEffect, QueueEffect DEF Pinned, PinFails, Verdicts
  <2>2. UNCHANGED <<uri, seen, tx, past>> /\ pc[c] = "pinning" /\ CallOf(c)
    BY <1>3 DEF Pinned, PinFails, chainVars, CallInv
  <2>3. Kept
    <3>1. [hash |-> None, agent |-> None, state |-> "broadcast"] \in Record
      BY DEF Record
    <3> QED
      BY <1>3, <3>1, NoneAssumption DEF Pinned, PinFails, ledgerVars, Kept, TypeOK
  <2>4. ASSUME NEW d \in Callers \ {c} PROVE CallOf(d)'
    BY <2>1, <2>2, <2>3, SameChain, CallElsewhere DEF Elsewhere
  <2>5. CallOf(c)'
    BY <2>1, <2>2 DEF CallOf, Active, Naming, Resolving, Looking, Sent, Blank
  <2> QED
    BY <2>4, <2>5 DEF CallInv
<1>4. ASSUME NEW c \in Callers, LaneActions(c)
      PROVE  CallInv'
  <2>1. /\ Elsewhere(c) /\ uri' = uri /\ seen' = seen /\ uri[c] \in Uris /\ uri[c] # None
    BY <1>4, LaneEffect, NoneAssumption
  <2>2. UNCHANGED <<tx, past>>
    BY <1>4 DEF LaneActions, PlanSettled, PlanOutstanding, PlanBroadcast, FetchNonce,
       SendRejected, SendAnswers, SendLost, chainVars
  <2>3. attempts' = attempts \/ SendAnswers(c)
    BY <1>4 DEF LaneActions, PlanSettled, PlanOutstanding, PlanBroadcast, FetchNonce,
       SendRejected, SendLost, ledgerVars
  <2>4. Kept /\ (SendAnswers(c) => attempts'[uri[c]] # None)
    <3>1. [hash |-> my[c].hash, agent |-> None, state |-> "broadcast"] \in Record
      BY Types DEF Record
    <3> QED
      BY <2>1, <2>3, <3>1, NoneAssumption DEF SendAnswers, Kept, TypeOK
  <2>5. ASSUME NEW d \in Callers \ {c} PROVE CallOf(d)'
    BY <2>1, <2>2, <2>4, SameChain, CallElsewhere DEF Elsewhere
  <2>6. CallOf(c) /\ seen[c] = "nothing"
    BY <1>4 DEF LaneActions, PlanSettled, PlanOutstanding, PlanBroadcast, FetchNonce,
       SendRejected, SendAnswers, SendLost, Turn, CallInv, CallOf, Looking
  <2>7. ASSUME PlanOutstanding(c) PROVE CallOf(c)'
    <3> DEFINE h == attempts[uri[c]].hash
    <3>1. h \in Sent \ past /\ h # None /\ tx[h].uri = uri[c] /\ attempts'[uri[c]] # None
      BY <2>1, <2>7 DEF PlanOutstanding, Outstanding, HashInv, ledgerVars
    <3>2. my'[c].hash = h
      BY <2>1, <2>7 DEF PlanOutstanding, Holding, TypeOK, Locals
    <3>3. uri'[c] = uri[c] /\ seen'[c] = "nothing"
      BY <2>1, <2>6
    <3> HIDE DEF h
    <3> QED
      BY <2>1, <2>2, <3>1, <3>2, <3>3, CallHolds
  <2>8. ASSUME SendAnswers(c) PROVE CallOf(c)'
    <3> DEFINE h == my[c].hash
    <3>1. h \in Sent \ past /\ h # None /\ tx[h].uri = uri[c]
      BY <2>6, <2>8 DEF CallOf, SendAnswers, Naming
    <3>2. my'[c].hash = h
      BY <2>8 DEF SendAnswers
    <3>3. uri'[c] = uri[c] /\ seen'[c] = "nothing" /\ attempts'[uri'[c]] # None
      BY <2>1, <2>4, <2>6, <2>8
    <3> HIDE DEF h
    <3> QED
      BY <2>1, <2>2, <3>1, <3>2, <3>3, CallHolds
  <2>9. ASSUME PlanBroadcast(c) \/ FetchNonce(c) PROVE CallOf(c)'
    <3>1. pc'[c] \in {"nonce", "sending"} /\ my'[c].hash = my[c].hash
      BY <2>9, NonceEffect, ToEffect DEF PlanBroadcast, PcValues, InLane
    <3> QED
      <4>1. my'[c].hash # None => my'[c].hash \in Sent' \ past'
        BY <2>2, <2>6, <3>1 DEF CallOf, Sent
      <4>2. pc'[c] \notin Naming \cup Resolving /\ pc'[c] # "receipt"
        BY <3>1 DEF Naming, Resolving, Looking
      <4>3. uri'[c] # None /\ seen'[c] = "nothing"
        BY <2>1, <2>6
      <4> QED
        BY <4>1, <4>2, <4>3 DEF CallOf
  <2>10. ASSUME PlanSettled(c) \/ SendRejected(c) \/ SendLost(c) PROVE CallOf(c)'
    <3>1. pc'[c] = "returned" /\ my'[c] = Blank
      BY <2>10 DEF PlanSettled, SendRejected, SendLost, Returns, To, TypeOK
    <3> QED
      <4>1. my'[c].hash = None /\ seen'[c] = "nothing" /\ uri'[c] # None
        BY <2>1, <2>6, <3>1 DEF Blank
      <4>2. pc'[c] \notin Naming \cup Resolving
        BY <3>1 DEF Naming, Resolving, Looking
      <4> QED
        BY <4>1, <4>2, CallBlank
  <2>11. CallOf(c)'
    BY <1>4, <2>7, <2>8, <2>9, <2>10 DEF LaneActions
  <2> QED
    BY <2>5, <2>11 DEF CallInv
<1>5. ASSUME NEW c \in Callers, SendRaw(c)
      PROVE  CallInv'
  <2>1. /\ Elsewhere(c) /\ ChainMoves /\ pc'[c] = "sent" /\ my'[c].hash = Len(tx) + 1
        /\ Sent' = 1..(Len(tx) + 1) /\ tx'[Len(tx) + 1].uri = uri[c] /\ uri[c] \in Uris
        /\ Len(tx) \in Nat /\ Sent = 1..Len(tx)
    <3>1. tx'[Len(tx) + 1] = [uri |-> uri[c], nonce |-> my[c].nonce, state |-> "pending"]
      BY <1>5, SendEffect
    <3>2. Len(tx) \in Nat /\ Sent = 1..Len(tx)
      BY <1>5, Types
    <3>3. Elsewhere(c) /\ ChainMoves /\ pc'[c] = "sent" /\ my'[c].hash = Len(tx) + 1
          /\ Sent' = 1..(Len(tx) + 1) /\ uri[c] \in Uris
      BY <1>5, SendEffect
    <3> QED
      BY <3>1, <3>2, <3>3
  <2>2. UNCHANGED <<attempts, uri, seen, past>> /\ pc[c] = "sending" /\ CallOf(c)
    BY <1>5 DEF SendRaw, ledgerVars, CallInv
  <2>3. ASSUME NEW d \in Callers \ {c} PROVE CallOf(d)'
    BY <2>1, <2>2, CallElsewhere DEF Elsewhere, Kept
  <2>4. Len(tx) + 1 \notin past /\ Len(tx) + 1 # None /\ Len(tx) + 1 \in Sent'
    BY <2>1, NoneAssumption, CallersAssumption DEF CountInv
  <2>5. CallOf(c)'
    BY <2>1, <2>2, <2>4 DEF CallOf, Active, Naming, Resolving, Looking
  <2> QED
    BY <2>3, <2>5 DEF CallInv
<1>6. ASSUME NEW c \in Callers, LookActions(c)
      PROVE  CallInv'
  <2> DEFINE u == uri[c]
  <2>1. /\ Elsewhere(c) /\ uri' = uri /\ u \in Uris /\ pc[c] \in Looking
        /\ \A d \in Callers \ {c} : seen'[d] = seen[d]
        /\ pc'[c] \in Looking \/ seen'[c] = "nothing"
        /\ pc'[c] \in Looking \cup {"queued", "returned"}
        /\ pc'[c] = "receipt" => pc[c] = "receipt"
        /\ UNCHANGED <<tx, past>> /\ u # None
    BY <1>6, LookEffect, NoneAssumption DEF chainVars
  <2>2. /\ my'[c] = my[c] \/ my'[c] = Blank \/ my'[c].hash = attempts[u].hash
        /\ pc'[c] = pc[c] => my' = my
        /\ attempts[u] # None
    BY <1>6, LookEffect, NoneAssumption
  <2>3. Kept
    BY <1>6, HandledLedger DEF Kept
  <2>4. ASSUME NEW d \in Callers \ {c} PROVE CallOf(d)'
    BY <2>1, <2>3, SameChain, CallElsewhere DEF Elsewhere
  <2>5. CallOf(c) /\ (attempts[u].hash # None => attempts[u].hash \in Sent \ past)
    BY <2>1, <2>2 DEF CallInv, HashInv
  <2>6. ASSUME pc'[c] = "receipt", seen'[c] = "mined"
        PROVE  tx'[my'[c].hash].state = "mined"
    <3>1. my' = my /\ pc[c] = "receipt"
      BY <2>1, <2>2, <2>6
    <3>2. ReceiptAnswers(c) \/ PendingAnswers(c)
      <4>1. pc' # [pc EXCEPT ![c] = "pending"] /\ pc'[c] # "returned" /\ pc'[c] # "queued"
        BY <2>6 DEF TypeOK
      <4> QED
        BY <1>6, <4>1, GoneEffect, Types, <2>6 DEF LookActions, ReceiptMissing, ReceiptFails,
           ReceiptReverted, ReceiptMined, PendingFound, PendingMissing, Returns, To, TypeOK
    <3> QED
      BY <2>1, <2>6, <3>1, <3>2, AnswersEffect
  <2>7. my'[c].hash # None => my'[c].hash \in Sent' \ past'
    BY <2>1, <2>2, <2>5 DEF CallOf, Blank, Sent
  <2>8. pc'[c] = "receipt" => my'[c].hash # None /\ tx'[my'[c].hash].uri = u
    BY <2>1, <2>2, <2>5 DEF CallOf, Naming
  <2>9. attempts'[u] # None
    BY <2>1, <2>2, <2>3 DEF Kept
  <2> HIDE DEF u
  <2>10. uri'[c] = u
    BY <2>1 DEF u
  <2>11. CallOf(c)'
    BY <2>1, <2>6, <2>7, <2>8, <2>9, <2>10 DEF CallOf, Naming, Looking
  <2> QED
    BY <2>4, <2>11 DEF CallInv
<1>7. ASSUME NEW c \in Callers, Settle(c)
      PROVE  CallInv'
  <2>1. /\ Elsewhere(c) /\ pc'[c] = "waiting" /\ my'[c].hash = my[c].hash /\ uri[c] \in Uris
    BY <1>7, SettleEffect
  <2>2. UNCHANGED <<attempts, uri, seen, tx, past>> /\ pc[c] = "settle" /\ CallOf(c)
    BY <1>7 DEF Settle, chainVars, CallInv
  <2>3. ASSUME NEW d \in Callers \ {c} PROVE CallOf(d)'
    BY <2>1, <2>2, SameChain, CallElsewhere DEF Elsewhere, Kept
  <2>4. CallOf(c)'
    BY <2>1, <2>2 DEF CallOf, Active, Naming, Resolving, Looking, Sent
  <2> QED
    BY <2>3, <2>4 DEF CallInv
<1>8. ASSUME NEW c \in Callers, TimesOut(c)
      PROVE  CallInv'
  <2>1. /\ Elsewhere(c) /\ pc'[c] = "returned" /\ my'[c] = Blank
        /\ UNCHANGED <<attempts, uri, seen, tx, past>> /\ pc[c] = "waiting" /\ CallOf(c)
    BY <1>8, TimesOutEffect DEF TimesOut, chainVars, CallInv
  <2>2. ASSUME NEW d \in Callers \ {c} PROVE CallOf(d)'
    BY <2>1, SameChain, CallElsewhere DEF Elsewhere, Kept
  <2>3. CallOf(c)'
    BY <2>1, CallBlank DEF CallOf, Active, Naming, Resolving, Looking, Blank
  <2> QED
    BY <2>2, <2>3 DEF CallInv
<1>9. ASSUME NEW c \in Callers, WaitSettles(c)
      PROVE  CallInv'
  <2>1. UNCHANGED <<uri, seen, tx, past>> /\ Kept
    BY <1>9, WaitSettlesEffect DEF WaitSettles, chainVars, Kept
  <2>2. ASSUME NEW d \in Callers \ Mates(c) PROVE CallOf(d)'
    BY <1>9, <2>1, <2>2, WaitSettlesEffect, SameChain, CallElsewhere
  <2>3. ASSUME NEW d \in Mates(c) PROVE CallOf(d)'
    <3>1. d \in Callers /\ pc[d] = "waiting" /\ pc'[d] = "returned" /\ my'[d] = Blank
      BY <1>9, <2>3, WaitSettlesEffect
    <3> QED
      BY <2>1, <3>1, CallBlank DEF CallInv, CallOf, Active, Naming, Resolving, Looking, Blank
  <2> QED
    BY <2>2, <2>3 DEF CallInv
<1>10. ASSUME NEW h \in Sent, ChainActions(h)
       PROVE  CallInv'
  <2>1. UNCHANGED <<attempts, pc, my, uri, seen, past>> /\ ChainMoves
    BY <1>10, ChainEffect DEF ChainActions, Include, Drop, callVars, ledgerVars
  <2> QED
    BY <2>1, CallElsewhere DEF CallInv, Kept
<1>11. CASE Restart
  <2>1. ASSUME NEW c \in Callers
        PROVE  pc'[c] \in {"idle", "lost"} /\ my'[c].hash = None /\ seen'[c] = "nothing"
    BY <1>11 DEF Restart, Blank
  <2> QED
    BY <2>1, CallBlank DEF CallInv, Naming, Resolving, Looking
<1> QED
  BY <1>1, <1>2, <1>3, <1>4, <1>5, <1>6, <1>7, <1>8, <1>9, <1>10, <1>11
  DEF Next, Plan, Handle, EnterActions, LaneActions, LookActions, ChainActions

-----------------------------------------------------------------------------
(* Who knows which transaction.                                             *)

(* The transaction whose answer is awaited is known to its sender only.     *)
OwnInv ==
  \A c \in Callers : pc[c] = "sent" =>
    /\ \A d \in Callers \ {c} : my[d].hash # my[c].hash
    /\ \A u \in Uris : attempts[u] # None => attempts[u].hash # my[c].hash

(* Where hashes come from in a step of c that sends nothing.                *)
HashFrom(d) ==
  \/ my'[d].hash \in {my[d].hash, None}
  \/ \E u \in Uris : attempts[u] # None /\ my'[d].hash = attempts[u].hash
RecordFrom(c, u) ==
  attempts'[u] # None =>
    \/ attempts'[u].hash = None
    \/ attempts[u] # None /\ attempts'[u].hash = attempts[u].hash
    \/ pc[c] = "sent" /\ pc'[c] # "sent" /\ uri[c] = u /\ attempts'[u].hash = my[c].hash
SentBefore(d) ==
  pc'[d] = "sent" => pc[d] = "sent" /\ my'[d].hash = my[d].hash /\ uri'[d] = uri[d]
HashesMove(c) ==
  /\ UNCHANGED <<tx, confirmed, past>> /\ misled \subseteq misled'
  /\ Kept /\ \A u \in cards' : attempts'[u] # None
  /\ \A d \in Callers : HashFrom(d) /\ SentBefore(d)
  /\ \A u \in Uris : RecordFrom(c, u)

CallerActions(c) ==
  \/ \E u \in Uris : EnterActions(c, u)
  \/ Pinned(c) \/ PinFails(c) \/ LaneActions(c) \/ LookActions(c)
  \/ Settle(c) \/ WaitSettles(c) \/ TimesOut(c)

(* A record that is not touched, a caller that is not.                      *)
LEMMA SameRecords ==
  ASSUME NEW c \in Callers, attempts' = attempts
  PROVE  Kept /\ \A u \in Uris : RecordFrom(c, u)
BY DEF Kept, RecordFrom

(* A caller whose locals stand still adds no hash of its own.              *)
LEMMA SameCaller ==
  ASSUME NEW d \in Callers, pc'[d] = pc[d], my'[d] = my[d], uri'[d] = uri[d]
  PROVE  HashFrom(d) /\ SentBefore(d)
BY DEF HashFrom, SentBefore

(* Every step of a caller that sends nothing is such a step.                *)
LEMMA HashesMoveStep ==
  ASSUME TypeOK, CountInv, LaneInv, CallInv, HashInv, NEW c \in Callers, CallerActions(c)
  PROVE  HashesMove(c)
<1>1. \A u \in cards : attempts[u] # None
  BY DEF HashInv
<1>2. ASSUME NEW u \in Uris, EnterActions(c, u) PROVE HashesMove(c)
  <2>1. /\ Elsewhere(c) /\ uri' = [uri EXCEPT ![c] = u] /\ uri \in [Callers -> Uris \cup {None}]
        /\ UNCHANGED <<attempts, cards, receipts, seen, tx, confirmed, misled, past>>
    BY <1>2, EnterEffect, ZenonT(90) DEF TypeOK
  <2>2. ASSUME NEW d \in Callers \ {c} PROVE HashFrom(d) /\ SentBefore(d)
    BY <2>1, SameCaller DEF Elsewhere
  <2>3. pc'[c] # "sent"
    BY <1>2, EnterEffect
  <2>4. my'[c] = Blank \/ my'[c] = my[c]
        \/ (Outstanding(u) /\ my'[c].hash = attempts[u].hash)
    BY <1>2, EnterEffect
  <2>5. HashFrom(c) /\ SentBefore(c)
    BY <2>3, <2>4 DEF HashFrom, SentBefore, Blank, Outstanding
  <2> QED
    BY <1>1, <2>1, <2>2, <2>5, SameRecords DEF HashesMove
<1>3. ASSUME Pinned(c) \/ PinFails(c) PROVE HashesMove(c)
  <2>1. /\ Elsewhere(c) /\ pc'[c] # "sent" /\ my'[c] \in {Blank, my[c]}
    BY <1>3, ReturnsEffect, QueueEffect DEF Pinned, PinFails, Verdicts
  <2>2. UNCHANGED <<uri, tx, confirmed, past, misled>>
    BY <1>3 DEF Pinned, PinFails, chainVars
  <2>3. ASSUME NEW d \in Callers \ {c} PROVE HashFrom(d) /\ SentBefore(d)
    BY <2>1, <2>2, SameCaller DEF Elsewhere
  <2>4. HashFrom(c) /\ SentBefore(c)
    BY <2>1 DEF HashFrom, SentBefore, Blank
  <2>5. /\ Kept /\ \A u \in Uris : RecordFrom(c, u)
        /\ \A u \in cards' : attempts'[u] # None
    <3>1. CASE PinFails(c)
      BY <1>1, <3>1, SameRecords DEF PinFails, ledgerVars
    <3>2. CASE Pinned(c)
      <4> DEFINE new == [hash |-> None, agent |-> None, state |-> "broadcast"]
      <4>1. new \in Record /\ new.hash = None /\ new # None /\ uri[c] \in Uris
        <5>1. new \in Record
          BY DEF Record
        <5> QED
          BY <5>1, <3>2, Types, NoneAssumption DEF Pinned, CallInv, CallOf, Active
      <4>2. /\ attempts' = IF attempts[uri[c]] # None THEN attempts
                           ELSE [attempts EXCEPT ![uri[c]] = new]
            /\ cards' = cards \cup {uri[c]} /\ attempts \in [Uris -> Record \cup {None}]
        <5>1. attempts' = IF attempts[uri[c]] # None THEN attempts
                          ELSE [attempts EXCEPT ![uri[c]] = new]
          BY <3>2 DEF Pinned
        <5>2. cards' = cards \cup {uri[c]}
          BY <3>2 DEF Pinned
        <5>3. attempts \in [Uris -> Record \cup {None}]
          BY DEF TypeOK
        <5> QED
          BY <5>1, <5>2, <5>3
      <4> HIDE DEF new
      <4>3. cards \subseteq Uris
        BY DEF TypeOK
      <4>4. ASSUME NEW u \in Uris
            PROVE  \/ attempts'[u] = attempts[u]
                   \/ u = uri[c] /\ attempts[u] = None /\ attempts'[u] = new
        BY <4>1, <4>2
      <4>5. attempts'[uri[c]] # None
        BY <4>1, <4>2
      <4>6. Kept
        BY <4>4 DEF Kept
      <4>7. \A u \in Uris : RecordFrom(c, u)
        BY <4>1, <4>4 DEF RecordFrom
      <4>8. \A u \in cards' : attempts'[u] # None
        BY <1>1, <4>2, <4>3, <4>5, <4>6 DEF Kept
      <4> QED
        BY <4>6, <4>7, <4>8
    <3> QED
      BY <1>3, <3>1, <3>2
  <2> QED
    BY <2>2, <2>3, <2>4, <2>5 DEF HashesMove
<1>4. ASSUME LaneActions(c) PROVE HashesMove(c)
  <2>1. /\ Elsewhere(c) /\ uri' = uri /\ uri[c] \in Uris
    BY <1>4, LaneEffect
  <2>2. UNCHANGED <<tx, confirmed, past, cards>> /\ misled \subseteq misled'
    BY <1>4 DEF LaneActions, PlanSettled, PlanOutstanding, PlanBroadcast, FetchNonce,
       SendRejected, SendAnswers, SendLost, chainVars, ledgerVars
  <2>3. attempts' = attempts \/ SendAnswers(c)
    BY <1>4 DEF LaneActions, PlanSettled, PlanOutstanding, PlanBroadcast, FetchNonce,
       SendRejected, SendLost, ledgerVars
  <2>4. ASSUME NEW d \in Callers \ {c} PROVE HashFrom(d) /\ SentBefore(d)
    BY <2>1, SameCaller DEF Elsewhere
  <2>5. pc'[c] # "sent" /\ HashFrom(c)
    <3>1. CASE PlanOutstanding(c)
      <4>1. pc'[c] # "sent"
        BY <3>1 DEF PlanOutstanding, To, TypeOK
      <4>2. my'[c].hash = attempts[uri[c]].hash /\ attempts[uri[c]] # None
        BY <3>1 DEF PlanOutstanding, Outstanding, Holding, TypeOK, Locals
      <4> QED
        BY <2>1, <4>1, <4>2 DEF HashFrom
    <3>2. CASE PlanBroadcast(c) \/ FetchNonce(c)
      BY <3>2, NonceEffect, ToEffect DEF PlanBroadcast, PcValues, InLane, HashFrom
    <3>3. CASE PlanSettled(c) \/ SendRejected(c) \/ SendLost(c)
      BY <3>3 DEF PlanSettled, SendRejected, SendLost, Returns, To, TypeOK, HashFrom, Blank
    <3>4. CASE SendAnswers(c)
      BY <3>4 DEF SendAnswers, To, TypeOK, HashFrom
    <3> QED
      BY <1>4, <3>1, <3>2, <3>3, <3>4 DEF LaneActions
  <2>6. Kept /\ \A u \in Uris : RecordFrom(c, u)
    <3>1. CASE attempts' = attempts
      BY <3>1, SameRecords
    <3>2. CASE SendAnswers(c)
      <4> DEFINE new == [hash |-> my[c].hash, agent |-> None, state |-> "broadcast"]
      <4>1. new \in Record /\ new.hash = my[c].hash /\ new # None
        <5>1. new \in Record
          BY Types DEF Record
        <5> QED
          BY <5>1, NoneAssumption
      <4>2. attempts' = [attempts EXCEPT ![uri[c]] = new] /\ pc[c] = "sent"
            /\ attempts \in [Uris -> Record \cup {None}]
        BY <3>2 DEF SendAnswers, TypeOK
      <4> HIDE DEF new
      <4> QED
        BY <2>1, <2>5, <4>1, <4>2 DEF Kept, RecordFrom
    <3> QED
      BY <2>3, <3>1, <3>2
  <2>7. \A u \in cards' : attempts'[u] # None
    <3>1. cards \subseteq Uris
      BY DEF TypeOK
    <3> QED
      BY <1>1, <2>2, <2>6, <3>1 DEF Kept
  <2> QED
    BY <2>2, <2>4, <2>5, <2>6, <2>7 DEF HashesMove, SentBefore
<1>5. ASSUME LookActions(c) PROVE HashesMove(c)
  <2> DEFINE u == uri[c]
  <2>1. /\ Elsewhere(c) /\ uri' = uri /\ u \in Uris /\ attempts[u] # None
        /\ UNCHANGED <<cards, tx, confirmed, past>> /\ misled \subseteq misled'
        /\ pc'[c] \in Looking \cup {"queued", "returned"} /\ HandledRecord(c)
    BY <1>5, LookEffect, HandledLedger, NoneAssumption DEF chainVars
  <2>2. my'[c] = my[c] \/ my'[c] = Blank \/ my'[c].hash = attempts[u].hash
    BY <1>5, LookEffect
  <2>3. ASSUME NEW d \in Callers \ {c} PROVE HashFrom(d) /\ SentBefore(d)
    BY <2>1, SameCaller DEF Elsewhere
  <2>4. HashFrom(c) /\ SentBefore(c)
    BY <2>1, <2>2 DEF HashFrom, SentBefore, Blank, Looking
  <2>5. Kept /\ \A v \in Uris : v # u => attempts'[v] = attempts[v]
    BY <1>5, HandledLedger DEF Kept
  <2>6. attempts'[u].hash \in {None, attempts[u].hash}
    <3>1. attempts \in [Uris -> Record \cup {None}] /\ attempts[u] \in Record
      BY <2>1, Types DEF TypeOK
    <3>2. CASE ReceiptMined(c)
      <4>1. my[c].hash \in Txs
        BY <3>2, Types DEF ReceiptMined, CallInv, CallOf, Naming
      <4>2. attempts'[u] = Mined(attempts[u], my[c].hash)
        BY <2>1, <3>1, <3>2 DEF ReceiptMined
      <4> QED
        BY <3>1, <4>1, <4>2, HandledType, ZenonT(90)
    <3>3. CASE ReceiptReverted(c)
      BY <2>1, <3>1, <3>3 DEF ReceiptReverted, Record
    <3>4. CASE PendingMissing(c)
      BY <2>1, <3>1, <3>4 DEF PendingMissing, Record
    <3> QED
      BY <2>1, <3>2, <3>3, <3>4 DEF HandledRecord
  <2>7. \A v \in cards' : attempts'[v] # None
    <3>1. cards \subseteq Uris
      BY DEF TypeOK
    <3> QED
      BY <1>1, <2>1, <2>5, <3>1 DEF Kept
  <2>8. \A v \in Uris : RecordFrom(c, v)
    BY <2>1, <2>5, <2>6 DEF RecordFrom
  <2> QED
    BY <2>1, <2>3, <2>4, <2>5, <2>7, <2>8 DEF HashesMove
<1>6. ASSUME Settle(c) \/ TimesOut(c) PROVE HashesMove(c)
  <2>1. /\ Elsewhere(c) /\ pc'[c] \in {"waiting", "returned"}
        /\ my'[c].hash = my[c].hash \/ my'[c] = Blank
    BY <1>6, SettleEffect, TimesOutEffect
  <2>2. UNCHANGED <<attempts, cards, uri, tx, confirmed, past, misled>>
    BY <1>6 DEF Settle, TimesOut, chainVars
  <2>3. ASSUME NEW d \in Callers \ {c} PROVE HashFrom(d) /\ SentBefore(d)
    BY <2>1, <2>2, SameCaller DEF Elsewhere
  <2>4. HashFrom(c) /\ SentBefore(c)
    BY <2>1 DEF HashFrom, SentBefore, Blank
  <2> QED
    BY <1>1, <2>2, <2>3, <2>4, SameRecords DEF HashesMove
<1>7. ASSUME WaitSettles(c) PROVE HashesMove(c)
  <2>1. UNCHANGED <<uri, cards, tx, confirmed, past>> /\ Kept /\ misled \subseteq misled'
    BY <1>7, WaitSettlesEffect DEF WaitSettles, chainVars, Kept
  <2>2. ASSUME NEW d \in Callers \ Mates(c) PROVE HashFrom(d) /\ SentBefore(d)
    BY <1>7, <2>1, <2>2, WaitSettlesEffect, SameCaller
  <2>3. ASSUME NEW d \in Mates(c) PROVE HashFrom(d) /\ SentBefore(d)
    <3>1. pc'[d] = "returned" /\ my'[d] = Blank
      BY <1>7, <2>3, WaitSettlesEffect
    <3> QED
      BY <3>1 DEF HashFrom, SentBefore, Blank
  <2>4. \A v \in Uris : RecordFrom(c, v)
    <3>0. PICK g \in Txs : SettledBy(c, g)
      BY <1>7, WaitSettlesEffect
    <3> DEFINE o == Outcome(attempts[uri[c]], g)
    <3>1. /\ attempts' = [attempts EXCEPT ![uri[c]] = o] /\ uri[c] \in Uris
          /\ attempts \in [Uris -> Record \cup {None}] /\ attempts[uri[c]] \in Record
      BY <1>7, <3>0, WaitSettlesEffect DEF TypeOK, SettledBy
    <3>2. o.hash = attempts[uri[c]].hash
      BY <3>1, OutcomeType
    <3> HIDE DEF o
    <3>3. attempts[uri[c]] # None
      BY <3>1, NoneAssumption
    <3> QED
      BY <3>1, <3>2, <3>3 DEF RecordFrom
  <2>5. \A v \in cards' : attempts'[v] # None
    <3>1. cards \subseteq Uris
      BY DEF TypeOK
    <3> QED
      BY <1>1, <2>1, <3>1 DEF Kept
  <2> QED
    BY <2>1, <2>2, <2>3, <2>4, <2>5 DEF HashesMove
<1> QED
  BY <1>2, <1>3, <1>4, <1>5, <1>6, <1>7 DEF CallerActions

(* A step is one of a caller that sends nothing, a send, a move of the      *)
(* chain, or a restart.                                                     *)
LEMMA StepKinds ==
  ASSUME [Next]_vars
  PROVE  \/ UNCHANGED vars
         \/ \E c \in Callers : CallerActions(c) \/ SendRaw(c)
         \/ \E h \in Sent : ChainActions(h)
         \/ Restart
BY DEF Next, Plan, Handle, EnterActions, LaneActions, LookActions, ChainActions, CallerActions

(* What is on record stays a transaction of this process for the URI.       *)
LEMMA HashStep ==
  ASSUME TypeOK, CountInv, LaneInv, CallInv, HashInv, [Next]_vars
  PROVE  HashInv'
<1>1. CASE UNCHANGED vars
  BY <1>1 DEF vars, ledgerVars, chainVars, HashInv, Sent
<1>2. ASSUME NEW c \in Callers, CallerActions(c)
      PROVE  HashInv'
  <2>1. HashesMove(c)
    BY <1>2, HashesMoveStep
  <2>2. ASSUME NEW u \in Uris, attempts'[u] # None, attempts'[u].hash # None
        PROVE  attempts'[u].hash \in Sent \ past /\ tx[attempts'[u].hash].uri = u
    <3>1. \/ attempts[u] # None /\ attempts'[u].hash = attempts[u].hash
          \/ pc[c] = "sent" /\ uri[c] = u /\ attempts'[u].hash = my[c].hash
      BY <2>1, <2>2 DEF HashesMove, RecordFrom
    <3>2. pc[c] = "sent" => my[c].hash \in Sent \ past /\ tx[my[c].hash].uri = uri[c]
      BY DEF CallInv, CallOf, Naming
    <3> QED
      BY <2>2, <3>1, <3>2 DEF HashInv
  <2> QED
    BY <2>1, <2>2 DEF HashInv, HashesMove, Sent
<1>3. ASSUME NEW c \in Callers, SendRaw(c)
      PROVE  HashInv'
  <2>1. UNCHANGED <<attempts, cards, past>> /\ ChainMoves
    BY <1>3, SendEffect DEF SendRaw, ledgerVars
  <2> QED
    BY <2>1 DEF HashInv, ChainMoves, Moves
<1>4. ASSUME NEW h \in Sent, ChainActions(h)
      PROVE  HashInv'
  <2>1. UNCHANGED <<attempts, cards, past>> /\ ChainMoves
    BY <1>4, ChainEffect DEF ChainActions, Include, Drop, ledgerVars
  <2> QED
    BY <2>1 DEF HashInv, ChainMoves, Moves
<1>5. CASE Restart
  BY <1>5 DEF Restart, HashInv
<1> QED
  BY <1>1, <1>2, <1>3, <1>4, <1>5, StepKinds

(* Nobody else learns of a transaction before its answer.                   *)
LEMMA OwnStep ==
  ASSUME TypeOK, CountInv, LaneInv, CallInv, HashInv, OwnInv, [Next]_vars
  PROVE  OwnInv'
<1>1. CASE UNCHANGED vars
  BY <1>1 DEF vars, ledgerVars, callVars, OwnInv
<1>2. ASSUME NEW c \in Callers, CallerActions(c)
      PROVE  OwnInv'
  <2>1. HashesMove(c)
    BY <1>2, HashesMoveStep
  <2>2. SUFFICES ASSUME NEW e \in Callers, pc'[e] = "sent"
                 PROVE  /\ \A d \in Callers \ {e} : my'[d].hash # my'[e].hash
                        /\ \A u \in Uris : attempts'[u] # None => attempts'[u].hash # my'[e].hash
    BY DEF OwnInv
  <2>3. pc[e] = "sent" /\ my'[e].hash = my[e].hash /\ my[e].hash # None
    BY <2>1, <2>2 DEF HashesMove, SentBefore, CallInv, CallOf, Naming
  <2>4. ASSUME NEW d \in Callers \ {e} PROVE my'[d].hash # my[e].hash
    BY <2>1, <2>3 DEF HashesMove, HashFrom, OwnInv
  <2>5. ASSUME NEW u \in Uris, attempts'[u] # None PROVE attempts'[u].hash # my[e].hash
    BY <2>1, <2>2, <2>3, <2>5 DEF HashesMove, RecordFrom, OwnInv
  <2> QED
    BY <2>3, <2>4, <2>5
<1>3. ASSUME NEW c \in Callers, SendRaw(c)
      PROVE  OwnInv'
  <2>1. /\ Elsewhere(c) /\ my'[c].hash = Len(tx) + 1 /\ Sent = 1..Len(tx) /\ Len(tx) \in Nat
        /\ attempts' = attempts /\ pc[c] = "sending" /\ lane # <<>> /\ Head(lane) = c
    BY <1>3, SendEffect, Types DEF SendRaw, ledgerVars
  <2>2. Len(tx) + 1 \notin Sent /\ Len(tx) + 1 # None
    BY <2>1, NoneAssumption
  <2>3. ASSUME NEW d \in Callers PROVE my[d].hash # Len(tx) + 1
    BY <2>2 DEF CallInv, CallOf
  <2>4. ASSUME NEW u \in Uris, attempts[u] # None PROVE attempts[u].hash # Len(tx) + 1
    BY <2>2, <2>4 DEF HashInv
  <2>5. ASSUME NEW d \in Callers \ {c} PROVE pc[d] # "sent"
    BY <2>1 DEF LaneInv, InLane
  <2> QED
    BY <2>1, <2>3, <2>4, <2>5 DEF OwnInv, Elsewhere
<1>4. ASSUME NEW h \in Sent, ChainActions(h)
      PROVE  OwnInv'
  BY <1>4 DEF ChainActions, Include, Drop, ledgerVars, callVars, OwnInv
<1>5. CASE Restart
  BY <1>5 DEF Restart, OwnInv
<1> QED
  BY <1>1, <1>2, <1>3, <1>4, <1>5, StepKinds

-----------------------------------------------------------------------------
(* Live transactions and the record of their URI.                           *)

Recorded(u, h) ==
  attempts[u] # None /\ attempts[u].hash = h /\ attempts[u].state # "reverted"
Inside == {"nonce", "sending"}

(* A live transaction is on record, or its answer is still awaited; whoever *)
(* is about to send found none.                                             *)
LiveInv ==
  \A u \in Uris \ misled :
    /\ \A h \in LiveOf(u) :
         Recorded(u, h) \/ \E c \in Callers : pc[c] = "sent" /\ uri[c] = u /\ my[c].hash = h
    /\ \A c \in Callers : uri[c] = u =>
         /\ pc[c] \in Inside => LiveOf(u) = {}
         /\ pc[c] = "sent" => LiveOf(u) \subseteq {my[c].hash}

(* A record has an agent when it says mined, and its transaction minted it, *)
(* or one that took the nonce of a dropped one of its URI.                  *)
AgentOf(u, r) ==
  /\ r.agent \in Sent
  /\ tx[r.agent].state = "mined"
  /\ r.agent = r.hash \/ TookPlace(u, r.agent)
MinedOf(u) ==
  attempts[u] # None =>
    /\ attempts[u].state = "mined" => attempts[u].agent # None
    /\ attempts[u].agent # None => AgentOf(u, attempts[u])
MinedInv == \A u \in Uris \ misled : MinedOf(u)

Inv == TypeOK /\ CountInv /\ LaneInv /\ CallInv /\ HashInv /\ OwnInv /\ LiveInv /\ MinedInv

(* What it takes to let go of a live transaction is noticed.                *)
LEMMA Watched ==
  ASSUME NEW u, NEW h, Watch(u), u \notin misled', attempts[u].hash = h, h # None, Live(h)
  PROVE  attempts'[u].hash = h /\ attempts'[u].state # "reverted"
BY DEF Watch, LetsGo

(* No transaction becomes live, and none is forgotten but by a restart.     *)
LEMMA LiveShrinks ==
  ASSUME ChainMoves, past' = past, Sent' = Sent, NEW u
  PROVE  LiveOf(u)' \subseteq LiveOf(u)
BY DEF LiveOf, ChainMoves, Moves

(* A mined transaction that is looked up or waited for is the one on record.*)
LEMMA OnRecord ==
  ASSUME Inv, NEW c \in Callers, pc[c] \in {"receipt", "waiting"},
         uri[c] \notin misled, tx[my[c].hash].state = "mined"
  PROVE  /\ uri[c] \in Uris /\ attempts[uri[c]] \in Record
         /\ my[c].hash \in Sent /\ my[c].hash # None /\ attempts[uri[c]].hash = my[c].hash
<1>1. /\ my[c].hash \in Sent \ past /\ tx[my[c].hash].uri = uri[c] /\ my[c].hash # None
      /\ attempts[uri[c]] # None /\ uri[c] # None
  BY DEF Inv, CallInv, CallOf, Naming, Resolving, Looking, Active
<1>2. uri[c] \in Uris /\ attempts[uri[c]] \in Record
  BY <1>1, Types DEF Inv
<1>3. my[c].hash \in LiveOf(uri[c])
  BY <1>1 DEF LiveOf, Live
<1>4. \A e \in Callers : pc[e] = "sent" => my[e].hash # my[c].hash
  BY DEF Inv, OwnInv
<1>5. Recorded(uri[c], my[c].hash)
  BY <1>2, <1>3, <1>4 DEF Inv, LiveInv
<1> QED
  BY <1>1, <1>2, <1>5 DEF Recorded

(* An activation leaves the answer to its send by taking it or losing it.   *)
LEMMA SentAfter ==
  ASSUME Inv, NEW c \in Callers, CallerActions(c), NEW d \in Callers, pc[d] = "sent"
  PROVE  \/ pc'[d] = "sent" /\ my'[d].hash = my[d].hash /\ uri'[d] = uri[d]
         \/ d = c /\ (SendAnswers(c) \/ SendLost(c))
<1>1. ASSUME NEW u \in Uris, EnterActions(c, u) PROVE pc'[d] = "sent" /\ my'[d] = my[d] /\ uri'[d] = uri[d]
  <2>1. Elsewhere(c) /\ pc[c] = "idle" /\ uri' = [uri EXCEPT ![c] = u]
    BY <1>1, EnterEffect DEF Inv
  <2> QED
    BY <2>1 DEF Elsewhere, Inv, TypeOK
<1>2. ASSUME Pinned(c) \/ PinFails(c) PROVE pc'[d] = "sent" /\ my'[d] = my[d] /\ uri'[d] = uri[d]
  BY <1>2 DEF Pinned, PinFails, Queue, Returns, To, Inv, TypeOK
<1>3. ASSUME LaneActions(c), ~SendAnswers(c), ~SendLost(c)
      PROVE  pc'[d] = "sent" /\ my'[d] = my[d] /\ uri'[d] = uri[d]
  <2>1. pc[c] # "sent"
    BY <1>3 DEF LaneActions, PlanSettled, PlanOutstanding, PlanBroadcast, FetchNonce,
       SendRejected, Turn
  <2> QED
    BY <1>3, <2>1, LaneEffect DEF Inv, Elsewhere
<1>4. ASSUME LaneActions(c), SendAnswers(c) \/ SendLost(c), d # c
      PROVE  pc'[d] = "sent" /\ my'[d] = my[d] /\ uri'[d] = uri[d]
  BY <1>4, LaneEffect DEF Inv, Elsewhere
<1>5. ASSUME LookActions(c) PROVE pc'[d] = "sent" /\ my'[d] = my[d] /\ uri'[d] = uri[d]
  BY <1>5, LookEffect DEF Inv, Elsewhere, Looking
<1>6. ASSUME Settle(c) \/ TimesOut(c) PROVE pc'[d] = "sent" /\ my'[d] = my[d] /\ uri'[d] = uri[d]
  BY <1>6, SettleEffect, TimesOutEffect DEF Inv, Elsewhere, Settle, TimesOut
<1>7. ASSUME WaitSettles(c) PROVE pc'[d] = "sent" /\ my'[d] = my[d] /\ uri'[d] = uri[d]
  <2>1. d \notin Mates(c) /\ uri' = uri
    BY <1>7, WaitSettlesEffect DEF Inv, WaitSettles
  <2> QED
    BY <1>7, <2>1, WaitSettlesEffect DEF Inv
<1> QED
  BY <1>1, <1>2, <1>3, <1>4, <1>5, <1>6, <1>7 DEF CallerActions

(* Whoever is inside and has not sent was inside, or is let in to send.     *)
LEMMA InsideBefore ==
  ASSUME Inv, NEW c \in Callers, CallerActions(c), NEW d \in Callers, pc'[d] \in Inside
  PROVE  \/ pc[d] \in Inside /\ uri'[d] = uri[d]
         \/ d = c /\ PlanBroadcast(c)
<1>1. ASSUME NEW u \in Uris, EnterActions(c, u) PROVE pc[d] \in Inside /\ uri'[d] = uri[d]
  <2>1. Elsewhere(c) /\ uri' = [uri EXCEPT ![c] = u]
        /\ pc'[c] \in {"queued", "pinning", "returned", "receipt"}
    BY <1>1, EnterEffect DEF Inv
  <2> QED
    BY <2>1 DEF Elsewhere, Inv, TypeOK, Inside
<1>2. ASSUME Pinned(c) \/ PinFails(c) PROVE pc[d] \in Inside /\ uri'[d] = uri[d]
  BY <1>2 DEF Pinned, PinFails, Queue, Returns, To, Inv, TypeOK, Inside
<1>3. ASSUME LaneActions(c), ~PlanBroadcast(c) PROVE pc[d] \in Inside /\ uri'[d] = uri[d]
  <2>1. pc'[c] \in Inside => pc[c] \in Inside
    BY <1>3 DEF LaneActions, PlanSettled, PlanOutstanding, FetchNonce, SendRejected,
       SendAnswers, SendLost, Returns, To, Inv, TypeOK, Inside
  <2> QED
    BY <1>3, <2>1, LaneEffect DEF Inv, Elsewhere
<1>4. ASSUME PlanBroadcast(c), d # c PROVE pc[d] \in Inside /\ uri'[d] = uri[d]
  BY <1>4 DEF PlanBroadcast, To, Inv, TypeOK
<1>5. ASSUME LookActions(c) PROVE pc[d] \in Inside /\ uri'[d] = uri[d]
  <2>1. pc'[c] \notin Inside
    BY <1>5, LookEffect DEF Inv, Looking, Inside
  <2> QED
    BY <1>5, <2>1, LookEffect DEF Inv, Elsewhere
<1>6. ASSUME Settle(c) \/ TimesOut(c) PROVE pc[d] \in Inside /\ uri'[d] = uri[d]
  BY <1>6, SettleEffect, TimesOutEffect DEF Inv, Elsewhere, Settle, TimesOut, Inside
<1>7. ASSUME WaitSettles(c) PROVE pc[d] \in Inside /\ uri'[d] = uri[d]
  <2>1. d \notin Mates(c) /\ uri' = uri
    BY <1>7, WaitSettlesEffect DEF Inv, WaitSettles, Inside
  <2> QED
    BY <1>7, <2>1, WaitSettlesEffect DEF Inv
<1> QED
  BY <1>1, <1>2, <1>3, <1>4, <1>5, <1>6, <1>7 DEF CallerActions

(* Which steps of a caller touch a record.                                  *)
Touched(c, u) ==
  \/ attempts'[u] = attempts[u]
  \/ /\ attempts[u] = None
     /\ attempts'[u] = [hash |-> None, agent |-> None, state |-> "broadcast"]
  \/ /\ u = uri[c] /\ SendAnswers(c)
     /\ attempts'[u] = [hash |-> my[c].hash, agent |-> None, state |-> "broadcast"]
  \/ /\ u = uri[c] /\ attempts[u] \in Record
     /\ \/ ReceiptReverted(c) /\ attempts'[u] = [attempts[u] EXCEPT !.state = "reverted"]
        \/ PendingMissing(c) /\ attempts'[u] = [attempts[u] EXCEPT !.hash = None]
        \/ ReceiptMined(c) /\ attempts'[u] = Mined(attempts[u], my[c].hash)
        \/ /\ WaitSettles(c)
           /\ \E g \in Txs : SettledBy(c, g) /\ attempts'[u] = Outcome(attempts[u], g)

LEMMA RecordTouched ==
  ASSUME Inv, NEW c \in Callers, CallerActions(c), NEW u \in Uris
  PROVE  Touched(c, u)
<1>1. attempts \in [Uris -> Record \cup {None}]
  BY DEF Inv, TypeOK
<1>2. ASSUME NEW v \in Uris, EnterActions(c, v) PROVE attempts' = attempts
  BY <1>2, EnterEffect DEF Inv
<1>3. ASSUME Pinned(c) \/ PinFails(c)
      PROVE  \/ attempts'[u] = attempts[u]
             \/ /\ attempts[u] = None
                /\ attempts'[u] = [hash |-> None, agent |-> None, state |-> "broadcast"]
  <2> DEFINE new == [hash |-> None, agent |-> None, state |-> "broadcast"]
  <2>1. CASE PinFails(c)
    BY <2>1 DEF PinFails, ledgerVars
  <2>2. CASE Pinned(c)
    <3>1. attempts' = IF attempts[uri[c]] # None THEN attempts
                      ELSE [attempts EXCEPT ![uri[c]] = new]
      BY <2>2 DEF Pinned
    <3> HIDE DEF new
    <3>2. attempts'[u] = attempts[u] \/ (attempts[u] = None /\ attempts'[u] = new)
      BY <1>1, <3>1
    <3> QED
      BY <3>2 DEF new
  <2> QED
    BY <1>3, <2>1, <2>2
<1>4. ASSUME LaneActions(c), ~SendAnswers(c) PROVE attempts' = attempts
  BY <1>4 DEF LaneActions, PlanSettled, PlanOutstanding, PlanBroadcast, FetchNonce,
     SendRejected, SendLost, ledgerVars
<1>5. ASSUME SendAnswers(c)
      PROVE  \/ attempts'[u] = attempts[u]
             \/ /\ u = uri[c]
                /\ attempts'[u] = [hash |-> my[c].hash, agent |-> None, state |-> "broadcast"]
  <2> DEFINE new == [hash |-> my[c].hash, agent |-> None, state |-> "broadcast"]
  <2>1. attempts' = [attempts EXCEPT ![uri[c]] = new]
    BY <1>5 DEF SendAnswers
  <2> HIDE DEF new
  <2>2. attempts'[u] = attempts[u] \/ (u = uri[c] /\ attempts'[u] = new)
    BY <1>1, <2>1
  <2> QED
    BY <2>2 DEF new
<1>6. ASSUME LookActions(c)
      PROVE  \/ attempts'[u] = attempts[u]
             \/ /\ u = uri[c] /\ attempts[u] \in Record
                /\ \/ ReceiptReverted(c) /\ attempts'[u] = [attempts[u] EXCEPT !.state = "reverted"]
                   \/ PendingMissing(c) /\ attempts'[u] = [attempts[u] EXCEPT !.hash = None]
                   \/ ReceiptMined(c) /\ attempts'[u] = Mined(attempts[u], my[c].hash)
  <2>1. HandledRecord(c) /\ attempts[uri[c]] \in Record
        /\ \A v \in Uris : v # uri[c] => attempts'[v] = attempts[v]
    BY <1>6, LookEffect, HandledLedger DEF Inv
  <2>2. CASE u = uri[c]
    BY <1>1, <2>1, <2>2 DEF HandledRecord
  <2> QED
    BY <2>1, <2>2
<1>7. ASSUME Settle(c) \/ TimesOut(c) PROVE attempts' = attempts
  BY <1>7 DEF Settle, TimesOut
<1>8. ASSUME WaitSettles(c)
      PROVE  \/ attempts'[u] = attempts[u]
             \/ /\ u = uri[c] /\ attempts[u] \in Record
                /\ \E g \in Txs : SettledBy(c, g) /\ attempts'[u] = Outcome(attempts[u], g)
  <2>1. PICK g \in Txs : SettledBy(c, g)
    BY <1>8, WaitSettlesEffect DEF Inv
  <2>2. uri[c] \in Uris /\ attempts[uri[c]] \in Record
    BY <1>8, WaitSettlesEffect DEF Inv
  <2>3. attempts' = [attempts EXCEPT ![uri[c]] = Outcome(attempts[uri[c]], g)]
    BY <2>1 DEF SettledBy
  <2>4. CASE u = uri[c]
    BY <1>1, <2>1, <2>2, <2>3, <2>4
  <2>5. CASE u # uri[c]
    BY <1>1, <2>3, <2>5
  <2> QED
    BY <2>4, <2>5
<1>9. LaneActions(c) => SendAnswers(c) \/ attempts' = attempts
  BY <1>4
<1> QED
  BY <1>2, <1>3, <1>5, <1>6, <1>7, <1>8, <1>9 DEF CallerActions, Touched

(* A live transaction on record stays on record, or its loss is noticed.    *)
LEMMA LiveStaysRecorded ==
  ASSUME Inv, NEW c \in Callers, CallerActions(c), NEW u \in Uris, u \notin misled',
         NEW h \in LiveOf(u), Recorded(u, h)
  PROVE  Recorded(u, h)'
<1>1. /\ attempts[u] \in Record /\ attempts[u].hash = h /\ attempts[u].state # "reverted"
      /\ h \in Sent /\ Live(h) /\ h # None /\ u \notin misled /\ attempts'[u] # None
  <2>1. HashesMove(c)
    BY HashesMoveStep DEF Inv
  <2>2. misled \subseteq misled' /\ Kept
    BY <2>1 DEF HashesMove
  <2>3. attempts[u] \in Record
    BY Types DEF Recorded, Inv
  <2>4. Sent \subseteq Txs
    BY Types DEF Inv
  <2>5. h \in Txs
    BY <2>4 DEF LiveOf
  <2> QED
    BY <2>2, <2>3, <2>5, NoneAssumption DEF Recorded, LiveOf, Kept, Txs
<1>2. CASE attempts'[u] = attempts[u]
  BY <1>1, <1>2 DEF Recorded
<1>3. CASE u = uri[c] /\ SendAnswers(c)
  <2>1. pc[c] = "sent"
    BY <1>3 DEF SendAnswers
  <2>2. h = my[c].hash
    BY <1>1, <1>3, <2>1 DEF Inv, LiveInv
  <2>3. attempts[u].hash # my[c].hash
    BY <1>1, <2>1, NoneAssumption DEF Inv, OwnInv
  <2> QED
    BY <1>1, <2>2, <2>3
<1>4. CASE u = uri[c] /\ (ReceiptReverted(c) \/ PendingMissing(c) \/ WaitSettles(c))
  <2>1. Watch(u)
    BY <1>4 DEF ReceiptReverted, PendingMissing, WaitSettles
  <2> QED
    BY <1>1, <2>1, Watched DEF Recorded
<1>5. CASE ReceiptMined(c) /\ attempts'[u] = Mined(attempts[u], my[c].hash)
  <2>1. my[c].hash \in Txs
    BY <1>5, Types DEF ReceiptMined, Inv, CallInv, CallOf, Naming
  <2> DEFINE r == Mined(attempts[u], my[c].hash)
  <2>2. r.hash = attempts[u].hash /\ r.state = "mined"
    BY <1>1, <2>1, HandledType
  <2> HIDE DEF r
  <2>3. attempts'[u] = r
    BY <1>5 DEF r
  <2> QED
    BY <1>1, <2>2, <2>3 DEF Recorded
<1> QED
  BY <1>1, <1>2, <1>3, <1>4, <1>5, RecordTouched, NoneAssumption DEF Touched

(* An agent that was minted, and that took the nonce of a dropped one, did. *)
TookPlaceNext(u, g) ==
  \E h \in Sent' : tx'[h].uri = u /\ tx'[h].state = "dropped" /\ tx'[h].nonce = tx'[g].nonce

LEMMA AgentStays ==
  ASSUME ChainMoves, NEW u, NEW g \in Sent, tx[g].state = "mined"
  PROVE  /\ g \in Sent' /\ tx'[g].state = "mined"
         /\ TookPlace(u, g) => TookPlaceNext(u, g)
BY DEF ChainMoves, Moves, TookPlace, TookPlaceNext

(* A record that says mined has an agent, and it was minted.                *)
LEMMA MinedStep ==
  ASSUME Inv, [Next]_vars
  PROVE  MinedInv'
<1>1. CASE UNCHANGED vars
  BY <1>1 DEF vars, ledgerVars, chainVars, Inv, MinedInv, MinedOf, AgentOf, TookPlace, Sent
<1>2. ASSUME NEW c \in Callers, CallerActions(c), NEW u \in Uris, u \notin misled'
      PROVE  MinedOf(u)'
  <2>1. tx' = tx /\ misled \subseteq misled'
    BY <1>2, HashesMoveStep DEF HashesMove, Inv
  <2>2. MinedOf(u) /\ u \notin misled
    BY <1>2, <2>1 DEF Inv, MinedInv
  <2>3. CASE attempts'[u] = attempts[u]
    BY <2>1, <2>2, <2>3 DEF MinedOf, AgentOf, TookPlace, Sent
  <2>4. CASE \E h : attempts'[u] = [hash |-> h, agent |-> None, state |-> "broadcast"]
    BY <2>4 DEF MinedOf
  <2>5. ASSUME attempts[u] \in Record, attempts'[u].agent = attempts[u].agent,
               attempts[u].agent # None,
               attempts'[u].hash = attempts[u].hash \/ attempts[u].agent # attempts[u].hash
        PROVE  AgentOf(u, attempts[u])'
    <3>1. AgentOf(u, attempts[u])
      BY <2>2, <2>5, NoneAssumption DEF MinedOf
    <3> QED
      BY <2>1, <2>5, <3>1 DEF AgentOf, TookPlace, Sent
  <2>6. ASSUME attempts[u] \in Record, attempts'[u].hash = attempts[u].hash,
               attempts'[u].agent = attempts[u].agent, attempts'[u].state = "reverted"
        PROVE  MinedOf(u)'
    BY <2>5, <2>6 DEF MinedOf
  <2>7. CASE /\ u = uri[c] /\ attempts[u] \in Record
             /\ ReceiptReverted(c) /\ attempts'[u] = [attempts[u] EXCEPT !.state = "reverted"]
    BY <2>6, <2>7 DEF Record
  <2>8. CASE /\ u = uri[c] /\ attempts[u] \in Record
             /\ PendingMissing(c) /\ attempts'[u] = [attempts[u] EXCEPT !.hash = None]
    <3>1. Watch(u) /\ attempts'[u].hash = None /\ attempts'[u].agent = attempts[u].agent
          /\ attempts'[u].state = attempts[u].state
      BY <2>8 DEF PendingMissing, Record
    <3>2. ASSUME attempts[u].agent # None PROVE attempts[u].agent # attempts[u].hash
      <4>1. AgentOf(u, attempts[u])
        BY <2>2, <2>8, <3>2, NoneAssumption DEF MinedOf
      <4>2. ASSUME attempts[u].agent = attempts[u].hash PROVE Live(attempts[u].hash)
        BY <4>1, <4>2 DEF AgentOf, Live
      <4> QED
        BY <1>2, <3>1, <3>2, <4>2, Watched
    <3>3. MinedOf(u)
      BY <2>2
    <3>4. attempts'[u].state = "mined" => attempts'[u].agent # None
      BY <2>8, <3>1, <3>3, NoneAssumption DEF MinedOf
    <3>5. attempts'[u].agent # None => AgentOf(u, attempts[u])'
      BY <2>5, <2>8, <3>1, <3>2
    <3> QED
      BY <3>4, <3>5 DEF MinedOf
  <2>9. ASSUME u = uri[c], attempts[u] \in Record, NEW g \in Sent,
               tx[g].state = "mined", attempts'[u] = Mined(attempts[u], g),
               g = attempts[u].hash \/ TookPlace(u, g)
        PROVE  MinedOf(u)'
    <3>1. g \in Txs
      BY Types DEF Inv
    <3>2. /\ attempts'[u].hash = attempts[u].hash /\ attempts'[u].state = "mined"
          /\ attempts'[u].agent = IF attempts[u].agent = None THEN g ELSE attempts[u].agent
      <4> DEFINE r == Mined(attempts[u], g)
      <4>1. /\ r.hash = attempts[u].hash /\ r.state = "mined"
            /\ r.agent = IF attempts[u].agent = None THEN g ELSE attempts[u].agent
        BY <2>9, <3>1, HandledType
      <4> HIDE DEF r
      <4>2. attempts'[u] = r
        BY <2>9 DEF r
      <4> QED
        BY <4>1, <4>2
    <3>3. CASE attempts[u].agent = None
      <4>1. attempts'[u].agent = g /\ g # None
        BY <3>1, <3>2, <3>3, NoneAssumption DEF Txs
      <4>2. AgentOf(u, attempts[u])'
        BY <2>1, <2>9, <3>2, <4>1 DEF AgentOf, TookPlace, Sent
      <4> QED
        BY <4>1, <4>2 DEF MinedOf
    <3>4. CASE attempts[u].agent # None
      BY <2>5, <2>9, <3>2, <3>4 DEF MinedOf
    <3> QED
      BY <3>3, <3>4
  <2>10. CASE /\ u = uri[c] /\ attempts[u] \in Record
              /\ ReceiptMined(c) /\ attempts'[u] = Mined(attempts[u], my[c].hash)
    <3>1. pc[c] = "receipt" /\ tx[my[c].hash].state = "mined"
      BY <2>10 DEF ReceiptMined, Inv, CallInv, CallOf
    <3>2. my[c].hash \in Sent /\ attempts[u].hash = my[c].hash
      BY <2>2, <2>10, <3>1, OnRecord
    <3> QED
      BY <2>9, <2>10, <3>1, <3>2
  <2>11. ASSUME u = uri[c], attempts[u] \in Record, WaitSettles(c), NEW g \in Txs,
                SettledBy(c, g), attempts'[u] = Outcome(attempts[u], g)
         PROVE  MinedOf(u)'
    <3>1. pc[c] = "waiting" /\ g \in Awaited(my[c].hash)
      BY <2>11 DEF WaitSettles, SettledBy
    <3>2. CASE tx[g].state = "mined"
      <4>1. g \in Sent /\ attempts'[u] = Mined(attempts[u], g)
        BY <2>11, <3>1, <3>2 DEF Awaited, Outcome
      <4>2. my[c].hash \in Sent /\ tx[my[c].hash].uri = u
        BY <2>11, <3>1 DEF Inv, CallInv, CallOf, Naming
      <4>3. CASE g = my[c].hash
        <5>1. attempts[u].hash = g
          BY <2>2, <2>11, <3>1, <3>2, <4>3, OnRecord
        <5> QED
          BY <2>9, <2>11, <3>2, <4>1, <5>1
      <4>4. CASE tx[my[c].hash].state = "dropped" /\ tx[g].nonce = tx[my[c].hash].nonce
        <5>1. TookPlace(u, g)
          BY <4>2, <4>4 DEF TookPlace
        <5> QED
          BY <2>9, <2>11, <3>2, <4>1, <5>1
      <4> QED
        BY <3>1, <4>3, <4>4 DEF Awaited
    <3>3. CASE tx[g].state # "mined"
      <4>1. attempts'[u] = [attempts[u] EXCEPT !.state = "reverted"]
        BY <2>11, <3>3 DEF Outcome
      <4> QED
        BY <2>6, <2>11, <4>1 DEF Record
    <3> QED
      BY <3>2, <3>3
  <2>12. CASE /\ u = uri[c] /\ attempts[u] \in Record
              /\ WaitSettles(c) /\ \E g \in Txs : SettledBy(c, g) /\ attempts'[u] = Outcome(attempts[u], g)
    BY <2>11, <2>12
  <2> QED
    BY <1>2, <2>3, <2>4, <2>7, <2>8, <2>10, <2>12, RecordTouched DEF Touched
<1>3. ASSUME UNCHANGED <<attempts, misled>>, ChainMoves
      PROVE  MinedInv'
  <2> SUFFICES ASSUME NEW u \in Uris \ misled PROVE MinedOf(u)'
    BY <1>3 DEF MinedInv
  <2>1. MinedOf(u)
    BY DEF Inv, MinedInv
  <2>2. ASSUME AgentOf(u, attempts[u]) PROVE AgentOf(u, attempts[u])'
    BY <1>3, <2>2, AgentStays DEF AgentOf, TookPlace, TookPlaceNext
  <2> QED
    BY <1>3, <2>1, <2>2 DEF MinedOf
<1>4. ASSUME NEW c \in Callers, SendRaw(c)
      PROVE  MinedInv'
  BY <1>3, <1>4, SendEffect DEF SendRaw, ledgerVars, Inv
<1>5. ASSUME NEW h \in Sent, ChainActions(h)
      PROVE  MinedInv'
  <2>1. ChainMoves
    BY <1>5, ChainEffect DEF Inv
  <2> QED
    BY <1>3, <1>5, <2>1 DEF ChainActions, Include, Drop, ledgerVars
<1>6. CASE Restart
  BY <1>6 DEF Restart, MinedInv, MinedOf
<1>7. ASSUME NEW c \in Callers, CallerActions(c) PROVE MinedInv'
  BY <1>2, <1>7 DEF MinedInv
<1> QED
  BY <1>1, <1>4, <1>5, <1>6, <1>7, StepKinds

(* Nothing of a URI is live when its register is let in to send.            *)
LEMMA LetInClean ==
  ASSUME Inv, NEW c \in Callers, PlanBroadcast(c), uri[c] \notin misled
  PROVE  LiveOf(uri[c]) = {}
<1>1. /\ pc[c] = "queued" /\ lane # <<>> /\ Head(lane) = c
      /\ ~Settled(uri[c]) /\ ~Outstanding(uri[c])
  BY DEF PlanBroadcast, Turn
<1>2. uri[c] \in Uris
  BY <1>1, Types DEF Inv, CallInv, CallOf, Active
<1>3. \A e \in Callers : pc[e] # "sent"
  BY <1>1 DEF Inv, LaneInv, InLane
<1>4. SUFFICES ASSUME NEW h \in LiveOf(uri[c]) PROVE FALSE
  OBVIOUS
<1>5. Recorded(uri[c], h)
  BY <1>2, <1>3, <1>4 DEF Inv, LiveInv
<1>6. h # None
  BY Types, NoneAssumption DEF Inv, LiveOf, Txs
<1>7. attempts[uri[c]].state \in {"broadcast", "mined"}
  <2>1. attempts[uri[c]] \in Record
    BY <1>2, <1>5, Types DEF Inv, Recorded
  <2> QED
    BY <1>5, <2>1 DEF Recorded, Record
<1>8. MinedOf(uri[c])
  BY <1>2 DEF Inv, MinedInv
<1> QED
  BY <1>1, <1>5, <1>6, <1>7, <1>8 DEF Recorded, MinedOf, Settled, Outstanding

(* Every live transaction stays known, and no two are live.                 *)
LEMMA LiveStep ==
  ASSUME Inv, [Next]_vars
  PROVE  LiveInv'
<1>1. CASE UNCHANGED vars
  BY <1>1 DEF vars, ledgerVars, callVars, chainVars, Inv, LiveInv, LiveOf, Recorded, Sent, Live
<1>2. ASSUME NEW c \in Callers, CallerActions(c)
      PROVE  LiveInv'
  <2>1. UNCHANGED <<tx, past>> /\ misled \subseteq misled' /\ \A d \in Callers : SentBefore(d)
    BY <1>2, HashesMoveStep DEF HashesMove, Inv
  <2>2. \A u \in Uris : LiveOf(u)' = LiveOf(u)
    BY <2>1 DEF LiveOf, Sent, Live
  <2>3. SUFFICES ASSUME NEW u \in Uris, u \notin misled'
                 PROVE  /\ \A h \in LiveOf(u) :
                             Recorded(u, h)' \/ \E d \in Callers :
                               pc'[d] = "sent" /\ uri'[d] = u /\ my'[d].hash = h
                        /\ \A d \in Callers : uri'[d] = u =>
                             /\ pc'[d] \in Inside => LiveOf(u) = {}
                             /\ pc'[d] = "sent" => LiveOf(u) \subseteq {my'[d].hash}
    BY <2>2 DEF LiveInv
  <2>4. u \notin misled
    BY <2>1, <2>3
  <2>5. ASSUME NEW h \in LiveOf(u)
        PROVE  Recorded(u, h)' \/ \E d \in Callers :
                 pc'[d] = "sent" /\ uri'[d] = u /\ my'[d].hash = h
    <3>1. CASE Recorded(u, h)
      BY <1>2, <2>3, <3>1, LiveStaysRecorded
    <3>2. ASSUME NEW d \in Callers, pc[d] = "sent", uri[d] = u, my[d].hash = h
          PROVE  Recorded(u, h)' \/ \E e \in Callers :
                   pc'[e] = "sent" /\ uri'[e] = u /\ my'[e].hash = h
      <4>1. CASE pc'[d] = "sent" /\ my'[d].hash = my[d].hash /\ uri'[d] = uri[d]
        BY <3>2, <4>1
      <4>2. CASE d = c /\ SendLost(c)
        BY <2>3, <3>2, <4>2 DEF SendLost
      <4>3. CASE d = c /\ SendAnswers(c)
        <5>1. attempts'[u] = [hash |-> h, agent |-> None, state |-> "broadcast"]
          BY <3>2, <4>3 DEF SendAnswers, Inv, TypeOK
        <5>2. attempts'[u] # None
          <6>1. h \in Txs \cup {None}
            BY <3>2, Types DEF Inv
          <6>2. attempts'[u] \in Record
            BY <5>1, <6>1 DEF Record
          <6> QED
            BY <6>2, NoneAssumption
        <5> QED
          BY <5>1, <5>2 DEF Recorded
      <4> QED
        BY <1>2, <3>2, <4>1, <4>2, <4>3, SentAfter
    <3> QED
      BY <2>4, <3>1, <3>2 DEF Inv, LiveInv
  <2>6. ASSUME NEW d \in Callers, uri'[d] = u, pc'[d] \in Inside
        PROVE  LiveOf(u) = {}
    <3>1. CASE pc[d] \in Inside /\ uri'[d] = uri[d]
      BY <2>4, <2>6, <3>1 DEF Inv, LiveInv
    <3>2. CASE d = c /\ PlanBroadcast(c)
      <4>1. uri[c] = u
        BY <2>6, <3>2 DEF PlanBroadcast
      <4> QED
        BY <2>4, <3>2, <4>1, LetInClean
    <3> QED
      BY <1>2, <2>6, <3>1, <3>2, InsideBefore
  <2>7. ASSUME NEW d \in Callers, uri'[d] = u, pc'[d] = "sent"
        PROVE  LiveOf(u) \subseteq {my'[d].hash}
    <3>1. pc[d] = "sent" /\ my'[d].hash = my[d].hash /\ uri[d] = u
      BY <2>1, <2>7 DEF SentBefore
    <3> QED
      BY <2>4, <3>1 DEF Inv, LiveInv
  <2> QED
    BY <2>5, <2>6, <2>7
<1>3. ASSUME NEW c \in Callers, SendRaw(c)
      PROVE  LiveInv'
  <2>1. /\ Elsewhere(c) /\ pc'[c] = "sent" /\ my'[c].hash = Len(tx) + 1
        /\ Sent' = 1..(Len(tx) + 1) /\ ChainMoves /\ lane # <<>> /\ Head(lane) = c
    BY <1>3, SendEffect DEF Inv
  <2>2. UNCHANGED <<attempts, uri, misled, past>> /\ pc[c] = "sending"
    BY <1>3 DEF SendRaw, ledgerVars
  <2>3. /\ tx'[Len(tx) + 1] = [uri |-> uri[c], nonce |-> my[c].nonce, state |-> "pending"]
    BY <1>3, SendEffect DEF Inv
  <2>4. Sent = 1..Len(tx) /\ Len(tx) \in Nat
    BY Types DEF Inv
  <2>5. \A d \in Callers \ {c} : pc[d] \notin InLane
    BY <2>1 DEF Inv, LaneInv
  <2>6. ASSUME NEW u \in Uris
        PROVE  LiveOf(u)' \subseteq LiveOf(u) \cup (IF u = uri[c] THEN {Len(tx) + 1} ELSE {})
    <3> SUFFICES ASSUME NEW h \in LiveOf(u)'
                 PROVE  h \in LiveOf(u) \/ (u = uri[c] /\ h = Len(tx) + 1)
      OBVIOUS
    <3>1. h \in Sent' /\ h \notin past /\ tx'[h].uri = u /\ Live(h)'
      BY <2>2 DEF LiveOf
    <3>2. CASE h \in Sent
      BY <2>1, <3>1, <3>2 DEF ChainMoves, Moves, LiveOf
    <3>3. CASE h = Len(tx) + 1
      BY <2>3, <3>1, <3>3
    <3> QED
      BY <2>1, <2>4, <3>1, <3>2, <3>3
  <2> SUFFICES ASSUME NEW u \in Uris, u \notin misled
               PROVE  /\ \A h \in LiveOf(u)' :
                           Recorded(u, h) \/ \E d \in Callers :
                             pc'[d] = "sent" /\ uri[d] = u /\ my'[d].hash = h
                      /\ \A d \in Callers : uri[d] = u =>
                           /\ pc'[d] \in Inside => LiveOf(u)' = {}
                           /\ pc'[d] = "sent" => LiveOf(u)' \subseteq {my'[d].hash}
    BY <2>2 DEF LiveInv, Recorded
  <2>7. u = uri[c] => LiveOf(u) = {}
    BY <2>2 DEF Inv, LiveInv, Inside
  <2>8. ASSUME NEW h \in LiveOf(u)'
        PROVE  Recorded(u, h) \/ \E d \in Callers :
                 pc'[d] = "sent" /\ uri[d] = u /\ my'[d].hash = h
    <3>1. CASE h \in LiveOf(u)
      <4>1. \A d \in Callers : pc[d] # "sent"
        BY <2>2, <2>5 DEF InLane
      <4> QED
        BY <3>1, <4>1 DEF Inv, LiveInv
    <3>2. CASE u = uri[c] /\ h = Len(tx) + 1
      BY <2>1, <3>2
    <3> QED
      BY <2>6, <2>8, <3>1, <3>2
  <2>9. ASSUME NEW d \in Callers, uri[d] = u
        PROVE  /\ pc'[d] \notin Inside
               /\ pc'[d] = "sent" => LiveOf(u)' \subseteq {my'[d].hash}
    <3>1. CASE d = c
      BY <2>1, <2>6, <2>7, <2>9, <3>1 DEF Inside
    <3>2. CASE d # c
      BY <2>1, <2>5, <3>2 DEF Elsewhere, InLane, Inside
    <3> QED
      BY <3>1, <3>2
  <2> QED
    BY <2>8, <2>9
<1>4. ASSUME NEW k \in Sent, ChainActions(k)
      PROVE  LiveInv'
  <2>1. UNCHANGED <<attempts, pc, my, uri, misled, past>>
    BY <1>4 DEF ChainActions, Include, Drop, ledgerVars, callVars
  <2>2. \A u \in Uris : LiveOf(u)' \subseteq LiveOf(u)
    BY <1>4, <2>1, ChainEffect, LiveShrinks DEF Inv
  <2> QED
    BY <2>1, <2>2 DEF Inv, LiveInv, Recorded
<1>5. CASE Restart
  <2>1. tx' = tx /\ Sent \subseteq past'
    BY <1>5 DEF Restart, chainVars
  <2>2. \A u \in Uris : LiveOf(u)' = {}
    BY <2>1 DEF LiveOf, Sent
  <2> QED
    BY <2>2 DEF LiveInv
<1> QED
  BY <1>1, <1>2, <1>3, <1>4, <1>5, StepKinds

-----------------------------------------------------------------------------
(* Waits and answers.                                                       *)

(* All who hold a wait wait for the same transaction.                       *)
WaitInv ==
  /\ \A c \in Callers : pc[c] = "waiting" =>
       /\ my[c].wait # None /\ pc[my[c].wait] \in Waited
       /\ \A d \in Callers : pc[d] = "waiting" /\ my[d].wait = my[c].wait =>
            my[d].hash = my[c].hash
       /\ \A h \in Txs : receipts[h] = my[c].wait => my[c].hash = h
  /\ \A h \in Txs : receipts[h] # None =>
       /\ pc[receipts[h]] \in Waited
       /\ \A g \in Txs : receipts[g] = receipts[h] => g = h

(* A step that opens no wait.                                               *)
LEMMA WaitFrom ==
  ASSUME TypeOK, WaitInv,
         \A d \in Callers : pc[d] \in Waited => pc'[d] \in Waited,
         \A d \in Callers : pc'[d] = "waiting" => pc[d] = "waiting" /\ my'[d] = my[d],
         \A h \in Txs : receipts'[h] # None => receipts'[h] = receipts[h]
  PROVE  WaitInv'
<1>1. ASSUME NEW d \in Callers, pc'[d] = "waiting"
      PROVE  my[d].wait \in Callers /\ my'[d] = my[d] /\ pc[d] = "waiting" /\ my[d].wait # None
  BY <1>1, Types DEF WaitInv
<1>2. ASSUME NEW h \in Txs, receipts'[h] # None
      PROVE  receipts[h] \in Callers /\ receipts'[h] = receipts[h]
  BY <1>2 DEF TypeOK
<1> QED
  BY <1>1, <1>2 DEF WaitInv

(* Every step keeps it.                                                     *)
LEMMA WaitStep ==
  ASSUME Inv, WaitInv, [Next]_vars
  PROVE  WaitInv'
<1>1. CASE UNCHANGED vars
  BY <1>1 DEF vars, ledgerVars, callVars, WaitInv
<1> TypeOK
  BY DEF Inv
<1>2. ASSUME NEW c \in Callers, Elsewhere(c), pc'[c] # "waiting",
             pc[c] \notin Waited \/ pc'[c] = "returned",
             \A h \in Txs : receipts'[h] # None => receipts'[h] = receipts[h]
      PROVE  WaitInv'
  BY <1>2, WaitFrom DEF Elsewhere, Waited
<1>3. ASSUME NEW c \in Callers, NEW u \in Uris, EnterActions(c, u)
      PROVE  WaitInv'
  <2>1. /\ Elsewhere(c) /\ pc[c] = "idle" /\ receipts' = receipts
        /\ pc'[c] \in {"queued", "pinning", "returned", "receipt"}
    BY <1>3, EnterEffect DEF Inv
  <2> QED
    BY <1>2, <2>1 DEF Waited
<1>4. ASSUME NEW c \in Callers, Pinned(c) \/ PinFails(c)
      PROVE  WaitInv'
  <2>1. /\ Elsewhere(c) /\ pc'[c] \in {"queued", "returned"} /\ pc[c] = "pinning"
        /\ receipts' = receipts
    BY <1>4, ReturnsEffect, QueueEffect DEF Pinned, PinFails, Verdicts, ledgerVars
  <2> QED
    BY <1>2, <2>1 DEF Waited
<1>5. ASSUME NEW c \in Callers, LaneActions(c) \/ SendRaw(c)
      PROVE  WaitInv'
  <2>1. /\ Elsewhere(c)
    BY <1>5, LaneEffect, SendEffect DEF Inv
  <2>2. receipts' = receipts /\ pc[c] \in InLane \cup {"queued"}
    BY <1>5 DEF LaneActions, PlanSettled, PlanOutstanding, PlanBroadcast, FetchNonce,
       SendRejected, SendAnswers, SendLost, SendRaw, Turn, ledgerVars, InLane
  <2>3. pc'[c] # "waiting"
    BY <1>5 DEF LaneActions, PlanSettled, PlanOutstanding, PlanBroadcast, FetchNonce,
       SendRejected, SendAnswers, SendLost, SendRaw, Returns, To, TypeOK
  <2> QED
    BY <1>2, <2>1, <2>2, <2>3 DEF Waited, InLane
<1>6. ASSUME NEW c \in Callers, LookActions(c)
      PROVE  WaitInv'
  <2>1. /\ Elsewhere(c) /\ pc[c] \in Looking /\ receipts' = receipts
        /\ pc'[c] \in Looking \cup {"queued", "returned"}
    BY <1>6, LookEffect DEF Inv
  <2> QED
    BY <1>2, <2>1 DEF Waited, Looking
<1>7. ASSUME NEW c \in Callers, TimesOut(c)
      PROVE  WaitInv'
  <2>1. /\ Elsewhere(c) /\ pc'[c] = "returned"
        /\ \A h \in Txs : receipts'[h] # None => receipts'[h] = receipts[h]
    BY <1>7, TimesOutEffect DEF Inv
  <2> QED
    BY <1>2, <2>1
<1>8. ASSUME NEW c \in Callers, WaitSettles(c)
      PROVE  WaitInv'
  <2>1. \A d \in Callers : pc[d] \in Waited => pc'[d] \in Waited
    BY <1>8, WaitSettlesEffect DEF Inv, Waited
  <2>2. \A d \in Callers : pc'[d] = "waiting" => pc[d] = "waiting" /\ my'[d] = my[d]
    BY <1>8, WaitSettlesEffect DEF Inv
  <2>3. \A h \in Txs : receipts'[h] # None => receipts'[h] = receipts[h]
    BY <1>8, WaitSettlesEffect DEF Inv
  <2> QED
    BY <2>1, <2>2, <2>3, WaitFrom
<1>9. ASSUME NEW c \in Callers, Settle(c)
      PROVE  WaitInv'
  <2> DEFINE h == my[c].hash
             w == my'[c].wait
  <2>1. /\ Elsewhere(c) /\ h \in Txs /\ pc'[c] = "waiting" /\ my'[c].hash = h
        /\ receipts'[h] = w /\ w = IF receipts[h] # None THEN receipts[h] ELSE c
        /\ \A k \in Txs : k # h => receipts'[k] = receipts[k]
    BY <1>9, SettleEffect DEF Inv
  <2>2. pc[c] = "settle" /\ None \notin Callers
        /\ \A k \in Txs : receipts[k] \in Callers \cup {None}
    BY <1>9, NoneAssumption DEF Settle, TypeOK
  <2>3. \A d \in Callers : pc[d] = "waiting" =>
          my'[d] = my[d] /\ my[d].wait \in Callers /\ pc[my[d].wait] \in Waited
          /\ my[d].wait # c /\ d # c /\ pc'[d] = "waiting"
    BY <2>1, <2>2, Types DEF Elsewhere, WaitInv, Waited
  <2>4. \A k \in Txs : receipts[k] # None =>
          receipts[k] \in Callers /\ receipts[k] # c /\ pc[receipts[k]] \in Waited
    BY <2>2 DEF WaitInv, Waited
  <2>5. \A d \in Callers : pc[d] \in Waited => pc'[d] \in Waited
    BY <2>1, <2>2 DEF Elsewhere, Waited
  <2>6. w \in Callers /\ w # None /\ pc'[w] \in Waited
    BY <2>1, <2>2, <2>4, <2>5 DEF Waited
  <2>7. \A d \in Callers \ {c} : pc'[d] = "waiting" => pc[d] = "waiting"
    BY <2>1 DEF Elsewhere
  <2>8. ASSUME NEW d \in Callers \ {c}, pc'[d] = "waiting", my[d].wait = w
        PROVE  my[d].hash = h
    <3>1. CASE receipts[h] # None
      BY <2>1, <2>7, <2>8, <3>1 DEF WaitInv
    <3>2. CASE receipts[h] = None
      BY <2>1, <2>3, <2>7, <2>8, <3>2
    <3> QED
      BY <3>1, <3>2
  <2>9. ASSUME NEW k \in Txs, receipts'[k] = w PROVE k = h
    <3>1. CASE receipts[h] # None /\ k # h
      BY <2>1, <2>9, <3>1 DEF WaitInv
    <3>2. CASE receipts[h] = None /\ k # h
      BY <2>1, <2>2, <2>4, <2>9, <3>2
    <3> QED
      BY <3>1, <3>2
  <2> HIDE DEF h, w
  <2>10. my'[c].wait = w /\ my'[c].hash = h
    BY <2>1 DEF w, h
  <2>11. ASSUME NEW d \in Callers, pc'[d] = "waiting"
         PROVE  /\ my'[d].wait # None /\ pc'[my'[d].wait] \in Waited
                /\ \A e \in Callers : pc'[e] = "waiting" /\ my'[e].wait = my'[d].wait =>
                     my'[e].hash = my'[d].hash
                /\ \A k \in Txs : receipts'[k] = my'[d].wait => my'[d].hash = k
    <3>1. CASE d = c
      <4>1. \A e \in Callers : pc'[e] = "waiting" /\ my'[e].wait = w => my'[e].hash = h
        BY <2>3, <2>7, <2>8, <2>10
      <4> QED
        BY <2>6, <2>9, <2>10, <3>1, <4>1
    <3>2. CASE d # c
      <4>1. /\ pc[d] = "waiting" /\ my'[d] = my[d] /\ my[d].wait \in Callers
            /\ pc'[my[d].wait] \in Waited /\ my[d].wait # None
        BY <2>2, <2>3, <2>5, <2>7, <2>11, <3>2
      <4>2. ASSUME NEW e \in Callers, pc'[e] = "waiting", my'[e].wait = my[d].wait
            PROVE  my'[e].hash = my[d].hash
        <5>1. CASE e = c
          BY <2>8, <2>10, <2>11, <3>2, <4>2, <5>1
        <5>2. CASE e # c
          BY <2>3, <2>7, <4>1, <4>2, <5>2 DEF WaitInv
        <5> QED
          BY <5>1, <5>2
      <4>3. ASSUME NEW k \in Txs, receipts'[k] = my[d].wait PROVE my[d].hash = k
        <5>1. CASE k = h
          BY <2>1, <2>8, <2>11, <3>2, <4>3, <5>1
        <5>2. CASE k # h
          BY <2>1, <4>1, <4>3, <5>2 DEF WaitInv
        <5> QED
          BY <5>1, <5>2
      <4> QED
        BY <4>1, <4>2, <4>3
    <3> QED
      BY <3>1, <3>2
  <2>12. ASSUME NEW k \in Txs, receipts'[k] # None
         PROVE  /\ pc'[receipts'[k]] \in Waited
                /\ \A g \in Txs : receipts'[g] = receipts'[k] => g = k
    <3>1. CASE k = h
      BY <2>1, <2>6, <2>9, <3>1
    <3>2. CASE k # h
      <4>1. receipts'[k] = receipts[k] /\ pc'[receipts'[k]] \in Waited
        BY <2>1, <2>4, <2>5, <2>12, <3>2
      <4>2. ASSUME NEW g \in Txs, receipts'[g] = receipts'[k] PROVE g = k
        <5>1. CASE g = h
          BY <2>1, <2>9, <3>2, <4>2, <5>1
        <5>2. CASE g # h
          BY <2>1, <2>12, <4>1, <4>2, <5>2 DEF WaitInv
        <5> QED
          BY <5>1, <5>2
      <4> QED
        BY <4>1, <4>2
    <3> QED
      BY <3>1, <3>2
  <2> QED
    BY <2>11, <2>12 DEF WaitInv
<1>10. ASSUME NEW h \in Sent, ChainActions(h)
       PROVE  WaitInv'
  BY <1>10 DEF ChainActions, Include, Drop, ledgerVars, callVars, WaitInv
<1>11. CASE Restart
  BY <1>11 DEF Restart, WaitInv
<1> QED
  BY <1>1, <1>3, <1>4, <1>5, <1>6, <1>7, <1>8, <1>9, <1>10, <1>11, StepKinds DEF CallerActions

Minted(c) ==
  Registered(c) /\ uri[c] \notin misled => MintedFor(uri[c], out[c].agent, out[c].hash)

(* Answers name what was minted, and only those who returned have one.      *)
AnswerInv ==
  /\ \A c \in Callers \ past : Minted(c)
  /\ \A c \in Callers : out[c] # None => pc[c] = "returned"

(* An answer that stays stays true.                                         *)
LEMMA AnswerStays ==
  ASSUME NEW d \in Callers, Minted(d), ChainMoves, misled \subseteq misled',
         out'[d] = out[d], out[d] # None => uri'[d] = uri[d]
  PROVE  Minted(d)'
<1> SUFFICES ASSUME Registered(d)', uri'[d] \notin misled'
             PROVE  MintedFor(uri[d], out[d].agent, out[d].hash)'
  BY DEF Minted
<1> DEFINE g == out[d].agent
           h == out[d].hash
<1>1. Registered(d) /\ uri'[d] = uri[d] /\ uri[d] \notin misled
  BY DEF Registered
<1>2. MintedFor(uri[d], g, h)
  BY <1>1 DEF Minted
<1>3. /\ g \in Sent /\ h \in Sent /\ tx[g].state = "mined" /\ tx[h].uri = uri[d]
      /\ (tx[g].uri = uri[d] /\ (g = h \/ tx[h].state = "dropped")) \/ TookPlace(uri[d], g)
  BY <1>2 DEF MintedFor
<1>4. /\ g \in Sent' /\ tx'[g].state = "mined" /\ (TookPlace(uri[d], g) => TookPlaceNext(uri[d], g))
  BY <1>3, AgentStays
<1>5. /\ h \in Sent' /\ tx'[h].uri = uri[d] /\ tx'[g].uri = tx[g].uri
      /\ tx[h].state = "dropped" => tx'[h].state = "dropped"
  BY <1>3 DEF ChainMoves, Moves
<1> QED
  BY <1>1, <1>3, <1>4, <1>5 DEF MintedFor, TookPlace, TookPlaceNext

(* An answer given while the chain stands still.                            *)
LEMMA AnswerGiven ==
  ASSUME NEW d \in Callers, tx' = tx,
         uri'[d] \notin misled' => MintedFor(uri'[d], out'[d].agent, out'[d].hash)
  PROVE  Minted(d)'
BY DEF Minted, MintedFor, TookPlace, Sent

(* A refusal names nothing.                                                 *)
LEMMA VerdictNamesNothing ==
  ASSUME NEW d \in Callers, out'[d] \in Verdicts \cup {None}
  PROVE  Minted(d)'
BY DEF Minted, Registered, Verdicts, Threw, Proceed, Unknown

(* What is read off a settled record is minted.                             *)
LEMMA RecordAnswers ==
  ASSUME Inv, NEW u \in Uris, u \notin misled, Settled(u)
  PROVE  MintedFor(u, attempts[u].agent, attempts[u].hash)
<1>1. /\ attempts[u] # None /\ attempts[u].state = "mined" /\ attempts[u].agent # None
      /\ attempts[u].hash # None
  BY DEF Settled
<1>2. AgentOf(u, attempts[u])
  BY <1>1 DEF Inv, MinedInv, MinedOf
<1>3. attempts[u].hash \in Sent /\ tx[attempts[u].hash].uri = u
  BY <1>1 DEF Inv, HashInv
<1> QED
  BY <1>2, <1>3 DEF AgentOf, MintedFor

(* Every step keeps it.                                                     *)
LEMMA AnswerStep ==
  ASSUME Inv, Inv', WaitInv, AnswerInv, [Next]_vars
  PROVE  AnswerInv'
<1> DEFINE Fine(d) == (d \notin past' => Minted(d)') /\ (out'[d] # None => pc'[d] = "returned")
<1>0. SUFFICES ASSUME NEW d \in Callers PROVE Fine(d)
  BY DEF AnswerInv
<1>1. (d \notin past => Minted(d)) /\ (out[d] # None => pc[d] = "returned")
  BY DEF AnswerInv
<1>2. ASSUME ChainMoves, past' = past, misled \subseteq misled', out'[d] = out[d],
             uri'[d] = uri[d], pc'[d] = pc[d]
      PROVE  Fine(d)
  BY <1>1, <1>2, AnswerStays
<1>3. CASE UNCHANGED vars
  BY <1>2, <1>3, SameChain DEF vars, ledgerVars, callVars, chainVars
<1>4. ASSUME NEW c \in Callers, CallerActions(c) \/ SendRaw(c)
      PROVE  ChainMoves /\ past' = past /\ misled \subseteq misled'
  BY <1>4, HashesMoveStep, SameChain, SendEffect DEF HashesMove, Inv, SendRaw
<1>5. ASSUME out'[d] \in Verdicts, pc'[d] = "returned"
      PROVE  Fine(d)
  BY <1>5, VerdictNamesNothing
<1>6. ASSUME ChainMoves, past' = past, misled \subseteq misled', out'[d] = out[d], pc[d] # "returned"
      PROVE  Fine(d)
  <2>1. out[d] = None
    BY <1>1, <1>6
  <2> QED
    BY <1>6, <2>1, VerdictNamesNothing
<1>7. ASSUME NEW c \in Callers, NEW u \in Uris, EnterActions(c, u)
      PROVE  Fine(d)
  <2>1. /\ Elsewhere(c) /\ pc[c] = "idle" /\ uri' = [uri EXCEPT ![c] = u]
        /\ UNCHANGED <<attempts, tx, misled, past>> /\ uri \in [Callers -> Uris \cup {None}]
    BY <1>7, EnterEffect DEF Inv, TypeOK
  <2>2. ChainMoves
    BY <2>1, SameChain
  <2>3. CASE d # c
    BY <1>2, <2>1, <2>2, <2>3 DEF Elsewhere
  <2>4. CASE d = c /\ out' = out
    BY <1>6, <2>1, <2>2, <2>4
  <2>5. CASE d = c /\ pc'[c] = "returned" /\ out'[c] \in Verdicts
    BY <1>5, <2>5
  <2>6. CASE /\ d = c /\ pc'[c] = "returned" /\ Settled(u)
             /\ out'[c] = [agent |-> attempts[u].agent, hash |-> attempts[u].hash]
    <3>1. u \notin misled => MintedFor(u, attempts[u].agent, attempts[u].hash)
      BY <2>6, RecordAnswers
    <3>2. uri'[c] = u
      BY <2>1
    <3>3. out'[c].agent = attempts[u].agent /\ out'[c].hash = attempts[u].hash
      BY <2>6
    <3>4. Minted(c)'
      BY <2>1, <3>1, <3>2, <3>3, AnswerGiven
    <3> QED
      BY <2>6, <3>4
  <2> QED
    BY <1>7, <2>3, <2>4, <2>5, <2>6, EnterEffect DEF Inv
<1>8. ASSUME NEW c \in Callers, Pinned(c) \/ PinFails(c)
      PROVE  Fine(d)
  <2>1. Elsewhere(c) /\ uri' = uri /\ pc[c] = "pinning"
    BY <1>8, ReturnsEffect, QueueEffect DEF Pinned, PinFails, Verdicts, Inv
  <2>2. ChainMoves /\ past' = past /\ misled \subseteq misled'
    BY <1>4, <1>8 DEF CallerActions
  <2>3. out' = out \/ (pc'[c] = "returned" /\ out'[c] \in Verdicts)
    <3>1. PinFails(c) => pc'[c] = "returned" /\ out'[c] = Threw
      BY ReturnsEffect DEF PinFails, Verdicts, Inv
    <3>2. Pinned(c) => out' = out
      BY DEF Pinned, Queue
    <3> QED
      BY <1>8, <3>1, <3>2 DEF Verdicts
  <2> QED
    BY <1>2, <1>5, <1>6, <2>1, <2>2, <2>3 DEF Elsewhere
<1>9. ASSUME NEW c \in Callers, LaneActions(c) \/ SendRaw(c)
      PROVE  Fine(d)
  <2>1. Elsewhere(c) /\ uri' = uri /\ pc[c] # "returned" /\ uri[c] \in Uris
    <3>1. Elsewhere(c) /\ uri' = uri /\ uri[c] \in Uris
      BY <1>9, LaneEffect, SendEffect DEF SendRaw, Inv
    <3> QED
      BY <1>9, <3>1 DEF LaneActions, PlanSettled, PlanOutstanding, PlanBroadcast, FetchNonce,
         SendRejected, SendAnswers, SendLost, SendRaw, Turn
  <2>2. ChainMoves /\ past' = past /\ misled \subseteq misled'
    BY <1>4, <1>9 DEF CallerActions
  <2>3. CASE d # c
    BY <1>2, <2>1, <2>2, <2>3 DEF Elsewhere
  <2>4. CASE d = c /\ PlanSettled(c)
    <3> DEFINE u == uri[c]
    <3>1. /\ Settled(u) /\ out'[c] = [agent |-> attempts[u].agent, hash |-> attempts[u].hash]
          /\ pc'[c] = "returned" /\ tx' = tx /\ misled' = misled
      BY <2>4 DEF PlanSettled, Returns, To, Inv, TypeOK, chainVars
    <3>2. u \notin misled => MintedFor(u, attempts[u].agent, attempts[u].hash)
      BY <2>1, <3>1, RecordAnswers
    <3>3. out'[c].agent = attempts[u].agent /\ out'[c].hash = attempts[u].hash
      BY <3>1
    <3>4. Minted(c)'
      BY <2>1, <3>1, <3>2, <3>3, AnswerGiven
    <3> QED
      BY <2>4, <3>1, <3>4
  <2>5. CASE d = c /\ ~PlanSettled(c)
    <3>1. out' = out \/ (out'[c] = Threw /\ pc'[c] = "returned")
      BY <1>9, <2>5 DEF LaneActions, PlanOutstanding, PlanBroadcast, FetchNonce, SendRejected,
         SendAnswers, SendLost, SendRaw, Returns, To, Inv, TypeOK
    <3> QED
      BY <1>5, <1>6, <2>1, <2>2, <2>5, <3>1 DEF Verdicts
  <2> QED
    BY <2>3, <2>4, <2>5
<1>10. ASSUME NEW c \in Callers, LookActions(c)
       PROVE  Fine(d)
  <2>1. /\ Elsewhere(c) /\ uri' = uri /\ pc[c] \in Looking /\ uri[c] \in Uris /\ tx' = tx
        /\ attempts[uri[c]] \in Record
    BY <1>10, LookEffect DEF Inv, chainVars
  <2>2. ChainMoves /\ past' = past /\ misled \subseteq misled'
    BY <1>4, <1>10 DEF CallerActions
  <2>3. CASE d # c
    BY <1>2, <2>1, <2>2, <2>3 DEF Elsewhere
  <2>4. CASE d = c /\ ReceiptMined(c)
    <3> DEFINE u == uri[c]
               h == my[c].hash
    <3>1. /\ out'[c] = [agent |-> attempts'[u].agent, hash |-> attempts[u].hash]
          /\ pc'[c] = "returned" /\ attempts'[u] = Mined(attempts[u], h)
          /\ pc[c] = "receipt" /\ seen[c] = "mined" /\ misled' = misled
      BY <2>1, <2>4 DEF ReceiptMined, Returns, To, Inv, TypeOK
    <3>2. h \in Txs
      BY <3>1, Types DEF Inv, CallInv, CallOf, Naming
    <3>3. attempts'[u].hash = attempts[u].hash /\ attempts'[u].state = "mined"
          /\ attempts'[u] # None
      <4> DEFINE r == Mined(attempts[u], h)
      <4>1. r.hash = attempts[u].hash /\ r.state = "mined" /\ r \in Record
        BY <2>1, <3>2, HandledType
      <4> HIDE DEF r
      <4>2. attempts'[u] = r
        BY <3>1 DEF r
      <4> QED
        BY <4>1, <4>2, NoneAssumption
    <3>4. ASSUME u \notin misled' PROVE MintedFor(u, attempts'[u].agent, attempts[u].hash)
      <4>1. attempts[u].hash \in Sent /\ tx[attempts[u].hash].uri = u
        <5>1. /\ h \in Sent /\ attempts[u].hash = h /\ tx[h].uri = u
          BY <2>1, <3>1, <3>4, OnRecord DEF Inv, CallInv, CallOf, Naming
        <5> QED
          BY <5>1
      <4>2. AgentOf(u, attempts[u])'
        BY <2>1, <3>3, <3>4 DEF Inv, MinedInv, MinedOf
      <4> QED
        BY <2>1, <3>3, <4>1, <4>2 DEF AgentOf, MintedFor, TookPlace, Sent
    <3>5. out'[c].agent = attempts'[u].agent /\ out'[c].hash = attempts[u].hash
      BY <3>1
    <3>6. Minted(c)'
      BY <2>1, <3>4, <3>5, AnswerGiven
    <3> QED
      BY <2>4, <3>1, <3>6
  <2>5. CASE d = c /\ ~ReceiptMined(c)
    <3>1. out' = out \/ (out'[c] \in Verdicts /\ pc'[c] = "returned")
      BY <1>10, <2>5 DEF LookActions, ReceiptAnswers, PendingAnswers, Sees, ReceiptMissing,
         ReceiptFails, ReceiptReverted, PendingFound, PendingMissing, Gone, Queue, Returns, To,
         Inv, TypeOK, Verdicts
    <3> QED
      BY <1>5, <1>6, <2>1, <2>2, <2>5, <3>1 DEF Looking
  <2> QED
    BY <2>3, <2>4, <2>5
<1>11. ASSUME NEW c \in Callers, Settle(c) \/ TimesOut(c)
       PROVE  Fine(d)
  <2>1. Elsewhere(c) /\ uri' = uri /\ pc[c] # "returned"
    BY <1>11, SettleEffect, TimesOutEffect DEF Settle, TimesOut, Inv
  <2>2. ChainMoves /\ past' = past /\ misled \subseteq misled'
    BY <1>4, <1>11 DEF CallerActions
  <2>3. out' = out \/ (pc'[c] = "returned" /\ out'[c] \in Verdicts)
    BY <1>11, TimesOutEffect DEF Settle, Verdicts, Inv
  <2> QED
    BY <1>2, <1>5, <1>6, <2>1, <2>2, <2>3 DEF Elsewhere
<1>12. ASSUME NEW c \in Callers, WaitSettles(c)
       PROVE  Fine(d)
  <2>1. uri' = uri /\ tx' = tx /\ pc[c] = "waiting"
    BY <1>12 DEF WaitSettles, chainVars
  <2>2. ChainMoves /\ past' = past /\ misled \subseteq misled'
    BY <1>4, <1>12 DEF CallerActions
  <2>3. CASE d \notin Mates(c)
    BY <1>2, <1>12, <2>1, <2>2, <2>3, WaitSettlesEffect DEF Inv
  <2>4. PICK g \in Txs : SettledBy(c, g)
    BY <1>12, WaitSettlesEffect DEF Inv
  <2>5. CASE d \in Mates(c) /\ tx[g].state # "mined"
    <3>1. out'[d] = Threw /\ pc'[d] = "returned"
      BY <1>12, <2>4, <2>5, WaitSettlesEffect DEF Inv, SettledBy
    <3> QED
      BY <1>5, <3>1 DEF Verdicts
  <2>6. CASE d \in Mates(c) /\ tx[g].state = "mined"
    <3> DEFINE u == uri[c]
               h == my[c].hash
               o == Outcome(attempts[u], g)
    <3>1. /\ pc'[d] = "returned" /\ pc[d] = "waiting" /\ u \in Uris /\ attempts[u] \in Record
      BY <1>12, <2>6, WaitSettlesEffect DEF Inv
    <3>2. /\ out'[d] = [agent |-> o.agent, hash |-> h] /\ g \in Awaited(h)
          /\ attempts' = [attempts EXCEPT ![u] = o]
      BY <2>4, <2>6 DEF SettledBy
    <3>3. attempts'[u] = o /\ o \in Record /\ o.state = "mined" /\ o.hash = attempts[u].hash
      <4>1. attempts \in [Uris -> Record \cup {None}]
        BY DEF Inv, TypeOK
      <4>2. o \in Record /\ o.state = "mined" /\ o.hash = attempts[u].hash
        BY <2>6, <3>1, OutcomeType
      <4> HIDE DEF o
      <4> QED
        BY <3>1, <3>2, <4>1, <4>2
    <3>4. uri[d] = u
      <4>1. my[d].hash = h
        BY <2>1, <2>6, <3>1 DEF Mates, Holders, WaitInv
      <4> QED
        BY <2>1, <3>1, <4>1 DEF Inv, CallInv, CallOf, Naming
    <3> HIDE DEF o
    <3>5. ASSUME u \notin misled' PROVE MintedFor(u, o.agent, h)
      <4>1. h \in Sent /\ tx[h].uri = u
        BY <2>1 DEF Inv, CallInv, CallOf, Naming
      <4>2. AgentOf(u, attempts[u])'
        <5>1. attempts'[u] # None /\ attempts'[u].state = "mined"
          BY <3>3, NoneAssumption
        <5> QED
          BY <2>1, <3>1, <3>5, <5>1 DEF Inv, MinedInv, MinedOf
      <4>3. /\ o.agent \in Sent /\ tx[o.agent].state = "mined"
            /\ o.agent = attempts[u].hash \/ TookPlace(u, o.agent)
        BY <2>1, <3>3, <4>2 DEF AgentOf, TookPlace, Sent
      <4>4. CASE o.agent = attempts[u].hash
        <5>1. tx[o.agent].uri = u
          <6>1. o.agent \in Txs
            BY <4>3, Types DEF Inv
          <6>2. attempts[u].hash # None /\ attempts[u] # None
            BY <3>1, <4>4, <6>1, NoneAssumption DEF Txs
          <6> QED
            BY <3>1, <4>4, <6>2 DEF Inv, HashInv
        <5>2. o.agent = h \/ tx[h].state = "dropped"
          <6>1. CASE g = h
            BY <2>1, <2>2, <2>6, <3>5, <4>4, <6>1, OnRecord
          <6> QED
            BY <3>2, <6>1 DEF Awaited
        <5> QED
          BY <4>1, <4>3, <5>1, <5>2 DEF MintedFor
      <4>5. CASE TookPlace(u, o.agent)
        BY <4>1, <4>3, <4>5 DEF MintedFor
      <4> QED
        BY <4>3, <4>4, <4>5
    <3>6. out'[d].agent = o.agent /\ out'[d].hash = h
      BY <3>2
    <3>7. Minted(d)'
      BY <2>1, <3>4, <3>5, <3>6, AnswerGiven
    <3> QED
      BY <3>1, <3>7
  <2> QED
    BY <2>3, <2>5, <2>6
<1>13. ASSUME NEW h \in Sent, ChainActions(h)
       PROVE  Fine(d)
  <2>1. ChainMoves /\ past' = past /\ misled' = misled /\ UNCHANGED <<out, uri, pc>>
    BY <1>13, ChainEffect DEF ChainActions, Include, Drop, callVars, Inv
  <2> QED
    BY <1>2, <2>1
<1>14. CASE Restart
  <2>1. out'[d] = None
    BY <1>14 DEF Restart
  <2> QED
    BY <2>1, VerdictNamesNothing
<1> QED
  BY <1>3, <1>7, <1>8, <1>9, <1>10, <1>11, <1>12, <1>13, <1>14, StepKinds DEF CallerActions

-----------------------------------------------------------------------------
(* The invariant and what follows from it.                                  *)

IInv == Inv /\ WaitInv /\ AnswerInv

(* It holds initially.                                                      *)
LEMMA InvInit == Init => IInv
<1> SUFFICES ASSUME Init PROVE IInv
  OBVIOUS
<1>1. TypeOK
  BY BlankType, BoundAssumption DEF Init, TypeOK, PcValues
<1>2. Sent = {} /\ Len(tx) = 0
  BY DEF Init, Sent
<1>3. CountInv
  BY <1>2 DEF Init, CountInv, Blank
<1>4. LaneInv /\ CallInv /\ HashInv /\ OwnInv
  BY DEF Init, LaneInv, CallInv, CallOf, HashInv, OwnInv, InLane, Looking, Naming, Resolving,
     Active, Blank
<1>5. LiveInv
  BY <1>2 DEF LiveInv, LiveOf
<1>6. MinedInv /\ WaitInv /\ AnswerInv
  BY DEF Init, MinedInv, MinedOf, WaitInv, AnswerInv, Minted, Registered
<1> QED
  BY <1>1, <1>3, <1>4, <1>5, <1>6 DEF IInv, Inv

(* Every behaviour keeps it.                                                *)
THEOREM InvCorrect == Spec => []IInv
<1>1. IInv /\ [Next]_vars => IInv'
  <2> SUFFICES ASSUME IInv, [Next]_vars PROVE IInv'
    OBVIOUS
  <2>1. Inv /\ WaitInv /\ AnswerInv
    BY DEF IInv
  <2>2. TypeOK' /\ CountInv' /\ LaneInv' /\ CallInv' /\ HashInv' /\ OwnInv'
    BY <2>1, TypeStep, CountStep, LaneStep, CallStep, HashStep, OwnStep DEF Inv
  <2>3. Inv'
    BY <2>1, <2>2, LiveStep, MinedStep DEF Inv
  <2>4. WaitInv' /\ AnswerInv'
    BY <2>1, <2>3, WaitStep, AnswerStep
  <2> QED
    BY <2>3, <2>4 DEF IInv
<1> QED
  BY <1>1, InvInit, PTL DEF Spec

(* Every variable keeps its type (Erc8004Runtime and its lane).             *)
THEOREM TypeCorrect == Spec => []TypeOK
<1>1. IInv => TypeOK
  BY DEF IInv, Inv
<1> QED
  BY <1>1, InvCorrect, PTL

(* Two live transactions of a URI are one.                                  *)
LEMMA LiveIsOne ==
  ASSUME Inv, NEW u \in Uris \ misled, NEW g \in LiveOf(u), NEW h \in LiveOf(u)
  PROVE  g = h
<1>1. ASSUME NEW c \in Callers, pc[c] = "sent", uri[c] = u PROVE g = h
  BY <1>1 DEF Inv, LiveInv
<1>2. Recorded(u, g) /\ Recorded(u, h) => g = h
  BY DEF Recorded
<1> QED
  BY <1>1, <1>2 DEF Inv, LiveInv

(* One process has one live registration of a token URI at most, unless its *)
(* ledger was misled about a transaction (index.ts:122).                    *)
THEOREM OneLiveRegistration == Spec => []OneLivePerUri
<1>1. IInv => OneLivePerUri
  <2> SUFFICES ASSUME IInv, NEW u \in Uris \ misled PROVE Cardinality(LiveOf(u)) <= 1
    BY DEF OneLivePerUri
  <2>1. \A g, h \in LiveOf(u) : g = h
    BY LiveIsOne DEF IInv
  <2>2. CASE LiveOf(u) = {}
    BY <2>2, FS_EmptySet
  <2>3. CASE LiveOf(u) # {}
    <3>1. PICK h \in LiveOf(u) : TRUE
      BY <2>3
    <3>2. LiveOf(u) = {h}
      BY <2>1, <3>1
    <3>3. Cardinality({h}) = 1
      BY FS_Singleton
    <3> QED
      BY <3>2, <3>3
  <2> QED
    BY <2>2, <2>3
<1> QED
  BY <1>1, InvCorrect, PTL

(* Every registration handed out names a transaction of the URI asked for   *)
(* and an agent that was minted: for that URI, or by a transaction that     *)
(* took the nonce of a dropped one of that URI (index.ts:490, 516).         *)
THEOREM AnswersAreMinted == Spec => []AnswerIsMinted
<1>1. IInv => AnswerIsMinted
  BY DEF IInv, AnswerInv, Minted, AnswerIsMinted
<1> QED
  BY <1>1, InvCorrect, PTL

(* To settle a record as mined once more changes nothing.                   *)
LEMMA MinedStays ==
  ASSUME NEW r \in Record, NEW h, r.agent # None, r.state = "mined"
  PROVE  Mined(r, h) = r
<1> DEFINE m == Mined(r, h)
<1>1. m = [r EXCEPT !.agent = r.agent, !.state = r.state]
  BY DEF Mined
<1> HIDE DEF m
<1>2. /\ m \in Record
      /\ m.hash = r.hash /\ m.agent = r.agent /\ m.state = r.state
  BY <1>1 DEF Record
<1>3. m = r
  BY <1>2 DEF Record
<1> QED
  BY <1>3 DEF m

(* A record that says mined, of a mined transaction, is left alone by every *)
(* later step of the process.                                               *)
THEOREM MinedRecordsStay == Spec => MinedIsKept
<1> DEFINE Kept1 == past' = past =>
      \A u \in Uris \ misled' :
        LET r == attempts[u] IN
        /\ r # None /\ r.state = "mined"
        /\ r.hash # None /\ tx[r.hash].state = "mined"
        => attempts'[u] = r
<1>1. ASSUME Inv, [Next]_vars PROVE Kept1
  <2> SUFFICES ASSUME past' = past, NEW u \in Uris, u \notin misled',
                      attempts[u] # None, attempts[u].state = "mined",
                      attempts[u].hash # None, tx[attempts[u].hash].state = "mined"
               PROVE  attempts'[u] = attempts[u]
    OBVIOUS
  <2>1. CASE UNCHANGED vars
    BY <2>1 DEF vars, ledgerVars
  <2>2. ASSUME NEW h \in Sent, ChainActions(h) PROVE attempts'[u] = attempts[u]
    BY <2>2 DEF ChainActions, Include, Drop, ledgerVars
  <2>3. ASSUME NEW c \in Callers, SendRaw(c) PROVE attempts'[u] = attempts[u]
    BY <2>3 DEF SendRaw, ledgerVars
  <2>4. ~Restart
    <3> SUFFICES ASSUME Restart PROVE FALSE
      OBVIOUS
    <3>1. PICK c \in Callers \ past : pc[c] # "idle"
      BY DEF Restart
    <3>2. past' = {d \in Callers : pc[d] # "idle"} \cup Sent
      BY DEF Restart
    <3> QED
      BY <3>1, <3>2
  <2>5. ASSUME NEW c \in Callers, CallerActions(c) PROVE attempts'[u] = attempts[u]
    <3> DEFINE h == attempts[u].hash
    <3>1. u \notin misled
      BY <1>1, <2>5, HashesMoveStep DEF HashesMove, Inv
    <3>2. /\ attempts[u] \in Record /\ h # None /\ attempts[u].agent # None
          /\ tx[h].state = "mined" /\ h \in Sent \ past /\ tx[h].uri = u
      BY <1>1, <3>1, Types, NoneAssumption DEF Inv, MinedInv, MinedOf, HashInv
    <3>3. h \in LiveOf(u) /\ Recorded(u, h)
      BY <3>2, NoneAssumption DEF LiveOf, Live, Recorded
    <3>4. attempts'[u].hash = h /\ attempts'[u].state # "reverted"
      BY <1>1, <2>5, <3>3, LiveStaysRecorded DEF Recorded
    <3>5. CASE u = uri[c] /\ SendAnswers(c)
      <4>1. pc[c] = "sent"
        BY <3>5 DEF SendAnswers
      <4>2. h = my[c].hash
        BY <1>1, <3>1, <3>3, <3>5, <4>1 DEF Inv, LiveInv
      <4> QED
        BY <1>1, <3>2, <4>1, <4>2, NoneAssumption DEF Inv, OwnInv
    <3>6. CASE ReceiptReverted(c) /\ attempts'[u] = [attempts[u] EXCEPT !.state = "reverted"]
      BY <3>2, <3>4, <3>6 DEF Record
    <3>7. CASE PendingMissing(c) /\ attempts'[u] = [attempts[u] EXCEPT !.hash = None]
      BY <3>2, <3>4, <3>7 DEF Record
    <3>8. ASSUME NEW g, attempts'[u] = Mined(attempts[u], g)
          PROVE  attempts'[u] = attempts[u]
      <4>1. attempts[u].agent # None /\ attempts[u].state = "mined"
        BY <3>2
      <4> QED
        BY <3>2, <3>8, <4>1, MinedStays
    <3>9. ASSUME NEW g \in Txs, attempts'[u] = Outcome(attempts[u], g)
          PROVE  attempts'[u] = attempts[u]
      <4>1. CASE tx[g].state = "mined"
        BY <3>8, <3>9, <4>1 DEF Outcome
      <4>2. CASE tx[g].state # "mined"
        BY <3>2, <3>4, <3>9, <4>2 DEF Outcome, Record
      <4> QED
        BY <4>1, <4>2
    <3>10. CASE \E g \in Txs : attempts'[u] = Outcome(attempts[u], g)
      BY <3>9, <3>10
    <3>11. CASE attempts'[u] = Mined(attempts[u], my[c].hash)
      BY <3>8, <3>11
    <3>12. Touched(c, u)
      BY <1>1, <2>5, RecordTouched
    <3> QED
      BY <3>5, <3>6, <3>7, <3>10, <3>11, <3>12 DEF Touched
  <2> QED
    BY <1>1, <2>1, <2>2, <2>3, <2>4, <2>5, StepKinds
<1>2. IInv /\ [Next]_vars => Kept1
  BY <1>1 DEF IInv
<1>3. IInv /\ [Next]_vars => [Kept1]_vars
  BY <1>2
<1> QED
  BY <1>3, InvCorrect, PTL DEF Spec, MinedIsKept
=============================================================================
