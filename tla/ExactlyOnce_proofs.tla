-------------------------- MODULE ExactlyOnce_proofs --------------------------
(***************************************************************************)
(* Theorems of ExactlyOnce, for every set of calls, identities, tools and  *)
(* dispatches: type correctness, the once guarantee, the honesty of a      *)
(* success and that no failed call is repeated unasked; and, at the end,   *)
(* of the observatory, which is told of the calls: its files show what it  *)
(* was told.                                                               *)
(***************************************************************************)
EXTENDS ExactlyOnce, Observatory, TLAPS

(* The outcome a body or a hook produces is an outcome, and a result unless *)
(* it threw.                                                                *)
LEMMA OutcomeType ==
  ASSUME NEW d \in Dispatches, NEW kind \in Kinds
  PROVE  /\ [kind |-> kind, from |-> d] \in Outcome
         /\ kind # "threw" => [kind |-> kind, from |-> d] \in Result
  BY DEF Outcome, Result

(* TypeOK: the guard's maps and the state of every wrap activation keep     *)
(* their types in every step (guard.ts wrap, resetAgent, registerCheck).    *)
THEOREM TypeCorrect == Spec => []TypeOK
<1>1. Init => TypeOK
  BY DEF Init, TypeOK, PcValues, Evidence
<1>2. TypeOK /\ [Next]_vars => TypeOK'
  <2> SUFFICES ASSUME TypeOK, [Next]_vars PROVE TypeOK'
    OBVIOUS
  <2> USE CallsAssumption, ToolsAssumption
        DEF TypeOK, guardVars, wrapVars, envVars, PcValues
  <2>1. ASSUME NEW t \in Tools, RegisterCheck(t) \/ UnregisterCheck(t) PROVE TypeOK'
    BY <2>1 DEF RegisterCheck, UnregisterCheck
  <2>2. ASSUME NEW a \in Agents, ResetAgent(a) PROVE TypeOK'
    BY <2>2 DEF ResetAgent, Evidence
  <2>3. ASSUME NEW d \in Dispatches, NEW c \in Calls, Enter(d, c) PROVE TypeOK'
    <3>1. CASE PassThrough(d, c)
      BY <3>1 DEF PassThrough, Enters, RunBody
    <3>2. CASE Attach(d, c)
      BY <3>2 DEF Attach, Enters
    <3>3. CASE Replay(d, c)
      BY <3>3 DEF Replay, Enters, Returns, Result
    <3>4. CASE Consult(d, c)
      BY <3>4 DEF Consult, Fresh, Enters
    <3>5. CASE Start(d, c)
      BY <3>5 DEF Start, Fresh, Enters, BeginAttempt, RunBody
    <3>6. QED BY <2>3, <3>1, <3>2, <3>3, <3>4, <3>5 DEF Enter
  <2>4. ASSUME NEW d \in Dispatches, HookAnswers(d) PROVE TypeOK'
    <3>1. CASE HookReplays(d)
      <4>1. /\ [kind |-> "ok", from |-> d] \in Result
            /\ [kind |-> "ok", from |-> d] \in Outcome
        BY OutcomeType DEF Kinds
      <4>2. QED BY <3>1, <4>1 DEF HookReplays, Returns, Evidence
    <3>2. CASE HookProceeds(d)
      BY <3>2 DEF HookProceeds, BeginAttempt, RunBody
    <3>3. CASE HookFails(d)
      <4>1. [kind |-> "threw", from |-> d] \in Outcome
        BY OutcomeType DEF Kinds
      <4>2. QED BY <3>3, <4>1 DEF HookFails, Returns
    <3>4. QED BY <2>4, <3>1, <3>2, <3>3 DEF HookAnswers
  <2>5. ASSUME NEW d \in Dispatches, Commit(d) PROVE TypeOK'
    BY <2>5 DEF Commit
  <2>6. ASSUME NEW d \in Dispatches, BodyEnds(d) PROVE TypeOK'
    <3>1. ASSUME NEW kind \in Kinds, PassReturns(d, kind) PROVE TypeOK'
      BY <3>1, OutcomeType DEF PassReturns, Returns
    <3>2. ASSUME NEW o \in Outcome, EndAttempt(d, o), settled' \in [Calls -> Result \cup {None}]
          PROVE  TypeOK'
      <4>1. EvidenceOf(o.kind) \in Evidence
        BY DEF EvidenceOf, Evidence
      <4>2. QED BY <3>2, <4>1 DEF EndAttempt, Returns
    <3>3. ASSUME NEW kind \in Kinds, BodyReturns(d, kind) PROVE TypeOK'
      <4>1. settled' \in [Calls -> Result \cup {None}]
        BY <3>3, OutcomeType DEF BodyReturns
      <4>2. QED BY <3>2, <3>3, <4>1, OutcomeType DEF BodyReturns
    <3>4. CASE BodyThrows(d)
      BY <3>2, <3>4, OutcomeType DEF BodyThrows, Kinds
    <3>5. QED BY <2>6, <3>1, <3>3, <3>4 DEF BodyEnds
  <2>7. ASSUME NEW d \in Dispatches, Follow(d) PROVE TypeOK'
    BY <2>7 DEF Follow, Returns
  <2>8. ASSUME NEW d \in Dispatches, RecordResult(d) PROVE TypeOK'
    <3>1. EvidenceOf(out[d].kind) \in Evidence
      BY DEF EvidenceOf, Evidence
    <3>2. QED BY <2>8, <3>1 DEF RecordResult
  <2>9. CASE Restart
    BY <2>9 DEF Restart, Evidence
  <2>10. CASE UNCHANGED vars
    BY <2>10 DEF vars
  <2>11. QED
    BY <2>1, <2>2, <2>3, <2>4, <2>5, <2>6, <2>7, <2>8, <2>9, <2>10 DEF Next
<1>3. QED BY <1>1, <1>2, PTL DEF Spec

-----------------------------------------------------------------------------
(* The inductive invariant.  Shape says where a dispatch can be found:      *)
(* every registered or awaited attempt belongs to the call it is registered *)
(* for.                                                                     *)

Shape ==
  /\ \A d \in Dispatches : pc[d] = "idle" <=> call[d] = None
  /\ \A d \in Dispatches : pc[d] \in Running => call[d] \notin retired /\ out[d] = None
  /\ \A d \in Dispatches : pc[d] = "idle" => out[d] = None /\ attempt[d] = None
  /\ \A d \in Dispatches : attempt[d] # None => out[d] = attempt[d]
  /\ \A d \in Dispatches : pc[d] = "attached" =>
        Guarded(call[d]) /\ call[leader[d]] = call[d]
  /\ \A d \in Dispatches : pc[d] = "hook" => d \in consulted
  /\ \A c \in Calls : inFlight[c] # None => call[inFlight[c]] = c

(* Of a call no hook was asked about: its running body is the registered    *)
(* attempt, and its recorded result is what every delivery was told.        *)
Once(c) ==
  /\ \A d \in DispatchesOf(c) : BodyRunning(d) => inFlight[c] = d /\ settled[c] = None
  /\ \A d \in DispatchesOf(c) : GotResult(d) /\ c \notin retired => settled[c] = out[d]
  /\ \A d, e \in DispatchesOf(c) : GotResult(d) /\ GotResult(e) => out[d] = out[e]

OnceInv == \A c \in Calls : Guarded(c) /\ ~Consulted(c) => Once(c)

IInv == TypeOK /\ Shape /\ OnceInv

(* An empty guard has the shape.                                            *)
LEMMA ShapeInit == Init => Shape
  BY DEF Init, Shape, Running

(* Every segment of wrap keeps activations and the maps in step.            *)
LEMMA ShapeStep == ASSUME TypeOK, Shape, [Next]_vars PROVE Shape'
<1> USE CallsAssumption, NoneAssumption
      DEF TypeOK, Shape, guardVars, wrapVars, envVars, Running, Guarded
<1>1. ASSUME NEW t \in Tools, RegisterCheck(t) \/ UnregisterCheck(t) PROVE Shape'
  BY <1>1 DEF RegisterCheck, UnregisterCheck
<1>2. ASSUME NEW a \in Agents, ResetAgent(a) PROVE Shape'
  BY <1>2 DEF ResetAgent
<1>3. ASSUME NEW d \in Dispatches, NEW c \in Calls, Enter(d, c) PROVE Shape'
  <2>1. CASE PassThrough(d, c)
    BY <2>1 DEF PassThrough, Enters, RunBody
  <2>2. CASE Attach(d, c)
    BY <2>2 DEF Attach, Enters
  <2>3. CASE Replay(d, c)
    BY <2>3 DEF Replay, Enters, Returns
  <2>4. CASE Consult(d, c)
    BY <2>4 DEF Consult, Fresh, Enters
  <2>5. CASE Start(d, c)
    BY <2>5 DEF Start, Fresh, Enters, BeginAttempt, RunBody
  <2>6. QED BY <1>3, <2>1, <2>2, <2>3, <2>4, <2>5 DEF Enter
<1>4. ASSUME NEW d \in Dispatches, HookAnswers(d) PROVE Shape'
  <2>1. CASE HookReplays(d)
    BY <2>1 DEF HookReplays, Returns
  <2>2. CASE HookProceeds(d)
    BY <2>2 DEF HookProceeds, BeginAttempt, RunBody
  <2>3. CASE HookFails(d)
    BY <2>3 DEF HookFails, Returns
  <2>4. QED BY <1>4, <2>1, <2>2, <2>3 DEF HookAnswers
<1>5. ASSUME NEW d \in Dispatches, Commit(d) PROVE Shape'
  BY <1>5 DEF Commit
<1>6. ASSUME NEW d \in Dispatches, BodyEnds(d) PROVE Shape'
  <2>1. ASSUME NEW kind \in Kinds, PassReturns(d, kind) PROVE Shape'
    BY <2>1 DEF PassReturns, BodyMayEnd, Returns
  <2>2. ASSUME NEW kind \in Kinds, BodyReturns(d, kind) PROVE Shape'
    BY <2>2 DEF BodyReturns, BodyMayEnd, EndAttempt, Returns
  <2>3. CASE BodyThrows(d)
    BY <2>3 DEF BodyThrows, BodyMayEnd, EndAttempt, Returns
  <2>4. QED BY <1>6, <2>1, <2>2, <2>3 DEF BodyEnds
<1>7. ASSUME NEW d \in Dispatches, Follow(d) PROVE Shape'
  BY <1>7 DEF Follow, Returns
<1>8. ASSUME NEW d \in Dispatches, RecordResult(d) PROVE Shape'
  BY <1>8 DEF RecordResult
<1>9. CASE Restart
  BY <1>9 DEF Restart
<1>10. CASE UNCHANGED vars
  BY <1>10 DEF vars
<1>11. QED
  BY <1>1, <1>2, <1>3, <1>4, <1>5, <1>6, <1>7, <1>8, <1>9, <1>10 DEF Next
(* The step of the once guarantee.  A step that starts no body of the call, *)
(* ends none and returns from none leaves Once(c) as it is; the others are  *)
(* the segments of wrap.                                                    *)
LEMMA OnceFrame ==
  ASSUME TypeOK, NEW c \in Calls, Once(c),
         inFlight'[c] = inFlight[c], settled'[c] = settled[c], retired' = retired,
         \A d \in Dispatches : call'[d] = c =>
           \/ call[d] = c /\ out'[d] = out[d] /\ (pc'[d] = "body" => pc[d] = "body")
           \/ pc'[d] # "body" /\ out'[d] = None
  PROVE  Once(c)'
  BY DEF TypeOK, Once, DispatchesOf, BodyRunning, GotResult

(* No segment starts a second body of a call that never waited on a hook.   *)
LEMMA OnceStep == ASSUME TypeOK, Shape, OnceInv, [Next]_vars PROVE OnceInv'
<1> SUFFICES ASSUME NEW c \in Calls, Guarded(c), ~Consulted(c)' PROVE Once(c)'
  BY DEF OnceInv, Guarded
<1> USE CallsAssumption, NoneAssumption DEF TypeOK, guardVars, wrapVars, envVars
<1>1. ASSUME NEW t \in Tools, RegisterCheck(t) \/ UnregisterCheck(t) PROVE Once(c)'
  BY <1>1 DEF RegisterCheck, UnregisterCheck, OnceInv, Once, Consulted, DispatchesOf,
              BodyRunning, GotResult
<1>2. ASSUME NEW a \in Agents, ResetAgent(a) PROVE Once(c)'
  BY <1>2 DEF ResetAgent, OnceInv, Once, Consulted, DispatchesOf, BodyRunning, GotResult
<1>3. ASSUME NEW d \in Dispatches, NEW b \in Calls, Enter(d, b) PROVE Once(c)'
  <2>1. Once(c)
    BY <1>3 DEF OnceInv, Consulted, DispatchesOf, Shape, Enter, PassThrough, Attach,
                Replay, Consult, Start, Fresh, Enters, RunBody, BeginAttempt, Returns
  <2>2. CASE PassThrough(d, b)
    BY <2>1, <2>2, OnceFrame DEF PassThrough, Enters, RunBody, Shape, Guarded
  <2>3. CASE Attach(d, b)
    BY <2>1, <2>3, OnceFrame DEF Attach, Enters, Shape
  <2>4. CASE Replay(d, b)
    <3>1. CASE b = c
      BY <2>1, <2>4, <3>1 DEF Replay, Enters, Returns, Shape, Once, DispatchesOf,
                              BodyRunning, GotResult, Result
    <3>2. CASE b # c
      BY <2>1, <2>4, <3>2, OnceFrame DEF Replay, Enters, Returns, Shape
    <3>3. QED BY <3>1, <3>2
  <2>5. CASE Consult(d, b)
    BY <2>1, <2>5, OnceFrame DEF Consult, Fresh, Enters, Shape
  <2>6. CASE Start(d, b)
    <3>1. CASE b = c
      BY <2>1, <2>6, <3>1 DEF Start, Fresh, Enters, BeginAttempt, RunBody, Shape, Once,
                              DispatchesOf, BodyRunning, GotResult, Running
    <3>2. CASE b # c
      BY <2>1, <2>6, <3>2, OnceFrame DEF Start, Fresh, Enters, BeginAttempt, RunBody, Shape
    <3>3. QED BY <3>1, <3>2
  <2>7. QED BY <1>3, <2>2, <2>3, <2>4, <2>5, <2>6 DEF Enter
<1>4. ASSUME NEW d \in Dispatches, HookAnswers(d) PROVE Once(c)'
  <2>1. call' = call /\ consulted' = consulted /\ d \in consulted
    BY <1>4 DEF HookAnswers, HookReplays, HookProceeds, HookFails, BeginAttempt, RunBody,
                Returns, Shape
  <2>2. Once(c) /\ call[d] # c
    BY <2>1 DEF OnceInv, Consulted, DispatchesOf
  <2>3. CASE HookReplays(d)
    BY <2>2, <2>3, OnceFrame DEF HookReplays, Returns, Shape
  <2>4. CASE HookProceeds(d)
    BY <2>2, <2>4, OnceFrame DEF HookProceeds, BeginAttempt, RunBody, Shape
  <2>5. CASE HookFails(d)
    BY <2>2, <2>5, OnceFrame DEF HookFails, Returns, Shape
  <2>6. QED BY <1>4, <2>3, <2>4, <2>5 DEF HookAnswers
<1>5. ASSUME NEW d \in Dispatches, Commit(d) PROVE Once(c)'
  BY <1>5 DEF Commit, OnceInv, Once, Consulted, DispatchesOf, BodyRunning, GotResult
<1>6. ASSUME NEW d \in Dispatches, BodyEnds(d) PROVE Once(c)'
  <2>1. Once(c)
    BY <1>6 DEF OnceInv, Consulted, DispatchesOf, BodyEnds, PassReturns, BodyReturns,
                BodyThrows, EndAttempt, Returns
  <2>2. ASSUME NEW kind \in Kinds, PassReturns(d, kind) PROVE Once(c)'
    BY <2>1, <2>2, OnceFrame DEF PassReturns, BodyMayEnd, Returns, Shape, Guarded
  <2>3. ASSUME NEW kind \in Kinds, BodyReturns(d, kind) PROVE Once(c)'
    <3>1. CASE call[d] = c
      BY <2>1, <2>3, <3>1 DEF BodyReturns, BodyMayEnd, EndAttempt, Returns, Shape, Once,
                              DispatchesOf, BodyRunning, GotResult, Running
    <3>2. CASE call[d] # c
      BY <2>1, <2>3, <3>2, OnceFrame
         DEF BodyReturns, BodyMayEnd, EndAttempt, Returns, Shape
    <3>3. QED BY <3>1, <3>2
  <2>4. CASE BodyThrows(d)
    <3>1. CASE call[d] = c
      BY <2>1, <2>4, <3>1 DEF BodyThrows, BodyMayEnd, EndAttempt, Returns, Shape, Once,
                              DispatchesOf, BodyRunning, GotResult, Running
    <3>2. CASE call[d] # c
      BY <2>1, <2>4, <3>2, OnceFrame
         DEF BodyThrows, BodyMayEnd, EndAttempt, Returns, Shape
    <3>3. QED BY <3>1, <3>2
  <2>5. QED BY <1>6, <2>2, <2>3, <2>4 DEF BodyEnds
<1>7. ASSUME NEW d \in Dispatches, Follow(d) PROVE Once(c)'
  <2>1. Once(c)
    BY <1>7 DEF OnceInv, Consulted, DispatchesOf, Follow, Returns
  <2>2. CASE call[d] = c
    <3>1. /\ leader[d] \in DispatchesOf(c) /\ c \notin retired
          /\ out[leader[d]] = attempt[leader[d]]
      BY <1>7, <2>2 DEF Follow, Shape, DispatchesOf, Running
    <3>2. QED BY <1>7, <2>1, <2>2, <3>1 DEF Follow, Returns, Once, DispatchesOf,
                                           BodyRunning, GotResult
  <2>3. CASE call[d] # c
    BY <1>7, <2>1, <2>3, OnceFrame DEF Follow, Returns, Shape
  <2>4. QED BY <2>2, <2>3
<1>8. ASSUME NEW d \in Dispatches, RecordResult(d) PROVE Once(c)'
  BY <1>8 DEF RecordResult, OnceInv, Once, Consulted, DispatchesOf, BodyRunning, GotResult
<1>9. CASE Restart
  <2>1. Once(c)
    BY <1>9 DEF OnceInv, Consulted, DispatchesOf, Restart
  <2>2. QED BY <1>9, <2>1 DEF Restart, Once, Dispatched, DispatchesOf, BodyRunning,
                              GotResult, Running
<1>10. CASE UNCHANGED vars
  BY <1>10 DEF vars, OnceInv, Once, Consulted, DispatchesOf, BodyRunning, GotResult
<1>11. QED
  BY <1>1, <1>2, <1>3, <1>4, <1>5, <1>6, <1>7, <1>8, <1>9, <1>10 DEF Next

(* Types, shape and the once property hold together in every reachable      *)
(* state.                                                                   *)
LEMMA InductiveInvariant == Spec => []IInv
<1>1. Init => IInv
  <2> SUFFICES ASSUME Init PROVE IInv
    OBVIOUS
  <2>1. TypeOK
    BY DEF Init, TypeOK, PcValues, Evidence
  <2>2. OnceInv
    BY NoneAssumption DEF Init, OnceInv, Once, DispatchesOf
  <2>3. QED BY <2>1, <2>2, ShapeInit DEF IInv
<1>2. TypeOK /\ TypeOK' /\ IInv /\ [Next]_vars => IInv'
  BY ShapeStep, OnceStep DEF IInv
<1>3. QED BY <1>1, <1>2, TypeCorrect, PTL DEF Spec

(* OnceUnlessHooked: a guarded call whose deliveries never waited on a hook *)
(* has one body at most, registered in `inFlight`, and none once settled.   *)
THEOREM OnceGuarantee == Spec => []OnceUnlessHooked
<1>1. IInv => OnceUnlessHooked
  BY DEF IInv, OnceInv, Once, OnceUnlessHooked
<1>2. QED BY <1>1, InductiveInvariant, PTL

(* RepliesAgree: every delivery of such a call that got a result got the    *)
(* same one, attached, replayed or run.                                     *)
THEOREM OneResult == Spec => []RepliesAgree
<1>1. IInv => RepliesAgree
  BY DEF IInv, OnceInv, Once, RepliesAgree
<1>2. QED BY <1>1, InductiveInvariant, PTL
-----------------------------------------------------------------------------
(* A success is honest wherever it is kept.                                 *)

OutHonest(d) ==
  out[d] # None /\ out[d].kind = "ok" => CommittedAs(IdentityOf[call[d]])

SettledHonest(c) ==
  settled[c] # None /\ settled[c].kind = "ok" => CommittedAs(IdentityOf[c])

OutsHonest == \A d \in Dispatches : OutHonest(d)

Honest ==
  /\ OutsHonest
  /\ \A c \in Calls : SettledHonest(c)

(* Effects are never undone and a dispatch never changes its call: what an  *)
(* exact call has committed stays committed.                                *)
LEMMA CommittedStays ==
  ASSUME TypeOK, NEW i \in Identities, CommittedAs(i),
         committed \subseteq committed',
         \A d \in Dispatches : call[d] # None => call'[d] = call[d]
  PROVE  CommittedAs(i)'
  BY DEF CommittedAs, DispatchesAs, TypeOK

(* An effect that happened stays so.                                        *)
LEMMA CommittedMonotone ==
  ASSUME TypeOK, Shape, [Next]_vars
  PROVE  /\ committed \subseteq committed'
         /\ \A d \in Dispatches : call[d] # None => call'[d] = call[d]
<1> USE DEF TypeOK, Shape, guardVars, wrapVars, envVars
<1>1. ASSUME NEW d \in Dispatches, NEW c \in Calls, Enter(d, c)
      PROVE  /\ committed \subseteq committed'
             /\ \A e \in Dispatches : call[e] # None => call'[e] = call[e]
  BY <1>1 DEF Enter, PassThrough, Attach, Replay, Consult, Start, Fresh, Enters,
              RunBody, BeginAttempt, Returns
<1>2. ASSUME NEW d \in Dispatches, HookAnswers(d) PROVE UNCHANGED <<committed, call>>
  BY <1>2 DEF HookAnswers, HookReplays, HookProceeds, HookFails, BeginAttempt,
              RunBody, Returns
<1>3. ASSUME NEW d \in Dispatches, BodyEnds(d) PROVE UNCHANGED <<committed, call>>
  BY <1>3 DEF BodyEnds, PassReturns, BodyReturns, BodyThrows, EndAttempt, Returns
<1>4. ASSUME NEW d \in Dispatches, Follow(d) \/ RecordResult(d) \/ Commit(d)
      PROVE  committed \subseteq committed' /\ call' = call
  BY <1>4 DEF Follow, RecordResult, Commit, Returns
<1>5. QED
  BY <1>1, <1>2, <1>3, <1>4
     DEF Next, vars, RegisterCheck, UnregisterCheck, ResetAgent, Restart

(* No segment tells success without an effect behind it.                    *)
LEMMA HonestStep ==
  ASSUME TypeOK, TypeOK', Shape, Honest, [Next]_vars
  PROVE  Honest'
<1> USE CallsAssumption, NoneAssumption DEF Honest, guardVars, wrapVars, envVars
(* A successful outcome already told, and a result already recorded, keep   *)
(* what stands behind them.                                                 *)
<1>1. ASSUME NEW d \in Dispatches, out'[d] = out[d] PROVE OutHonest(d)'
  <2>1. CASE call[d] = None
    BY <1>1, <2>1 DEF OutHonest, Shape
  <2>2. CASE call[d] # None
    <3>1. PICK c \in Calls : call[d] = c /\ call'[d] = c /\ IdentityOf[c] \in Identities
      BY <2>2, CommittedMonotone DEF TypeOK
    <3>2. CommittedAs(IdentityOf[c]) => CommittedAs(IdentityOf[c])'
      BY <3>1, CommittedStays, CommittedMonotone
    <3>3. OutHonest(d)
      BY DEF OutsHonest
    <3>4. QED BY <1>1, <3>1, <3>2, <3>3 DEF OutHonest
  <2>3. QED BY <2>1, <2>2
<1>2. ASSUME NEW c \in Calls, settled'[c] \in {settled[c], None} PROVE SettledHonest(c)'
  <2>1. CommittedAs(IdentityOf[c]) => CommittedAs(IdentityOf[c])'
    BY CommittedStays, CommittedMonotone
  <2>2. QED BY <1>2, <2>1 DEF SettledHonest
<1>3. ASSUME NEW d \in Dispatches, NEW o \in Outcome, NEW c \in Calls,
             Returns(d, o), call'[d] = c, o.kind = "ok" => CommittedAs(IdentityOf[c])'
      PROVE  OutsHonest'
  <2>1. ASSUME NEW e \in Dispatches, e # d PROVE OutHonest(e)'
    BY <1>1, <1>3, <2>1 DEF Returns, TypeOK
  <2>2. OutHonest(d)'
    BY <1>3 DEF Returns, OutHonest, TypeOK
  <2>3. QED BY <2>1, <2>2 DEF OutsHonest
<1>4. ASSUME UNCHANGED out PROVE OutsHonest'
  BY <1>1, <1>4 DEF OutsHonest
<1>5. ASSUME UNCHANGED settled PROVE \A c \in Calls : SettledHonest(c)'
  BY <1>2, <1>5
<1>6. ASSUME NEW d \in Dispatches, NEW c \in Calls, Enter(d, c) PROVE Honest'
  <2>1. CASE Replay(d, c)
    <3>1. /\ settled[c] \in Outcome /\ call'[d] = c
          /\ settled[c].kind = "ok" => CommittedAs(IdentityOf[c])
      BY <2>1 DEF Replay, Enters, TypeOK, Result, SettledHonest
    <3>2. settled[c].kind = "ok" => CommittedAs(IdentityOf[c])'
      BY <3>1, CommittedStays, CommittedMonotone
    <3>3. QED BY <2>1, <3>1, <3>2, <1>3, <1>5 DEF Replay
  <2>2. CASE ~Replay(d, c)
    <3>1. UNCHANGED <<out, settled>>
      BY <1>6, <2>2 DEF Enter, PassThrough, Attach, Consult, Start, Fresh, Enters,
                        RunBody, BeginAttempt
    <3>2. QED BY <3>1, <1>4, <1>5
  <2>3. QED BY <2>1, <2>2
<1>7. ASSUME NEW d \in Dispatches, HookAnswers(d) PROVE Honest'
  <2>1. PICK c \in Calls : call[d] = c /\ call'[d] = c /\ IdentityOf[c] \in Identities
    BY <1>7 DEF HookAnswers, HookReplays, HookProceeds, HookFails, Shape, TypeOK,
                BeginAttempt, RunBody, Returns
  <2>2. CASE HookReplays(d)
    <3>1. CommittedAs(IdentityOf[c])'
      BY <2>1, <2>2, CommittedStays, CommittedMonotone DEF HookReplays
    <3>2. [kind |-> "ok", from |-> d] \in Outcome
      BY OutcomeType DEF Kinds
    <3>3. Returns(d, [kind |-> "ok", from |-> d])
      BY <2>2 DEF HookReplays
    <3>4. OutsHonest'
      BY <2>1, <3>1, <3>2, <3>3, <1>3
    <3>5. ASSUME NEW b \in Calls PROVE SettledHonest(b)'
      BY <2>1, <2>2, <3>1, <1>2 DEF HookReplays, SettledHonest, TypeOK
    <3>6. QED BY <3>4, <3>5
  <2>3. CASE HookProceeds(d)
    BY <2>3, <1>4, <1>5 DEF HookProceeds, BeginAttempt, RunBody
  <2>4. CASE HookFails(d)
    <3>1. [kind |-> "threw", from |-> d] \in Outcome
      BY OutcomeType DEF Kinds
    <3>2. QED BY <2>1, <2>4, <3>1, <1>3, <1>5 DEF HookFails
  <2>5. QED BY <1>7, <2>2, <2>3, <2>4 DEF HookAnswers
<1>8. ASSUME NEW d \in Dispatches, BodyEnds(d) PROVE Honest'
  <2>1. PICK c \in Calls : call[d] = c /\ call' = call /\ committed' = committed
    BY <1>8 DEF BodyEnds, PassReturns, BodyReturns, BodyThrows, EndAttempt, Returns,
                BodyMayEnd, Shape, TypeOK
  <2>2. ASSUME NEW kind \in Kinds, BodyMayEnd(d, kind), kind = "ok"
        PROVE  CommittedAs(IdentityOf[c])'
    BY <2>1, <2>2 DEF BodyMayEnd, CommittedAs, DispatchesAs
  <2>3. call'[d] = c
    BY <2>1
  <2>4. ASSUME NEW kind \in Kinds, BodyMayEnd(d, kind),
               Returns(d, [kind |-> kind, from |-> d])
        PROVE  OutsHonest'
    <3>1. /\ [kind |-> kind, from |-> d] \in Outcome
          /\ [kind |-> kind, from |-> d].kind = "ok" => CommittedAs(IdentityOf[c])'
      BY <2>2, <2>4, OutcomeType
    <3>2. QED BY <2>1, <2>3, <2>4, <3>1, <1>3
  <2>5. ASSUME NEW kind \in Kinds, PassReturns(d, kind) PROVE Honest'
    BY <2>4, <2>5, <1>5 DEF PassReturns
  <2>6. ASSUME NEW kind \in Kinds, BodyReturns(d, kind) PROVE Honest'
    <3>1. OutsHonest'
      BY <2>4, <2>6 DEF BodyReturns, EndAttempt
    <3>2. ASSUME NEW b \in Calls, b # c PROVE SettledHonest(b)'
      BY <2>1, <2>6, <3>2, <1>2 DEF BodyReturns, TypeOK
    <3>3. SettledHonest(c)'
      BY <2>1, <2>2, <2>6 DEF BodyReturns, SettledHonest, TypeOK
    <3>4. QED BY <3>1, <3>2, <3>3
  <2>7. CASE BodyThrows(d)
    BY <2>4, <2>7, <1>5 DEF BodyThrows, EndAttempt, Kinds
  <2>8. QED BY <1>8, <2>5, <2>6, <2>7 DEF BodyEnds
<1>9. ASSUME NEW d \in Dispatches, Follow(d) PROVE Honest'
  <2>1. PICK c \in Calls, l \in Dispatches, o \in Outcome :
          /\ call'[d] = c /\ IdentityOf[c] \in Identities /\ call[l] = c
          /\ out[l] = o /\ o # None /\ Returns(d, o)
    BY <1>9 DEF Follow, Shape, TypeOK
  <2>2. o.kind = "ok" => CommittedAs(IdentityOf[c])
    BY <2>1 DEF OutsHonest, OutHonest
  <2>3. o.kind = "ok" => CommittedAs(IdentityOf[c])'
    BY <2>1, <2>2, CommittedStays, CommittedMonotone
  <2>4. QED BY <1>9, <2>1, <2>3, <1>3, <1>5 DEF Follow
<1>10. ASSUME NEW d \in Dispatches, Commit(d) \/ RecordResult(d) PROVE Honest'
  BY <1>10, <1>4, <1>5 DEF Commit, RecordResult
<1>11. CASE Restart
  <2>1. UNCHANGED out /\ \A c \in Calls : settled'[c] = None
    BY <1>11 DEF Restart
  <2>2. QED BY <2>1, <1>2, <1>4
<1>12. QED
  BY <1>4, <1>5, <1>6, <1>7, <1>8, <1>9, <1>10, <1>11
     DEF Next, vars, RegisterCheck, UnregisterCheck, ResetAgent

(* SuccessMeansCommitted: whoever is told a call succeeded, by its body, by *)
(* attachment, by replay or by a hook, is told of an effect of that exact   *)
(* call that happened.                                                      *)
THEOREM SuccessIsHonest == Spec => []SuccessMeansCommitted
<1>1. Init => Honest
  BY NoneAssumption DEF Init, Honest, OutsHonest, OutHonest, SettledHonest
<1>2. TypeOK /\ TypeOK' /\ IInv /\ Honest /\ [Next]_vars => Honest'
  BY HonestStep DEF IInv
<1>3. Honest => SuccessMeansCommitted
  BY DEF Honest, OutsHonest, OutHonest, SuccessMeansCommitted
<1>4. QED BY <1>1, <1>2, <1>3, TypeCorrect, InductiveInvariant, PTL DEF Spec
-----------------------------------------------------------------------------
(* What the guard knows of an exact call.  An outcome it remembers as "ok", *)
(* or reads as "ok" off the session log, was told to somebody; a body that  *)
(* ended since the user last spoke is remembered, and what was recorded, or *)
(* closed after a crash, is in the log.                                     *)

AnsweredOk(i) == \E e \in DispatchesAs(i) : out[e] # None /\ out[e].kind = "ok"

OkIsTold ==
  \A i \in Identities : "ok" \in {outcomes[i], ledger[i]} => AnsweredOk(i)

Remembered ==
  \A e \in ran \ forgiven :
    (pc[e] \in {"returned", "recorded"} /\ call[e] \notin retired /\ Guarded(call[e]))
      => outcomes[IdentityOf[call[e]]] # "none"

InTheLog ==
  \A e \in Dispatches :
    (pc[e] = "recorded" \/ call[e] \in retired) => ledger[IdentityOf[call[e]]] # "none"

RanOnly ==
  \A e \in Dispatches :
    /\ e \in ran => pc[e] \notin {"idle", "attached", "hook"}
    /\ pc[e] = "lost" => call[e] \in retired

(* Who has returned was told something.                                     *)
EndedTold == \A e \in Dispatches : pc[e] \in {"returned", "recorded"} => out[e] # None

EvidenceInv == OkIsTold /\ Remembered /\ InTheLog /\ RanOnly

(* Nobody returns without an outcome.                                       *)
LEMMA ToldStep == ASSUME TypeOK, EndedTold, [Next]_vars PROVE EndedTold'
<1> USE NoneAssumption DEF TypeOK, EndedTold, guardVars, wrapVars, envVars
<1>1. ASSUME NEW d \in Dispatches, NEW o \in Outcome, Returns(d, o) PROVE EndedTold'
  BY <1>1 DEF Returns
<1>2. ASSUME NEW d \in Dispatches, NEW c \in Calls, Enter(d, c) PROVE EndedTold'
  <2>1. CASE Replay(d, c)
    BY <2>1, <1>1 DEF Replay, Result
  <2>2. CASE ~ Replay(d, c)
    BY <1>2, <2>2 DEF Enter, PassThrough, Attach, Consult, Start, Fresh, Enters, RunBody,
                      BeginAttempt
  <2> QED
    BY <2>1, <2>2
<1>3. ASSUME NEW d \in Dispatches, HookAnswers(d) PROVE EndedTold'
  BY <1>1, <1>3, OutcomeType, ZenonT(60) DEF HookAnswers, HookReplays, HookProceeds, HookFails, BeginAttempt,
                                 RunBody, Kinds
<1>4. ASSUME NEW d \in Dispatches, BodyEnds(d) PROVE EndedTold'
  BY <1>1, <1>4, OutcomeType DEF BodyEnds, PassReturns, BodyReturns, BodyThrows, EndAttempt, Kinds
<1>5. ASSUME NEW d \in Dispatches, Follow(d) PROVE EndedTold'
  BY <1>1, <1>5 DEF Follow
<1>6. ASSUME NEW d \in Dispatches, RecordResult(d) \/ Commit(d) PROVE EndedTold'
  BY <1>6 DEF RecordResult, Commit
<1>7. CASE Restart
  BY <1>7 DEF Restart
<1> QED
  BY <1>2, <1>3, <1>4, <1>5, <1>6, <1>7
     DEF Next, vars, RegisterCheck, UnregisterCheck, ResetAgent

(* A success that was told stays told.                                      *)
LEMMA ToldStays ==
  ASSUME TypeOK, Shape, [Next]_vars, NEW i \in Identities, AnsweredOk(i)
  PROVE  AnsweredOk(i)'
<1> USE NoneAssumption DEF TypeOK, Shape, guardVars, wrapVars, envVars, Running
<1>1. PICK e \in Dispatches :
        call[e] # None /\ IdentityOf[call[e]] = i /\ out[e] # None /\ out[e].kind = "ok"
  BY DEF AnsweredOk, DispatchesAs
<1>2. call'[e] = call[e]
  BY <1>1, CommittedMonotone
<1>3. ASSUME NEW d \in Dispatches, NEW o, Returns(d, o), out[d] = None PROVE out'[e] = out[e]
  BY <1>1, <1>3 DEF Returns
<1>4. ASSUME NEW d \in Dispatches, NEW c \in Calls, Enter(d, c) PROVE out'[e] = out[e]
  BY <1>3, <1>4 DEF Enter, PassThrough, Attach, Replay, Consult, Start, Fresh, Enters,
                    RunBody, BeginAttempt
<1>5. ASSUME NEW d \in Dispatches, HookAnswers(d) PROVE out'[e] = out[e]
  BY <1>3, <1>5 DEF HookAnswers, HookReplays, HookProceeds, HookFails, BeginAttempt, RunBody
<1>6. ASSUME NEW d \in Dispatches, BodyEnds(d) PROVE out'[e] = out[e]
  BY <1>3, <1>6 DEF BodyEnds, PassReturns, BodyReturns, BodyThrows, EndAttempt, BodyMayEnd
<1>7. ASSUME NEW d \in Dispatches, Follow(d) PROVE out'[e] = out[e]
  BY <1>3, <1>7 DEF Follow
<1>8. out'[e] = out[e]
  BY <1>4, <1>5, <1>6, <1>7
     DEF Next, vars, RegisterCheck, UnregisterCheck, ResetAgent, Commit, RecordResult, Restart
<1> QED
  BY <1>1, <1>2, <1>8 DEF AnsweredOk, DispatchesAs

(* A step of a body's end: what it tells is what is remembered.             *)
LEMMA EndEvident ==
  ASSUME TypeOK, Shape, EvidenceInv, [Next]_vars, NEW d \in Dispatches, NEW o \in Outcome,
         pc[d] = "body", EndAttempt(d, o)
  PROVE  EvidenceInv'
<1> USE CallsAssumption, NoneAssumption
      DEF TypeOK, Shape, guardVars, wrapVars, envVars, Running, EvidenceInv
<1>1. PICK c \in Calls : call[d] = c
  OBVIOUS
<1>2. PICK i \in Identities : i = IdentityOf[c]
  BY <1>1
<1>3. /\ outcomes' = [outcomes EXCEPT ![i] = EvidenceOf(o.kind)]
      /\ pc' = [pc EXCEPT ![d] = "returned"] /\ out' = [out EXCEPT ![d] = o]
      /\ call' = call /\ ledger' = ledger /\ ran' = ran /\ retired' = retired
      /\ forgiven' = forgiven
  BY <1>1, <1>2 DEF EndAttempt, Returns
<1>4. OkIsTold'
  <2>1. ASSUME NEW j \in Identities, outcomes'[j] = "ok" \/ ledger'[j] = "ok"
        PROVE  AnsweredOk(j)'
    <3>1. CASE AnsweredOk(j)
      BY <3>1, ToldStays
    <3>2. CASE ~AnsweredOk(j)
      <4>1. j = i /\ o.kind = "ok"
        BY <2>1, <3>2, <1>3 DEF OkIsTold, EvidenceOf
      <4>2. out'[d] = o /\ o # None /\ call'[d] = c
        BY <1>1, <1>3
      <4> QED
        BY <4>1, <4>2, <1>2 DEF AnsweredOk, DispatchesAs
    <3> QED
      BY <3>1, <3>2
  <2> QED
    BY <2>1 DEF OkIsTold
<1>5. Remembered'
  BY <1>1, <1>2, <1>3 DEF Remembered, EvidenceOf, Guarded
<1>6. InTheLog' /\ RanOnly'
  BY <1>1, <1>3 DEF InTheLog, RanOnly
<1> QED
  BY <1>4, <1>5, <1>6

(* Every segment of wrap, the log and a crash keep what is known.           *)
LEMMA EvidenceStep ==
  ASSUME TypeOK, Shape, EndedTold, EvidenceInv, [Next]_vars
  PROVE  EvidenceInv'
<1> USE CallsAssumption, NoneAssumption
      DEF TypeOK, Shape, guardVars, wrapVars, envVars, Running, EvidenceInv
<1>1. ASSUME \A i \in Identities : outcomes'[i] \in {outcomes[i], "none", "err"},
             \A i \in Identities : ledger'[i] \in {ledger[i], "none", "err"}
      PROVE  OkIsTold'
  BY <1>1, ToldStays DEF OkIsTold
<1>2. ASSUME NEW t \in Tools, RegisterCheck(t) \/ UnregisterCheck(t) PROVE EvidenceInv'
  <2>1. UNCHANGED <<outcomes, ledger, pc, call, ran, retired, forgiven>>
    BY <1>2 DEF RegisterCheck, UnregisterCheck
  <2> QED
    BY <2>1, <1>1 DEF Remembered, InTheLog, RanOnly, Guarded
<1>3. ASSUME NEW a \in Agents, ResetAgent(a) PROVE EvidenceInv'
  <2>1. OkIsTold'
    BY <1>1, <1>3 DEF ResetAgent
  <2>2. Remembered'
    BY <1>3 DEF ResetAgent, Remembered, Guarded, Ended, Identities
  <2>3. InTheLog' /\ RanOnly'
    BY <1>3 DEF ResetAgent, InTheLog, RanOnly
  <2> QED
    BY <2>1, <2>2, <2>3
<1>4. ASSUME NEW d \in Dispatches, NEW c \in Calls, Enter(d, c) PROVE EvidenceInv'
  <2>1. /\ outcomes' = outcomes /\ ledger' = ledger /\ retired' = retired
        /\ forgiven' = forgiven /\ call' = [call EXCEPT ![d] = c]
        /\ c \notin retired /\ pc[d] = "idle"
        /\ \/ pc' = [pc EXCEPT ![d] = "body"] /\ ran' = ran \cup {d}
           \/ \E at \in {"attached", "hook", "returned"} :
                 pc' = [pc EXCEPT ![d] = at] /\ ran' = ran
    BY <1>4 DEF Enter, PassThrough, Attach, Replay, Consult, Start, Fresh, Enters,
                RunBody, BeginAttempt, Returns
  <2>2. OkIsTold'
    BY <2>1, <1>1
  <2>3. Remembered' /\ InTheLog' /\ RanOnly'
    BY <2>1 DEF Remembered, InTheLog, RanOnly, Guarded
  <2> QED
    BY <2>2, <2>3
<1>5. ASSUME NEW d \in Dispatches, HookAnswers(d) PROVE EvidenceInv'
  <2>1. CASE HookReplays(d)
    <3>1. PICK c \in Calls : call[d] = c
      BY <2>1 DEF HookReplays
    <3>2. PICK i \in Identities : i = IdentityOf[c]
      BY <3>1
    <3>3. /\ outcomes' = [outcomes EXCEPT ![i] = "ok"] /\ pc[d] = "hook"
          /\ pc' = [pc EXCEPT ![d] = "returned"]
          /\ out' = [out EXCEPT ![d] = [kind |-> "ok", from |-> d]]
          /\ call' = call /\ ledger' = ledger /\ ran' = ran /\ retired' = retired
          /\ forgiven' = forgiven
      BY <2>1, <3>1, <3>2 DEF HookReplays, Returns
    <3>4. [kind |-> "ok", from |-> d] \in Outcome
      BY OutcomeType DEF Kinds
    <3>5. AnsweredOk(i)'
      <4>1. out'[d] # None /\ out'[d].kind = "ok" /\ call'[d] = c
        BY <3>1, <3>3, <3>4
      <4> QED
        BY <4>1, <3>2 DEF AnsweredOk, DispatchesAs
    <3>6. OkIsTold'
      BY <3>3, <3>5, ToldStays DEF OkIsTold
    <3>7. Remembered' /\ InTheLog' /\ RanOnly'
      BY <3>3 DEF Remembered, InTheLog, RanOnly, Guarded
    <3> QED
      BY <3>6, <3>7
  <2>2. CASE HookProceeds(d) \/ HookFails(d)
    <3>1. /\ outcomes' = outcomes /\ ledger' = ledger /\ retired' = retired
          /\ forgiven' = forgiven /\ call' = call /\ pc[d] = "hook"
          /\ \/ pc' = [pc EXCEPT ![d] = "body"] /\ ran' = ran \cup {d}
             \/ pc' = [pc EXCEPT ![d] = "returned"] /\ ran' = ran
      BY <2>2 DEF HookProceeds, HookFails, BeginAttempt, RunBody, Returns
    <3>2. OkIsTold'
      BY <3>1, <1>1
    <3>3. Remembered' /\ InTheLog' /\ RanOnly'
      BY <3>1 DEF Remembered, InTheLog, RanOnly, Guarded
    <3> QED
      BY <3>2, <3>3
  <2> QED
    BY <1>5, <2>1, <2>2 DEF HookAnswers
<1>6. ASSUME NEW d \in Dispatches, BodyEnds(d) PROVE EvidenceInv'
  <2>1. ASSUME NEW kind \in Kinds, PassReturns(d, kind) PROVE EvidenceInv'
    <3>1. /\ outcomes' = outcomes /\ ledger' = ledger /\ retired' = retired
          /\ forgiven' = forgiven /\ call' = call /\ ran' = ran /\ ~Guarded(call[d])
          /\ pc' = [pc EXCEPT ![d] = "returned"] /\ pc[d] = "body"
      BY <2>1 DEF PassReturns, BodyMayEnd, Returns
    <3>2. OkIsTold'
      BY <3>1, <1>1
    <3>3. Remembered' /\ InTheLog' /\ RanOnly'
      BY <3>1 DEF Remembered, InTheLog, RanOnly, Guarded
    <3> QED
      BY <3>2, <3>3
  <2>2. ASSUME NEW kind \in Kinds, BodyReturns(d, kind) PROVE EvidenceInv'
    <3>1. pc[d] = "body" /\ EndAttempt(d, [kind |-> kind, from |-> d])
      BY <2>2, Zenon DEF BodyReturns, BodyMayEnd
    <3> QED
      BY <3>1, EndEvident, OutcomeType
  <2>3. CASE BodyThrows(d)
    <3>1. pc[d] = "body" /\ EndAttempt(d, [kind |-> "threw", from |-> d])
      BY <2>3, Zenon DEF BodyThrows, BodyMayEnd
    <3> QED
      BY <3>1, EndEvident, OutcomeType DEF Kinds
  <2> QED
    BY <1>6, <2>1, <2>2, <2>3 DEF BodyEnds
<1>7. ASSUME NEW d \in Dispatches, Follow(d) PROVE EvidenceInv'
  <2>1. /\ outcomes' = outcomes /\ ledger' = ledger /\ retired' = retired
        /\ forgiven' = forgiven /\ call' = call /\ ran' = ran
        /\ pc' = [pc EXCEPT ![d] = "returned"] /\ pc[d] = "attached"
    BY <1>7 DEF Follow, Returns
  <2>2. OkIsTold'
    BY <2>1, <1>1
  <2>3. Remembered' /\ InTheLog' /\ RanOnly'
    BY <2>1 DEF Remembered, InTheLog, RanOnly, Guarded
  <2> QED
    BY <2>2, <2>3
<1>8. ASSUME NEW d \in Dispatches, Commit(d) PROVE EvidenceInv'
  <2>1. UNCHANGED <<outcomes, ledger, pc, call, ran, retired, forgiven>>
    BY <1>8 DEF Commit
  <2> QED
    BY <2>1, <1>1 DEF Remembered, InTheLog, RanOnly, Guarded
<1>9. ASSUME NEW d \in Dispatches, RecordResult(d) PROVE EvidenceInv'
  <2>1. PICK c \in Calls : call[d] = c
    BY <1>9 DEF RecordResult
  <2>2. PICK i \in Identities : i = IdentityOf[c]
    BY <2>1
  <2>3. /\ ledger' = [ledger EXCEPT ![i] = EvidenceOf(out[d].kind)] /\ pc[d] = "returned"
        /\ pc' = [pc EXCEPT ![d] = "recorded"] /\ outcomes' = outcomes
        /\ UNCHANGED <<call, ran, out, retired, forgiven>>
    BY <1>9, <2>1, <2>2 DEF RecordResult
  <2>4. OkIsTold'
    <3>1. out[d] # None
      BY <1>9, <2>3 DEF EndedTold
    <3>2. ASSUME NEW j \in Identities, outcomes'[j] = "ok" \/ ledger'[j] = "ok"
          PROVE  AnsweredOk(j)
      BY <3>1, <3>2, <2>1, <2>2, <2>3 DEF OkIsTold, EvidenceOf, AnsweredOk, DispatchesAs
    <3> QED
      BY <3>2, ToldStays DEF OkIsTold
  <2>5. Remembered'
    BY <2>3 DEF Remembered, Guarded
  <2>6. InTheLog' /\ RanOnly'
    BY <2>1, <2>2, <2>3 DEF InTheLog, RanOnly, EvidenceOf
  <2> QED
    BY <2>4, <2>5, <2>6
<1>10. CASE Restart
  <2>1. OkIsTold'
    BY <1>1, <1>10 DEF Restart
  <2>2. ASSUME NEW e \in Dispatches, call[e] # None PROVE call[e] \in retired'
    BY <1>10, <2>2 DEF Restart, Dispatched, DispatchesOf
  <2>3. Remembered' /\ RanOnly'
    BY <1>10, <2>2 DEF Restart, Remembered, RanOnly
  <2>4. InTheLog'
    <3>1. ASSUME NEW e \in Dispatches, NEW c \in Calls, call[e] = c
          PROVE  ledger'[IdentityOf[c]] # "none"
      <4>1. CASE Dangling(c)
        BY <1>10, <4>1 DEF Restart
      <4>2. CASE ~Dangling(c)
        <5>1. ledger[IdentityOf[c]] # "none"
          BY <3>1, <4>2 DEF Dangling, Dispatched, DispatchesOf, InTheLog
        <5> QED
          BY <5>1, <1>10 DEF Restart
      <4> QED
        BY <4>1, <4>2
    <3>2. \A e \in Dispatches : call[e] = None => pc'[e] # "recorded" /\ call[e] \notin retired'
      BY <1>10 DEF Restart
    <3>3. call' = call
      BY <1>10 DEF Restart
    <3> QED
      BY <3>1, <3>2, <3>3 DEF InTheLog
  <2> QED
    BY <2>1, <2>3, <2>4
<1>11. CASE UNCHANGED vars
  <2>1. UNCHANGED <<outcomes, ledger, pc, call, ran, retired, forgiven>>
    BY <1>11 DEF vars
  <2> QED
    BY <2>1, <1>1 DEF Remembered, InTheLog, RanOnly, Guarded
<1> QED
  BY <1>2, <1>3, <1>4, <1>5, <1>6, <1>7, <1>8, <1>9, <1>10, <1>11 DEF Next

(* NoBlindRepeat: what an unresolved call left behind is remembered or in   *)
(* the log as an error, so its body does not start again before the hook,   *)
(* if there is one, has been asked (guard.ts, coldIndex).                   *)
THEOREM RepeatsAreAsked == Spec => NoBlindRepeat
<1>1. Init => EndedTold /\ EvidenceInv
  BY NoneAssumption DEF Init, EndedTold, EvidenceInv, OkIsTold, Remembered, InTheLog, RanOnly
<1>2. TypeOK /\ IInv /\ EndedTold /\ EvidenceInv /\ [Next]_vars => EndedTold' /\ EvidenceInv'
  BY ToldStep, EvidenceStep DEF IInv
<1>3. TypeOK /\ IInv /\ EvidenceInv /\ [Next]_vars =>
        [\A d \in Dispatches, c \in Calls :
            Start(d, c) /\ IdentityOf[c].tool \in checks => ~Unresolved(IdentityOf[c])]_vars
  <2>1. SUFFICES ASSUME TypeOK, Shape, EvidenceInv, NEW d \in Dispatches, NEW c \in Calls,
                        Start(d, c), IdentityOf[c].tool \in checks,
                        Unresolved(IdentityOf[c])
                 PROVE  FALSE
    BY DEF IInv
  <2>2. PICK i \in Identities : i = IdentityOf[c]
    BY CallsAssumption
  <2>3. Guarded(c) /\ ~LastIsError(i)
    BY <2>1, <2>2 DEF Start, Fresh, MustConsult
  <2>4. PICK e \in ran \ forgiven : /\ e \in Dispatches /\ call[e] # None
                                    /\ IdentityOf[call[e]] = i /\ Failed(e)
    BY <2>1, <2>2 DEF Unresolved, DispatchesAs
  <2>5. outcomes[i] # "ok" /\ ledger[i] # "ok"
    <3>1. ~AnsweredOk(i)
      BY <2>1, <2>2, Zenon DEF Unresolved, AnsweredOk
    <3> QED
      BY <2>1, <2>2, <3>1 DEF EvidenceInv, OkIsTold
  <2>6. CASE call[e] \in retired
    BY <2>1, <2>3, <2>4, <2>5, <2>6 DEF EvidenceInv, InTheLog, LastIsError, TypeOK, Evidence
  <2>7. CASE call[e] \notin retired
    <3>1. Guarded(call[e])
      BY <2>2, <2>3, <2>4 DEF Guarded
    <3>2. pc[e] \in {"returned", "recorded"}
      BY <2>1, <2>4, <2>7 DEF EvidenceInv, RanOnly, Failed
    <3> QED
      BY <2>1, <2>3, <2>4, <2>5, <2>7, <3>1, <3>2
         DEF EvidenceInv, Remembered, LastIsError, TypeOK, Evidence
  <2> QED
    BY <2>6, <2>7
<1> QED
  BY <1>1, <1>2, <1>3, TypeCorrect, InductiveInvariant, PTL DEF Spec, NoBlindRepeat
-----------------------------------------------------------------------------
(* Without hooks the guard implements CallOnce.                             *)

Hookless ==
  /\ checks = {} /\ consulted = {}
  /\ \A d \in Dispatches : pc[d] # "hook"

SettledWasDispatched == \A c \in Calls : settled[c] # None => Dispatched(c)

(* With no tool that a hook could check, nobody ever waits on one.          *)
LEMMA NeverHooked == ASSUME Checkable = {} PROVE Spec => []Hookless
<1>1. Init => Hookless
  BY DEF Init, Hookless
<1>2. TypeOK /\ Hookless /\ [Next]_vars => Hookless'
  <2> SUFFICES ASSUME TypeOK, Hookless, [Next]_vars PROVE Hookless'
    OBVIOUS
  <2> USE DEF Hookless, TypeOK, guardVars, wrapVars, envVars
  <2>1. ASSUME NEW d \in Dispatches, NEW c \in Calls, Enter(d, c) PROVE Hookless'
    BY <2>1 DEF Enter, PassThrough, Attach, Replay, Consult, Start, Fresh, Enters,
                MustConsult, RunBody, BeginAttempt, Returns
  <2>2. ASSUME NEW d \in Dispatches, BodyEnds(d) PROVE Hookless'
    BY <2>2 DEF BodyEnds, PassReturns, BodyReturns, BodyThrows, EndAttempt, Returns
  <2>3. ASSUME NEW d \in Dispatches, Follow(d) \/ RecordResult(d) \/ Commit(d)
        PROVE  Hookless'
    BY <2>3 DEF Follow, RecordResult, Commit, Returns
  <2>4. ASSUME NEW d \in Dispatches PROVE ~HookAnswers(d)
    BY DEF HookAnswers, HookReplays, HookProceeds, HookFails
  <2>5. CASE Restart
    BY <2>5 DEF Restart
  <2>6. QED
    BY <2>1, <2>2, <2>3, <2>4, <2>5
       DEF Next, vars, RegisterCheck, UnregisterCheck, ResetAgent
<1>3. QED BY <1>1, <1>2, TypeCorrect, PTL DEF Spec

(* A recorded result belongs to a delivery of its call.                     *)
LEMMA SettledKnown == ASSUME Checkable = {} PROVE Spec => []SettledWasDispatched
<1>1. Init => SettledWasDispatched
  BY DEF Init, SettledWasDispatched
<1>2. TypeOK /\ Shape /\ Hookless /\ SettledWasDispatched /\ [Next]_vars
        => SettledWasDispatched'
  <2> SUFFICES ASSUME TypeOK, Shape, Hookless, SettledWasDispatched, [Next]_vars
               PROVE  SettledWasDispatched'
    OBVIOUS
  <2>1. ASSUME NEW c \in Calls, settled[c] # None PROVE Dispatched(c)'
    BY <2>1, NoneAssumption, CommittedMonotone
       DEF SettledWasDispatched, Dispatched, DispatchesOf
  <2> USE DEF guardVars, wrapVars, envVars, TypeOK
  <2>2. ASSUME NEW d \in Dispatches, NEW kind \in Kinds, BodyReturns(d, kind)
        PROVE  SettledWasDispatched'
    BY <2>1, <2>2 DEF BodyReturns, EndAttempt, Dispatched, DispatchesOf,
                      SettledWasDispatched
  <2>3. ASSUME settled' = settled PROVE SettledWasDispatched'
    BY <2>1, <2>3 DEF SettledWasDispatched
  <2>4. ASSUME NEW d \in Dispatches, NEW c \in Calls, Enter(d, c) PROVE settled' = settled
    BY <2>4 DEF Enter, PassThrough, Attach, Replay, Consult, Start, Fresh, BeginAttempt
  <2>5. ASSUME NEW d \in Dispatches PROVE ~HookAnswers(d)
    BY DEF HookAnswers, HookReplays, HookProceeds, HookFails, Hookless
  <2>6. ASSUME NEW d \in Dispatches, BodyEnds(d) PROVE SettledWasDispatched'
    BY <2>2, <2>3, <2>6 DEF BodyEnds, PassReturns, BodyThrows
  <2>7. ASSUME NEW d \in Dispatches, Follow(d) \/ RecordResult(d) \/ Commit(d)
        PROVE  settled' = settled
    BY <2>7 DEF Follow, RecordResult, Commit
  <2>8. CASE Restart
    BY <2>8 DEF Restart, SettledWasDispatched
  <2>9. QED
    BY <2>3, <2>4, <2>5, <2>6, <2>7, <2>8
       DEF Next, vars, RegisterCheck, UnregisterCheck, ResetAgent
<1>3. QED BY <1>1, <1>2, TypeCorrect, InductiveInvariant, NeverHooked, PTL DEF Spec, IInv

(* Steps the abstract specification does not see.                           *)
LEMMA Invisible ==
  ASSUME UNCHANGED <<retired, settled, inFlight>>,
         \A d \in Dispatches : call'[d] \in GuardedCalls =>
           \/ out'[d] = None /\ (call[d] \in GuardedCalls => out[d] = None)
           \/ call[d] = call'[d] /\ out'[d] = out[d],
         \A d \in Dispatches : call[d] \in GuardedCalls => call'[d] = call[d]
  PROVE  UNCHANGED Promise!vars
  BY DEF Promise!vars, PhaseMap, PhaseOf, AnswerMap, ToldMap, GuardedCalls, Guarded

(* An ended delivery is an answer of the abstract guard.                    *)
LEMMA AnswerStep ==
  ASSUME TypeOK, NEW d \in Dispatches, NEW o \in Outcome, Returns(d, o),
         call'[d] \in GuardedCalls, out[d] = None,
         \A e \in Dispatches : e # d => call'[e] = call[e]
  PROVE  Promise!Answer(d, o)
  BY DEF TypeOK, Returns, Promise!Answer, ToldMap, GuardedCalls, Guarded

(* Every step of a guard without hooks is a step of CallOnce or a stutter.  *)
LEMMA PromiseStep ==
  ASSUME TypeOK, Shape, OnceInv, Hookless, SettledWasDispatched, [Next]_vars
  PROVE  [Promise!Next]_(Promise!vars)
<1> USE CallsAssumption, NoneAssumption DEF guardVars, wrapVars, envVars
<1> DEFINE Refined == [Promise!Next]_(Promise!vars)
<1>1. ASSUME UNCHANGED <<guardVars, retired, call, out>> PROVE Refined
  BY <1>1, Invisible
<1>2. ASSUME NEW c \in Calls, Guarded(c) PROVE Once(c)
  BY <1>2 DEF OnceInv, Hookless, Consulted
<1>3. ASSUME NEW d \in Dispatches, NEW c \in Calls, Enter(d, c) PROVE Refined
  <2>1. /\ out[d] = None /\ call[d] = None
        /\ \A e \in Dispatches : e # d => call'[e] = call[e]
        /\ call'[d] = c /\ c \notin retired
    BY <1>3 DEF Enter, PassThrough, Attach, Replay, Consult, Start, Fresh, Enters, Shape,
                TypeOK
  <2>2. CASE PassThrough(d, c) \/ Attach(d, c) \/ Consult(d, c)
    BY <2>1, <2>2, Invisible DEF PassThrough, Attach, Consult, RunBody, GuardedCalls
  <2>3. CASE Replay(d, c)
    <3>1. settled[c] \in Outcome /\ c \in GuardedCalls
      BY <2>3 DEF Replay, TypeOK, Result, GuardedCalls
    <3>2. Promise!Answer(d, settled[c])
      BY <2>1, <2>3, <3>1, AnswerStep DEF Replay
    <3>3. PhaseMap[c] = "done" /\ AnswerMap[c] = settled[c]
      BY <2>1, <2>3, <3>1 DEF Replay, PhaseMap, PhaseOf, AnswerMap
    <3>4. UNCHANGED <<PhaseMap, AnswerMap>>
      BY <2>3 DEF Replay, Returns, PhaseMap, PhaseOf, AnswerMap, GuardedCalls, Guarded
    <3>5. Promise!Tell(d)
      BY <3>1, <3>2, <3>3, <3>4 DEF Promise!Tell
    <3>6. QED BY <3>5 DEF Promise!Next
  <2>4. CASE Start(d, c)
    <3>1. c \in GuardedCalls /\ PhaseMap[c] = "new"
      BY <2>1, <2>4 DEF Start, Fresh, GuardedCalls, PhaseMap, PhaseOf
    <3>2. PhaseMap' = [PhaseMap EXCEPT ![c] = "running"]
      BY <2>1, <2>4, <3>1, ZenonT(60)
         DEF Start, Fresh, BeginAttempt, RunBody, PhaseMap, PhaseOf, GuardedCalls, Guarded,
             TypeOK
    <3>3. UNCHANGED <<AnswerMap, ToldMap>>
      BY <2>1, <2>4 DEF Start, BeginAttempt, RunBody, AnswerMap, ToldMap, GuardedCalls,
                        Guarded
    <3>4. Promise!Run(c)
      BY <3>1, <3>2, <3>3 DEF Promise!Run
    <3>5. QED BY <3>1, <3>4 DEF Promise!Next
  <2>5. QED BY <1>3, <2>2, <2>3, <2>4 DEF Enter
<1>4. ASSUME NEW d \in Dispatches PROVE ~HookAnswers(d)
  BY DEF HookAnswers, HookReplays, HookProceeds, HookFails, Hookless
<1>5. ASSUME NEW d \in Dispatches, BodyEnds(d) PROVE Refined
  <2>1. PICK c \in Calls : /\ call[d] = c /\ call' = call /\ out[d] = None
                           /\ c \notin retired /\ BodyRunning(d)
    <3>1. pc[d] = "body" /\ call' = call
      BY <1>5 DEF BodyEnds, PassReturns, BodyReturns, BodyThrows, EndAttempt, BodyMayEnd
    <3>2. call[d] \in Calls /\ out[d] = None /\ call[d] \notin retired
      BY <3>1 DEF Shape, TypeOK, Running
    <3>3. QED BY <3>1, <3>2 DEF BodyRunning
  <2>2. CASE \E kind \in Kinds : PassReturns(d, kind)
    BY <2>1, <2>2, Invisible DEF PassReturns, Returns, GuardedCalls, TypeOK
  <2>3. ASSUME Guarded(c) PROVE c \in GuardedCalls /\ PhaseMap[c] = "running"
    BY <1>2, <2>1, <2>3 DEF Once, DispatchesOf, GuardedCalls, PhaseMap, PhaseOf
  <2>4. ASSUME NEW kind \in Kinds, BodyReturns(d, kind) PROVE Refined
    <3> DEFINE r == [kind |-> kind, from |-> d]
    <3>1. r \in Outcome /\ r \in Result /\ r # None
      BY <2>4, OutcomeType, NoneAssumption DEF BodyReturns
    <3>2. c \in GuardedCalls /\ PhaseMap[c] = "running"
      BY <2>1, <2>3, <2>4 DEF BodyReturns
    <3>3. settled' = [settled EXCEPT ![c] = r] /\ EndAttempt(d, r)
      BY <2>1, <2>4 DEF BodyReturns
    <3> HIDE DEF r
    <3>4. Promise!Answer(d, r)
      BY <2>1, <3>1, <3>2, <3>3, AnswerStep DEF EndAttempt
    <3>5. PhaseMap' = [PhaseMap EXCEPT ![c] = "done"]
      BY <2>1, <3>1, <3>2, <3>3, ZenonT(60)
         DEF EndAttempt, Returns, PhaseMap, PhaseOf, GuardedCalls, Guarded, TypeOK
    <3>6. AnswerMap' = [AnswerMap EXCEPT ![c] = r]
      BY <3>2, <3>3 DEF AnswerMap, GuardedCalls, Guarded, TypeOK
    <3>7. Promise!Finish(c, d, r)
      BY <3>2, <3>4, <3>5, <3>6 DEF Promise!Finish
    <3>8. QED BY <3>1, <3>2, <3>7 DEF Promise!Next
  <2>5. CASE BodyThrows(d)
    <3> DEFINE f == [kind |-> "threw", from |-> d]
    <3>1. f \in Outcome \ Result
      BY OutcomeType DEF Kinds, Result
    <3>2. c \in GuardedCalls /\ PhaseMap[c] = "running"
      BY <2>1, <2>3, <2>5 DEF BodyThrows
    <3>3. settled' = settled /\ EndAttempt(d, f)
      BY <2>5 DEF BodyThrows
    <3> HIDE DEF f
    <3>4. Promise!Answer(d, f)
      BY <2>1, <3>1, <3>2, <3>3, AnswerStep DEF EndAttempt
    <3>5. settled[c] = None
      BY <1>2, <2>1, <3>2 DEF Once, DispatchesOf, GuardedCalls
    <3>6. PhaseMap' = [PhaseMap EXCEPT ![c] = "new"]
      BY <2>1, <3>2, <3>3, <3>5, ZenonT(60)
         DEF EndAttempt, Returns, PhaseMap, PhaseOf, GuardedCalls, Guarded, TypeOK
    <3>7. UNCHANGED AnswerMap
      BY <3>3 DEF AnswerMap, GuardedCalls, Guarded
    <3>8. Promise!Fail(c, d, f)
      BY <3>2, <3>4, <3>6, <3>7 DEF Promise!Fail
    <3>9. QED BY <3>1, <3>2, <3>8 DEF Promise!Next
  <2>6. QED BY <1>5, <2>2, <2>4, <2>5 DEF BodyEnds
<1>6. ASSUME NEW d \in Dispatches, Follow(d) PROVE Refined
  <2>1. PICK c \in Calls, l \in Dispatches, o \in Outcome :
          /\ call[d] = c /\ Guarded(c) /\ c \notin retired /\ out[d] = None /\ call' = call
          /\ call[l] = c /\ out[l] = o /\ o # None /\ Returns(d, o)
    BY <1>6 DEF Follow, Shape, TypeOK, Running
  <2>2. Promise!Answer(d, o)
    BY <2>1, AnswerStep DEF GuardedCalls
  <2>3. UNCHANGED <<PhaseMap, AnswerMap>>
    BY <1>6, <2>1 DEF Follow, Returns, PhaseMap, PhaseOf, AnswerMap, GuardedCalls, Guarded
  <2>4. CASE o \in Result
    <3>1. settled[c] = o
      BY <1>2, <2>1, <2>4 DEF Once, DispatchesOf, GotResult, Result
    <3>2. c \in GuardedCalls /\ PhaseMap[c] = "done" /\ AnswerMap[c] = o
      BY <2>1, <3>1 DEF GuardedCalls, PhaseMap, PhaseOf, AnswerMap
    <3>3. Promise!Tell(d)
      BY <2>2, <2>3, <3>2 DEF Promise!Tell
    <3>4. QED BY <3>3 DEF Promise!Next
  <2>5. CASE o \notin Result
    <3>1. Promise!Tell(d)
      BY <2>1, <2>2, <2>3, <2>5 DEF Promise!Tell
    <3>2. QED BY <3>1 DEF Promise!Next
  <2>6. QED BY <2>4, <2>5
<1>7. CASE Restart
  <2>1. \A c \in GuardedCalls : PhaseMap[c] # "new" => c \in retired'
    BY <1>7 DEF Restart, PhaseMap, PhaseOf, SettledWasDispatched, Dispatched,
                DispatchesOf, Shape, TypeOK, GuardedCalls
  <2>2. PhaseMap' = [c \in GuardedCalls |-> IF c \in retired' THEN "closed" ELSE "new"]
    BY <1>7 DEF Restart, PhaseMap, PhaseOf, GuardedCalls, Guarded
  <2>3. AnswerMap' = [c \in GuardedCalls |-> None] /\ UNCHANGED ToldMap
    BY <1>7 DEF Restart, AnswerMap, ToldMap, GuardedCalls, Guarded
  <2> DEFINE gone == {c \in GuardedCalls : c \in retired'}
  <2>4. /\ gone \in SUBSET GuardedCalls
        /\ {c \in GuardedCalls : PhaseMap[c] # "new"} \subseteq gone
        /\ PhaseMap' = [c \in GuardedCalls |-> IF c \in gone THEN "closed" ELSE "new"]
    BY <2>1, <2>2
  <2> HIDE DEF gone
  <2>5. Promise!Crash
    BY <2>3, <2>4 DEF Promise!Crash
  <2>6. QED BY <2>5 DEF Promise!Next
<1>8. ASSUME NEW d \in Dispatches, Commit(d) \/ RecordResult(d) PROVE Refined
  BY <1>1, <1>8 DEF Commit, RecordResult
<1>9. ASSUME NEW t \in Tools, RegisterCheck(t) \/ UnregisterCheck(t) PROVE Refined
  BY <1>1, <1>9 DEF RegisterCheck, UnregisterCheck
<1>10. ASSUME NEW a \in Agents, ResetAgent(a) PROVE Refined
  <2>1. UNCHANGED <<inFlight, settled, retired, call, out>>
    BY <1>10 DEF ResetAgent
  <2>2. QED BY <2>1, Invisible
<1>11. CASE UNCHANGED vars
  BY <1>1, <1>11 DEF vars
<1>12. CASE Next
  <2>1. CASE \E t \in Tools : RegisterCheck(t) \/ UnregisterCheck(t)
    BY <1>9, <2>1
  <2>2. CASE \E a \in Agents : ResetAgent(a)
    BY <1>10, <2>2
  <2>3. CASE \E d \in Dispatches, c \in Calls : Enter(d, c)
    BY <1>3, <2>3
  <2>4. CASE \E d \in Dispatches : HookAnswers(d)
    BY <1>4, <2>4
  <2>5. CASE \E d \in Dispatches : BodyEnds(d)
    BY <1>5, <2>5
  <2>6. CASE \E d \in Dispatches : Follow(d)
    BY <1>6, <2>6
  <2>7. CASE \E d \in Dispatches : Commit(d) \/ RecordResult(d)
    BY <1>8, <2>7
  <2>8. QED BY <1>7, <1>12, <2>1, <2>2, <2>3, <2>4, <2>5, <2>6, <2>7 DEF Next
<1>13. QED BY <1>11, <1>12

(* ImplementsCallOnce: a guard with no read-back hook implements CallOnce:  *)
(* one body at a time, none after a result, one result for every delivery.  *)
THEOREM PromiseKept == ASSUME Checkable = {} PROVE Spec => ImplementsCallOnce
<1>1. Init => Promise!Init
  BY NoneAssumption
     DEF Init, Promise!Init, PhaseMap, PhaseOf, AnswerMap, ToldMap, GuardedCalls
<1>2. IInv /\ Hookless /\ SettledWasDispatched /\ [Next]_vars
        => [Promise!Next]_(Promise!vars)
  BY PromiseStep DEF IInv
<1>3. QED
  BY <1>1, <1>2, InductiveInvariant, NeverHooked, SettledKnown, PTL
     DEF Spec, Promise!Spec, ImplementsCallOnce

-----------------------------------------------------------------------------
(* The observatory: its two files show what the agent was told.             *)

Rows_ == [kind : {"burn", "tokens", "revenue", "other"}, n : Int]
Lines_ == Rows_ \cup {Junk}

(* What sequences that are put together hold, place by place.               *)
LEMMA AppendAt ==
  ASSUME NEW S, NEW s \in Seq(S), NEW e \in S
  PROVE  /\ Append(s, e) \in Seq(S) /\ Len(Append(s, e)) = Len(s) + 1 /\ Append(s, e) # <<>>
         /\ Append(s, e)[Len(s) + 1] = e
         /\ \A i \in 1 .. Len(s) : Append(s, e)[i] = s[i]
OBVIOUS

(* The second follows the first.                                           *)
LEMMA ConcatAt ==
  ASSUME NEW S, NEW s \in Seq(S), NEW t \in Seq(S)
  PROVE  /\ s \o t \in Seq(S) /\ Len(s \o t) = Len(s) + Len(t)
         /\ \A i \in 1 .. Len(s) : (s \o t)[i] = s[i]
         /\ \A i \in 1 .. Len(t) : (s \o t)[Len(s) + i] = t[i]
OBVIOUS

(* The last n of a sequence.                                               *)
LEMMA SuffixAt ==
  ASSUME NEW S, NEW s \in Seq(S), NEW n \in 0 .. Len(s)
  PROVE  /\ SubSeq(s, Len(s) - n + 1, Len(s)) \in Seq(S)
         /\ Len(SubSeq(s, Len(s) - n + 1, Len(s))) = n
         /\ \A i \in 1 .. n : SubSeq(s, Len(s) - n + 1, Len(s))[i] = s[Len(s) - n + i]
OBVIOUS

(* Two sequences with the same at every place are one.                     *)
LEMMA SameAt ==
  ASSUME NEW S, NEW s \in Seq(S), NEW t \in Seq(S), Len(s) = Len(t),
         \A i \in 1 .. Len(s) : s[i] = t[i]
  PROVE  s = t
OBVIOUS

(* A cut line is not taken for a row.                                      *)
LEMMA JunkIsNoRow == \A r \in Rows_ : r # Junk /\ r.kind # "junk"
BY DEF Rows_, Junk

(* Every line of a row was told; without a cut line, the two files end with *)
(* what was told last.                                                      *)
LedgerInv ==
  /\ events = [lines |-> events.lines, open |-> events.open]
  /\ events.lines \in Seq(Lines_) /\ events.open \in BOOLEAN /\ tear \in BOOLEAN /\ gap \in BOOLEAN
  /\ rotated \in Seq(Lines_) /\ told \in Seq(Rows_) /\ owed \in Seq(Rows_)
  /\ events.open => events.lines # <<>> /\ tear
  /\ events.lines = <<>> => gap \/ told = <<>>
  /\ \A i \in 1 .. Len(events.lines) :
       events.lines[i] = Junk \/ \E k \in 1 .. Len(told) : events.lines[i] = told[k]
  /\ ~ tear =>
       /\ Len(rotated) + Len(events.lines) <= Len(told)
       /\ \/ Len(rotated) + Len(events.lines) = Len(told)
          \/ Len(rotated) + Len(events.lines) >= MaxLines
       /\ \A i \in 1 .. Len(events.lines) :
            events.lines[i] = told[Len(told) - Len(events.lines) + i]
       /\ \A i \in 1 .. Len(rotated) :
            rotated[i] = told[Len(told) - Len(events.lines) - Len(rotated) + i]

(* An empty ledger, and nothing told.                                      *)
LEMMA LedgerStart == LedgerInit => LedgerInv
<1> SUFFICES ASSUME LedgerInit PROVE LedgerInv
  OBVIOUS
<1>1. /\ events = [lines |-> <<>>, open |-> FALSE]
      /\ rotated = <<>> /\ told = <<>> /\ owed = <<>> /\ tear = FALSE /\ gap = FALSE
  BY DEF LedgerInit
<1>2. PICK z : z = <<>>
  OBVIOUS
<1>3. z \in Seq(Lines_) /\ z \in Seq(Rows_) /\ Len(z) = 0
  BY <1>2
<1>4. events = [lines |-> z, open |-> FALSE] /\ rotated = z /\ told = z /\ owed = z
  BY <1>1, <1>2
<1>5. events.lines = z /\ events.open = FALSE /\ events = [lines |-> events.lines, open |-> events.open]
  BY <1>4
<1>6. /\ events.lines \in Seq(Lines_) /\ events.open \in BOOLEAN /\ tear \in BOOLEAN /\ gap \in BOOLEAN
      /\ rotated \in Seq(Lines_) /\ told \in Seq(Rows_) /\ owed \in Seq(Rows_)
      /\ Len(events.lines) = 0 /\ Len(rotated) = 0 /\ Len(told) = 0
  BY <1>1, <1>3, <1>4, <1>5
<1>7. told = <<>> /\ events.open = FALSE
  BY <1>1, <1>5
<1>8. \A i \in 1 .. 0 : FALSE
  OBVIOUS
<1>9. /\ Len(rotated) + Len(events.lines) = Len(told)
      /\ \A i \in 1 .. Len(events.lines) : FALSE
      /\ \A i \in 1 .. Len(rotated) : FALSE
  BY <1>6, <1>8
<1>10. Len(rotated) + Len(events.lines) <= Len(told)
  BY <1>6
<1> QED
  BY <1>5, <1>6, <1>7, <1>9, <1>10, Zenon DEF LedgerInv

(* What an event tells is rows.                                             *)
LEMMA ToldRows ==
  ASSUME LedgerInv, NEW kinds \in EventKinds, Told(kinds)
  PROVE  LedgerInv'
<1>1. /\ owed' = [i \in DOMAIN kinds |-> Row(kinds[i], Len(told) + i)]
      /\ UNCHANGED <<events, rotated, told, tear, gap>>
  BY DEF Told
<1>2. owed' \in Seq(Rows_)
  <2>1. \A k \in {"burn", "tokens", "revenue", "other"}, n \in Int : Row(k, n) \in Rows_
    BY DEF Row, Rows_
  <2>2. kinds \in Seq({"burn", "tokens", "revenue", "other"}) /\ Len(told) \in Nat
    <3> DEFINE K == {"burn", "tokens", "revenue", "other"}
    <3>1. /\ <<"burn">> \in Seq(K) /\ <<"burn", "tokens">> \in Seq(K) /\ <<"revenue">> \in Seq(K)
          /\ <<"other">> \in Seq(K) /\ <<"other", "other">> \in Seq(K)
      OBVIOUS
    <3> HIDE DEF K
    <3>2. kinds \in Seq(K)
      BY <3>1 DEF EventKinds
    <3> QED
      BY <3>2 DEF LedgerInv, K
  <2>3. PICK n \in Nat : DOMAIN kinds = 1 .. n
    BY <2>2
  <2>4. \A i \in 1 .. n : Row(kinds[i], Len(told) + i) \in Rows_
    BY <2>1, <2>2, <2>3
  <2> QED
    BY <1>1, <2>3, <2>4
<1> QED
  BY <1>1, <1>2 DEF LedgerInv

(* The file a row is added to, and the one before it.                       *)
LEMMA RotateFits ==
  ASSUME LedgerInv
  PROVE  /\ Rotate.now = [lines |-> Rotate.now.lines, open |-> Rotate.now.open]
         /\ Rotate.now.lines \in Seq(Lines_) /\ Rotate.now.open \in BOOLEAN
         /\ Rotate.before \in Seq(Lines_)
         /\ Rotate.now.open => Rotate.now.lines # <<>> /\ tear
         /\ \A i \in 1 .. Len(Rotate.now.lines) :
              \/ Rotate.now.lines[i] = Junk
              \/ \E k \in 1 .. Len(told) : Rotate.now.lines[i] = told[k]
         /\ ~ tear =>
              /\ Len(Rotate.before) + Len(Rotate.now.lines) <= Len(told)
              /\ \/ Len(Rotate.before) + Len(Rotate.now.lines) = Len(told)
                 \/ Len(Rotate.before) + Len(Rotate.now.lines) >= MaxLines
              /\ \A i \in 1 .. Len(Rotate.now.lines) :
                   Rotate.now.lines[i] = told[Len(told) - Len(Rotate.now.lines) + i]
              /\ \A i \in 1 .. Len(Rotate.before) :
                   Rotate.before[i] =
                     told[Len(told) - Len(Rotate.now.lines) - Len(Rotate.before) + i]
<1>1. CASE Len(events.lines) < MaxLines
  <2>1. Rotate.now = events /\ Rotate.before = rotated
    BY <1>1 DEF Rotate
  <2> QED
    BY <2>1 DEF LedgerInv
<1>2. CASE ~ (Len(events.lines) < MaxLines)
  <2>1. /\ Rotate.now = [lines |-> <<>>, open |-> FALSE] /\ Rotate.before = events.lines
        /\ Rotate.now.lines = <<>> /\ Rotate.now.open = FALSE
    BY <1>2 DEF Rotate
  <2>2. MaxLines \in Nat
    BY ObservatoryAssumption
  <2> QED
    BY <1>2, <2>1, <2>2 DEF LedgerInv
<1> QED
  BY <1>1, <1>2

(* A line behind what the file holds.                                       *)
LEMMA AppendLineFits ==
  ASSUME LedgerInv, NEW row \in Lines_, AppendLine(row)
  PROVE  /\ events' = [lines |-> events'.lines, open |-> events'.open]
         /\ events'.open \in BOOLEAN /\ (events'.open <=> row = Junk)
         /\ events'.lines \in Seq(Lines_) /\ events'.lines # <<>>
         /\ rotated' = Rotate.before
         /\ \A i \in 1 .. Len(events'.lines) :
              \/ events'.lines[i] \in {Junk, row}
              \/ \E k \in 1 .. Len(told) : events'.lines[i] = told[k]
         /\ ~ Rotate.now.open => events'.lines = Append(Rotate.now.lines, row)
<1> DEFINE file == Rotate.now
           l == IF file.open THEN Front(file.lines) \o <<Junk>> ELSE Append(file.lines, row)
<1>1. /\ file.lines \in Seq(Lines_) /\ file.open \in BOOLEAN
      /\ file.open => file.lines # <<>>
      /\ \A i \in 1 .. Len(file.lines) :
           file.lines[i] = Junk \/ \E k \in 1 .. Len(told) : file.lines[i] = told[k]
  BY RotateFits
<1>2. events' = [lines |-> l, open |-> row = Junk] /\ rotated' = Rotate.before
  BY DEF AppendLine
<1>3. /\ events'.lines = l
      /\ events'.open \in BOOLEAN /\ (events'.open <=> row = Junk)
      /\ events' = [lines |-> events'.lines, open |-> events'.open]
  BY <1>2
<1>4. Junk \in Lines_
  BY DEF Lines_
<1>5. CASE file.open
  <2>1. PICK s : s = Front(file.lines)
    OBVIOUS
  <2>2. s \in Seq(Lines_) /\ \A i \in 1 .. Len(s) : i \in 1 .. Len(file.lines) /\ s[i] = file.lines[i]
    BY <1>1, <1>5, <2>1 DEF Front
  <2>3. l = s \o <<Junk>>
    BY <1>5, <2>1
  <2>4. /\ l \in Seq(Lines_) /\ l # <<>>
        /\ \A i \in 1 .. Len(l) : l[i] = Junk \/ (i \in 1 .. Len(s) /\ l[i] = s[i])
    <3>1. <<Junk>> \in Seq(Lines_) /\ Len(<<Junk>>) = 1 /\ <<Junk>>[1] = Junk
      BY <1>4
    <3>2. PICK t : t = <<Junk>>
      OBVIOUS
    <3>3. /\ s \o t \in Seq(Lines_) /\ Len(s \o t) = Len(s) + 1
          /\ \A i \in 1 .. Len(s) : (s \o t)[i] = s[i]
          /\ \A i \in 1 .. 1 : (s \o t)[Len(s) + i] = Junk
      BY <2>2, <3>1, <3>2, ConcatAt
    <3>4. (s \o t)[Len(s) + 1] = Junk /\ Len(s) \in Nat
      BY <2>2, <3>3
    <3>5. PICK u : u = s \o t
      OBVIOUS
    <3>6. \A i \in 1 .. Len(u) : i \in 1 .. Len(s) \/ i = Len(s) + 1
      BY <3>3, <3>4, <3>5
    <3>7. u # <<>>
      BY <3>3, <3>4, <3>5
    <3> QED
      BY <2>3, <3>2, <3>3, <3>4, <3>5, <3>6, <3>7
  <2> HIDE DEF l, file
  <2> QED
    BY <1>1, <1>2, <1>3, <1>5, <2>2, <2>4, SMTT(40) DEF file
<1>6. CASE ~ file.open
  <2>1. l = Append(file.lines, row)
    BY <1>6
  <2>2. /\ l \in Seq(Lines_) /\ l # <<>>
        /\ \A i \in 1 .. Len(l) : l[i] = row \/ (i \in 1 .. Len(file.lines) /\ l[i] = file.lines[i])
    <3>1. PICK s : s = file.lines
      OBVIOUS
    <3>2. s \in Seq(Lines_) /\ Len(s) \in Nat
      BY <1>1, <3>1
    <3>3. PICK u : u = Append(s, row)
      OBVIOUS
    <3>4. /\ u \in Seq(Lines_) /\ Len(u) = Len(s) + 1 /\ u # <<>> /\ u[Len(s) + 1] = row
          /\ \A i \in 1 .. Len(s) : u[i] = s[i]
      BY <3>2, <3>3, AppendAt
    <3>5. \A i \in 1 .. Len(u) : i \in 1 .. Len(s) \/ i = Len(s) + 1
      BY <3>2, <3>4
    <3> HIDE DEF l
    <3> QED
      BY <2>1, <3>1, <3>3, <3>4, <3>5
  <2> HIDE DEF l, file
  <2> QED
    BY <1>1, <1>2, <1>3, <1>6, <2>1, <2>2 DEF file
<1> QED
  BY <1>1, <1>5, <1>6

(* A row is appended, behind what the file or the rotation left (append).  *)
LEMMA AppendStep ==
  ASSUME LedgerInv, append
  PROVE  LedgerInv'
<1> DEFINE row == Head(owed)
           now == Rotate.now.lines
           before == Rotate.before
<1>1. /\ owed # <<>> /\ AppendLine(row) /\ told' = Append(told, row)
      /\ owed' = Tail(owed) /\ tear' = tear /\ gap' = FALSE
  BY DEF append
<1>2. row \in Rows_ /\ owed' \in Seq(Rows_) /\ row # Junk /\ row \in Lines_
  BY <1>1, JunkIsNoRow DEF LedgerInv, Lines_
<1>3. /\ events' = [lines |-> events'.lines, open |-> events'.open] /\ events'.open = FALSE
      /\ events'.lines \in Seq(Lines_) /\ events'.lines # <<>> /\ rotated' = before
      /\ \A i \in 1 .. Len(events'.lines) :
           \/ events'.lines[i] \in {Junk, row}
           \/ \E k \in 1 .. Len(told) : events'.lines[i] = told[k]
      /\ ~ Rotate.now.open => events'.lines = Append(now, row)
  BY <1>1, <1>2, AppendLineFits
<1>4. /\ told \in Seq(Rows_) /\ tear \in BOOLEAN
      /\ told' \in Seq(Rows_) /\ Len(told') = Len(told) + 1 /\ told'[Len(told) + 1] = row
      /\ \A k \in 1 .. Len(told) : told'[k] = told[k]
  BY <1>1, <1>2 DEF LedgerInv
<1>5. /\ now \in Seq(Lines_) /\ before \in Seq(Lines_) /\ Rotate.now.open \in BOOLEAN
      /\ Rotate.now.open => tear
      /\ ~ tear =>
           /\ Len(before) + Len(now) <= Len(told)
           /\ Len(before) + Len(now) = Len(told) \/ Len(before) + Len(now) >= MaxLines
           /\ \A i \in 1 .. Len(now) : now[i] = told[Len(told) - Len(now) + i]
           /\ \A i \in 1 .. Len(before) : before[i] = told[Len(told) - Len(now) - Len(before) + i]
  BY RotateFits
<1> HIDE DEF row, now, before
<1>6. \A i \in 1 .. Len(events'.lines) :
        events'.lines[i] = Junk \/ \E k \in 1 .. Len(told') : events'.lines[i] = told'[k]
  <2> SUFFICES ASSUME NEW i \in 1 .. Len(events'.lines), events'.lines[i] # Junk
               PROVE  \E k \in 1 .. Len(told') : events'.lines[i] = told'[k]
    OBVIOUS
  <2>1. CASE events'.lines[i] = row
    <3>1. Len(told') \in 1 .. Len(told') /\ told'[Len(told')] = row
      BY <1>4
    <3> QED
      BY <2>1, <3>1
  <2>2. ASSUME NEW k \in 1 .. Len(told), events'.lines[i] = told[k]
        PROVE  \E l \in 1 .. Len(told') : events'.lines[i] = told'[l]
    <3>1. k \in 1 .. Len(told') /\ told'[k] = told[k]
      BY <1>4
    <3> QED
      BY <2>2, <3>1
  <2> QED
    BY <1>3, <2>1, <2>2
<1>7. ASSUME ~ tear
      PROVE  /\ Len(rotated') + Len(events'.lines) <= Len(told')
             /\ \/ Len(rotated') + Len(events'.lines) = Len(told')
                \/ Len(rotated') + Len(events'.lines) >= MaxLines
             /\ \A i \in 1 .. Len(events'.lines) :
                  events'.lines[i] = told'[Len(told') - Len(events'.lines) + i]
             /\ \A i \in 1 .. Len(rotated') :
                  rotated'[i] = told'[Len(told') - Len(events'.lines) - Len(rotated') + i]
  <2>1. /\ events'.lines = Append(now, row) /\ Len(events'.lines) = Len(now) + 1
        /\ events'.lines[Len(now) + 1] = row
        /\ \A i \in 1 .. Len(now) : events'.lines[i] = now[i]
    BY <1>3, <1>5, <1>7
  <2>2. MaxLines \in Nat
    BY ObservatoryAssumption
  <2>3. \A i \in 1 .. Len(events'.lines) :
          events'.lines[i] = told'[Len(told') - Len(events'.lines) + i]
    <3> SUFFICES ASSUME NEW i \in 1 .. Len(events'.lines)
                 PROVE  events'.lines[i] = told'[Len(told') - Len(events'.lines) + i]
      OBVIOUS
    <3>1. Len(told) \in Nat /\ Len(now) \in Nat /\ Len(before) \in Nat
      BY <1>4, <1>5
    <3>2. Len(told') - Len(events'.lines) + i = Len(told) - Len(now) + i
      BY <1>4, <2>1, <3>1
    <3>3. CASE i \in 1 .. Len(now)
      <4>1. Len(told) - Len(now) + i \in 1 .. Len(told)
        BY <1>5, <1>7, <3>1, <3>3
      <4> QED
        BY <1>4, <1>5, <1>7, <2>1, <3>2, <3>3, <4>1
    <3>4. CASE i = Len(now) + 1
      <4>1. Len(told) - Len(now) + i = Len(told) + 1
        BY <3>1, <3>4
      <4> QED
        BY <1>4, <2>1, <3>2, <3>4, <4>1
    <3> QED
      BY <2>1, <3>1, <3>3, <3>4
  <2>4. \A i \in 1 .. Len(rotated') :
          rotated'[i] = told'[Len(told') - Len(events'.lines) - Len(rotated') + i]
    <3> SUFFICES ASSUME NEW i \in 1 .. Len(before)
                 PROVE  before[i] = told'[Len(told') - Len(events'.lines) - Len(before) + i]
      BY <1>3
    <3>1. Len(told) \in Nat /\ Len(now) \in Nat /\ Len(before) \in Nat
      BY <1>4, <1>5
    <3>2. /\ Len(told') - Len(events'.lines) - Len(before) + i = Len(told) - Len(now) - Len(before) + i
          /\ Len(told) - Len(now) - Len(before) + i \in 1 .. Len(told)
      BY <1>4, <1>5, <1>7, <2>1, <3>1
    <3> QED
      BY <1>4, <1>5, <1>7, <3>2
  <2>5. /\ Len(rotated') + Len(events'.lines) <= Len(told')
        /\ \/ Len(rotated') + Len(events'.lines) = Len(told')
           \/ Len(rotated') + Len(events'.lines) >= MaxLines
    BY <1>3, <1>4, <1>5, <1>7, <2>1, <2>2
  <2> QED
    BY <2>3, <2>4, <2>5
<1> QED
  BY <1>1, <1>2, <1>3, <1>4, <1>5, <1>6, <1>7 DEF LedgerInv

(* A crash comes before the append, behind the rotation, or cuts the line. *)
LEMMA CrashStep ==
  ASSUME LedgerInv, CrashInAppend
  PROVE  LedgerInv'
<1>1. owed' = <<>> /\ told' = told
  BY DEF CrashInAppend
<1>2. CASE AppendLine(Junk) /\ tear' = TRUE /\ gap' = FALSE
  <2>1. /\ events' = [lines |-> events'.lines, open |-> events'.open] /\ events'.open = TRUE
        /\ events'.lines \in Seq(Lines_) /\ events'.lines # <<>> /\ rotated' = Rotate.before
        /\ \A i \in 1 .. Len(events'.lines) :
             \/ events'.lines[i] = Junk
             \/ \E k \in 1 .. Len(told) : events'.lines[i] = told[k]
    <3>1. Junk \in Lines_
      BY DEF Lines_
    <3> QED
      BY <1>2, <3>1, AppendLineFits
  <2>2. Rotate.before \in Seq(Lines_) /\ told \in Seq(Rows_)
    BY RotateFits DEF LedgerInv
  <2>3. <<>> \in Seq(Rows_)
    OBVIOUS
  <2> QED
    BY <1>1, <1>2, <2>1, <2>2, <2>3 DEF LedgerInv
<1>3. CASE UNCHANGED <<events, rotated, tear, gap>>
  BY <1>1, <1>3 DEF LedgerInv
<1>4. CASE /\ events' = Rotate.now /\ rotated' = Rotate.before
           /\ gap' = (gap \/ events' # events)
           /\ UNCHANGED tear
  <2>1. <<>> \in Seq(Rows_) /\ told \in Seq(Rows_) /\ tear \in BOOLEAN /\ gap \in BOOLEAN
    BY DEF LedgerInv
  <2>2. events'.lines = <<>> => gap' \/ told' = <<>>
    <3>1. CASE events' = events
      BY <1>1, <1>4, <3>1 DEF LedgerInv
    <3> QED
      BY <1>4, <3>1
  <2>3. gap' \in BOOLEAN
    BY <1>4
  <2> QED
    BY <1>1, <1>4, <2>1, <2>2, <2>3, RotateFits DEF LedgerInv
<1> QED
  BY <1>2, <1>3, <1>4 DEF CrashInAppend

(* What the files hold is what the readers see.                             *)
LEMMA LedgerShows == LedgerInv => LedgerKeepsNewest
<1> SUFFICES ASSUME LedgerInv PROVE LedgerKeepsNewest
  OBVIOUS
<1> DEFINE disk == rotated \o events.lines
<1>0. /\ rotated \in Seq(Lines_) /\ events.lines \in Seq(Lines_) /\ told \in Seq(Rows_)
      /\ MaxLines \in Nat
  BY ObservatoryAssumption DEF LedgerInv
<1>1. ASSUME ~ tear
      PROVE  /\ disk = SubSeq(told, Len(told) - Len(disk) + 1, Len(told))
             /\ Len(disk) = Len(told) \/ Len(disk) >= MaxLines
  <2>1. PICK s : s = SubSeq(told, Len(told) - Len(disk) + 1, Len(told))
    OBVIOUS
  <2>2. PICK d : d = disk
    OBVIOUS
  <2>3. /\ d \in Seq(Lines_) /\ Len(d) = Len(rotated) + Len(events.lines)
        /\ \A i \in 1 .. Len(rotated) : d[i] = rotated[i]
        /\ \A i \in 1 .. Len(events.lines) : d[Len(rotated) + i] = events.lines[i]
    BY <1>0, <2>2, ConcatAt
  <2>4. /\ Len(rotated) + Len(events.lines) <= Len(told)
        /\ Len(d) = Len(told) \/ Len(d) >= MaxLines
        /\ \A i \in 1 .. Len(events.lines) :
             events.lines[i] = told[Len(told) - Len(events.lines) + i]
        /\ \A i \in 1 .. Len(rotated) :
             rotated[i] = told[Len(told) - Len(events.lines) - Len(rotated) + i]
    BY <1>1, <2>3 DEF LedgerInv
  <2>5. PICK n, r, e : n = Len(told) /\ r = Len(rotated) /\ e = Len(events.lines)
    OBVIOUS
  <2>6. n \in Nat /\ r \in Nat /\ e \in Nat /\ r + e <= n /\ Len(d) = r + e
    BY <1>0, <2>3, <2>4, <2>5
  <2>7. \A i \in 1 .. r + e : d[i] = told[n - (r + e) + i]
    <3> SUFFICES ASSUME NEW i \in 1 .. r + e PROVE d[i] = told[n - (r + e) + i]
      OBVIOUS
    <3>1. CASE i <= r
      <4>1. i \in 1 .. r /\ n - e - r + i = n - (r + e) + i
        BY <2>6, <3>1
      <4> QED
        BY <2>3, <2>4, <2>5, <4>1
    <3>2. CASE i > r
      <4>1. PICK j : j = i - r
        OBVIOUS
      <4>2. j \in 1 .. e /\ r + j = i /\ n - e + j = n - (r + e) + i
        BY <2>6, <3>2, <4>1
      <4>3. d[r + j] = events.lines[j] /\ events.lines[j] = told[n - e + j]
        BY <2>3, <2>4, <2>5, <4>2
      <4> QED
        BY <4>2, <4>3
    <3> QED
      BY <2>6, <3>1, <3>2
  <2>8. /\ told \in Seq(Lines_) /\ Len(d) \in 0 .. Len(told)
    BY <1>0, <2>5, <2>6 DEF Lines_
  <2>12. s = SubSeq(told, Len(told) - Len(d) + 1, Len(told))
    BY <2>1, <2>2
  <2>9. /\ s \in Seq(Lines_) /\ Len(s) = Len(d)
        /\ \A i \in 1 .. Len(d) : s[i] = told[Len(told) - Len(d) + i]
    <3>1. PICK k : k = Len(d)
      OBVIOUS
    <3>2. PICK t : t = told
      OBVIOUS
    <3>3. t \in Seq(Lines_) /\ k \in 0 .. Len(t) /\ s = SubSeq(t, Len(t) - k + 1, Len(t))
      BY <2>8, <2>12, <3>1, <3>2
    <3>4. /\ SubSeq(t, Len(t) - k + 1, Len(t)) \in Seq(Lines_)
          /\ Len(SubSeq(t, Len(t) - k + 1, Len(t))) = k
          /\ \A i \in 1 .. k : SubSeq(t, Len(t) - k + 1, Len(t))[i] = t[Len(t) - k + i]
      BY <3>3, SuffixAt
    <3>5. s \in Seq(Lines_) /\ Len(s) = k /\ \A i \in 1 .. k : s[i] = t[Len(t) - k + i]
      BY <3>3, <3>4
    <3>6. Len(s) = Len(d)
      BY <3>1, <3>5
    <3>7. ASSUME NEW i \in 1 .. Len(d) PROVE s[i] = told[Len(told) - Len(d) + i]
      BY <3>1, <3>2, <3>5
    <3> QED
      BY <3>5, <3>6, <3>7
  <2>10. \A i \in 1 .. Len(s) : s[i] = d[i]
    <3>1. PICK t, k : t = told /\ k = r + e
      OBVIOUS
    <3>2. /\ Len(s) = k /\ \A i \in 1 .. k : s[i] = t[n - k + i]
          /\ \A i \in 1 .. k : d[i] = t[n - k + i]
      BY <2>5, <2>6, <2>7, <2>9, <3>1
    <3> QED
      BY <3>2
  <2>11. s = d
    BY <2>3, <2>9, <2>10, SameAt
  <2>13. disk = d
    BY <2>2
  <2>14. s = SubSeq(told, Len(told) - Len(disk) + 1, Len(told))
    BY <2>1
  <2>15. disk = SubSeq(told, Len(told) - Len(disk) + 1, Len(told))
    BY <2>11, <2>13, <2>14, Zenon
  <2>16. Len(disk) = Len(told) \/ Len(disk) >= MaxLines
    BY <2>4, <2>13, Zenon
  <2> HIDE DEF disk
  <2> QED
    BY <2>15, <2>16
<1>2. \A l \in ToSet(events.lines) : l = Junk \/ l \in ToSet(told)
  <2> SUFFICES ASSUME NEW i \in 1 .. Len(events.lines)
               PROVE  events.lines[i] = Junk \/ events.lines[i] \in ToSet(told)
    BY <1>0 DEF ToSet
  <2>1. events.lines[i] = Junk \/ \E k \in 1 .. Len(told) : events.lines[i] = told[k]
    BY DEF LedgerInv
  <2>2. \A k \in 1 .. Len(told) : told[k] \in ToSet(told)
    BY <1>0 DEF ToSet
  <2> QED
    BY <2>1, <2>2
<1>4. readLedger = <<>> => gap \/ told = <<>> \/ Junk \in ToSet(events.lines)
  BY DEF readLedger, LedgerInv
<1>5. \A l \in ToSet(readLedger) : l \in ToSet(told)
  <2>1. CASE Junk \in ToSet(events.lines)
    BY <2>1 DEF readLedger, ToSet
  <2>2. CASE Junk \notin ToSet(events.lines)
    BY <1>2, <2>2 DEF readLedger
  <2> QED
    BY <2>1, <2>2
<1>6. \A kind \in {"burn", "revenue"} : filterLedger(readLedger, kind) \subseteq ToSet(told)
  BY <1>5 DEF filterLedger
<1> QED
  BY <1>1, <1>4, <1>6 DEF LedgerKeepsNewest

(* Every probe but the read of the acquisition ledger has given up before   *)
(* the next tick: live.ts bounds each of their requests by 3 or 4 s, and     *)
(* pollMs is 15 s unless it is set lower.                                   *)
ProbesEndInTime == \A p \in Timed : Limit[p] < Poll

Views_ == [treasury : Nat, gate : {"absent", "none", "nft"}]
Ticks_ == [start : Nat, view : Views_, asked : SUBSET Probes]

(* A tick under way: while a timed probe has not ended its time is not up;   *)
(* the live file shows no later tick unless the next one has come; and what  *)
(* the tick saw is not newer than the memory.                               *)
UnderWay(t) ==
  /\ t.start <= clock /\ t.start + Poll <= nextTick
  /\ \A p \in t.asked \cap Timed : clock <= t.start + Limit[p]
  /\ live.start <= t.start \/ t.start + Poll <= clock
  /\ t.view.treasury <= mind.treasury

(* A tick that another has overtaken.                                       *)
Overtaken(t, u) == t.start + Poll <= u.start /\ t.asked \subseteq {"acquire"}

LiveInv ==
  /\ clock \in Nat /\ nextTick \in Nat /\ clock <= nextTick
  /\ mind \in Views_
  /\ ticks \in Seq(Ticks_)
  /\ \A i \in 1 .. Len(ticks) : UnderWay(ticks[i])
  /\ \A i, j \in 1 .. Len(ticks) : i < j => Overtaken(ticks[i], ticks[j])
  /\ live.start \in Int /\ live.start <= clock

(* What a step of the live file may do.                                     *)
LiveMoves ==
  live' # live => /\ live'.start >= live.start \/ clock >= live'.start + Poll
                  /\ live'.view.treasury <= mind.treasury

(* One place of a sequence taken by another.                                *)
LEMMA PutAt ==
  ASSUME NEW S, NEW s \in Seq(S), NEW k \in 1 .. Len(s), NEW e \in S
  PROVE  /\ [s EXCEPT ![k] = e] \in Seq(S) /\ Len([s EXCEPT ![k] = e]) = Len(s)
         /\ [s EXCEPT ![k] = e][k] = e
         /\ \A i \in 1 .. Len(s) : i # k => [s EXCEPT ![k] = e][i] = s[i]
OBVIOUS

(* What is behind the place of a sequence that is removed moves up.          *)
LEMMA TakenOut ==
  ASSUME NEW S, NEW s \in Seq(S), NEW k \in 1 .. Len(s)
  PROVE  /\ RemoveAt(s, k) \in Seq(S) /\ Len(RemoveAt(s, k)) = Len(s) - 1
         /\ \A i \in 1 .. Len(s) - 1 :
              RemoveAt(s, k)[i] = s[IF i < k THEN i ELSE i + 1]
<1>1. PICK a, b : a = SubSeq(s, 1, k - 1) /\ b = SubSeq(s, k + 1, Len(s))
  OBVIOUS
<1>2. a \in Seq(S) /\ Len(a) = k - 1 /\ \A i \in 1 .. k - 1 : a[i] = s[i]
  BY <1>1
<1>3. b \in Seq(S) /\ Len(b) = Len(s) - k /\ \A i \in 1 .. Len(s) - k : b[i] = s[k + i]
  BY <1>1
<1>4. RemoveAt(s, k) = a \o b
  BY <1>1 DEF RemoveAt
<1>5. PICK t : t = a \o b
  OBVIOUS
<1>6. /\ t \in Seq(S) /\ Len(t) = Len(a) + Len(b)
      /\ \A i \in 1 .. Len(a) : t[i] = a[i]
      /\ \A i \in 1 .. Len(b) : t[Len(a) + i] = b[i]
  <2>1. a \in Seq(S) /\ b \in Seq(S)
    BY <1>2, <1>3
  <2> QED
    BY <1>5, <2>1, ConcatAt
<1>7. Len(s) \in Nat /\ k \in 1 .. Len(s) /\ Len(t) = Len(s) - 1
  BY <1>2, <1>3, <1>6
<1>8. ASSUME NEW i \in 1 .. Len(s) - 1
      PROVE  t[i] = s[IF i < k THEN i ELSE i + 1]
  <2>1. CASE i < k
    BY <1>2, <1>6, <1>7, <2>1
  <2>2. CASE ~ (i < k)
    <3>1. PICK j : j = i - (k - 1)
      OBVIOUS
    <3>2. j \in 1 .. Len(s) - k /\ (k - 1) + j = i /\ k + j = i + 1
      BY <1>7, <2>2, <3>1
    <3>3. t[(k - 1) + j] = b[j] /\ b[j] = s[k + j]
      BY <1>2, <1>3, <1>6, <3>2
    <3> QED
      BY <2>2, <3>2, <3>3
  <2> QED
    BY <2>1, <2>2
<1> QED
  BY <1>4, <1>5, <1>6, <1>7, <1>8

(* No tick is under way at first.                                          *)
LEMMA LiveStart == LiveInit => LiveInv
<1> SUFFICES ASSUME LiveInit PROVE LiveInv
  OBVIOUS
<1>1. /\ clock = 0 /\ nextTick = 0 /\ ticks = <<>>
      /\ mind = [treasury |-> 0, gate |-> "absent"] /\ live.start = -1
  BY DEF LiveInit, Null
<1>2. mind \in Views_
  BY <1>1 DEF Views_
<1>3. ticks \in Seq(Ticks_) /\ Len(ticks) = 0
  BY <1>1
<1> QED
  BY <1>1, <1>2, <1>3 DEF LiveInv

(* What happens to the memory leaves a tick under way what it is.           *)
LEMMA MindMoves ==
  ASSUME LiveInv, mind' \in Views_, mind'.treasury >= mind.treasury,
         UNCHANGED <<clock, nextTick, ticks, live>>
  PROVE  LiveInv'
<1>1. \A i \in 1 .. Len(ticks) :
        ticks[i].view.treasury \in Nat /\ mind.treasury \in Nat /\ mind'.treasury \in Nat
  <2>1. ticks \in Seq(Ticks_) /\ mind \in Views_
    BY DEF LiveInv
  <2>2. \A i \in 1 .. Len(ticks) : ticks[i] \in Ticks_
    BY <2>1
  <2> QED
    BY <2>1, <2>2 DEF Ticks_, Views_
<1>2. ASSUME NEW i \in 1 .. Len(ticks) PROVE UnderWay(ticks[i])'
  <2>1. PICK t : t = ticks[i]
    OBVIOUS
  <2>2. UnderWay(t) /\ t.view.treasury \in Nat
    BY <1>1, <2>1 DEF LiveInv
  <2>3. t.view.treasury <= mind'.treasury
    BY <1>1, <2>2 DEF UnderWay
  <2> QED
    BY <2>1, <2>2, <2>3, Zenon DEF UnderWay
<1> QED
  BY <1>2 DEF LiveInv

(* The next tick begins: those that are still under way wait for the file.  *)
LEMMA TickBegins ==
  ASSUME ProbesEndInTime, LiveInv, tick
  PROVE  LiveInv' /\ live' = live
<1>0. Poll \in Nat /\ \A p \in Timed : Limit[p] \in Nat /\ Limit[p] < Poll
  BY ObservatoryAssumption DEF ProbesEndInTime
<1>1. PICK t : t = [start |-> clock, view |-> mind, asked |-> Probes]
  OBVIOUS
<1>2. /\ clock = nextTick /\ nextTick' = clock + Poll /\ ticks' = Append(ticks, t)
      /\ clock' = clock /\ mind' = mind /\ live' = live
  BY <1>1 DEF tick
<1>3. /\ clock \in Nat /\ mind \in Views_ /\ ticks \in Seq(Ticks_)
      /\ live.start \in Int /\ live.start <= clock
      /\ \A i \in 1 .. Len(ticks) : ticks[i] \in Ticks_ /\ UnderWay(ticks[i])
      /\ \A i, j \in 1 .. Len(ticks) : i < j => Overtaken(ticks[i], ticks[j])
  BY DEF LiveInv
<1>4. /\ t \in Ticks_ /\ t.start = clock /\ t.asked = Probes
      /\ t.view.treasury = mind.treasury /\ mind.treasury \in Nat
  BY <1>1, <1>3 DEF Ticks_, Views_
<1>5. PICK n \in Nat : n = Len(ticks)
  BY <1>3
<1>6. /\ ticks' \in Seq(Ticks_) /\ Len(ticks') = n + 1 /\ ticks'[n + 1] = t
      /\ \A i \in 1 .. n : ticks'[i] = ticks[i]
  BY <1>2, <1>3, <1>4, <1>5, AppendAt
<1>7. \A i \in 1 .. n + 1 : i \in 1 .. n \/ i = n + 1
  BY <1>5
<1>8. ASSUME NEW i \in 1 .. n
      PROVE  UnderWay(ticks[i])' /\ Overtaken(ticks[i], t)
  <2>1. PICK u \in Ticks_ : u = ticks[i]
    BY <1>3, <1>5, <1>8
  <2>2. u.start \in Nat /\ u.asked \subseteq Probes
    BY <2>1 DEF Ticks_
  <2>3. /\ u.start <= clock /\ u.start + Poll <= clock /\ u.view.treasury <= mind.treasury
        /\ \A p \in u.asked \cap Timed : clock <= u.start + Limit[p]
    BY <1>2, <1>3, <1>5, <1>8, <2>1 DEF UnderWay
  <2>4. ASSUME NEW p \in u.asked \cap Timed PROVE FALSE
    <3>1. PICK l \in Nat : l = Limit[p] /\ l < Poll
      BY <1>0, <2>4
    <3>2. clock <= u.start + l
      BY <2>3, <2>4, <3>1
    <3>3. clock \in Nat /\ u.start \in Nat /\ u.start + Poll <= clock
      BY <1>3, <2>2, <2>3
    <3> QED
      BY <1>0, <3>1, <3>2, <3>3
  <2>5. u.asked \subseteq {"acquire"}
    BY <2>2, <2>4 DEF Probes
  <2>6. u.start + Poll <= nextTick'
    BY <1>0, <1>2, <1>3, <2>2, <2>3
  <2>7. ticks'[i] = u
    BY <1>6, <1>8, <2>1
  <2>8. UnderWay(ticks[i])'
    BY <1>2, <2>3, <2>4, <2>6, <2>7 DEF UnderWay
  <2> QED
    BY <1>4, <2>1, <2>3, <2>5, <2>8 DEF Overtaken
<1>9. UnderWay(ticks[n + 1])'
  <2>1. \A p \in Probes \cap Timed : clock <= clock + Limit[p]
    BY <1>0, <1>3
  <2>2. clock + Poll <= nextTick' /\ clock <= clock /\ mind.treasury <= mind.treasury
    BY <1>0, <1>2, <1>3, <1>4
  <2> QED
    BY <1>2, <1>3, <1>4, <1>6, <2>1, <2>2 DEF UnderWay
<1>10. \A i, j \in 1 .. n + 1 : i < j => Overtaken(ticks'[i], ticks'[j])
  <2> SUFFICES ASSUME NEW i \in 1 .. n + 1, NEW j \in 1 .. n + 1, i < j
               PROVE  Overtaken(ticks'[i], ticks'[j])
    OBVIOUS
  <2>1. i \in 1 .. n
    BY <1>5
  <2>2. CASE j \in 1 .. n
    BY <1>3, <1>5, <1>6, <2>1, <2>2
  <2>3. CASE j = n + 1
    BY <1>6, <1>8, <2>1, <2>3
  <2> QED
    BY <1>7, <2>2, <2>3
<1>11. nextTick' \in Nat /\ clock <= nextTick'
  BY <1>0, <1>2, <1>3
<1>12. \A i \in 1 .. Len(ticks') : UnderWay(ticks[i])'
  BY <1>6, <1>7, <1>8, <1>9
<1>13. \A i, j \in 1 .. Len(ticks') : i < j => Overtaken(ticks[i], ticks[j])'
  BY <1>0, <1>6, <1>10 DEF Overtaken
<1> QED
  BY <1>2, <1>3, <1>6, <1>11, <1>12, <1>13 DEF LiveInv

(* Time passes while no timed probe gives up.                               *)
LEMMA ClockMoves ==
  ASSUME LiveInv, TimePasses
  PROVE  LiveInv' /\ live' = live
<1>0. Poll \in Nat /\ \A p \in Timed : Limit[p] \in Nat
  BY ObservatoryAssumption
<1>1. /\ clock \in Nat /\ nextTick \in Nat /\ ticks \in Seq(Ticks_)
      /\ live.start \in Int /\ live.start <= clock
      /\ DOMAIN ticks = 1 .. Len(ticks)
      /\ \A i \in 1 .. Len(ticks) : ticks[i] \in Ticks_ /\ UnderWay(ticks[i])
  BY DEF LiveInv
<1>2. /\ clock < nextTick /\ clock' = clock + 1
      /\ UNCHANGED <<nextTick, mind, ticks, live>>
      /\ \A i \in 1 .. Len(ticks) :
           \A p \in ticks[i].asked \cap Timed : ~ (clock >= ticks[i].start + Limit[p])
  BY <1>1 DEF TimePasses, Due
<1>3. ASSUME NEW i \in 1 .. Len(ticks) PROVE UnderWay(ticks[i])'
  <2>1. PICK u \in Ticks_ : u = ticks[i]
    BY <1>1
  <2>2. u.start \in Nat
    BY <2>1 DEF Ticks_
  <2>3. ASSUME NEW p \in u.asked \cap Timed PROVE clock + 1 <= u.start + Limit[p]
    <3>1. PICK l \in Nat : l = Limit[p]
      BY <1>0, <2>3
    <3>2. ~ (clock >= u.start + l)
      BY <1>2, <2>1, <2>3, <3>1
    <3> QED
      BY <1>1, <2>2, <3>1, <3>2
  <2>4. /\ u.start <= clock /\ u.start + Poll <= nextTick /\ u.view.treasury <= mind.treasury
        /\ live.start <= u.start \/ u.start + Poll <= clock
    BY <1>1, <2>1 DEF UnderWay
  <2>5. u.start <= clock + 1 /\ (live.start <= u.start \/ u.start + Poll <= clock + 1)
    BY <1>0, <1>1, <2>2, <2>4
  <2> QED
    BY <1>2, <2>1, <2>3, <2>4, <2>5 DEF UnderWay
<1>4. clock' \in Nat /\ clock' <= nextTick' /\ live'.start <= clock'
  BY <1>1, <1>2
<1> QED
  BY <1>2, <1>3, <1>4 DEF LiveInv, Overtaken

(* The live file is written by one of the ticks.                            *)
LEMMA FileWritten ==
  ASSUME LiveInv, NEW k \in DOMAIN ticks, refreshLive(k)
  PROVE  LiveInv' /\ LiveMoves
<1>0. Poll \in Nat
  BY ObservatoryAssumption
<1>1. /\ clock \in Nat /\ nextTick \in Nat /\ clock <= nextTick /\ mind \in Views_
      /\ ticks \in Seq(Ticks_) /\ live.start \in Int /\ k \in 1 .. Len(ticks)
      /\ \A i \in 1 .. Len(ticks) : ticks[i] \in Ticks_ /\ UnderWay(ticks[i])
      /\ \A i, j \in 1 .. Len(ticks) : i < j => Overtaken(ticks[i], ticks[j])
  BY DEF LiveInv
<1>2. PICK u \in Ticks_ : u = ticks[k]
  BY <1>1
<1>3. /\ live' = [start |-> u.start, view |-> u.view]
      /\ ticks' = RemoveAt(ticks, k)
      /\ clock' = clock /\ nextTick' = nextTick /\ mind' = mind
  BY <1>2 DEF refreshLive
<1>4. live'.start = u.start /\ live'.view = u.view
  BY <1>3
<1>5. /\ u.start \in Nat /\ u.start <= clock /\ u.view.treasury <= mind.treasury
      /\ live.start <= u.start \/ u.start + Poll <= clock
  BY <1>1, <1>2 DEF UnderWay, Ticks_
<1>6. LiveMoves
  BY <1>0, <1>1, <1>4, <1>5 DEF LiveMoves
<1>7. PICK n \in Nat : n = Len(ticks)
  BY <1>1
<1>8. PICK f : f = [i \in 1 .. n |-> IF i < k THEN i ELSE i + 1]
  OBVIOUS
<1>9. /\ ticks' \in Seq(Ticks_) /\ Len(ticks') = n - 1
      /\ \A i \in 1 .. n - 1 : ticks'[i] = ticks[f[i]] /\ f[i] \in 1 .. n /\ f[i] # k
      /\ \A i, j \in 1 .. n - 1 : i < j => f[i] < f[j]
  <2>1. PICK s, t : s = ticks /\ t = RemoveAt(s, k)
    OBVIOUS
  <2>2. s \in Seq(Ticks_) /\ k \in 1 .. Len(s) /\ Len(s) = n
    BY <1>1, <1>7, <2>1
  <2>3. /\ t \in Seq(Ticks_) /\ Len(t) = n - 1
        /\ \A i \in 1 .. n - 1 : t[i] = s[IF i < k THEN i ELSE i + 1]
    BY <2>1, <2>2, TakenOut
  <2>4. \A i \in 1 .. n - 1 : /\ f[i] = (IF i < k THEN i ELSE i + 1)
                              /\ f[i] \in 1 .. n /\ f[i] # k
    BY <1>8, <2>2
  <2>5. \A i, j \in 1 .. n - 1 : i < j => f[i] < f[j]
    BY <2>2, <2>4
  <2>6. \A i \in 1 .. n - 1 : t[i] = s[f[i]]
    BY <2>3, <2>4
  <2> QED
    BY <1>3, <2>1, <2>3, <2>4, <2>5, <2>6
<1>10. ASSUME NEW i \in 1 .. n, i # k
       PROVE  LET t == ticks[i] IN
              /\ t.start <= clock /\ t.start + Poll <= nextTick
              /\ \A p \in t.asked \cap Timed : clock <= t.start + Limit[p]
              /\ u.start <= t.start \/ t.start + Poll <= clock
              /\ t.view.treasury <= mind.treasury
  <2>1. PICK t \in Ticks_ : t = ticks[i]
    BY <1>1, <1>7, <1>10
  <2>2. t.start \in Nat /\ UnderWay(t)
    BY <1>1, <1>7, <2>1 DEF Ticks_
  <2>3. i < k \/ k < i
    BY <1>1, <1>7, <1>10
  <2>4. t.start + Poll <= u.start \/ u.start + Poll <= t.start
    BY <1>1, <1>2, <1>7, <2>1, <2>3 DEF Overtaken
  <2>5. u.start <= t.start \/ t.start + Poll <= clock
    <3>1. u.start \in Nat /\ t.start \in Nat /\ clock \in Nat /\ u.start <= clock
      BY <1>1, <1>5, <2>2
    <3> QED
      BY <1>0, <2>4, <3>1
  <2> QED
    BY <2>1, <2>2, <2>5 DEF UnderWay
<1>11. ASSUME NEW i \in 1 .. n - 1 PROVE UnderWay(ticks[i])'
  BY <1>3, <1>4, <1>9, <1>10 DEF UnderWay
<1>12. ASSUME NEW i \in 1 .. n - 1, NEW j \in 1 .. n - 1, i < j
       PROVE  Overtaken(ticks[i], ticks[j])'
  BY <1>0, <1>1, <1>7, <1>9, <1>12 DEF Overtaken
<1>13. LiveInv'
  BY <1>1, <1>3, <1>4, <1>5, <1>9, <1>11, <1>12 DEF LiveInv
<1> QED
  BY <1>6, <1>13

(* A probe of one of the ticks ends.                                        *)
LEMMA ProbeAnswered ==
  ASSUME LiveInv, NEW k \in DOMAIN ticks, NEW p \in Probes, ProbeEnds(k, p)
  PROVE  LiveInv' /\ live' = live
<1>0. Poll \in Nat
  BY ObservatoryAssumption
<1>1. /\ clock \in Nat /\ nextTick \in Nat /\ clock <= nextTick /\ mind \in Views_
      /\ ticks \in Seq(Ticks_) /\ live.start \in Int /\ live.start <= clock
      /\ k \in 1 .. Len(ticks)
      /\ \A i \in 1 .. Len(ticks) : ticks[i] \in Ticks_ /\ UnderWay(ticks[i])
      /\ \A i, j \in 1 .. Len(ticks) : i < j => Overtaken(ticks[i], ticks[j])
  BY DEF LiveInv
<1>2. PICK u \in Ticks_ : u = ticks[k]
  BY <1>1
<1>3. PICK t : t = [u EXCEPT !.asked = u.asked \ {p}]
  OBVIOUS
<1>4. /\ t \in Ticks_ /\ t.start = u.start /\ t.view = u.view /\ t.asked \subseteq u.asked
  BY <1>2, <1>3 DEF Ticks_
<1>5. /\ ticks' = [ticks EXCEPT ![k] = t]
      /\ clock' = clock /\ nextTick' = nextTick /\ mind' = mind /\ live' = live
  BY <1>2, <1>3 DEF ProbeEnds
<1>6. /\ ticks' \in Seq(Ticks_) /\ Len(ticks') = Len(ticks) /\ ticks'[k] = t
      /\ \A i \in 1 .. Len(ticks) : i # k => ticks'[i] = ticks[i]
  BY <1>1, <1>4, <1>5, PutAt
<1>7. \A i \in 1 .. Len(ticks) :
        /\ ticks'[i].start = ticks[i].start /\ ticks'[i].view = ticks[i].view
        /\ ticks'[i].asked \subseteq ticks[i].asked
  BY <1>2, <1>4, <1>6
<1>8. ASSUME NEW i \in 1 .. Len(ticks) PROVE UnderWay(ticks[i])'
  BY <1>1, <1>5, <1>7 DEF UnderWay
<1>9. ASSUME NEW i \in 1 .. Len(ticks), NEW j \in 1 .. Len(ticks), i < j
      PROVE  Overtaken(ticks[i], ticks[j])'
  <2>1. Overtaken(ticks[i], ticks[j])
    BY <1>1, <1>9
  <2> QED
    BY <1>7, <2>1 DEF Overtaken
<1> QED
  BY <1>1, <1>5, <1>6, <1>8, <1>9 DEF LiveInv

(* A step leaves the live file or writes what one tick saw.                 *)
LEMMA LiveStep ==
  ASSUME ProbesEndInTime, LiveInv, LiveNext
  PROVE  LiveInv' /\ LiveMoves
<1>1. mind \in Views_ /\ clock \in Nat
  BY DEF LiveInv
<1>2. CASE StateChanged
  <2>1. mind' = [mind EXCEPT !.treasury = @ + 1] /\ UNCHANGED <<clock, nextTick, ticks, live>>
    BY <1>2 DEF StateChanged
  <2>2. mind' \in Views_ /\ mind'.treasury >= mind.treasury
    BY <1>1, <2>1 DEF Views_
  <2> QED
    BY <2>1, <2>2, MindMoves DEF LiveMoves
<1>3. CASE Upsert \/ Pinned
  <2>1. /\ mind' = [mind EXCEPT !.gate = "nft"] \/ mind' = [mind EXCEPT !.gate = "none"]
        /\ UNCHANGED <<clock, nextTick, ticks, live>>
    BY <1>3 DEF Upsert, Pinned
  <2>2. mind' \in Views_ /\ mind'.treasury >= mind.treasury
    BY <1>1, <2>1 DEF Views_
  <2> QED
    BY <2>1, <2>2, MindMoves DEF LiveMoves
<1>4. CASE RestartAgent
  <2>1. /\ mind' = [treasury |-> 0, gate |-> "absent"] /\ ticks' = <<>> /\ nextTick' = clock
        /\ clock' = clock /\ live' = live
    BY <1>4 DEF RestartAgent, Null
  <2>2. mind' \in Views_
    BY <2>1 DEF Views_
  <2>3. ticks' \in Seq(Ticks_) /\ Len(ticks') = 0
    BY <2>1
  <2>4. LiveInv'
    BY <1>1, <2>1, <2>2, <2>3 DEF LiveInv
  <2> QED
    BY <2>1, <2>4 DEF LiveMoves
<1>5. CASE tick
  BY <1>5, TickBegins DEF LiveMoves
<1>6. CASE TimePasses
  BY <1>6, ClockMoves DEF LiveMoves
<1>7. CASE \E k \in DOMAIN ticks : refreshLive(k)
  BY <1>7, FileWritten
<1>8. CASE \E k \in DOMAIN ticks : \E p \in Probes : ProbeEnds(k, p)
  BY <1>8, ProbeAnswered DEF LiveMoves
<1> QED
  BY <1>2, <1>3, <1>4, <1>5, <1>6, <1>7, <1>8 DEF LiveNext

(* Every step of the ledger keeps what the files hold.                     *)
LEMMA LedgerStep ==
  ASSUME LedgerInv, LedgerNext \/ UNCHANGED ledgerVars_
  PROVE  LedgerInv'
<1>1. CASE UNCHANGED ledgerVars_
  BY <1>1 DEF ledgerVars_, LedgerInv
<1>2. CASE LedgerNext
  BY <1>2, ToldRows, AppendStep, CrashStep DEF LedgerNext
<1> QED
  BY <1>1, <1>2

(* The observatory (index.ts of dsh-observatory): whatever rotations and    *)
(* crashes do, the two ledger files end with the rows told last, in order,  *)
(* and the reader shows only rows that were told, and none only while a cut  *)
(* line hides them or right behind a rotation; and when every timed probe    *)
(* ends before the next tick, a tick that is overtaken waits for the         *)
(* acquisition ledger, only such a one makes the live file go back, and none *)
(* shows more than the agent that writes it knows.                          *)
THEOREM DashboardHolds == ProbesEndInTime => (ObservatorySpec => DashboardIsTrue)
<1> SUFFICES ASSUME ProbesEndInTime PROVE ObservatorySpec => DashboardIsTrue
  OBVIOUS
<1> DEFINE Inv == LedgerInv /\ LiveInv
           Waits == \A i \in DOMAIN ticks : i < Len(ticks) => ticks[i].asked \subseteq {"acquire"}
           Moves == /\ LedgerKeepsNewest'
                    /\ \A i \in DOMAIN ticks' : i < Len(ticks') => ticks'[i].asked \subseteq {"acquire"}
                    /\ live' # live =>
                         /\ live'.start >= live.start \/ clock >= live'.start + Poll
                         /\ live'.view.treasury <= mind.treasury
<1>1. LedgerInit /\ LiveInit => Inv
  BY LedgerStart, LiveStart
<1>2. ASSUME Inv, [ObservatoryNext]_<<ledgerVars_, liveVars>>
      PROVE  Inv' /\ LiveMoves
  <2>1. LedgerInv'
    BY <1>2, LedgerStep DEF ObservatoryNext
  <2>2. CASE LiveNext
    BY <1>2, <2>1, <2>2, LiveStep
  <2>3. CASE UNCHANGED liveVars
    <3>1. UNCHANGED <<clock, nextTick, mind, ticks, live>>
      BY <2>3 DEF liveVars
    <3>2. LiveInv'
      BY <1>2, <3>1 DEF LiveInv, UnderWay, Overtaken
    <3> QED
      BY <2>1, <3>1, <3>2 DEF LiveMoves
  <2> QED
    BY <1>2, <2>2, <2>3 DEF ObservatoryNext
<1>3. Inv' => LedgerKeepsNewest'
  BY LedgerShows, PTL
<1>4. LiveInv => Waits
  <2> SUFFICES ASSUME LiveInv, NEW i \in DOMAIN ticks, i < Len(ticks)
               PROVE  ticks[i].asked \subseteq {"acquire"}
    OBVIOUS
  <2>1. ticks \in Seq(Ticks_) /\ i \in 1 .. Len(ticks) /\ Len(ticks) \in 1 .. Len(ticks)
    BY DEF LiveInv
  <2> QED
    BY <2>1 DEF LiveInv, Overtaken
<1>5. Inv' => Waits'
  BY <1>4, PTL
<1>6. Inv /\ [ObservatoryNext]_<<ledgerVars_, liveVars>> => Inv' /\ Moves
  BY <1>2, <1>3, <1>5 DEF LiveMoves
<1> HIDE DEF Inv, Moves
<1>7. Inv /\ [ObservatoryNext]_<<ledgerVars_, liveVars>> => [Moves]_<<ledgerVars_, liveVars>>
  BY <1>6
<1>8. ObservatorySpec => [][Moves]_<<ledgerVars_, liveVars>>
  BY <1>1, <1>6, <1>7, PTL DEF ObservatorySpec
<1> QED
  BY <1>8 DEF Moves, DashboardIsTrue

=============================================================================
