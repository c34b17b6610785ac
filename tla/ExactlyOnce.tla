----------------------------- MODULE ExactlyOnce -----------------------------
(***************************************************************************)
(* The exactly-once guard of dsh-exactly-once: a wrapper around the tool   *)
(* pipeline that deduplicates redeliveries of one model call, replays      *)
(* settled results, and asks a tool's read-back hook before an exact       *)
(* repeat of a call whose last outcome was an error.                       *)
(*                                                                         *)
(* The program is single-threaded JavaScript: one action is the code of    *)
(* `wrap` between two awaits.  A dispatch is one activation of `wrap`, and *)
(* the state of the activation (its locals and where it waits) is pc[d]    *)
(* and the variables after it.                                             *)
(* The tool bodies, the hooks, the agent loop that dispatches calls and    *)
(* the session log it keeps are outside the guard; they are modelled here  *)
(* as the environment that drives it.                                      *)
(***************************************************************************)
EXTENDS Naturals, FiniteSets

CONSTANTS
  Agents,      \* agent scopes (the objects agentPart tags)
  Tools,       \* tool names
  Args,        \* canonical argument values
  Calls,       \* model call blocks: (agent, rootCallId, callId)
  IdentityOf,  \* the agent, tool and canonical arguments of each call block
  Writes,      \* tools selected by the `writes` patterns
  Exempt,      \* tools selected by the `exempt` patterns
  Checkable,   \* tools for which some plugin registers a read-back hook
  Dispatches,  \* activations of wrap (the bound of a run)
  None         \* no entry in a map

Identities == [agent : Agents, tool : Tools, args : Args]

ASSUME CallsAssumption == IdentityOf \in [Calls -> Identities]
ASSUME ToolsAssumption == Checkable \subseteq Tools /\ Writes \subseteq Tools

VARIABLES
  checks,     \* tools whose hook is registered
  inFlight,   \* call -> the dispatch whose attempt promise is registered
  settled,    \* call -> recorded result
  outcomes,   \* identity -> last outcome seen by this process
  attempt,    \* dispatch -> what its attempt promise settled with, or None
  pc,         \* dispatch -> where its wrap activation is
  call,       \* dispatch -> the call block it delivers
  leader,     \* dispatch -> the dispatch whose attempt it awaits (itself if none)
  consulted,  \* dispatches that asked a hook
  ran,        \* dispatches whose body was started
  out,        \* dispatch -> what wrap returned or threw
  committed,  \* dispatches whose body's effect has happened (environment)
  ledger,     \* identity -> last outcome folded from the session log
  retired,    \* calls of earlier processes, closed by repair
  forgiven    \* history: dispatches ended before a user message to their agent

guardVars == <<inFlight, settled, outcomes, attempt>>
wrapVars == <<pc, call, leader, consulted, ran, out>>
envVars == <<committed, ledger, retired, forgiven>>
vars == <<checks, guardVars, wrapVars, envVars>>

-----------------------------------------------------------------------------
(* Results and outcomes.  `from` names the dispatch that produced a result, *)
(* so that two results are equal only when one is a replay of the other.    *)

Kinds == {"ok", "denied", "ambiguous", "threw"}
Outcome == [kind : Kinds, from : Dispatches]
Result == {o \in Outcome : o.kind # "threw"}
Evidence == {"none", "ok", "err"}

ASSUME NoneAssumption == None \notin Dispatches \cup Calls \cup Outcome

EvidenceOf(kind) == IF kind = "ok" THEN "ok" ELSE "err"

(* Results whose effect may still happen: maybeStamp marks them.  An        *)
(* unclassified throw counts as one.                                        *)
EffectUnknown == {"ambiguous", "threw"}

PcValues == {"idle", "attached", "hook", "body", "returned", "recorded", "lost"}
Running == {"attached", "hook", "body"}
Ended == {"returned", "recorded", "lost"}

IsWrite(t) == t \in Writes \ Exempt

Guarded(c) == IsWrite(IdentityOf[c].tool)

DispatchesOf(c) == {d \in Dispatches : call[d] = c}

DispatchesAs(i) ==
  {d \in Dispatches : call[d] # None /\ IdentityOf[call[d]] = i}

(* Mutant: the session log is not consulted after a restart.                *)
LastIsErrorWarm(i) == outcomes[i] = "err"

(* `outcomes.get(identity) ?? cold?.lastByIdentity.get(identity)`.  The     *)
(* memo of the cold index is keyed by the session's seq, which every append *)
(* advances, so a lookup always sees the fold of the current log.           *)
LastIsError(i) ==
  IF outcomes[i] # "none" THEN outcomes[i] = "err" ELSE ledger[i] = "err"

TypeOK ==
  /\ checks \in SUBSET Tools
  /\ inFlight \in [Calls -> Dispatches \cup {None}]
  /\ settled \in [Calls -> Result \cup {None}]
  /\ outcomes \in [Identities -> Evidence]
  /\ attempt \in [Dispatches -> Outcome \cup {None}]
  /\ pc \in [Dispatches -> PcValues]
  /\ call \in [Dispatches -> Calls \cup {None}]
  /\ leader \in [Dispatches -> Dispatches]
  /\ consulted \in SUBSET Dispatches
  /\ ran \in SUBSET Dispatches
  /\ out \in [Dispatches -> Outcome \cup {None}]
  /\ committed \in SUBSET Dispatches
  /\ ledger \in [Identities -> Evidence]
  /\ retired \in SUBSET Calls
  /\ forgiven \in SUBSET Dispatches

Init ==
  /\ checks = {}
  /\ inFlight = [c \in Calls |-> None]
  /\ settled = [c \in Calls |-> None]
  /\ outcomes = [i \in Identities |-> "none"]
  /\ attempt = [d \in Dispatches |-> None]
  /\ pc = [d \in Dispatches |-> "idle"]
  /\ call = [d \in Dispatches |-> None]
  /\ leader = [d \in Dispatches |-> d]
  /\ consulted = {}
  /\ ran = {}
  /\ out = [d \in Dispatches |-> None]
  /\ committed = {}
  /\ ledger = [i \in Identities |-> "none"]
  /\ retired = {}
  /\ forgiven = {}

-----------------------------------------------------------------------------
(* The registry of hooks and the user-message reset.                        *)

RegisterCheck(t) ==
  /\ t \in Checkable \ checks
  /\ checks' = checks \cup {t}
  /\ UNCHANGED <<guardVars, wrapVars, envVars>>

UnregisterCheck(t) ==
  /\ t \in checks
  /\ checks' = checks \ {t}
  /\ UNCHANGED <<guardVars, wrapVars, envVars>>

(* agent/pre-step with a user message: the agent's repeat chains are        *)
(* forgotten; call records stay.                                            *)
ResetAgent(a) ==
  /\ outcomes' = [i \in Identities |-> IF i.agent = a THEN "none" ELSE outcomes[i]]
  /\ forgiven' = forgiven \cup
       {d \in Dispatches : pc[d] \in Ended /\ IdentityOf[call[d]].agent = a}
  /\ UNCHANGED <<checks, inFlight, settled, attempt, wrapVars, committed, ledger, retired>>

-----------------------------------------------------------------------------
(* wrap, first segment: up to the first await.  The agent loop dispatches   *)
(* a call for the first time, or delivers it again.                         *)

Enters(d, c) ==
  /\ pc[d] = "idle"
  /\ c \notin retired
  /\ call' = [call EXCEPT ![d] = c]

RunBody(d) ==
  /\ pc' = [pc EXCEPT ![d] = "body"]
  /\ ran' = ran \cup {d}
  /\ UNCHANGED <<checks, leader, out, envVars>>

Returns(d, o) ==
  /\ pc' = [pc EXCEPT ![d] = "returned"]
  /\ out' = [out EXCEPT ![d] = o]
  /\ UNCHANGED <<checks, leader, consulted, ran, envVars>>

PassThrough(d, c) ==
  /\ Enters(d, c)
  /\ ~Guarded(c)
  /\ RunBody(d)
  /\ UNCHANGED <<guardVars, consulted>>

Attach(d, c) ==
  /\ Enters(d, c)
  /\ Guarded(c)
  /\ inFlight[c] # None
  /\ pc' = [pc EXCEPT ![d] = "attached"]
  /\ leader' = [leader EXCEPT ![d] = inFlight[c]]
  /\ UNCHANGED <<checks, guardVars, consulted, ran, out, envVars>>

Replay(d, c) ==
  /\ Enters(d, c)
  /\ Guarded(c)
  /\ inFlight[c] = None
  /\ settled[c] # None
  /\ Returns(d, settled[c])
  /\ UNCHANGED guardVars

(* Mutant: the recorded result is not looked up.                            *)
FreshUnrecorded(d, c) ==
  /\ Enters(d, c)
  /\ Guarded(c)
  /\ inFlight[c] = None

Fresh(d, c) ==
  /\ Enters(d, c)
  /\ Guarded(c)
  /\ inFlight[c] = None
  /\ settled[c] = None

(* The last outcome of the exact call is an error and its tool has a hook.  *)
MustConsult(c) ==
  /\ LastIsError(IdentityOf[c])
  /\ IdentityOf[c].tool \in checks

Consult(d, c) ==
  /\ Fresh(d, c)
  /\ MustConsult(c)
  /\ pc' = [pc EXCEPT ![d] = "hook"]
  /\ consulted' = consulted \cup {d}
  /\ UNCHANGED <<checks, guardVars, leader, ran, out, envVars>>

(* Mutant: the attempt is not registered before the body runs.              *)
BeginAttemptUnregistered(d, c) ==
  /\ RunBody(d)
  /\ UNCHANGED <<guardVars, consulted>>

(* The attempt promise is registered and the rest of the pipeline runs.     *)
BeginAttempt(d, c) ==
  /\ inFlight' = [inFlight EXCEPT ![c] = d]
  /\ RunBody(d)
  /\ UNCHANGED <<settled, outcomes, attempt, consulted>>

Start(d, c) ==
  /\ Fresh(d, c)
  /\ ~MustConsult(c)
  /\ BeginAttempt(d, c)

-----------------------------------------------------------------------------
(* wrap, after the hook's answer.                                           *)

(* What the tool's read-back hook can see: some attempt at this exact call  *)
(* took effect.                                                             *)
CommittedAs(i) == \E e \in DispatchesAs(i) : e \in committed

(* Mutant: any answer of the hook is taken for a committed effect.          *)
HookReplaysUnverified(d) ==
  /\ pc[d] = "hook"
  /\ LET c == call[d]
         r == [kind |-> "ok", from |-> d]
     IN /\ settled' = [settled EXCEPT ![c] = r]
        /\ outcomes' = [outcomes EXCEPT ![IdentityOf[c]] = "ok"]
        /\ Returns(d, r)
  /\ UNCHANGED <<inFlight, attempt, call>>

HookReplays(d) ==
  /\ pc[d] = "hook"
  /\ CommittedAs(IdentityOf[call[d]])
  /\ LET c == call[d]
         r == [kind |-> "ok", from |-> d]
     IN /\ settled' = [settled EXCEPT ![c] = r]
        /\ outcomes' = [outcomes EXCEPT ![IdentityOf[c]] = "ok"]
        /\ Returns(d, r)
  /\ UNCHANGED <<inFlight, attempt, call>>

(* 'proceed' and 'unknown' are one: liveness wins.                          *)
HookProceeds(d) ==
  /\ pc[d] = "hook"
  /\ BeginAttempt(d, call[d])
  /\ UNCHANGED call

HookFails(d) ==
  /\ pc[d] = "hook"
  /\ Returns(d, [kind |-> "threw", from |-> d])
  /\ UNCHANGED <<guardVars, call>>

-----------------------------------------------------------------------------
(* The tool body and wrap after it.                                         *)

(* The effect of a body happens while the body runs or, when the caller was *)
(* told nothing certain (timeout, abort, throw, crash), at any later time.  *)
Commit(d) ==
  /\ d \in ran \ committed
  /\ \/ pc[d] \in {"body", "lost"}
     \/ out[d] # None /\ out[d].kind \in EffectUnknown
  /\ committed' = committed \cup {d}
  /\ UNCHANGED <<checks, guardVars, wrapVars, ledger, retired, forgiven>>

(* A success reports an effect that happened, a classified error one that   *)
(* did not; an ambiguous error and a throw tell nothing.                    *)
BodyMayEnd(d, kind) ==
  /\ pc[d] = "body"
  /\ kind = "ok" => d \in committed
  /\ kind = "denied" => d \notin committed

PassReturns(d, kind) ==
  /\ BodyMayEnd(d, kind)
  /\ ~Guarded(call[d])
  /\ Returns(d, [kind |-> kind, from |-> d])
  /\ UNCHANGED <<guardVars, call>>

(* Mutant: a throw does not settle the promise others await.                *)
EndAttemptSilently(d, o) ==
  /\ outcomes' = [outcomes EXCEPT ![IdentityOf[call[d]]] = EvidenceOf(o.kind)]
  /\ attempt' = IF o.kind = "threw" THEN attempt ELSE [attempt EXCEPT ![d] = o]
  /\ inFlight' = [inFlight EXCEPT ![call[d]] = None]
  /\ Returns(d, o)
  /\ UNCHANGED call

(* Both ends of the attempt: the last outcome, the promise and the registry.*)
EndAttempt(d, o) ==
  /\ outcomes' = [outcomes EXCEPT ![IdentityOf[call[d]]] = EvidenceOf(o.kind)]
  /\ attempt' = [attempt EXCEPT ![d] = o]
  /\ inFlight' = [inFlight EXCEPT ![call[d]] = None]
  /\ Returns(d, o)
  /\ UNCHANGED call

(* Mutant: the result of the body is not recorded.                          *)
BodyReturnsUnrecorded(d, kind) ==
  /\ kind # "threw"
  /\ BodyMayEnd(d, kind)
  /\ Guarded(call[d])
  /\ EndAttempt(d, [kind |-> kind, from |-> d])
  /\ UNCHANGED settled

BodyReturns(d, kind) ==
  /\ kind # "threw"
  /\ BodyMayEnd(d, kind)
  /\ Guarded(call[d])
  /\ settled' = [settled EXCEPT ![call[d]] = [kind |-> kind, from |-> d]]
  /\ EndAttempt(d, [kind |-> kind, from |-> d])

BodyThrows(d) ==
  /\ BodyMayEnd(d, "threw")
  /\ Guarded(call[d])
  /\ EndAttempt(d, [kind |-> "threw", from |-> d])
  /\ UNCHANGED settled

(* A redelivery that attached ends when the attempt it awaits is settled.   *)
Follow(d) ==
  /\ pc[d] = "attached"
  /\ attempt[leader[d]] # None
  /\ Returns(d, attempt[leader[d]])
  /\ UNCHANGED <<guardVars, call>>

-----------------------------------------------------------------------------
(* The agent loop's session log, and a crash of the process.                *)

(* The loop appends the tool/result event of a returned dispatch; the cold  *)
(* index reads the identity's last outcome off it.                          *)
RecordResult(d) ==
  /\ pc[d] = "returned"
  /\ ledger' = [ledger EXCEPT ![IdentityOf[call[d]]] = EvidenceOf(out[d].kind)]
  /\ pc' = [pc EXCEPT ![d] = "recorded"]
  /\ UNCHANGED <<checks, guardVars, call, leader, consulted, ran, out,
                 committed, retired, forgiven>>

Dispatched(c) == DispatchesOf(c) # {}

(* tool/call without a tool/result: repair closes it with a synthetic error.*)
Dangling(c) ==
  /\ c \notin retired
  /\ Dispatched(c)
  /\ \A d \in DispatchesOf(c) : pc[d] # "recorded"

(* A crash loses every map of the guard.  On resume the harness closes the  *)
(* dangling calls and never dispatches a call of the old process again.     *)
Restart ==
  /\ \E c \in Calls \ retired : Dispatched(c)
  /\ checks' = {}
  /\ inFlight' = [c \in Calls |-> None]
  /\ settled' = [c \in Calls |-> None]
  /\ outcomes' = [i \in Identities |-> "none"]
  /\ attempt' = [d \in Dispatches |-> None]
  /\ pc' = [d \in Dispatches |->
              IF pc[d] \in Running \cup {"returned"} THEN "lost" ELSE pc[d]]
  /\ ledger' = [i \in Identities |->
                  IF \E c \in Calls : Dangling(c) /\ IdentityOf[c] = i
                  THEN "err" ELSE ledger[i]]
  /\ retired' = retired \cup {c \in Calls : Dispatched(c)}
  /\ UNCHANGED <<call, leader, consulted, ran, out, committed, forgiven>>

-----------------------------------------------------------------------------
Enter(d, c) ==
  \/ PassThrough(d, c)
  \/ Attach(d, c)
  \/ Replay(d, c)
  \/ Consult(d, c)
  \/ Start(d, c)

HookAnswers(d) == HookReplays(d) \/ HookProceeds(d) \/ HookFails(d)

BodyEnds(d) ==
  \/ \E kind \in Kinds : PassReturns(d, kind)
  \/ \E kind \in Kinds : BodyReturns(d, kind)
  \/ BodyThrows(d)

Next ==
  \/ \E t \in Tools : RegisterCheck(t)
  \/ \E t \in Tools : UnregisterCheck(t)
  \/ \E a \in Agents : ResetAgent(a)
  \/ \E d \in Dispatches, c \in Calls : Enter(d, c)
  \/ \E d \in Dispatches : HookAnswers(d)
  \/ \E d \in Dispatches : Commit(d)
  \/ \E d \in Dispatches : BodyEnds(d)
  \/ \E d \in Dispatches : Follow(d)
  \/ \E d \in Dispatches : RecordResult(d)
  \/ Restart

Spec == Init /\ [][Next]_vars

(* A hook and a body come to an end (the timeout policy bounds the body, a  *)
(* hook is a bounded number of chain or store reads), and a settled promise *)
(* wakes those who await it.                                                *)
Fairness ==
  \A d \in Dispatches :
    /\ WF_vars(HookAnswers(d))
    /\ WF_vars(BodyEnds(d))
    /\ WF_vars(Follow(d))

FairSpec == Spec /\ Fairness

-----------------------------------------------------------------------------
(* Properties.                                                              *)

BodyRunning(d) == pc[d] = "body"

Consulted(c) == DispatchesOf(c) \cap consulted # {}

(* A guarded call whose redeliveries never waited on a hook has at most one *)
(* body running, that body is the registered attempt, and no body runs once *)
(* a result is recorded: guard.ts registers the attempt in the same segment *)
(* that found the call unknown.                                             *)
OnceUnlessHooked ==
  \A c \in Calls : Guarded(c) /\ ~Consulted(c) =>
    /\ \A d \in DispatchesOf(c) : BodyRunning(d) => inFlight[c] = d
    /\ \A d \in DispatchesOf(c) : BodyRunning(d) => settled[c] = None

GotResult(d) == out[d] # None /\ out[d].kind # "threw"

(* Every delivery of one guarded call that got a result got the same one,   *)
(* whether it ran the body, attached to it or came after it (a body that    *)
(* threw leaves no result, and a call that waited on a hook is excluded).   *)
RepliesAgree ==
  \A c \in Calls : Guarded(c) /\ ~Consulted(c) =>
    \A d, e \in {f \in DispatchesOf(c) : GotResult(f)} : out[d] = out[e]

(* A delivery told "success", by the body, by attachment, by replay or by a *)
(* hook's verdict, stands for an effect of that exact call that happened,   *)
(* crashes and late effects included.                                       *)
SuccessMeansCommitted ==
  \A d \in Dispatches :
    out[d] # None /\ out[d].kind = "ok"
      => CommittedAs(IdentityOf[call[d]])

Failed(e) ==
  \/ pc[e] = "lost"
  \/ pc[e] \in {"returned", "recorded"} /\ out[e].kind # "ok"

(* An exact call some attempt of which failed or was cut off by a crash     *)
(* since the user last spoke, and none of which ever succeeded.             *)
Unresolved(i) ==
  /\ \E e \in DispatchesAs(i) \ forgiven :
        /\ e \in ran
        /\ Failed(e)
  /\ \A e \in DispatchesAs(i) : out[e] = None \/ out[e].kind # "ok"

(* While a hook is registered, the body of an unresolved exact call never   *)
(* starts without that hook having been asked first, in this process or     *)
(* after a restart that left only the session log.                          *)
NoBlindRepeat ==
  [][\A d \in Dispatches, c \in Calls :
       Start(d, c) /\ IdentityOf[c].tool \in checks => ~Unresolved(IdentityOf[c])]_vars

(* Every dispatch returns or is cut off by a crash: no redelivery is left   *)
(* waiting on an attempt nobody settles.                                    *)
EveryDispatchReturns ==
  \A d \in Dispatches :
    pc[d] \in Running ~> pc[d] \in Ended

(* Guarded calls as the abstract specification sees them.                   *)
GuardedCalls == {c \in Calls : Guarded(c)}

PhaseOf(c) ==
  IF c \in retired THEN "closed"
  ELSE IF settled[c] # None THEN "done"
  ELSE IF inFlight[c] # None THEN "running"
  ELSE "new"

PhaseMap == [c \in GuardedCalls |-> PhaseOf(c)]
AnswerMap == [c \in GuardedCalls |-> settled[c]]
ToldMap ==
  [d \in Dispatches |-> IF call[d] \in GuardedCalls THEN out[d] ELSE None]

Promise == INSTANCE CallOnce WITH
  Calls <- GuardedCalls,
  Deliveries <- Dispatches,
  Outcomes <- Outcome,
  Failures <- Outcome \ Result,
  phase <- PhaseMap,
  answer <- AnswerMap,
  told <- ToldMap

(* With no hook registered the guard implements CallOnce: at most one body  *)
(* of a call runs, none once it is settled, and every delivery is told the  *)
(* one result or the failure of the attempt it followed (guard.ts wrap).    *)
ImplementsCallOnce == Promise!Spec

(* Claim of guard.ts:9-12: "A repeat of an in-flight call attaches to it;   *)
(* ... The tool body runs once": two bodies of one call never overlap.      *)
(* (It does not hold: README, Divergences.)                                 *)
BodiesNeverOverlap ==
  \A c \in Calls : Guarded(c) =>
    \A d, e \in DispatchesOf(c) : BodyRunning(d) /\ BodyRunning(e) => d = e

=============================================================================
