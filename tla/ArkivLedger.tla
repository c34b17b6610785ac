----------------------------- MODULE ArkivLedger -----------------------------
(***************************************************************************)
(* The Arkiv catalog (dsh-arkiv): records are created one at a time or in   *)
(* one transaction for many, and rewritten; the process keeps the promise   *)
(* of every attempt by its content, so that a repeat joins it or gets its   *)
(* result, and drops it when it fails.  Before a repeat is dispatched the   *)
(* guard asks whether the attempt is known or can be found on the chain.    *)
(*                                                                         *)
(* A call is one tool call; a content is a record that is valid, with its   *)
(* attributes (HavenRecord says which are).  What the guard does with a     *)
(* call that is not replayed is its own business: it may run it or not.     *)
(***************************************************************************)
EXTENDS Naturals, Sequences, FiniteSets

CONSTANTS
  Calls,       \* the tool calls, numbered from 1
  Jobs,        \* what a call may ask: see JobsAssumption
  MaxMishaps   \* bound on lost answers, refusals, failing queries and crashes

(* A job creates its contents, in order, or rewrites one entity.            *)
ASSUME CallsAssumption == Calls \subseteq Nat \ {0} /\ IsFiniteSet(Calls)
ASSUME JobsAssumption == \A j \in Jobs :
  /\ j.op \in {"create", "update"}
  /\ Len(j.contents) \in Nat \ {0} /\ DOMAIN j.contents = 1..Len(j.contents)
  /\ j.op = "update" => j.entity \in Nat \ {0} /\ Len(j.contents) = 1
ASSUME MishapsAssumption == MaxMishaps \in Nat

VARIABLES
  chain,       \* the entities: the contents each has had, and the one it has
  call,        \* the calls
  promises,    \* creates, updates and batches: job -> the call whose attempt is kept
  mishaps      \* history: lost answers, refusals, failing queries and crashes

arkivVars == <<chain, call, promises, mishaps>>

NoCall == 0
NoJob == [op |-> "none", contents |-> <<>>, entity |-> 0]
Unused == [job |-> NoJob, at |-> "new", of |-> NoCall, result |-> <<>>, again |-> FALSE,
           there |-> FALSE]

(* A call without an answer: one that failed is not told from another.      *)
Clear(c, at) ==
  IF at = "failed" THEN [Unused EXCEPT !.at = at]
  ELSE [call[c] EXCEPT !.at = at, !.of = NoCall, !.result = <<>>]
Creates(c) == call[c].job.op = "create"
Mishap == mishaps < MaxMishaps /\ mishaps' = mishaps + 1
(* Entities with a content (findCommitted: by attributes, then payload).    *)
Holding(x) == {i \in DOMAIN chain : chain[i].now = x}
AllThere(job) == \A k \in DOMAIN job.contents : Holding(job.contents[k]) # {}

(* Mutant: an attempt that has succeeded is not kept.                       *)
KeptWhileRunning(c) ==
  LET prior == promises[call[c].job] IN prior # NoCall /\ call[prior].at # "returned"

Kept(c) == promises[call[c].job] # NoCall


-----------------------------------------------------------------------------
ArkivInit ==
  /\ chain = <<>> /\ call = [c \in Calls |-> Unused]
  /\ promises = [j \in Jobs |-> NoCall] /\ mishaps = 0

(* A tool call: a first one runs, a repeat is asked about first.  A record  *)
(* that does not validate is neither kept nor sent.  History: whether the   *)
(* chain has what a repeat asks about.                                      *)
Ask(c, jobs) ==
  /\ call[c].at = "new" /\ \A d \in Calls : d < c => call[d].at # "new"
  /\ \E job \in jobs, stage \in {"run", "check", "failed"} :
       /\ call' = [call EXCEPT ![c] = [Unused EXCEPT
         !.job = job, !.at = stage, !.again = stage = "check",
         !.there = stage = "check" /\ job.op = "create" /\ AllThere(job)]]
  /\ UNCHANGED <<chain, promises, mishaps>>

AskCreate(c) == Ask(c, {j \in Jobs : j.op = "create" /\ Len(j.contents) = 1})
AskBatch(c) == Ask(c, {j \in Jobs : j.op = "create" /\ Len(j.contents) > 1})
AskUpdate(c) == Ask(c, {j \in Jobs : j.op = "update" /\ j.entity \in DOMAIN chain})

(* The kept attempt of c's job has a result, or c waits for it at stage.    *)
Attach(c, stage) ==
  LET prior == promises[call[c].job]
      done == call[prior].at = "returned"
  IN
  call' = [call EXCEPT ![c] = [call[c] EXCEPT
    !.at = IF done THEN "returned" ELSE stage,
    !.there = FALSE, !.again = @ /\ ~done,
    !.of = IF done THEN NoCall ELSE prior, !.result = IF done THEN call[prior].result ELSE @]]

-----------------------------------------------------------------------------
(* The guard's question: checkCreate, checkUpdate and checkBatch.           *)

CheckKept(c) ==
  /\ call[c].at = "check" /\ Kept(c)
  /\ Attach(c, "awaits")
  /\ UNCHANGED <<chain, promises, mishaps>>

Finding(c) ==
  \/ call[c].at = "check" /\ ~Kept(c)
  \/ call[c].at = "finding"

(* Mutant: a batch is found when its first record is.                       *)
SoughtFirst(c) == call[c].job.contents[1]

Sought(c) == call[c].job.contents[Len(call[c].result) + 1]

(* No attempt is kept: the chain is asked for one record after the other.   *)
CheckFinds(c) ==
  /\ Finding(c) /\ Creates(c)
  /\ \E i \in Holding(Sought(c)) :
       call' = [call EXCEPT ![c] = [call[c] EXCEPT !.result = Append(@, i),
         !.at = IF Len(call[c].result) + 1 = Len(call[c].job.contents) THEN "found" ELSE "finding"]]
  /\ UNCHANGED <<chain, promises, mishaps>>

(* The guard runs a repeat it has no answer for, or refuses it.             *)
Undecided == {"run", "failed"}

(* The chain has not one of them, or an update is asked about: unknown.     *)
CheckUnknown(c) ==
  /\ Finding(c)
  /\ Creates(c) => Holding(Sought(c)) = {}
  /\ \E at \in Undecided : call' = [call EXCEPT ![c] = Clear(c, at)]
  /\ UNCHANGED <<chain, promises, mishaps>>

(* It does not answer.                                                      *)
CheckFails(c) ==
  /\ Finding(c) /\ Creates(c) /\ Mishap
  /\ \E at \in Undecided : call' = [call EXCEPT ![c] = [Clear(c, at) EXCEPT !.there = FALSE]]
  /\ UNCHANGED <<chain, promises>>

-----------------------------------------------------------------------------
(* createEntity, createEntities and updateEntity.                           *)

Joins(c) ==
  /\ call[c].at = "run" /\ Kept(c)
  /\ Attach(c, "joined")
  /\ UNCHANGED <<chain, promises, mishaps>>

Sends(c) ==
  /\ call[c].at = "run" /\ ~Kept(c)
  /\ call' = [call EXCEPT ![c].at = "sent"]
  /\ promises' = [promises EXCEPT ![call[c].job] = c]
  /\ UNCHANGED <<chain, mishaps>>

(* The transaction takes effect, whole; nobody may wait for it any more.    *)
(* History: an update may take away what a repeat was found to ask about.   *)
Lands(c) ==
  LET job == call[c].job
      made == [k \in DOMAIN job.contents |->
                 [had |-> {job.contents[k]}, now |-> job.contents[k]]]
      ids == IF Creates(c) THEN [k \in DOMAIN made |-> Len(chain) + k] ELSE <<>>
      landed == IF call[c].at = "adrift" THEN Clear(c, "failed")
                ELSE [call[c] EXCEPT !.at = "landed", !.result = ids]
  IN
  /\ call[c].at \in {"sent", "adrift"}
  /\ \/ /\ Creates(c)
        /\ chain' = chain \o made
        /\ call' = [call EXCEPT ![c] = landed]
     \/ /\ ~Creates(c)
        /\ chain' = [chain EXCEPT ![job.entity] =
             [had |-> @.had \cup {job.contents[1]}, now |-> job.contents[1]]]
        /\ call' = [d \in Calls |-> IF d = c THEN landed ELSE [call[d] EXCEPT !.there = FALSE]]
  /\ UNCHANGED <<promises, mishaps>>

(* The receipt arrives: all who wait for the attempt have its result.       *)
Answers(c) ==
  /\ call[c].at = "landed"
  /\ call' = [d \in Calls |->
       IF d = c \/ call[d].of = c
       THEN [call[d] EXCEPT !.at = "returned", !.of = NoCall, !.again = FALSE,
                            !.result = call[c].result]
       ELSE call[d]]
  /\ UNCHANGED <<chain, promises, mishaps>>

(* The attempt fails: it is refused, its receipt is lost, or waiting for    *)
(* it ends before it lands.  It is dropped; who joined it fails, and who    *)
(* asked about it learns nothing.                                           *)
Fails(c) ==
  /\ Mishap
  /\ call[c].at \in {"sent", "landed"}
  /\ \E end \in {"failed", "adrift"}, at \in [Calls -> Undecided] :
       /\ end = "adrift" => call[c].at = "sent"
       /\ \A d \in Calls : at[d] = "run" => call[d].at = "awaits" /\ call[d].of = c
       /\ call' = [d \in Calls |->
            IF d = c THEN Clear(c, end) ELSE IF call[d].of = c THEN Clear(d, at[d]) ELSE call[d]]
  /\ promises' = [promises EXCEPT ![call[c].job] = IF @ = c THEN NoCall ELSE @]
  /\ UNCHANGED chain

-----------------------------------------------------------------------------
(* The process ends; what it has sent may still take effect.                *)
ArkivCrash ==
  /\ Mishap
  /\ promises' = [j \in Jobs |-> NoCall]
  /\ call' = [c \in Calls |->
       CASE call[c].at = "new" -> call[c]
         [] call[c].at \in {"sent", "adrift"} -> [call[c] EXCEPT !.at = "adrift"]
         [] OTHER -> Clear(c, "failed")]
  /\ UNCHANGED chain

ArkivNext ==
  \/ \E c \in Calls :
       \/ AskCreate(c) \/ AskBatch(c) \/ AskUpdate(c) \/ CheckKept(c) \/ CheckFinds(c) \/ CheckUnknown(c) \/ CheckFails(c)
       \/ Joins(c) \/ Sends(c) \/ Lands(c) \/ Answers(c) \/ Fails(c)
  \/ ArkivCrash

ArkivSpec == ArkivInit /\ [][ArkivNext]_arkivVars

-----------------------------------------------------------------------------
(* Every part has its type; an entity has had the content it has.           *)
ArkivTypeOK ==
  /\ \A i \in DOMAIN chain : chain[i].now \in chain[i].had
  /\ promises \in [Jobs -> Calls \cup {NoCall}]
  /\ \A c \in Calls : call[c].job \in Jobs \cup {NoJob} /\ call[c].of \in Calls \cup {NoCall}
  /\ mishaps \in 0..MaxMishaps

(* A create is sent once: not while the same attempt is under way, not when *)
(* one has succeeded in this process, and not by a repeat when the chain    *)
(* had every record as it asked and could answer (dsh-arkiv createEntity,   *)
(* createEntities, checkCreate and checkBatch).                             *)
NotCreatedAgain ==
  \A c \in Calls : call[c].at = "sent" /\ Creates(c) =>
    /\ ~call[c].there
    /\ \A d \in Calls \ {c} : call[d].job = call[c].job => call[d].at \notin {"sent", "landed", "returned"}

(* A call that has a result, of its own, joined or found, has one entity    *)
(* for each of its records, in order, that has had that record's content;    *)
(* so has the entity of an update that has one.                              *)
ResultsExist ==
  \A c \in Calls : call[c].at \in {"returned", "found"} =>
    IF Creates(c)
    THEN /\ Len(call[c].result) = Len(call[c].job.contents)
         /\ \A k \in DOMAIN call[c].result : call[c].job.contents[k] \in chain[call[c].result[k]].had
    ELSE call[c].job.contents[1] \in chain[call[c].job.entity].had

(* Every record of a call that succeeded is on the chain, and by one attempt *)
(* where the chain could tell (dsh-arkiv createEntity, updateEntity).        *)
OneEntityPerRecord == NotCreatedAgain /\ ResultsExist

(* An update that is answered with the result of an earlier one, while no   *)
(* update is under way, leaves the entity with the content it was given.    *)
(* (It does not hold: README, Divergences.)                                 *)
UpdateTakesEffect ==
  [][\A c \in Calls :
       /\ call[c].at = "run" /\ call'[c].at = "returned" /\ ~Creates(c)
       /\ \A d \in Calls : ~Creates(d) => call[d].at \notin {"sent", "landed", "adrift"}
       => chain[call[c].job.entity].now = call[c].job.contents[1]]_arkivVars
=============================================================================
