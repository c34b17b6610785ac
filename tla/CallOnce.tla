------------------------------- MODULE CallOnce -------------------------------
(***************************************************************************)
(* What the exactly-once guard promises for a model call that no hook has  *)
(* to decide about: one body at a time, no body after a result, one result *)
(* for every delivery, nothing again after the process that knew the call  *)
(* is gone.  A body that throws leaves the call as it found it.            *)
(***************************************************************************)
CONSTANTS Calls, Deliveries, Outcomes, Failures, None

VARIABLES
  phase,   \* call -> "new", "running", "done" or "closed"
  answer,  \* call -> its one result
  told     \* delivery -> what it was answered

vars == <<phase, answer, told>>

Init ==
  /\ phase = [c \in Calls |-> "new"]
  /\ answer = [c \in Calls |-> None]
  /\ told = [d \in Deliveries |-> None]

Answer(d, o) ==
  /\ told[d] = None
  /\ told' = [told EXCEPT ![d] = o]

Run(c) ==
  /\ phase[c] = "new"
  /\ phase' = [phase EXCEPT ![c] = "running"]
  /\ UNCHANGED <<answer, told>>

Finish(c, d, r) ==
  /\ phase[c] = "running"
  /\ phase' = [phase EXCEPT ![c] = "done"]
  /\ answer' = [answer EXCEPT ![c] = r]
  /\ Answer(d, r)

Fail(c, d, f) ==
  /\ phase[c] = "running"
  /\ phase' = [phase EXCEPT ![c] = "new"]
  /\ Answer(d, f)
  /\ UNCHANGED answer

(* A redelivery learns the call's result, or that the attempt it followed   *)
(* failed.                                                                  *)
Tell(d) ==
  /\ \/ \E c \in Calls : phase[c] = "done" /\ Answer(d, answer[c])
     \/ \E f \in Failures : Answer(d, f)
  /\ UNCHANGED <<phase, answer>>

Crash ==
  /\ \E gone \in SUBSET Calls :
       /\ {c \in Calls : phase[c] # "new"} \subseteq gone
       /\ phase' = [c \in Calls |-> IF c \in gone THEN "closed" ELSE "new"]
  /\ answer' = [c \in Calls |-> None]
  /\ UNCHANGED told

Next ==
  \/ \E c \in Calls : Run(c)
  \/ \E c \in Calls, d \in Deliveries, r \in Outcomes \ Failures : Finish(c, d, r)
  \/ \E c \in Calls, d \in Deliveries, f \in Failures : Fail(c, d, f)
  \/ \E d \in Deliveries : Tell(d)
  \/ Crash

Spec == Init /\ [][Next]_vars
=============================================================================
